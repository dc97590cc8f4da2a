---------------------------- MODULE Notifications ----------------------------
(***************************************************************************)
(* The optional Discord notifications of one installation: the temporary   *)
(* setup page of an MCP server (scripts/notification_setup.py,             *)
(* notification_setup_http.py), the private webhook it stores              *)
(* (notification_config.py), the suggestion made once                      *)
(* (notification_onboarding.py) and the messages sent to the stored        *)
(* webhook (discord_notifications.py, discord_webhook.py).  A page is a    *)
(* thread of its own beside the server's main thread; sessions and         *)
(* watchers are processes of their own.                                    *)
(***************************************************************************)
EXTENDS Naturals, FiniteSets

CONSTANTS
    Page,       \* setup pages, over all runs of the MCP server
    Webhook,    \* webhook addresses that parse
    Session,    \* sessions whose start claims the suggestion
    Watcher,    \* processes that deliver lifecycle messages
    Nothing,    \* no page, no webhook, no session
    Unreadable, \* a notifications.json that cannot be read
    Inherited,  \* CMW_DISCORD_WEBHOOK_URL: a webhook, or Nothing
    Lifetime,   \* _TTL_SECONDS
    MaxNow      \* bound on the clock

VARIABLES
    now,        \* the monotonic clock
    current,    \* the page the coordinator owns
    phase,      \* per page, where its thread is
    stop,       \* per page, whether its stop event is set
    deadline,   \* per page, when it expires
    submitted,  \* per page, the webhook of the request it handles
    configured, \* notifications.json
    accepted,   \* webhooks that answered a page's test message
    claim,      \* per session, where its claim of the suggestion is
    offered,    \* whether notification-onboarding.json exists
    lock,       \* the session that holds that file's lock
    delivery,   \* per watcher, the webhook of the message it is sending
    used        \* webhooks that got a lifecycle message

page == <<current, phase, stop, deadline, submitted>>
onboarding == <<claim, offered, lock>>
sending == <<delivery, used>>
vars == <<now, page, configured, accepted, onboarding, sending>>

Phases == {"unused", "deciding", "waiting", "reading", "testing", "saving",
           "answering", "connected", "leaving", "ended"}

TypeOK ==
    /\ now \in 0..MaxNow
    /\ current \in Page \cup {Nothing}
    /\ phase \in [Page -> Phases] /\ stop \in [Page -> BOOLEAN]
    /\ deadline \in [Page -> Nat]
    /\ submitted \in [Page -> Webhook \cup {Nothing}]
    /\ configured \in Webhook \cup {Nothing, Unreadable}
    /\ accepted \subseteq Webhook
    /\ claim \in [Session -> {"none", "checked", "locked", "writing", "offer",
                              "over"}]
    /\ offered \in BOOLEAN /\ lock \in Session \cup {Nothing}
    /\ delivery \in [Watcher -> Webhook \cup {Nothing}]
    /\ used \subseteq Webhook

Init ==
    /\ now = 0 /\ current = Nothing
    /\ phase = [p \in Page |-> "unused"]
    /\ stop = [p \in Page |-> FALSE]
    /\ deadline = [p \in Page |-> 0]
    /\ submitted = [p \in Page |-> Nothing]
    /\ configured = Nothing /\ accepted = {}
    /\ claim = [s \in Session |-> "none"] /\ offered = FALSE /\ lock = Nothing
    /\ delivery = [w \in Watcher |-> Nothing] /\ used = {}

Expired(p) == now >= deadline[p]
Alive(p) == phase[p] \notin {"unused", "ended"}

Tick ==
    /\ now < MaxNow /\ now' = now + 1
    /\ UNCHANGED <<page, configured, accepted, onboarding, sending>>

----------------------------------------------------------------------------
(* The coordinator: calls of the MCP server's main thread, under its lock. *)

IsActive == current # Nothing /\ ~Expired(current)

\* start makes a page unless there is an active one, which it returns.
Start(p) ==
    /\ phase[p] = "unused" /\ ~IsActive
    /\ current' = p
    /\ phase' = [phase EXCEPT ![p] = "deciding"]
    /\ deadline' = [deadline EXCEPT ![p] = now + Lifetime]
    /\ UNCHANGED <<now, stop, submitted, configured, accepted, onboarding, sending>>

Close ==
    /\ current # Nothing
    /\ stop' = [stop EXCEPT ![current] = TRUE]
    /\ UNCHANGED <<now, current, phase, deadline, submitted, configured, accepted,
                   onboarding, sending>>

\* The server's process ends, after its close or killed, with the daemon
\* threads in it; the next server starts without a page.
Exit ==
    /\ \E p \in Page : Alive(p)
    /\ current' = Nothing
    /\ phase' = [p \in Page |-> IF Alive(p) THEN "ended" ELSE phase[p]]
    /\ submitted' = [p \in Page |-> Nothing]
    /\ UNCHANGED <<now, stop, deadline, configured, accepted,
                   onboarding, sending>>

----------------------------------------------------------------------------
(* The page's thread: one request at a time.                               *)

\* The thread's step; what was submitted lives as long as its request.
Move(p, from, to) ==
    /\ phase[p] = from /\ phase' = [phase EXCEPT ![p] = to]
    /\ submitted' = IF to \in {"testing", "saving"} THEN submitted
                    ELSE [submitted EXCEPT ![p] = Nothing]
Others(p) == UNCHANGED <<now, current, deadline, onboarding, sending>>

\* Fault: the loop tests only the stop event.
DecideWithoutDeadline(p) ==
    /\ Move(p, "deciding", IF stop[p] THEN "leaving" ELSE "waiting")
    /\ Others(p) /\ UNCHANGED <<stop, configured, accepted>>

\* The test of _serve's loop; handle_request then waits for a client.
Decide(p) ==
    /\ Move(p, "deciding", IF stop[p] \/ Expired(p) THEN "leaving" ELSE "waiting")
    /\ Others(p) /\ UNCHANGED <<stop, configured, accepted>>

NobodyConnects(p) ==
    /\ Move(p, "waiting", "deciding")
    /\ Others(p) /\ UNCHANGED <<stop, configured, accepted>>

\* A client connects.  Nothing bounds how long it takes to send its request.
Connect(p) ==
    /\ Move(p, "waiting", "reading")
    /\ Others(p) /\ UNCHANGED <<stop, configured, accepted>>

\* A GET, or a POST that is not local, has another origin, a malformed form
\* or the wrong token, or names no webhook: an answer, and nothing else.
Refuse(p) ==
    /\ Move(p, "reading", "deciding")
    /\ Others(p) /\ UNCHANGED <<stop, configured, accepted>>

Submit(p, w) ==
    /\ phase[p] = "reading" /\ phase' = [phase EXCEPT ![p] = "testing"]
    /\ submitted' = [submitted EXCEPT ![p] = w]
    /\ Others(p) /\ UNCHANGED <<stop, configured, accepted>>

\* DiscordWebhookClient.send: only a bounded, well-formed 200 is an answer.
Test(p) ==
    /\ \/ Move(p, "testing", "saving") /\ accepted' = accepted \cup {submitted[p]}
       \/ Move(p, "testing", "deciding") /\ UNCHANGED accepted
    /\ Others(p) /\ UNCHANGED <<stop, configured>>

Save(p) ==
    /\ \/ Move(p, "saving", "answering") /\ configured' = submitted[p]
       \/ Move(p, "saving", "deciding") /\ UNCHANGED configured
    /\ Others(p) /\ UNCHANGED <<stop, accepted>>

\* The answer "connected" and then complete(), unless the client is gone.
Answer(p) ==
    /\ \/ Move(p, "answering", "connected") /\ stop' = [stop EXCEPT ![p] = TRUE]
       \/ Move(p, "answering", "deciding") /\ UNCHANGED stop
    /\ Others(p) /\ UNCHANGED <<configured, accepted>>

Answered(p) ==
    /\ Move(p, "connected", "deciding")
    /\ Others(p) /\ UNCHANGED <<stop, configured, accepted>>

\* Fault: the thread forgets whatever page the coordinator owns.
LeaveAnyPage(p) ==
    /\ Move(p, "leaving", "ended")
    /\ current' = Nothing
    /\ UNCHANGED <<now, stop, deadline, configured, accepted, onboarding, sending>>

\* The listener is closed and, if the coordinator still owns it, forgotten.
Leave(p) ==
    /\ Move(p, "leaving", "ended")
    /\ current' = IF current = p THEN Nothing ELSE current
    /\ UNCHANGED <<now, stop, deadline, configured, accepted, onboarding, sending>>

Serve(p) == Decide(p) \/ NobodyConnects(p) \/ Test(p) \/ Save(p) \/ Answer(p)
            \/ Answered(p) \/ Leave(p)

----------------------------------------------------------------------------
(* claim_notification_onboarding, by each session that starts.  "over" is   *)
(* every end but the offer: configured, available, or an error.             *)

Claim(s, from, to) == claim[s] = from /\ claim' = [claim EXCEPT ![s] = to]

CheckConfigured(s) ==
    /\ Claim(s, "none", IF configured = Nothing THEN "checked" ELSE "over")
    /\ UNCHANGED <<now, page, configured, accepted, offered, lock, sending>>

\* Fault: the file is looked for without its lock.
LookWithoutLock(s) ==
    /\ Claim(s, "checked", "locked") /\ lock' = s
    /\ UNCHANGED <<now, page, configured, accepted, offered, sending>>

LockOffer(s) ==
    /\ Claim(s, "checked", "locked") /\ lock = Nothing /\ lock' = s
    /\ UNCHANGED <<now, page, configured, accepted, offered, sending>>

\* Under the lock, the file is looked for and, if it is not there, written.
LookForOffer(s) ==
    /\ Claim(s, "locked", IF offered THEN "over" ELSE "writing")
    /\ lock' = IF offered THEN Nothing ELSE lock
    /\ UNCHANGED <<now, page, configured, accepted, offered, sending>>

WriteOffer(s) ==
    /\ Claim(s, "writing", "offer") /\ offered' = TRUE /\ lock' = Nothing
    /\ UNCHANGED <<now, page, configured, accepted, sending>>

\* The hook is killed; the lock is the system's to release.
KillClaim(s) ==
    /\ claim[s] \in {"checked", "locked", "writing"}
    /\ claim' = [claim EXCEPT ![s] = "over"]
    /\ lock' = IF lock = s THEN Nothing ELSE lock
    /\ offered' \in (IF claim[s] = "writing" THEN BOOLEAN ELSE {offered})
    /\ UNCHANGED <<now, page, configured, accepted, sending>>

----------------------------------------------------------------------------
(* ConfiguredDiscordNotificationSink.notify, by each watcher.              *)

\* The variable, else the file as it is now; without either, no message.
Target == IF Inherited # Nothing THEN Inherited
          ELSE IF configured \in Webhook THEN configured ELSE Nothing

Notify(w) ==
    /\ delivery[w] = Nothing /\ Target # Nothing
    /\ delivery' = [delivery EXCEPT ![w] = Target]
    /\ UNCHANGED <<now, page, configured, accepted, onboarding, used>>

Deliver(w) ==
    /\ delivery[w] # Nothing
    /\ delivery' = [delivery EXCEPT ![w] = Nothing]
    /\ used' \in {used, used \cup {delivery[w]}}
    /\ UNCHANGED <<now, page, configured, accepted, onboarding>>

\* The file is damaged, or its owner removes it.
Spoil ==
    /\ configured' \in {Unreadable, Nothing} \ {configured}
    /\ UNCHANGED <<now, page, accepted, onboarding, sending>>

Next ==
    \/ Tick \/ Close \/ Exit \/ Spoil
    \/ \E p \in Page : Start(p) \/ Connect(p) \/ Refuse(p) \/ Serve(p)
    \/ \E p \in Page, w \in Webhook : Submit(p, w)
    \/ \E s \in Session : CheckConfigured(s) \/ LockOffer(s) \/ LookForOffer(s)
                          \/ WriteOffer(s) \/ KillClaim(s)
    \/ \E w \in Watcher : Notify(w) \/ Deliver(w)

\* A page's thread keeps running while its process does; clients and time
\* owe nothing.
Fairness == \A p \in Page : WF_vars(Serve(p))

Spec == Init /\ [][Next]_vars /\ Fairness

----------------------------------------------------------------------------
\* Every page that still takes requests is the one close() can reach: the
\* late end of an older page's thread does not make the coordinator forget a
\* newer page (_serve's "self._server is server").
PageIsOwned ==
    \A p \in Page : Alive(p) /\ ~stop[p] /\ ~Expired(p) => current = p

\* Lifecycle messages go only to a webhook that answered a page's test or
\* that the environment names, however pages, failed tests, failed saves and
\* deliveries interleave (do_POST tests before it saves).
OnlyTestedIsUsed == used \subseteq accepted \cup {Inherited}

\* The suggestion is made at most once, whichever sessions start together
\* and whichever hooks are killed (claim_notification_onboarding).
OfferedOnce == Cardinality({s \in Session : claim[s] = "offer"}) <= 1

\* A page that answered "connected" stores nothing more: complete() stops it
\* before it takes another request.
ConnectedIsFinal ==
    [][\A p \in Page : stop[p] /\ phase[p] \in {"connected", "deciding"}
            => phase'[p] \in {"connected", "deciding", "leaving", "ended"}]_vars

\* A page past its lifetime ends, unless a client that connected never
\* finishes its request (_serve; the handler has no timeout).
ExpiredPageEnds ==
    \A p \in Page : (Alive(p) /\ Expired(p)) ~> (phase[p] \in {"ended", "reading"})

(* A page in use is owned, and only webhooks that answered a page's test   *)
(* are used (NotificationSetupCoordinator, do_POST).                       *)
PagesAreOwned == TypeOK /\ PageIsOwned /\ OnlyTestedIsUsed
=============================================================================
