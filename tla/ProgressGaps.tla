---------------------------- MODULE ProgressGaps ----------------------------
(***************************************************************************)
(* What a threshold recommendation is computed from: the pauses between    *)
(* signs of progress in a rollout, leaving out the time tools ran          *)
(* (scripts/calibration_scan.py), and the recommendation made of them      *)
(* (scripts/calibration.py).  The rollout itself is written by Codex: a    *)
(* turn at a time, with tools that overlap; a tool such as one of an MCP     *)
(* server tells its end by an event before its output is written.          *)
(***************************************************************************)
EXTENDS Naturals, Sequences, FiniteSets

LOCAL INSTANCE SequencesExt
LOCAL INSTANCE Functions

CONSTANTS
    Call,       \* tool calls
    Reported,   \* those whose end is told by an event too
    Overlap,    \* whether those run beside other calls
    Item,       \* payloads of the items Codex writes
    NoTime,     \* no progress yet
    MinSamples, \* MIN_SAMPLE_COUNT
    Pause,      \* seconds that may pass between two records
    MaxRecords  \* bound on the records of the rollout

----------------------------------------------------------------------------
(* What is observed of one record of a rollout (scripts/event_source.py):  *)
(* a kind from a fixed list, whether a tool starts or ends, and whether    *)
(* the end is told by an event beside the tool's own output.               *)
(*                                                                         *)
(* A record is [type, stamped, at, payload]; stamped says whether its      *)
(* timestamp can be read, and a payload that is not an object is NoPayload.*)
(* A payload is [type, spoken, completed]: spoken, that the role is the    *)
(* assistant's and the phase a commentary or the final answer.             *)

NoPayload == [type |-> "none", spoken |-> FALSE, completed |-> FALSE]
NoEvent == [kind |-> "none"]
NoKind == "none"

ItemProgress == {"reasoning", "agent_message"}
ToolCalls == {"function_call", "custom_tool_call", "tool_search_call"}
ToolOutputs == {"function_call_output", "custom_tool_call_output", "tool_search_output"}
HostedTools == {"web_search_call", "image_generation_call"}
Deltas == {"agent_message_delta", "agent_reasoning_delta", "reasoning_delta",
           "sub_agent_activity"}
OtherProgress == {"context_compacted", "thread_rolled_back"}
FallbackToolEnds == {"mcp_tool_call_end", "patch_apply_end", "web_search_end",
                     "image_generation_end"}

ResponseItemKind(payload) ==
    CASE payload.type \in ItemProgress -> "item"
      [] payload.type = "message" /\ payload.spoken -> "item"
      [] payload.type \in ToolCalls -> "tool_started"
      [] payload.type \in ToolOutputs -> "tool_result"
      [] payload.type \in HostedTools ->
            IF payload.completed THEN "tool_result" ELSE "tool_started"
      [] OTHER -> NoKind

EventMessageKind(payload) ==
    CASE payload.type = "task_started" -> "turn_started"
      [] payload.type = "task_complete" -> "turn_completed"
      [] payload.type = "turn_aborted" -> "turn_aborted"
      [] payload.type \in Deltas -> "delta"
      [] payload.type \in OtherProgress -> "item"
      [] payload.type \in FallbackToolEnds -> "tool_result"
      [] OTHER -> NoKind

PauseFor(kind) ==
    CASE kind = "tool_started" -> "start"
      [] kind = "tool_result" -> "end"
      [] OTHER -> "none"

Observed(kind, raw) ==
    IF kind = NoKind THEN NoEvent
    ELSE [kind |-> kind, at |-> raw.at, pause |-> PauseFor(kind),
          terminal |-> kind \in {"turn_completed", "turn_aborted"},
          fallback |-> raw.type = "event_msg" /\ raw.payload.type \in FallbackToolEnds]

ParseRolloutEvent(raw) ==
    IF raw.payload = NoPayload \/ ~raw.stamped THEN NoEvent
    ELSE CASE raw.type = "session_meta" -> Observed("session_metadata", raw)
           [] raw.type = "response_item" -> Observed(ResponseItemKind(raw.payload), raw)
           [] raw.type = "event_msg" -> Observed(EventMessageKind(raw.payload), raw)
           [] OTHER -> NoEvent

----------------------------------------------------------------------------
(* _GapTracker: its fields, and observe, event by event.                   *)

NewTracker == [active |-> FALSE, open_tools |-> 0, last_progress |-> NoTime, gaps |-> <<>>]

\* _append_gap
AppendGap(gaps, previous, at) ==
    IF previous = NoTime \/ at <= previous THEN gaps ELSE Append(gaps, at - previous)

RecordProgress(t, at) ==
    IF ~t.active \/ t.open_tools # 0 THEN t
    ELSE [t EXCEPT !.gaps = AppendGap(t.gaps, t.last_progress, at), !.last_progress = at]

StartTool(t, at) ==
    IF ~t.active THEN t
    ELSE [t EXCEPT !.gaps = IF t.open_tools = 0 THEN AppendGap(t.gaps, t.last_progress, at)
                            ELSE t.gaps,
                   !.open_tools = t.open_tools + 1, !.last_progress = NoTime]

\* Fault: the result of one tool ends the wait for all of them.
FinishEveryTool(t, at) ==
    IF ~t.active \/ t.open_tools = 0 THEN RecordProgress(t, at)
    ELSE [t EXCEPT !.open_tools = 0, !.last_progress = at]

FinishTool(t, at) ==
    IF ~t.active \/ t.open_tools = 0 THEN RecordProgress(t, at)
    ELSE [t EXCEPT !.open_tools = t.open_tools - 1,
                   !.last_progress = IF t.open_tools = 1 THEN at ELSE t.last_progress]

Observe(t, raw) ==
    LET e == ParseRolloutEvent(raw) IN
    CASE e.kind = "turn_started" ->
            [t EXCEPT !.active = TRUE, !.open_tools = 0, !.last_progress = e.at]
      [] e.kind \in {"turn_completed", "turn_aborted"} ->
            [t EXCEPT !.active = FALSE, !.open_tools = 0, !.last_progress = NoTime]
      [] e.kind = "tool_started" -> StartTool(t, e.at)
      [] e.kind = "tool_result" -> FinishTool(t, e.at)
      [] e.kind \in {"item", "delta"} -> RecordProgress(t, e.at)
      [] OTHER -> t

\* _progress_gaps of the records that _tail_records leaves: the last ones.
Gaps(records) == FoldLeft(Observe, NewTracker, records).gaps

----------------------------------------------------------------------------
(* recommend_thresholds.                                                   *)

\* The share of the n values at or below the percentile, rounded up.
RankIndex(n, percentile) == (percentile * n + 99) \div 100

\* _nearest_rank: the value at that place of the sorted list.
NearestRank(values, percentile) ==
    CHOOSE v \in Range(values) :
        /\ Cardinality({i \in DOMAIN values : values[i] <= v})
              >= RankIndex(Len(values), percentile)
        /\ Cardinality({i \in DOMAIN values : values[i] < v})
              < RankIndex(Len(values), percentile)

\* _rounded_minute: whole minutes, at least one.
RoundedMinute(seconds) ==
    IF seconds <= 60 THEN 60 ELSE 60 * ((seconds + 59) \div 60)

Larger(a, b) == IF a >= b THEN a ELSE b

WarningOf(gaps) == RoundedMinute(NearestRank(gaps, 95))
RestartOf(gaps) == RoundedMinute(Larger(NearestRank(gaps, 99), WarningOf(gaps) * 2))

Recommend(gaps) ==
    IF Len(gaps) < MinSamples THEN [outcome |-> "insufficient"]
    ELSE IF \E i \in DOMAIN gaps : gaps[i] <= 0 THEN [outcome |-> "unavailable"]
    ELSE [outcome |-> "recommended", warning |-> WarningOf(gaps), restart |-> RestartOf(gaps)]

----------------------------------------------------------------------------
(* The rollout, as Codex writes it.                                        *)

VARIABLES
    records, \* the records
    quiet,   \* before each record, the time of a turn in which no tool ran
    turn,    \* whether a turn is running
    open,    \* the calls that run
    ended    \* the calls whose end was told and whose output is to come

vars == <<records, quiet, turn, open, ended>>

TypeOK ==
    /\ records \in Seq([type : {"response_item", "event_msg"}, stamped : BOOLEAN, at : Nat,
                        payload : [type : STRING, spoken : BOOLEAN, completed : BOOLEAN]])
    /\ quiet \in [DOMAIN records -> Nat]
    /\ turn \in BOOLEAN /\ open \subseteq Call /\ ended \subseteq Reported \ open

Init == records = <<>> /\ quiet = <<>> /\ turn = FALSE /\ open = {} /\ ended = {}

Clock == IF records = <<>> THEN 0 ELSE records[Len(records)].at

Plain(type) == [type |-> type, spoken |-> FALSE, completed |-> FALSE]

Write(type, payload, pause) ==
    /\ Len(records) < MaxRecords
    /\ records' = Append(records, [type |-> type, stamped |-> TRUE, at |-> Clock + pause,
                                   payload |-> payload])
    /\ quiet' = Append(quiet, IF turn /\ open = {} THEN pause ELSE 0)

TurnStarts(pause) ==
    /\ ~turn /\ turn' = TRUE /\ UNCHANGED <<open, ended>>
    /\ Write("event_msg", Plain("task_started"), pause)

TurnEnds(pause) ==
    /\ turn /\ turn' = FALSE /\ open' = {} /\ ended' = {}
    /\ \E type \in {"task_complete", "turn_aborted"} : Write("event_msg", Plain(type), pause)

ToolStarts(c, pause) ==
    /\ turn /\ c \notin open \cup ended
    /\ Overlap \/ open \cup ended = {} \/ (open \cup ended \cup {c}) \cap Reported = {}
    /\ open' = open \cup {c} /\ UNCHANGED <<turn, ended>>
    /\ Write("response_item", Plain("function_call"), pause)

ToolEndIsTold(c, pause) ==
    /\ c \in open \cap Reported
    /\ open' = open \ {c} /\ ended' = ended \cup {c} /\ UNCHANGED turn
    /\ Write("event_msg", Plain("mcp_tool_call_end"), pause)

ToolAnswers(c, pause) ==
    /\ c \in (open \ Reported) \cup ended
    /\ open' = open \ {c} /\ ended' = ended \ {c} /\ UNCHANGED turn
    /\ Write("response_item", Plain("function_call_output"), pause)

\* A prompt of the user is a message too, and no progress.
ItemIsWritten(pause) ==
    /\ \E payload \in Item : Write("response_item", payload, pause)
    /\ UNCHANGED <<turn, open, ended>>

Next ==
    \E pause \in Pause :
        \/ TurnStarts(pause) \/ TurnEnds(pause) \/ ItemIsWritten(pause)
        \/ \E c \in Call : ToolStarts(c, pause) \/ ToolEndIsTold(c, pause)
                            \/ ToolAnswers(c, pause)

Spec == Init /\ [][Next]_vars

----------------------------------------------------------------------------
Sum(numbers) == FoldLeft(+, 0, numbers)

\* A pause is over when progress shows: the time before a user's prompt is part
\* of the pause that ends after it, and the time that ends a turn is in none.
QuietIn(first) ==
    LET event == [i \in DOMAIN records |-> ParseRolloutEvent(records[i])]
        Counts(i) == \E j \in i..Len(records) :
            /\ event[j] # NoEvent /\ ~event[j].terminal
            /\ \A k \in i..(j - 1) : event[k] = NoEvent
    IN Sum([i \in 1..(Len(records) - first) |->
               IF Counts(first + i) THEN quiet[first + i] ELSE 0])

\* The pauses counted are the time in which a turn ran and no tool of it did,
\* all of that time when the whole rollout is read, and never more when the
\* scan starts in the middle of it (scan_history reads the end of a file).
GapsAreQuietTime ==
    /\ records # <<>> => Sum(Gaps(records)) = QuietIn(1)
    /\ \A first \in DOMAIN records :
          Sum(Gaps(SubSeq(records, first, Len(records)))) <= QuietIn(first)

\* A recommendation can always be applied: its warning comes first, and both
\* are whole minutes (validate_thresholds refuses any other order).
RecommendationIsOrdered ==
    LET r == Recommend(Gaps(records)) IN
    r.outcome = "recommended" => 60 <= r.warning /\ r.warning < r.restart

(* The recommendation is computed from the quiet time of the turns and can *)
(* be applied (scan_history, recommend_thresholds).                        *)
RecommendationIsSound == TypeOK /\ GapsAreQuietTime /\ RecommendationIsOrdered
=============================================================================
