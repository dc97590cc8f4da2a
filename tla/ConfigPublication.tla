-------------------------- MODULE ConfigPublication --------------------------
(***************************************************************************)
(* How the installer and the uninstaller replace config.toml               *)
(* (config_publication.py): compare the file with the snapshot, write the  *)
(* replacement to a temporary file, displace or swap the original, verify, *)
(* and roll back on failure.  The installer lock keeps other installers    *)
(* out but not Codex or the user, who write the file in place or rename    *)
(* another one over it between any two steps, and not the end of the       *)
(* process.                                                                *)
(*                                                                         *)
(* A file is an inode with a content; a content is the set of settings it  *)
(* holds.  The names of the temporary and the backup are random, so what a *)
(* call leaves under them is never reused and only its links matter.       *)
(* Owner and mode of the file are part of the comparisons in the code and  *)
(* are never changed here.                                                 *)
(***************************************************************************)
EXTENDS Naturals, Sequences, FiniteSets

CONSTANTS
  Hosts,       \* the hosts considered: "posix" moves and links, "windows" swaps
  Edits,       \* the settings other writers add, each at most once
  CMW,         \* the installer's own tables
  User,        \* the settings that were there from the beginning
  MaxCalls,    \* bound on calls of write_config_bytes
  MaxFailures, \* bound on failing system calls
  MaxCrashes   \* bound on killed processes

VARIABLES
  host,     \* the host of this behaviour
  dir,      \* the inode each name of the running call is linked to
  litter,   \* inodes linked by temporaries and backups of earlier calls
  data,     \* the content of every inode
  pc,       \* how far the running call is
  call,     \* its snapshot, its replacement, its error
  spent,    \* calls, failures and crashes so far
  raced,    \* history: settings other writers added since the snapshot
  failedAt  \* history: the step the call's first error was raised at

vars == <<host, dir, litter, data, pc, call, spent, raced, failedAt>>

NoInode == 0
NoContent == {}
Names == {"config", "temp", "backup"}
Missing == [inode |-> NoInode, content |-> NoContent]
NoCall ==
  [expected |-> Missing, replacement |-> NoContent, temp |-> NoInode,
   published |-> FALSE, error |-> "none"]

Links(i) == Cardinality({n \in Names : dir[n] = i}) + (IF i \in litter THEN 1 ELSE 0)

(* What capture_config_snapshot returns for a name ...                     *)
Capture(n) ==
  IF dir[n] = NoInode THEN Missing
  ELSE [inode |-> dir[n], content |-> data[dir[n]]]

(* ... unless it raises, because the file has another link.                *)
Unsafe(n) == dir[n] # NoInode /\ Links(dir[n]) # 1

Settings == Edits \cup {CMW, User}

Init ==
  /\ host \in Hosts
  /\ \/ dir = [n \in Names |-> IF n = "config" THEN 1 ELSE NoInode] /\ data = <<{User}>>
     \/ dir = [n \in Names |-> NoInode] /\ data = <<>>
  /\ litter = {}
  /\ pc = "idle"
  /\ call = NoCall
  /\ spent = [calls |-> 0, failures |-> 0, crashes |-> 0]
  /\ raced = {}
  /\ failedAt = "none"

Go(step) == pc' = step

(* The call raises at the current step and enters its except clause. *)
Raise(error) ==
  /\ pc' = "handling"
  /\ call' = [call EXCEPT !.error = error]
  /\ failedAt' = pc

-------------------------------------------------------------------------------
(* Other writers of config.toml: they add a setting to what they find. *)

Unwritten == {e \in Edits : \A i \in DOMAIN data : e \notin data[i]}

EditInPlace(e) ==
  /\ dir["config"] # NoInode
  /\ data' = [data EXCEPT ![dir["config"]] = @ \cup {e}]
  /\ UNCHANGED dir

(* Rename a new file over config.toml, or create it where there is none. *)
EditByRename(e) ==
  /\ data' = Append(data, Capture("config").content \cup {e})
  /\ dir' = [dir EXCEPT !["config"] = Len(data) + 1]

Edit(e) ==
  /\ e \in Unwritten
  /\ EditInPlace(e) \/ EditByRename(e)
  /\ raced' = raced \cup {e}
  /\ UNCHANGED <<host, litter, pc, call, spent, failedAt>>

-------------------------------------------------------------------------------
(* One call, from reading the snapshot on. *)

(* The caller reads the snapshot and renders the replacement from it: its  *)
(* own tables are added or removed, everything else is kept.               *)
ReadSnapshot ==
  /\ pc = "idle"
  /\ spent.calls < MaxCalls
  /\ ~Unsafe("config")
  /\ \E content \in {Capture("config").content \cup {CMW},
                     Capture("config").content \ {CMW}} :
       call' = [NoCall EXCEPT !.expected = Capture("config"), !.replacement = content]
  /\ spent' = [spent EXCEPT !.calls = @ + 1]
  /\ raced' = {}
  /\ failedAt' = "none"
  /\ Go("comparing")
  /\ UNCHANGED <<host, dir, litter, data>>

(* Nothing was changed yet: the call ends with an error or without work. *)
CompareEnds ==
  /\ pc = "comparing"
  /\ \/ Unsafe("config")
     \/ Capture("config") # call.expected
     \/ call.expected.inode # NoInode /\ call.replacement = call.expected.content
  /\ Go("idle")
  /\ call' = NoCall
  /\ UNCHANGED <<host, dir, litter, data, spent, raced, failedAt>>

(* The file is the snapshot's: write and flush the temporary. *)
Stage ==
  /\ pc = "comparing"
  /\ ~Unsafe("config")
  /\ Capture("config") = call.expected
  /\ call.expected.inode = NoInode \/ call.replacement # call.expected.content
  /\ data' = Append(data, call.replacement)
  /\ dir' = [dir EXCEPT !["temp"] = Len(data) + 1]
  /\ call' = [call EXCEPT !.temp = Len(data) + 1]
  /\ Go("staged")
  /\ UNCHANGED <<host, litter, spent, raced, failedAt>>

(* Compare once more, now that the slow part is done. *)
Recheck ==
  /\ pc = "staged"
  /\ IF Unsafe("config") \/ Capture("config") # call.expected
     THEN Raise("concurrent")
     ELSE Go(IF call.expected.inode = NoInode THEN "displaced" ELSE "replacing")
          /\ UNCHANGED <<call, failedAt>>
  /\ UNCHANGED <<host, dir, litter, data, spent, raced>>

(* POSIX: the original moves to the backup name; there is no config.toml   *)
(* until the temporary is linked.                                          *)
Displace ==
  /\ pc = "replacing"
  /\ host = "posix"
  /\ dir' = [dir EXCEPT !["backup"] = dir["config"], !["config"] = NoInode]
  /\ Go("examining")
  /\ UNCHANGED <<host, litter, data, call, spent, raced, failedAt>>

(* What was displaced is the snapshot: go on.  It is not: link it back,    *)
(* unless somebody created a config.toml meanwhile.                        *)
ExamineDisplaced ==
  /\ pc = "examining"
  /\ host = "posix"
  /\ IF ~Unsafe("backup") /\ Capture("backup") = call.expected
     THEN Go("displaced") /\ UNCHANGED <<dir, call, failedAt>>
     ELSE /\ dir' = IF dir["config"] = NoInode /\ ~Unsafe("backup")
                    THEN [dir EXCEPT !["config"] = dir["backup"]] ELSE dir
          /\ Raise("concurrent")
  /\ UNCHANGED <<host, litter, data, spent, raced>>

(* Fault: the temporary is renamed over whatever is there. *)
PublishOverwrites ==
  /\ pc = "displaced"
  /\ dir' = [dir EXCEPT !["config"] = call.temp, !["temp"] = NoInode]
  /\ call' = [call EXCEPT !.published = TRUE]
  /\ Go("published")
  /\ UNCHANGED <<host, litter, data, spent, raced, failedAt>>

(* Publish where no config.toml exists; one created meanwhile is kept.     *)
(* POSIX links the temporary, Windows renames it.                          *)
PublishNew ==
  /\ pc = "displaced"
  /\ IF dir["config"] # NoInode
     THEN Raise("concurrent") /\ UNCHANGED dir
     ELSE /\ dir' = [dir EXCEPT !["config"] = call.temp,
                                !["temp"] = IF host = "posix" THEN @ ELSE NoInode]
          /\ Go(IF host = "posix" THEN "linked" ELSE "named")
          /\ UNCHANGED <<call, failedAt>>
  /\ UNCHANGED <<host, litter, data, spent, raced>>

(* A file that displaced another one is reported as published; a new one   *)
(* is looked at first.                                                     *)
UnlinkTemporary ==
  /\ pc = "linked"
  /\ dir' = [dir EXCEPT !["temp"] = NoInode]
  /\ IF call.expected.inode = NoInode
     THEN Go("named") /\ UNCHANGED call
     ELSE Go("published") /\ call' = [call EXCEPT !.published = TRUE]
  /\ UNCHANGED <<host, litter, data, spent, raced, failedAt>>

(* The identity a new file has under its name is returned, with which it   *)
(* counts as published, and compared.                                      *)
Identify ==
  /\ pc = "named"
  /\ IF dir["config"] = call.temp
     THEN call' = [call EXCEPT !.published = TRUE] /\ Go("published") /\ UNCHANGED failedAt
     ELSE /\ call' = [call EXCEPT !.published = TRUE, !.error = "invalid"]
          /\ Go("handling") /\ failedAt' = pc
  /\ UNCHANGED <<host, dir, litter, data, spent, raced>>

(* Windows: one call swaps the temporary in and keeps what it replaced. *)
Swap ==
  /\ pc = "replacing"
  /\ host = "windows"
  /\ dir' = [config |-> call.temp, temp |-> NoInode, backup |-> dir["config"]]
  /\ Go("examining")
  /\ UNCHANGED <<host, litter, data, call, spent, raced, failedAt>>

(* The swap replaced the snapshot and is still in place; or the backup is  *)
(* renamed over whatever config.toml is now.                               *)
ExamineSwapped ==
  /\ pc = "examining"
  /\ host = "windows"
  /\ IF dir["config"] = call.temp /\ Capture("backup") = call.expected
     THEN /\ call' = [call EXCEPT !.published = TRUE]
          /\ Go("published")
          /\ UNCHANGED <<dir, failedAt>>
     ELSE /\ dir' = [dir EXCEPT !["config"] = dir["backup"], !["backup"] = NoInode]
          /\ Raise("concurrent")
  /\ UNCHANGED <<host, litter, data, spent, raced>>

(* Flush, read back, and accept nothing but the replacement. *)
Verify ==
  /\ pc = "published"
  /\ IF ~Unsafe("config")
        /\ Capture("config") = [inode |-> call.temp, content |-> call.replacement]
     THEN Go("ending") /\ UNCHANGED <<call, failedAt>>
     ELSE Raise("invalid")
  /\ UNCHANGED <<host, dir, litter, data, spent, raced>>

-------------------------------------------------------------------------------
(* The except clause. *)

(* Fault: only a publication that was reported is rolled back. *)
NeedsRestorePublished == call.published

NeedsRestore == call.published \/ dir["backup"] # NoInode

(* Restoring is given up when config.toml is not what the call published.  *)
RestoreDecides ==
  /\ pc = "handling"
  /\ Go(IF /\ NeedsRestore
           /\ ~Unsafe("config")
           /\ Capture("config") = [inode |-> call.temp, content |-> call.replacement]
           /\ \/ call.expected.inode = NoInode
              \/ dir["backup"] = call.expected.inode
        THEN "restoring" ELSE "ending")
  /\ UNCHANGED <<host, dir, litter, data, call, spent, raced, failedAt>>

(* A new file is removed if it is still the published one; an old one      *)
(* comes back from the backup.                                             *)
Restore ==
  /\ pc = "restoring"
  /\ dir' = IF call.expected.inode # NoInode
            THEN [dir EXCEPT !["config"] = dir["backup"], !["backup"] = NoInode]
            ELSE [dir EXCEPT !["config"] = IF @ = call.temp THEN NoInode ELSE @]
  /\ Go("ending")
  /\ UNCHANGED <<host, litter, data, call, spent, raced, failedAt>>

(* The finally clause removes the temporary and the backup if they are     *)
(* still the call's own; what stays under a random name stays for good.    *)
Finish ==
  /\ pc = "ending"
  /\ litter' = litter \cup
       {dir[n] : n \in {m \in {"temp", "backup"} :
                          dir[m] \notin {NoInode, call.temp, call.expected.inode}}}
  /\ dir' = [n \in Names |-> IF n = "config" THEN dir[n] ELSE NoInode]
  /\ Go("idle")
  /\ UNCHANGED <<host, data, call, spent, raced, failedAt>>

-------------------------------------------------------------------------------
(* Failing system calls and the end of the process. *)

Steps == {"staged", "replacing", "examining", "displaced", "linked", "named", "published"}

(* Any system call of the try block raises, before it had an effect. *)
CallFails ==
  /\ pc \in Steps
  /\ spent.failures < MaxFailures
  /\ spent' = [spent EXCEPT !.failures = @ + 1]
  /\ Raise("io")
  /\ UNCHANGED <<host, dir, litter, data, raced>>

(* Restoring the backup fails as well. *)
RestoreFails ==
  /\ pc = "restoring"
  /\ spent.failures < MaxFailures
  /\ spent' = [spent EXCEPT !.failures = @ + 1]
  /\ failedAt' = "restoring"
  /\ Go("ending")
  /\ UNCHANGED <<host, dir, litter, data, call, raced>>

Crash ==
  /\ pc # "idle"
  /\ spent.crashes < MaxCrashes
  /\ spent' = [spent EXCEPT !.crashes = @ + 1]
  /\ litter' = litter \cup ({dir["temp"], dir["backup"]} \ {NoInode})
  /\ dir' = [n \in Names |-> IF n = "config" THEN dir[n] ELSE NoInode]
  /\ call' = NoCall
  /\ Go("idle")
  /\ UNCHANGED <<host, data, raced, failedAt>>

Next ==
  \/ \E e \in Edits : Edit(e)
  \/ ReadSnapshot \/ CompareEnds \/ Stage \/ Recheck
  \/ Displace \/ ExamineDisplaced \/ PublishNew \/ UnlinkTemporary \/ Identify
  \/ Swap \/ ExamineSwapped \/ Verify
  \/ RestoreDecides \/ Restore \/ Finish
  \/ CallFails \/ RestoreFails \/ Crash

Spec == Init /\ [][Next]_vars

-------------------------------------------------------------------------------
Contents == SUBSET Settings
Snapshots == [inode : Nat, content : Contents]

(* The types of the variables; no two names of the call share an inode     *)
(* except while a file is moved by linking (config_publication.py:165-183).*)
TypeOK ==
  /\ host \in Hosts
  /\ dir \in [Names -> {NoInode} \cup DOMAIN data]
  /\ litter \subseteq DOMAIN data
  /\ data \in Seq(Contents)
  /\ pc \in Steps \cup {"idle", "comparing", "handling", "restoring", "ending"}
  /\ call \in [expected : Snapshots, replacement : Contents, temp : Nat,
               published : BOOLEAN, error : {"none", "concurrent", "invalid", "io"}]
  /\ raced \subseteq Edits
  /\ dir["backup"] # NoInode /\ dir["backup"] = dir["config"]
       => host = "posix" /\ call.error = "concurrent"
  /\ dir["temp"] # NoInode /\ dir["temp"] = dir["config"]
       => pc = "linked" \/ failedAt = "linked"

(* A call of write_config_bytes that returns normally replaced exactly the *)
(* snapshot its replacement was rendered from: nobody else wrote           *)
(* config.toml between that read and the last verification, wherever the   *)
(* write fell (the two compares, the examination of what was displaced, the*)
(* exclusive link, config_publication.py:165-236).                         *)
SuccessMeansUncontested ==
  [][pc = "published" /\ pc' = "ending" => raced = {} /\ Capture("config").content = call.replacement]_vars

(* The original is away from its name and the steps that follow cannot     *)
(* bring it back: _restore wants the published file under that name.  A    *)
(* new file of which the identity could not be read was never reported as  *)
(* published and has no backup: _restore is not called.                    *)
CannotRollBack ==
  \/ host = "posix" /\ failedAt \in {"examining", "displaced", "linked"}
  \/ failedAt \in {"named", "restoring"}

FailedUncontested == pc = "idle" /\ call.error # "none" /\ raced = {}

(* A call that failed while nobody else wrote leaves config.toml as its    *)
(* snapshot has it, the very same file, from every step but these: on      *)
(* POSIX those between the displacement of the original and the removal of *)
(* the temporary link, on either host the look at a new file that has just *)
(* got its name (config_publication.py:143, before :266), and a restoration*)
(* that fails itself.                                                      *)
RolledBackUnlessDisplaced ==
  FailedUncontested /\ ~CannotRollBack => Capture("config") = call.expected

Kept == ({dir[n] : n \in Names} \cup litter) \ {NoInode}
Held == (UNION {data[i] : i \in Kept}) \ {CMW}

(* Without a failing system call and without another writer the settings   *)
(* that are not the installer's stay in some file of the Codex home at     *)
(* every moment, so also when the process dies there, and the original     *)
(* itself keeps a name until the replacement was verified: it is moved or  *)
(* swapped, never deleted first (config_publication.py:165-183, 276-279).  *)
SettingsNeverInMemoryOnly ==
  [][raced = {} /\ raced' = {} /\ failedAt = "none"
       => /\ Held \subseteq Held'
          /\ pc # "ending" => Kept \ {call.temp} \subseteq Kept']_vars

(* A setting that another writer adds to config.toml during a call is not  *)
(* lost by that call on POSIX, unless a system call fails or there is a    *)
(* second such write: a raced destination is preserved                     *)
(* (config_publication.py:127, 174-181), even when the call itself gives   *)
(* up, and even when the other writer's file ends up under two names.      *)
RacedDestinationPreserved ==
  [][host = "posix" /\ spent.failures = 0 /\ Cardinality(raced) = 1
       => raced \cap Held \subseteq Held']_vars

(* No setting of anyone's is lost by a publication: none while nobody else *)
(* writes, none that one other writer adds on POSIX, and a call that       *)
(* succeeded replaced what it had read (write_config_bytes).               *)
SettingsSurvive ==
  []TypeOK /\ SuccessMeansUncontested /\ SettingsNeverInMemoryOnly /\ RacedDestinationPreserved
===============================================================================
