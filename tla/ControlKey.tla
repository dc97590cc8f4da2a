----------------------------- MODULE ControlKey -----------------------------
(***************************************************************************)
(* The master key file control.key (scripts/control_capability.py).  Every *)
(* MCP server provisions it before it serves, hooks and tools only load    *)
(* it.  provision_control_key runs without a lock: its read, the look for  *)
(* live tasks, the removal of a damaged key and the exclusive creation are *)
(* steps of their own, and several servers may be between any two of them. *)
(* A key and the inode it was created in carry the same number, so a       *)
(* number names both; a file that is not full is the empty file left       *)
(* between open and write.                                                 *)
(***************************************************************************)
EXTENDS Naturals

CONSTANTS Server, Session, MaxKeys, None

KeyFile == [ino : 1..MaxKeys, full : BOOLEAN]

ASSUME KeyAssumption ==
    /\ MaxKeys \in Nat \ {0}
    /\ None \notin Server \cup KeyFile

VARIABLES
    keyFile,     \* None, or [ino, full] : the file control.key
    keys,        \* number of keys drawn so far
    pc,          \* per server, where its process is
    held,        \* per server, the key it was given (0: none yet)
    invalid,     \* per server, the inode of the damaged key it read
    runtime      \* sessions with a file under runtime/

keyVars == <<keyFile, keys, pc, held, invalid>>

KeyStates == {"down", "read", "checked", "unlink", "create", "write", "verify",
              "reread", "failed"}

KeyTypeOK ==
    /\ keyFile \in {None} \cup KeyFile
    /\ keys \in 0..MaxKeys
    /\ held \in [Server -> 0..MaxKeys]
    /\ invalid \in [Server -> 0..MaxKeys]
    /\ runtime \subseteq Session

KeyInit ==
    /\ keyFile = None
    /\ keys = 0
    /\ pc = [s \in Server |-> "down"]
    /\ held = [s \in Server |-> 0]
    /\ invalid = [s \in Server |-> 0]
    /\ runtime = {}

Goto(s, to) == pc' = [pc EXCEPT ![s] = to]

(* _read_key gives the key only when the file is complete.                 *)
KeyReadable == keyFile # None /\ keyFile.full

Keyed(s, k) ==
    /\ held' = [held EXCEPT ![s] = k]
    /\ invalid' = [invalid EXCEPT ![s] = 0]
    /\ Goto(s, "keyed")

\* _active_state_exists : some task's runtime file is there.
ActiveStateExists == runtime # {}

(* First read of provision_control_key: a complete key is returned, a      *)
(* missing or a short one sends the server on to look for live tasks.      *)
ReadKey(s) ==
    /\ pc[s] = "read"
    /\ IF KeyReadable
       THEN Keyed(s, keyFile.ino)
       ELSE /\ invalid' = [invalid EXCEPT ![s] = IF keyFile = None THEN 0 ELSE keyFile.ino]
            /\ Goto(s, "checked")
            /\ UNCHANGED held
    /\ UNCHANGED <<keyFile, keys, runtime>>

(* No key is made while a task may depend on an older one.                 *)
CheckActive(s) ==
    /\ pc[s] = "checked"
    /\ Goto(s, IF ActiveStateExists THEN "failed"
               ELSE IF invalid[s] # 0 THEN "unlink" ELSE "create")
    /\ UNCHANGED <<keyFile, keys, held, invalid, runtime>>

(* _unlink_unchanged: the damaged key goes if the name still has the inode *)
(* that was read; whether its content is complete by now is not looked at. *)
UnlinkUnchanged(s) ==
    /\ pc[s] = "unlink"
    /\ IF keyFile # None /\ keyFile.ino # invalid[s]
       THEN Goto(s, "failed") /\ UNCHANGED keyFile
       ELSE Goto(s, "create") /\ keyFile' = None
    /\ UNCHANGED <<keys, held, invalid, runtime>>

(* _create_key: O_EXCL makes an empty file, or finds that another server   *)
(* was first and reads that one's key once.                                *)
CreateKey(s) ==
    /\ pc[s] = "create"
    /\ IF keyFile # None
       THEN Goto(s, "reread") /\ UNCHANGED <<keyFile, keys, invalid>>
       ELSE /\ keys < MaxKeys
            /\ keys' = keys + 1
            /\ keyFile' = [ino |-> keys + 1, full |-> FALSE]
            /\ invalid' = [invalid EXCEPT ![s] = keys + 1]
            /\ Goto(s, "write")
    /\ UNCHANGED <<held, runtime>>

(* The write reaches the inode this server created, named or not.          *)
WriteKey(s) ==
    /\ pc[s] = "write"
    /\ keyFile' = IF keyFile # None /\ keyFile.ino = invalid[s]
                  THEN [keyFile EXCEPT !.full = TRUE] ELSE keyFile
    /\ Goto(s, "verify")
    /\ UNCHANGED <<keys, held, invalid, runtime>>

(* chmod and the read back go through the name: a key of another server,   *)
(* or none, is a failure, and only the server's own inode is removed.      *)
VerifyKey(s) ==
    /\ pc[s] = "verify"
    /\ IF KeyReadable /\ keyFile.ino = invalid[s]
       THEN Keyed(s, keyFile.ino)
       ELSE Goto(s, "failed") /\ UNCHANGED <<held, invalid>>
    /\ UNCHANGED <<keyFile, keys, runtime>>

RereadKey(s) ==
    /\ pc[s] = "reread"
    /\ IF KeyReadable THEN Keyed(s, keyFile.ino)
                      ELSE Goto(s, "failed") /\ UNCHANGED <<held, invalid>>
    /\ UNCHANGED <<keyFile, keys, runtime>>

ProvisionStep(s) ==
    \/ ReadKey(s) \/ CheckActive(s) \/ UnlinkUnchanged(s) \/ CreateKey(s)
    \/ WriteKey(s) \/ VerifyKey(s) \/ RereadKey(s)
=============================================================================
