-------------------------------- MODULE HostKeys --------------------------------
(***************************************************************************)
(* The host keys of the web terminal under --policy=autoadd (webssh's      *)
(* policy.py): the keys in memory, which all connecting threads share, the *)
(* known_hosts file behind them, and the lock of AutoAddPolicy.            *)
(*                                                                         *)
(* A thread of IndexHandler.executor connects.  paramiko looks the host up *)
(* before it talks to the server, compares the server's key with what it   *)
(* found, and calls the policy if it had found nothing.  The process can   *)
(* be killed at any time and is started again by supervisord.  Hosts that  *)
(* the system's own file knows never reach the policy and are left out.    *)
(***************************************************************************)
EXTENDS Naturals

CONSTANTS
    Connection, \* calls of ssh_connect
    Host,       \* the names that servers are looked up by
    Key,        \* host keys
    HostOf,     \* the host a connection is for
    TypeOf,     \* the type of a key: key.get_name()
    MaxStarts,  \* bound on the number of times the process is started again
    None        \* no key, no holder

ASSUME HostAssumption == HostOf \in [Connection -> Host]
ASSUME NoneAssumption == None \notin Connection /\ None \notin Key
ASSUME BoundAssumption == MaxStarts \in Nat

VARIABLES
    pc,         \* where the thread of a connection is
    snapshot,   \* the keys of its host that connect looked up
    offered,    \* the key that its server presented
    lock,       \* the connection that holds AutoAddPolicy.lock
    memory,     \* client._host_keys: pairs of a host and a key
    file,       \* the lines of the file that hold a key
    torn,       \* its last line is unfinished
    spoilt,     \* the keys whose lines continue an unfinished one: a start
                \* does not find them
    server,     \* the phase of the process
    starts      \* how often it was started again

thread  == <<pc, snapshot, offered, lock>>
disk    == <<file, torn, spoilt>>
process == <<server, starts>>
vars    == <<thread, memory, disk, process>>

Locked  == {"check", "append", "write"}
Running == {"connect", "acquire"} \cup Locked
Ended   == {"accepted", "refused", "failed", "dead"}

\* Every variable has its type.
TypeOK ==
    /\ pc \in [Connection -> {"idle"} \cup Running \cup Ended]
    /\ snapshot \in [Connection -> SUBSET Key]
    /\ offered \in [Connection -> Key \cup {None}]
    /\ lock \in Connection \cup {None}
    /\ memory \subseteq Host \X Key
    /\ file \subseteq Host \X Key
    /\ torn \in BOOLEAN
    /\ spoilt \subseteq Host \X Key
    /\ server \in {"load", "truncate", "save", "up"}
    /\ starts \in Nat

Init ==
    /\ pc = [c \in Connection |-> "idle"]
    /\ snapshot = [c \in Connection |-> {}]
    /\ offered = [c \in Connection |-> None]
    /\ lock = None
    /\ memory = {}
    /\ file = {}
    /\ torn = FALSE
    /\ spoilt = {}
    /\ server = "load"
    /\ starts = 0

-----------------------------------------------------------------------------
(* The start of the process: load_host_keys, then check_policy_setting saves *)
(* what was loaded, which empties the file and writes it again.              *)

Load ==
    /\ server = "load"
    /\ memory' = file
    /\ server' = "truncate"
    /\ UNCHANGED <<thread, disk, starts>>

Truncate ==
    /\ server = "truncate"
    /\ file' = {} /\ torn' = FALSE /\ spoilt' = {}
    /\ server' = "save"
    /\ UNCHANGED <<thread, memory, starts>>

Save ==
    /\ server = "save"
    /\ file' = memory
    /\ server' = "up"
    /\ UNCHANGED <<thread, memory, torn, spoilt, starts>>

-----------------------------------------------------------------------------
(* A thread                                                                  *)

\* Mutant: the fields are swapped.
EntrySwapped(c) == <<offered[c], HostOf[c]>>

Entry(c) == <<HostOf[c], offered[c]>>
Lookup(h) == {k \in Key : <<h, k>> \in memory}

\* The key that `keys' has in the place of k: none or one.
Known(keys, k) == {q \in keys : TypeOf[q] = TypeOf[k]}

\* connect looks the host up; then the server presents a key of its choice.
Connect(c) ==
    /\ server = "up"
    /\ pc[c] = "idle"
    /\ snapshot' = [snapshot EXCEPT ![c] = Lookup(HostOf[c])]
    /\ \E k \in Key : offered' = [offered EXCEPT ![c] = k]
    /\ pc' = [pc EXCEPT ![c] = "connect"]
    /\ UNCHANGED <<lock, memory, disk, process>>

\* connect compares the key with the snapshot, or calls the policy.
Verify(c) ==
    /\ pc[c] = "connect"
    /\ pc' = [pc EXCEPT ![c] =
            IF snapshot[c] = {} THEN "acquire"
            ELSE IF offered[c] \in snapshot[c] THEN "accepted" ELSE "refused"]
    /\ UNCHANGED <<snapshot, offered, lock, memory, disk, process>>

\* Mutant: no lock.
AcquireAlways(c) ==
    /\ pc[c] = "acquire"
    /\ lock' = c
    /\ pc' = [pc EXCEPT ![c] = "check"]
    /\ UNCHANGED <<snapshot, offered, memory, disk, process>>

Acquire(c) ==
    /\ pc[c] = "acquire"
    /\ lock = None
    /\ lock' = c
    /\ pc' = [pc EXCEPT ![c] = "check"]
    /\ UNCHANGED <<snapshot, offered, memory, disk, process>>

\* The end of `with self.lock'.
Release(c, how) ==
    /\ lock' = None
    /\ pc' = [pc EXCEPT ![c] = how]

\* Mutant: any key of this type is taken for another one.
CheckRefuses(c) ==
    /\ pc[c] = "check"
    /\ IF Known(Lookup(HostOf[c]), offered[c]) = {}
       THEN /\ pc' = [pc EXCEPT ![c] = "append"]
            /\ UNCHANGED lock
       ELSE Release(c, "refused")
    /\ UNCHANGED <<snapshot, offered, memory, disk, process>>

\* is_missing_host_key, with the keys of the host as they are now.
Check(c) ==
    /\ pc[c] = "check"
    /\ LET k == Known(Lookup(HostOf[c]), offered[c])
       IN  IF k = {}
           THEN /\ pc' = [pc EXCEPT ![c] = "append"]
                /\ UNCHANGED lock
           ELSE Release(c, IF offered[c] \in k THEN "accepted" ELSE "refused")
    /\ UNCHANGED <<snapshot, offered, memory, disk, process>>

AppendKey(c) ==
    /\ pc[c] = "append"
    /\ memory' = memory \cup {Entry(c)}
    /\ pc' = [pc EXCEPT ![c] = "write"]
    /\ UNCHANGED <<snapshot, offered, lock, disk, process>>

\* Mutant: the file is opened for writing, not for appending.
WriteOnly(c) ==
    /\ pc[c] = "write"
    /\ file' = {Entry(c)} /\ torn' = FALSE /\ spoilt' = {}
    /\ Release(c, "accepted")
    /\ UNCHANGED <<snapshot, offered, memory, process>>

\* The line goes to the end of the file, and ends there.
Write(c) ==
    /\ pc[c] = "write"
    /\ IF torn THEN spoilt' = spoilt \cup {Entry(c)} /\ UNCHANGED file
               ELSE file' = file \cup {Entry(c)} /\ UNCHANGED spoilt
    /\ torn' = FALSE
    /\ Release(c, "accepted")
    /\ UNCHANGED <<snapshot, offered, memory, process>>

\* Mutant: the failure is not propagated.
WriteIgnored(c) ==
    /\ pc[c] = "write"
    /\ torn' \in {torn, TRUE}
    /\ Release(c, "accepted")
    /\ UNCHANGED <<snapshot, offered, memory, file, spoilt, process>>

\* Mutant: the lock is kept.
WriteFailsLocked(c) ==
    /\ pc[c] = "write"
    /\ torn' \in {torn, TRUE}
    /\ pc' = [pc EXCEPT ![c] = "failed"]
    /\ UNCHANGED <<snapshot, offered, lock, memory, file, spoilt, process>>

\* The file cannot be opened, or takes a part of the line only: ssh_connect
\* reports that it is unable to connect.
WriteFails(c) ==
    /\ pc[c] = "write"
    /\ torn' \in {torn, TRUE}
    /\ Release(c, "failed")
    /\ UNCHANGED <<snapshot, offered, memory, file, spoilt, process>>

-----------------------------------------------------------------------------

\* The process dies, with its threads, and is started again.  A line that was
\* being written is there or not, and of a save any part is.  (The end of the
\* file does not matter any more: the next start writes it anew.)
Restart ==
    /\ starts < MaxStarts
    /\ starts' = starts + 1
    /\ server' = "load"
    /\ memory' = {}
    /\ pc' = [c \in Connection |-> IF pc[c] = "idle" THEN "idle" ELSE "dead"]
    /\ lock' = None
    /\ \/ UNCHANGED file
       \/ \E c \in Connection :
            pc[c] = "write" /\ ~ torn /\ file' = file \cup {Entry(c)}
       \/ server = "save" /\ file' \in SUBSET memory
    /\ UNCHANGED <<snapshot, offered, torn, spoilt>>

Start == Load \/ Truncate \/ Save

Thread(c) ==
    \/ Verify(c) \/ Acquire(c) \/ Check(c) \/ AppendKey(c)
    \/ Write(c) \/ WriteFails(c)

Next ==
    \/ Start \/ Restart
    \/ \E c \in Connection : Connect(c) \/ Thread(c)

Spec == Init /\ [][Next]_vars

\* Every thread runs on; a thread that waits for the lock gets it some time
\* (each connection takes it once).  Nobody has to connect.
Fairness == WF_vars(Start) /\ \A c \in Connection : WF_vars(Thread(c))

FairSpec == Spec /\ Fairness

-----------------------------------------------------------------------------
(* Properties *)

OneEach(entries) ==
    \A h \in Host, k, q \in Key :
        <<h, k>> \in entries /\ <<h, q>> \in entries /\ TypeOf[k] = TypeOf[q]
        => k = q

\* A host has one key of each type, however many threads meet it for the
\* first time together.  (AutoAddPolicy is "thread-safe".)
OneKeyPerType == OneEach(memory)

\* Of two servers that present different keys of one type under one name, the
\* process accepts one only: the comparison with a snapshot from before the
\* lock and the one under the lock never disagree.
SameKeyAccepted ==
    \A c, d \in Connection :
        /\ pc[c] = "accepted" /\ pc[d] = "accepted"
        /\ HostOf[c] = HostOf[d]
        /\ TypeOf[offered[c]] = TypeOf[offered[d]]
        => offered[c] = offered[d]

\* What was accepted is known to later connections, and to the next process as
\* well: its line is in the file or about to be, or whoever was to write it was
\* told that it failed.  (Lines that an earlier failure has spoilt apart.)
AcceptedIsKept ==
    \A c \in Connection : pc[c] = "accepted" =>
        /\ Entry(c) \in memory
        /\ \/ Entry(c) \in file \cup spoilt
           \/ \E d \in Connection : pc[d] \in {"write", "failed"} /\ Entry(d) = Entry(c)

\* Where the known keys of this and of the next process are.
Kept == IF server = "save" THEN memory ELSE file

\* A key that is on disk stays there: appending keeps the other lines, and the
\* save at the start loses them only if the process dies in the middle of it.
LostOnlyInSave ==
    [][Kept \subseteq Kept' \/ (server = "save" /\ Restart)]_vars

trusted == IF server = "load" THEN file ELSE memory

OutcomeOf(c) ==
    IF pc[c] = "idle" THEN "none"
    ELSE IF pc[c] \in Ended THEN pc[c]
    ELSE IF pc[c] = "write" THEN "writing" ELSE "offered"

outcome == [c \in Connection |-> OutcomeOf(c)]
ready   == server = "up"
unsaved == IF ready THEN memory \ file ELSE {}

\* offered is that of this module.
Promise == INSTANCE KnownHosts WITH torn <- ready /\ torn

\* The snapshot of connect, the check under the lock, the keys in memory and the
\* file are one store that trusts on first use, at every step and across
\* restarts: whatever the threads do meanwhile, a key is accepted only if it is
\* trusted then, and refused only if its host is trusted with another; and once
\* the process is up it forgets nothing that it has written to a file whose
\* last line was finished.
ImplementsKnownHosts == Promise!Spec

\* Every connection ends, also if it meets a full disk inside of the lock.
ConnectionsEnd == \A c \in Connection : pc[c] \in Running ~> pc[c] \in Ended

=============================================================================
