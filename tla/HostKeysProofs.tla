---------------------------- MODULE HostKeysProofs ----------------------------
(***************************************************************************)
(* Theorems about HostKeys, for any number of connections, hosts, keys and *)
(* restarts.                                                               *)
(***************************************************************************)
EXTENDS HostKeys, TLAPS

-----------------------------------------------------------------------------
(* The inductive invariant                                                   *)

\* One thread is between taking and releasing the lock: the one that holds it.
LockOK == \A c \in Connection : pc[c] \in Locked <=> lock = c

\* Threads run, and have sessions, only in a process that has started.
UpOK ==
    \A c \in Connection : pc[c] \in Running \cup {"accepted"} =>
        server = "up" /\ offered[c] \in Key

\* What each thread knows of the keys in memory.
ThreadOK ==
    \A c \in Connection :
        /\ pc[c] = "connect" => snapshot[c] \subseteq Lookup(HostOf[c])
        /\ pc[c] = "append" => Known(Lookup(HostOf[c]), offered[c]) = {}
        /\ pc[c] \in {"write", "accepted"} => Entry(c) \in memory

Consistent ==
    /\ OneEach(memory)
    /\ OneEach(file)
    /\ server # "load" => file \subseteq memory

\* What is in memory is on disk, or about to be, or its writer has failed.
Written ==
    server = "up" =>
        \A e \in memory :
            \/ e \in file \cup spoilt
            \/ \E d \in Connection : pc[d] \in {"write", "failed"} /\ Entry(d) = e

\* The save at the start begins with an empty file.
TornOK == server = "save" => ~ torn

KeysInv == TypeOK /\ LockOK /\ UpOK /\ ThreadOK /\ Consistent /\ Written /\ TornOK

-----------------------------------------------------------------------------

LEMMA OneEachSubset ==
    ASSUME NEW S, OneEach(S), NEW T \in SUBSET S
    PROVE  OneEach(T)
BY DEF OneEach

LEMMA InitKeys == Init => KeysInv
<1>. SUFFICES ASSUME Init PROVE KeysInv
  OBVIOUS
<1>1. TypeOK
  BY DEF Init, TypeOK
<1>2. LockOK /\ UpOK /\ ThreadOK
  BY NoneAssumption DEF Init, LockOK, UpOK, ThreadOK, Running, Locked
<1>3. Consistent /\ Written /\ TornOK
  BY DEF Init, Consistent, Written, OneEach, TornOK
<1>. QED
  BY <1>1, <1>2, <1>3 DEF KeysInv

\* The start of the process.
LEMMA StartStep == ASSUME KeysInv, Start PROVE KeysInv'
<1>. USE DEF KeysInv
<1>0. ASSUME NEW c \in Connection PROVE pc[c] \notin Running \cup {"accepted"}
  BY DEF Start, Load, Truncate, Save, UpOK
<1>1. UNCHANGED <<thread, starts>>
  BY DEF Start, Load, Truncate, Save
<1>2. TypeOK'
  BY <1>1 DEF Start, Load, Truncate, Save, TypeOK, thread, disk
<1>3. LockOK' /\ UpOK' /\ ThreadOK'
  BY <1>0, <1>1 DEF LockOK, UpOK, ThreadOK, thread, Running, Locked
<1>4. Consistent'
  BY OneEachSubset DEF Start, Load, Truncate, Save, Consistent, OneEach, disk
<1>5. Written' /\ TornOK'
  BY DEF Start, Load, Truncate, Save, Written, TornOK
<1>. QED
  BY <1>2, <1>3, <1>4, <1>5

LEMMA RestartStep == ASSUME KeysInv, Restart PROVE KeysInv'
<1>. USE DEF KeysInv
<1>1. \A c \in Connection : pc'[c] \in {"idle", "dead"}
  BY DEF Restart
<1>2. file' \subseteq Host \X Key /\ OneEach(file')
  <2>1. CASE UNCHANGED file
    BY <2>1 DEF TypeOK, Consistent
  <2>2. ASSUME NEW c \in Connection, pc[c] = "write", file' = file \cup {Entry(c)}
        PROVE  file' \subseteq Host \X Key /\ OneEach(file')
    <3>1. file' \subseteq memory
      BY <2>2 DEF UpOK, Running, Locked, Consistent, ThreadOK
    <3>. QED
      BY <3>1, OneEachSubset DEF TypeOK, Consistent
  <2>3. CASE file' \in SUBSET memory
    BY <2>3, OneEachSubset DEF TypeOK, Consistent
  <2>. QED
    BY <2>1, <2>2, <2>3 DEF Restart
<1>3. TypeOK'
  <2>1. pc' \in [Connection -> {"idle"} \cup Running \cup Ended]
    BY DEF Restart, Ended
  <2>2. starts' \in Nat
    BY DEF Restart, TypeOK
  <2>. QED
    BY <1>2, <2>1, <2>2 DEF Restart, TypeOK
<1>4. LockOK' /\ UpOK' /\ ThreadOK'
  BY <1>1, NoneAssumption DEF Restart, LockOK, UpOK, ThreadOK, Running, Locked
<1>5. Consistent' /\ Written' /\ TornOK'
  BY <1>2 DEF Restart, Consistent, Written, OneEach, TornOK
<1>. QED
  BY <1>3, <1>4, <1>5

\* A step of a thread that changes neither the keys nor the process, and does
\* not leave the writing.
LEMMA QuietStep ==
    ASSUME KeysInv, UNCHANGED <<memory, disk, process>>,
           \A d \in Connection :
                pc[d] \in {"write", "failed"} => UNCHANGED <<pc[d], offered[d]>>
    PROVE  Consistent' /\ Written' /\ TornOK'
<1>. USE DEF KeysInv
<1>1. Consistent' /\ TornOK'
  BY DEF Consistent, TornOK, process, disk
<1>2. Written'
  <2>1. \A d \in Connection : pc[d] \in {"write", "failed"} =>
            pc'[d] \in {"write", "failed"} /\ Entry(d)' = Entry(d)
    BY DEF Entry
  <2>. QED
    BY <2>1 DEF Written, process, disk
<1>. QED
  BY <1>1, <1>2

LEMMA ConnectStep ==
    ASSUME KeysInv, NEW c \in Connection, Connect(c)
    PROVE  KeysInv'
<1>. USE DEF KeysInv
<1>1. PICK k \in Key : offered' = [offered EXCEPT ![c] = k]
  BY DEF Connect
<1>2. Lookup(HostOf[c]) \in SUBSET Key
  BY DEF Lookup
<1>3. TypeOK'
  BY <1>1, <1>2 DEF Connect, TypeOK, Running, process, disk
<1>4. LockOK'
  BY DEF Connect, TypeOK, LockOK, Locked
<1>5. UpOK'
  BY <1>1 DEF Connect, TypeOK, UpOK, Running, Locked, process
<1>6. ThreadOK'
  BY <1>1 DEF Connect, TypeOK, ThreadOK, Lookup, Known, Entry
<1>7. Consistent' /\ Written' /\ TornOK'
  BY QuietStep DEF Connect, TypeOK
<1>. QED
  BY <1>3, <1>4, <1>5, <1>6, <1>7

LEMMA VerifyStep ==
    ASSUME KeysInv, NEW c \in Connection, Verify(c)
    PROVE  KeysInv'
<1>. USE DEF KeysInv
<1>. DEFINE next == IF snapshot[c] = {} THEN "acquire"
                    ELSE IF offered[c] \in snapshot[c] THEN "accepted" ELSE "refused"
<1>1. /\ pc[c] = "connect" /\ pc' = [pc EXCEPT ![c] = next]
      /\ UNCHANGED <<snapshot, offered, lock, memory, disk, process>>
  BY DEF Verify
<1>2. next \in {"acquire", "accepted", "refused"}
  OBVIOUS
<1>3. next = "accepted" => Entry(c) \in memory
  BY <1>1 DEF ThreadOK, Entry, Lookup
<1>. HIDE DEF next
<1>4. TypeOK'
  BY <1>1, <1>2 DEF TypeOK, Running, Ended, process, disk
<1>5. LockOK'
  BY <1>1, <1>2 DEF TypeOK, LockOK, Locked
<1>6. UpOK'
  BY <1>1, <1>2 DEF TypeOK, UpOK, Running, Locked, process
<1>7. ThreadOK'
  BY <1>1, <1>2, <1>3 DEF TypeOK, ThreadOK, Lookup, Known, Entry
<1>8. Consistent' /\ Written' /\ TornOK'
  BY <1>1, QuietStep DEF TypeOK
<1>. QED
  BY <1>4, <1>5, <1>6, <1>7, <1>8

LEMMA AcquireStep ==
    ASSUME KeysInv, NEW c \in Connection, Acquire(c)
    PROVE  KeysInv'
<1>. USE DEF KeysInv
<1>1. TypeOK'
  BY DEF Acquire, TypeOK, Running, Locked, process, disk
<1>2. LockOK'
  BY NoneAssumption DEF Acquire, TypeOK, LockOK, Locked
<1>3. UpOK'
  BY DEF Acquire, TypeOK, UpOK, Running, Locked, process
<1>4. ThreadOK'
  BY DEF Acquire, TypeOK, ThreadOK, Lookup, Known, Entry
<1>5. Consistent' /\ Written' /\ TornOK'
  BY QuietStep DEF Acquire, TypeOK
<1>. QED
  BY <1>1, <1>2, <1>3, <1>4, <1>5

\* A thread that releases the lock, with a result that its keys justify.
LEMMA ReleaseStep ==
    ASSUME KeysInv, NEW c \in Connection, NEW how \in {"accepted", "refused", "failed"},
           pc[c] \in Locked, Release(c, how),
           how = "accepted" => Entry(c) \in memory,
           UNCHANGED <<snapshot, offered, memory, server>>
    PROVE  LockOK' /\ UpOK' /\ ThreadOK'
<1>. USE DEF KeysInv
<1>1. LockOK'
  BY NoneAssumption DEF Release, TypeOK, LockOK, Locked
<1>2. UpOK'
  BY DEF Release, TypeOK, UpOK, Running, Locked
<1>3. ThreadOK'
  BY DEF Release, TypeOK, ThreadOK, Lookup, Known, Entry
<1>. QED
  BY <1>1, <1>2, <1>3

LEMMA CheckStep ==
    ASSUME KeysInv, NEW c \in Connection, Check(c)
    PROVE  KeysInv'
<1>. USE DEF KeysInv
<1>. DEFINE k == Known(Lookup(HostOf[c]), offered[c])
<1>1. pc[c] = "check" /\ UNCHANGED <<snapshot, offered, memory, disk, process>>
  BY DEF Check
<1>2. CASE k = {}
  <2>1. pc' = [pc EXCEPT ![c] = "append"] /\ UNCHANGED lock
    BY <1>2 DEF Check
  <2>2. TypeOK'
    BY <1>1, <2>1 DEF TypeOK, Running, Locked, process, disk
  <2>3. LockOK'
    BY <1>1, <2>1 DEF TypeOK, LockOK, Locked
  <2>4. UpOK'
    BY <1>1, <2>1 DEF TypeOK, UpOK, Running, Locked, process
  <2>5. ThreadOK'
    BY <1>1, <1>2, <2>1 DEF TypeOK, ThreadOK, Lookup, Known, Entry
  <2>6. Consistent' /\ Written' /\ TornOK'
    BY <1>1, <2>1, QuietStep DEF TypeOK
  <2>. QED
    BY <2>2, <2>3, <2>4, <2>5, <2>6
<1>3. CASE k # {}
  <2>. DEFINE how == IF offered[c] \in k THEN "accepted" ELSE "refused"
  <2>1. Release(c, how)
    BY <1>3 DEF Check
  <2>2. how \in {"accepted", "refused", "failed"}
    OBVIOUS
  <2>3. how = "accepted" => Entry(c) \in memory
    BY DEF Known, Lookup, Entry
  <2>. HIDE DEF how
  <2>4. TypeOK'
    BY <1>1, <2>1, <2>2 DEF Release, TypeOK, Ended, process, disk
  <2>5. LockOK' /\ UpOK' /\ ThreadOK'
    BY <1>1, <2>1, <2>2, <2>3, ReleaseStep DEF Locked, process
  <2>6. Consistent' /\ Written' /\ TornOK'
    BY <1>1, <2>1, QuietStep DEF Release, TypeOK
  <2>. QED
    BY <2>4, <2>5, <2>6
<1>. QED
  BY <1>2, <1>3

LEMMA AppendStep ==
    ASSUME KeysInv, NEW c \in Connection, AppendKey(c)
    PROVE  KeysInv'
<1>. USE DEF KeysInv
<1>1. /\ pc[c] = "append" /\ pc' = [pc EXCEPT ![c] = "write"]
      /\ memory' = memory \cup {Entry(c)}
      /\ UNCHANGED <<snapshot, offered, lock, disk, process>>
  BY DEF AppendKey
<1>2. offered[c] \in Key /\ HostOf[c] \in Host /\ lock = c /\ server = "up"
  BY <1>1, HostAssumption DEF UpOK, LockOK, Running, Locked
<1>3. TypeOK'
  BY <1>1, <1>2 DEF TypeOK, Running, Locked, Entry, process, disk
<1>4. LockOK'
  BY <1>1 DEF TypeOK, LockOK, Locked
<1>5. UpOK'
  BY <1>1 DEF TypeOK, UpOK, Running, Locked, process
<1>6. ThreadOK'
  <2>1. ASSUME NEW d \in Connection, d # c
        PROVE  pc'[d] = pc[d] /\ pc[d] # "append"
    BY <1>1, <1>2, <2>1 DEF TypeOK, LockOK, Locked
  <2>. QED
    BY <1>1, <2>1 DEF TypeOK, ThreadOK, Lookup, Entry
<1>7. Consistent' /\ TornOK'
  <2>1. Known(Lookup(HostOf[c]), offered[c]) = {}
    BY <1>1 DEF ThreadOK
  <2>2. ASSUME NEW k \in Key, <<HostOf[c], k>> \in memory
        PROVE  TypeOf[k] # TypeOf[offered[c]]
    BY <2>1, <2>2 DEF Known, Lookup
  <2>3. OneEach(memory')
    BY <1>1, <1>2, <2>2 DEF Consistent, OneEach, Entry
  <2>. QED
    BY <1>1, <2>3 DEF Consistent, TornOK, process, disk
<1>8. Written'
  <2>1. pc'[c] = "write" /\ Entry(c)' = Entry(c)
    BY <1>1 DEF TypeOK, Entry
  <2>2. ASSUME NEW d \in Connection, pc[d] \in {"write", "failed"}
        PROVE  pc'[d] \in {"write", "failed"} /\ Entry(d)' = Entry(d)
    BY <1>1, <2>2 DEF TypeOK, Entry
  <2>. QED
    BY <1>1, <1>2, <2>1, <2>2 DEF Written, process, disk
<1>. QED
  BY <1>3, <1>4, <1>5, <1>6, <1>7, <1>8

LEMMA WriteStep ==
    ASSUME KeysInv, NEW c \in Connection, Write(c) \/ WriteFails(c)
    PROVE  KeysInv'
<1>. USE DEF KeysInv
<1>1. /\ pc[c] = "write"
      /\ UNCHANGED <<snapshot, offered, memory, server, starts>>
      /\ file \cup spoilt \subseteq file' \cup spoilt'
      /\ file' \subseteq file \cup {Entry(c)}
      /\ spoilt' \subseteq spoilt \cup {Entry(c)}
      /\ torn' \in BOOLEAN
  BY DEF Write, WriteFails, process, TypeOK
<1>2. PICK how \in {"accepted", "failed"} :
            Release(c, how) /\ (how = "accepted" => Entry(c) \in file' \cup spoilt')
  <2>1. CASE Write(c)
    BY <2>1 DEF Write
  <2>2. CASE WriteFails(c)
    BY <2>2 DEF WriteFails
  <2>. QED
    BY <2>1, <2>2
<1>3. Entry(c) \in memory
  BY <1>1 DEF ThreadOK
<1>4. TypeOK'
  BY <1>1, <1>2, <1>3 DEF Release, TypeOK, Ended
<1>5. LockOK' /\ UpOK' /\ ThreadOK'
  BY <1>1, <1>2, <1>3, ReleaseStep DEF Locked
<1>6. Consistent' /\ TornOK'
  <2>1. server = "up"
    BY <1>1 DEF UpOK, Running, Locked
  <2>2. file' \subseteq memory'
    BY <1>1, <1>3, <2>1 DEF Consistent
  <2>. QED
    BY <1>1, <2>1, <2>2, OneEachSubset DEF Consistent, TornOK
<1>7. Written'
  <2>1. ASSUME NEW d \in Connection, d # c, pc[d] \in {"write", "failed"}
        PROVE  pc'[d] \in {"write", "failed"} /\ Entry(d)' = Entry(d)
    BY <1>1, <1>2, <2>1 DEF Release, TypeOK, Entry
  <2>2. Entry(c)' = Entry(c) /\ pc'[c] = how
    BY <1>1, <1>2 DEF Release, TypeOK, Entry
  <2>. QED
    BY <1>1, <1>2, <2>1, <2>2 DEF Written
<1>. QED
  BY <1>4, <1>5, <1>6, <1>7

LEMMA KeysStep == KeysInv /\ [Next]_vars => KeysInv'
<1>1. ASSUME KeysInv, UNCHANGED vars PROVE KeysInv'
  BY <1>1 DEF KeysInv, vars, thread, disk, process, TypeOK, LockOK, UpOK, ThreadOK,
              Consistent, Written, TornOK, Lookup, Known, Entry
<1>. QED
  BY <1>1, StartStep, RestartStep, ConnectStep, VerifyStep, AcquireStep, CheckStep,
     AppendStep, WriteStep DEF Next, Thread

LEMMA KeysInvariant == Spec => []KeysInv
BY InitKeys, KeysStep, PTL DEF Spec

-----------------------------------------------------------------------------
(* Theorems                                                                  *)

\* Every variable keeps its type, for any hosts, keys and restarts.
THEOREM KeysTypeCorrect == Spec => []TypeOK
<1>1. KeysInv => TypeOK
  BY DEF KeysInv
<1>. QED
  BY KeysInvariant, <1>1, PTL

\* The check under the lock lets no second key of a type in.
THEOREM OneKeyPerTypeHolds == Spec => []OneKeyPerType
<1>1. KeysInv => OneKeyPerType
  BY DEF KeysInv, Consistent, OneKeyPerType
<1>. QED
  BY KeysInvariant, <1>1, PTL

\* No process trusts two keys of one type for one name, whether they were
\* compared with a snapshot or under the lock.
THEOREM SameKeyAcceptedHolds == Spec => []SameKeyAccepted
<1>1. KeysInv => SameKeyAccepted
  BY HostAssumption DEF KeysInv, Consistent, OneEach, UpOK, ThreadOK, Entry,
                        SameKeyAccepted
<1>. QED
  BY KeysInvariant, <1>1, PTL

\* What was accepted is known to the process as long as it runs, and to the next
\* one unless whoever was to write it was told that it failed, or its line
\* continues one that an earlier failure has left unfinished.
THEOREM AcceptedIsKeptHolds == Spec => []AcceptedIsKept
<1>1. KeysInv => AcceptedIsKept
  BY DEF KeysInv, UpOK, ThreadOK, Written, AcceptedIsKept
<1>. QED
  BY KeysInvariant, <1>1, PTL

\* Nothing but an interrupted save takes a key off the disk.
THEOREM LostOnlyInSaveHolds == Spec => LostOnlyInSave
<1>1. ASSUME KeysInv, [Next]_vars
      PROVE  [Kept \subseteq Kept' \/ (server = "save" /\ Restart)]_vars
  <2>1. CASE Start
    BY <1>1, <2>1 DEF Start, Load, Truncate, Save, Kept, KeysInv, Consistent, disk
  <2>2. CASE Restart
    BY <1>1, <2>2 DEF Restart, Kept
  <2>3. ASSUME NEW c \in Connection, Connect(c) \/ Thread(c)
        PROVE  UNCHANGED <<server>> /\ file \subseteq file' /\ server = "up"
    BY <1>1, <2>3 DEF Connect, Thread, Verify, Acquire, Check, AppendKey, Write,
        WriteFails, process, disk, KeysInv, UpOK, Running, Locked
  <2>4. CASE UNCHANGED vars
    BY <2>4
  <2>. QED
    BY <1>1, <2>1, <2>2, <2>3, <2>4 DEF Next, Kept
<1>. QED
  BY KeysInvariant, <1>1, PTL DEF Spec, LostOnlyInSave

-----------------------------------------------------------------------------
(* The store of keys implements trust on first use (KnownHosts)              *)

LEMMA InitTrust == Init => Promise!Init
BY DEF Init, Promise!Init, trusted, outcome, OutcomeOf, ready, unsaved

\* What the promise keeps beside the outcomes.
store == <<trusted, offered, ready, unsaved, ready /\ torn>>

LEMMA QuietStore == UNCHANGED <<offered, memory, disk, process>> => UNCHANGED store
BY DEF store, disk, process, trusted, ready, unsaved

\* What a step of one connection makes of its outcome.
LEMMA OutcomeMoves ==
    ASSUME NEW c \in Connection, \A d \in Connection : d # c => UNCHANGED pc[d]
    PROVE  /\ Promise!Becomes(c, OutcomeOf(c)')
           /\ OutcomeOf(c)' = OutcomeOf(c) => UNCHANGED outcome
<1>1. \A d \in Connection : d # c => OutcomeOf(d)' = OutcomeOf(d)
  BY DEF OutcomeOf
<1>2. /\ outcome' = [d \in Connection |-> OutcomeOf(d)']
      /\ outcome = [d \in Connection |-> OutcomeOf(d)]
  BY DEF outcome
<1>. QED
  BY <1>1, <1>2 DEF Promise!Becomes

\* A connection is accepted and refused by what is trusted then, also if it was
\* compared with what was known before.
LEMMA VerifyImplements ==
    ASSUME KeysInv, NEW c \in Connection, Verify(c)
    PROVE  [Promise!Next]_Promise!vars
<1>0. TypeOK /\ server = "up" /\ snapshot[c] \subseteq Lookup(HostOf[c])
  BY DEF KeysInv, Verify, UpOK, ThreadOK, Running
<1>1. /\ pc[c] = "connect" /\ outcome[c] = "offered"
      /\ UNCHANGED store /\ trusted = memory
      /\ \A d \in Connection : d # c => UNCHANGED pc[d]
  BY <1>0, QuietStore DEF Verify, TypeOK, trusted, outcome, OutcomeOf, Ended
<1>2. CASE snapshot[c] = {}
  <2>1. OutcomeOf(c)' = OutcomeOf(c)
    BY <1>0, <1>1, <1>2 DEF Verify, TypeOK, OutcomeOf, Ended
  <2>. QED
    BY <1>1, <2>1, OutcomeMoves DEF store, Promise!vars
<1>3. CASE offered[c] \in snapshot[c]
  <2>1. OutcomeOf(c)' = "accepted"
    BY <1>0, <1>1, <1>3 DEF Verify, TypeOK, OutcomeOf, Ended
  <2>2. Promise!Entry(c) \in trusted
    BY <1>0, <1>1, <1>3 DEF Lookup, Promise!Entry
  <2>. QED
    BY <1>1, <2>1, <2>2, OutcomeMoves DEF store, Promise!Next, Promise!Accept
<1>4. CASE snapshot[c] # {} /\ offered[c] \notin snapshot[c]
  <2>1. OutcomeOf(c)' = "refused"
    BY <1>0, <1>1, <1>4 DEF Verify, TypeOK, OutcomeOf, Ended
  <2>2. PICK k \in snapshot[c] : TRUE
    BY <1>4
  <2>3. k \in Key \ {offered[c]} /\ <<HostOf[c], k>> \in trusted
    BY <1>0, <1>1, <1>4, <2>2 DEF Lookup
  <2>. QED
    BY <1>1, <2>1, <2>3, OutcomeMoves DEF store, Promise!Next, Promise!Refuse
<1>. QED
  BY <1>2, <1>3, <1>4

LEMMA CheckImplements ==
    ASSUME KeysInv, NEW c \in Connection, Check(c)
    PROVE  [Promise!Next]_Promise!vars
<1>. DEFINE keys == Known(Lookup(HostOf[c]), offered[c])
<1>0. TypeOK /\ server = "up"
  BY DEF KeysInv, Check, UpOK, Running, Locked
<1>1. /\ outcome[c] = "offered" /\ trusted = memory
      /\ UNCHANGED store
      /\ \A d \in Connection : d # c => UNCHANGED pc[d]
  BY <1>0, QuietStore DEF Check, Release, TypeOK, trusted, outcome, OutcomeOf, Ended
<1>2. CASE keys = {}
  <2>1. OutcomeOf(c)' = OutcomeOf(c)
    BY <1>0, <1>2 DEF Check, TypeOK, OutcomeOf, Ended
  <2>. QED
    BY <1>1, <2>1, OutcomeMoves DEF store, Promise!vars
<1>3. CASE offered[c] \in keys
  <2>1. OutcomeOf(c)' = "accepted"
    BY <1>0, <1>3 DEF Check, Release, TypeOK, OutcomeOf, Ended
  <2>2. Promise!Entry(c) \in trusted
    BY <1>1, <1>3 DEF Known, Lookup, Promise!Entry
  <2>. QED
    BY <1>1, <2>1, <2>2, OutcomeMoves DEF store, Promise!Next, Promise!Accept
<1>4. CASE keys # {} /\ offered[c] \notin keys
  <2>1. OutcomeOf(c)' = "refused"
    BY <1>0, <1>4 DEF Check, Release, TypeOK, OutcomeOf, Ended
  <2>2. PICK k \in keys : TRUE
    BY <1>4
  <2>3. k \in Key \ {offered[c]} /\ <<HostOf[c], k>> \in trusted
    BY <1>1, <1>4, <2>2 DEF Known, Lookup
  <2>. QED
    BY <1>1, <2>1, <2>3, OutcomeMoves DEF store, Promise!Next, Promise!Refuse
<1>. QED
  BY <1>2, <1>3, <1>4

\* The keys of a running process.
LEMMA UpStore ==
    ASSUME server = "up", UNCHANGED server
    PROVE  /\ ready /\ ready' /\ trusted = memory /\ trusted' = memory'
           /\ unsaved = memory \ file /\ unsaved' = memory' \ file'
BY DEF ready, trusted, unsaved

\* A key that is taken is not in the file, and not saved yet.
LEMMA AppendImplements ==
    ASSUME KeysInv, NEW c \in Connection, AppendKey(c)
    PROVE  Promise!Trust(c)
<1>1. /\ TypeOK /\ server = "up" /\ UNCHANGED server
      /\ \A d \in Connection : d # c => UNCHANGED pc[d]
  BY DEF KeysInv, AppendKey, UpOK, Running, Locked, TypeOK, process
<1>2. outcome[c] = "offered" /\ Promise!Becomes(c, "writing")
  <2>1. outcome[c] = "offered" /\ OutcomeOf(c)' = "writing"
    BY <1>1 DEF AppendKey, TypeOK, outcome, OutcomeOf, Ended
  <2>. QED
    BY <1>1, <2>1, OutcomeMoves
<1>3. ASSUME NEW k \in Key, <<HostOf[c], k>> \in memory
      PROVE  TypeOf[k] # TypeOf[offered[c]]
  BY <1>3 DEF AppendKey, KeysInv, ThreadOK, Known, Lookup
<1>4. Entry(c) \notin file
  <2>1. offered[c] \in Key /\ file \subseteq memory
    BY <1>1 DEF AppendKey, KeysInv, UpOK, Running, Locked, Consistent
  <2>. QED
    BY <2>1, <1>3 DEF Entry
<1>5. unsaved' = unsaved \cup {Entry(c)} /\ trusted' = trusted \cup {Entry(c)}
  BY <1>1, <1>4, UpStore DEF AppendKey, disk
<1>6. Entry(c) = Promise!Entry(c) /\ UNCHANGED <<offered, ready, ready /\ torn>>
  BY <1>1, UpStore DEF Entry, Promise!Entry, AppendKey, disk
<1>. QED
  BY <1>1, <1>2, <1>3, <1>5, <1>6, UpStore DEF Promise!Trust

\* A line that is written is saved, unless it continues an unfinished one.
LEMMA WriteImplements ==
    ASSUME KeysInv, NEW c \in Connection, Write(c)
    PROVE  Promise!Save(c)
<1>1. /\ TypeOK /\ server = "up" /\ UNCHANGED <<server, memory, offered>>
      /\ \A d \in Connection : d # c => UNCHANGED pc[d]
  BY DEF KeysInv, Write, Release, UpOK, Running, Locked, TypeOK, process
<1>2. outcome[c] = "writing" /\ Promise!Becomes(c, "accepted")
  <2>1. outcome[c] = "writing" /\ OutcomeOf(c)' = "accepted"
    BY <1>1 DEF Write, Release, TypeOK, outcome, OutcomeOf, Ended
  <2>. QED
    BY <1>1, <2>1, OutcomeMoves
<1>3. Entry(c) = Promise!Entry(c) /\ UNCHANGED <<trusted, ready>>
  BY <1>1, UpStore DEF Entry, Promise!Entry
<1>4. unsaved' = IF ready /\ torn THEN unsaved ELSE unsaved \ {Entry(c)}
  BY <1>1, UpStore DEF Write
<1>5. (ready /\ torn)' = FALSE
  BY DEF Write
<1>. QED
  BY <1>1, <1>2, <1>3, <1>4, <1>5 DEF Promise!Save

\* A write that fails leaves its key unsaved, and perhaps the next one too.
LEMMA WriteFailsImplements ==
    ASSUME KeysInv, NEW c \in Connection, WriteFails(c)
    PROVE  Promise!Fail(c)
<1>1. /\ TypeOK /\ server = "up" /\ UNCHANGED <<server, memory, offered, file>>
      /\ \A d \in Connection : d # c => UNCHANGED pc[d]
  BY DEF KeysInv, WriteFails, Release, UpOK, Running, Locked, TypeOK, process
<1>2. outcome[c] = "writing" /\ Promise!Becomes(c, "failed")
  <2>1. outcome[c] = "writing" /\ OutcomeOf(c)' = "failed"
    BY <1>1 DEF WriteFails, Release, TypeOK, outcome, OutcomeOf, Ended
  <2>. QED
    BY <1>1, <2>1, OutcomeMoves
<1>3. UNCHANGED <<trusted, ready, unsaved>>
  BY <1>1, UpStore
<1>4. (ready /\ torn)' \in {ready /\ torn, TRUE}
  BY <1>1, UpStore DEF WriteFails, TypeOK
<1>. QED
  BY <1>1, <1>2, <1>3, <1>4 DEF Promise!Fail

\* The steps of a connection.
LEMMA ThreadImplements ==
    ASSUME KeysInv, NEW c \in Connection, Connect(c) \/ Thread(c)
    PROVE  [Promise!Next]_Promise!vars
<1>1. CASE Connect(c)
  <2>1. /\ TypeOK /\ server = "up" /\ UNCHANGED <<memory, disk, process>>
        /\ \A d \in Connection : d # c => UNCHANGED pc[d]
    BY <1>1 DEF KeysInv, Connect, TypeOK
  <2>2. outcome[c] = "none" /\ OutcomeOf(c)' = "offered"
    BY <1>1, <2>1 DEF Connect, TypeOK, outcome, OutcomeOf, Ended
  <2>3. UNCHANGED <<trusted, ready, unsaved, ready /\ torn>> /\ ready
    BY <2>1 DEF disk, process, trusted, ready, unsaved
  <2>. QED
    BY <1>1, <2>1, <2>2, <2>3, OutcomeMoves DEF Connect, Promise!Next, Promise!Offer
<1>2. CASE Acquire(c)
  <2>1. UNCHANGED store /\ \A d \in Connection : d # c => UNCHANGED pc[d]
    BY <1>2, QuietStore DEF KeysInv, TypeOK, Acquire
  <2>2. OutcomeOf(c)' = OutcomeOf(c)
    BY <1>2 DEF KeysInv, Acquire, TypeOK, OutcomeOf, Ended
  <2>. QED
    BY <2>1, <2>2, OutcomeMoves DEF store, Promise!vars
<1>. QED
  BY <1>1, <1>2, VerifyImplements, CheckImplements, AppendImplements, WriteImplements,
     WriteFailsImplements DEF Thread, Promise!Next

\* What a process that dies leaves behind for the next one.
LEMMA RestartImplements ==
    ASSUME KeysInv, Restart
    PROVE  Promise!Restart
<1>0. TypeOK /\ UpOK /\ ThreadOK /\ Consistent
  BY DEF KeysInv
<1>1. /\ trusted' = file' /\ ready' = FALSE /\ unsaved' = {} /\ (ready /\ torn)' = FALSE
      /\ UNCHANGED offered
      /\ outcome' = [c \in Connection |-> IF outcome[c] = "none" THEN "none" ELSE "dead"]
  BY <1>0 DEF Restart, trusted, ready, unsaved, outcome, OutcomeOf, Ended, TypeOK
<1>2. file' \subseteq trusted
  <2>1. ASSUME NEW c \in Connection, pc[c] = "write"
        PROVE  server = "up" /\ Entry(c) \in memory
    BY <1>0, <2>1 DEF UpOK, ThreadOK, Running, Locked
  <2>2. file \subseteq trusted
    BY <1>0 DEF trusted, Consistent
  <2>. QED
    BY <2>1, <2>2 DEF Restart, trusted
<1>3. ready => trusted \ trusted' \subseteq unsaved
  BY <1>1 DEF Restart, trusted, ready, unsaved
<1>. QED
  BY <1>1, <1>2, <1>3 DEF Promise!Restart

LEMMA StartImplements ==
    ASSUME KeysInv, Start
    PROVE  [Promise!Next]_Promise!vars
<1>1. UNCHANGED <<trusted, offered, outcome>> /\ ~ ready
  BY DEF Start, Load, Truncate, Save, thread, trusted, outcome, OutcomeOf, ready
<1>2. UNCHANGED <<unsaved, ready /\ torn>>
  BY DEF Start, Load, Truncate, Save, ready, unsaved, KeysInv, TornOK
<1>3. UNCHANGED ready \/ ready' = TRUE
  BY DEF Start, Load, Truncate, Save, ready
<1>. QED
  BY <1>1, <1>2, <1>3 DEF Promise!Next, Promise!Start, Promise!vars

\* The snapshots, the lock, the keys in memory and the file are one store that
\* trusts on first use: however many threads connect, whatever they were offered
\* and whenever the process dies (policy.py: AutoAddPolicy, load_host_keys).
THEOREM KnownHostsImplemented == Spec => ImplementsKnownHosts
<1>1. KeysInv /\ [Next]_vars => [Promise!Next]_Promise!vars
  <2>1. UNCHANGED vars => UNCHANGED Promise!vars
    BY DEF vars, thread, disk, process, Promise!vars, trusted, outcome, OutcomeOf,
           ready, unsaved
  <2>. QED
    BY <2>1, StartImplements, RestartImplements, ThreadImplements DEF Next, Promise!Next
<1>. QED
  BY InitTrust, KeysInvariant, <1>1, PTL DEF Spec, ImplementsKnownHosts, Promise!Spec

===============================================================================
