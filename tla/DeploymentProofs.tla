--------------------------- MODULE DeploymentProofs ---------------------------
(***************************************************************************)
(* Deployment, for any number of instances, any timeout and any bounds:    *)
(* the types, that the sidecars that ping stay registered, and that what a *)
(* container leaves behind is forgotten in time.                           *)
(***************************************************************************)
EXTENDS Deployment, TLAPS

LEMMA TimeoutPositive == Timeout \in Int /\ Timeout > 0
  BY TimeoutAssumption

\* All that the proofs need to know of Absent.
LEMMA AbsentBelow == Absent \in Int /\ Absent < 0
  BY DEF Absent

-----------------------------------------------------------------------------
(* The inductive invariant.  Its parts speak of one instance each.           *)

\* The types without their bounds.
Shapes ==
    /\ script \in [Instance -> {"ended", "up", "kill_loop", "kill_client",
                                "delete", "gone"}]
    /\ run \in [Instance -> Nat]
    /\ client \in [Instance -> {"off", "on", "ending"}]
    /\ loop \in [Instance -> {"none", "verify", "ping", "waiting", "sleep", "exited"}]
    /\ age \in [Instance -> {Absent} \cup Nat]
    /\ missed \in [Instance -> Nat]
    /\ since \in [Instance -> Int]
    /\ losses \in Int

LEMMA TypesHaveShapes == TypeOK => Shapes
<1>1. 0..MaxRuns \subseteq Nat /\ 0..MaxLost \subseteq Nat /\ 0..Timeout + 2 \subseteq Int
  BY BoundAssumption, TimeoutPositive
<1>2. {Absent} \cup 0..Timeout + 1 \subseteq {Absent} \cup Nat
  BY TimeoutPositive
<1>3. 0..MaxLost \subseteq Int
  BY BoundAssumption
<1>4. QED
  BY <1>1, <1>2, <1>3 DEF TypeOK, Shapes

\* The reaper has one instance at a time in its hands.
OnePicked == \A i, j \in picked : i = j

\* A script that was started has a run, and so has what it started.
RunCounted(i) ==
    \/ script[i] \in {"up", "kill_loop", "kill_client", "delete"}
    \/ loop[i] # "none"
    => run[i] >= 1

MissedIsLost(i) == missed[i] <= losses

Handled(i) == \E n \in 1..MaxRuns : <<i, n>> \in handling

\* Unless a POST and a removal met or the bucket was replaced, only goroutines that
\* are still to run make the two maps differ, and no entry is older than the timeout.
MapsAgree(i) ==
    /\ i \notin crossed =>
        /\ DelPending(i) => i \notin bucket /\ ~ SetPending(i) /\ ~ Handled(i)
        /\ SetPending(i) => Handled(i) \/ i \in bucket
        /\ Handled(i) => SetPending(i) \/ age[i] = 0
        /\ i \in bucket /\ age[i] = Absent => SetPending(i)
        /\ i \notin bucket /\ age[i] # Absent => Handled(i) \/ DelPending(i)
        /\ age[i] <= Timeout
    /\ Handled(i) => SetPending(i) \/ age[i] \in {0, Absent}

\* What the reaper has passed and could have removed is not stale.
LeftFresh(i) ==
    /\ i \in passed /\ age[i] >= Timeout => i \in picked \/ i \notin bucket \/ SetPending(i)
    /\ i \in bucket /\ ~ SetPending(i) => age[i] <= Timeout

Started(i) == loop[i] \in {"verify", "ping", "waiting", "sleep"} /\ client[i] = "on"

\* The ping of this tick is not through.
Due(i) == loop[i] \in {"ping", "waiting"}

\* The age of a registration is the number of pings that were lost since.
KeptIsYoung(i) == i \in kept /\ Started(i) =>
    /\ age[i] <= missed[i] + 1
    /\ ~ Due(i) => age[i] <= missed[i]
    /\ missed[i] + 1 < Timeout =>
          i \in bucket /\ age[i] # Absent /\ i \notin picked /\ ~ DelPending(i)

\* A container that is gone does nothing, its requests arrive within the tick,
\* and its entry is at least as old as its end.
GoneAges(i) ==
    /\ script[i] # "gone" => since[i] = 0
    /\ script[i] = "gone" =>
        /\ loop[i] = "none"
        /\ \A n \in 1..MaxRuns : <<i, n>> \notin closing
        /\ \A m \in Method, n \in 1..MaxRuns : <<m, i, n>> \in flight => since[i] = 0
        /\ Handled(i) \/ SetPending(i) => since[i] = 0
        /\ age[i] # Absent => since[i] <= age[i] \/ age[i] = Timeout + 1
        /\ i \in rules /\ loaded /\ i \notin crossed => since[i] <= Timeout
        /\ i \in rules /\ i \notin crossed => since[i] <= Timeout + 1

Part(i) == /\ RunCounted(i) /\ MissedIsLost(i) /\ MapsAgree(i) /\ LeftFresh(i)
           /\ KeptIsYoung(i) /\ GoneAges(i)

Inductive == TypeOK /\ OnePicked /\ \A i \in Instance : Part(i)

LEMMA InitInductive == Init => Inductive
<1> SUFFICES ASSUME Init PROVE Inductive
  OBVIOUS
<1>1. TypeOK
  <2>1. 0 \in 0..MaxRuns /\ 0 \in 0..MaxLost /\ 0 \in 0..MaxRestarts /\ 0 \in 0..Timeout + 2
    BY BoundAssumption, TimeoutPositive
  <2>2. age \in [Instance -> {Absent} \cup 0..Timeout + 1]
    BY DEF Init
  <2>3. \A i \in bucket : ~ SetPending(i) => age[i] <= Timeout
    BY DEF Init
  <2>4. QED
    BY <2>1, <2>2, <2>3 DEF Init, TypeOK
<1>2. ASSUME NEW i \in Instance PROVE Part(i)
  <2>1. ~ SetPending(i) /\ ~ DelPending(i) /\ ~ Handled(i)
    BY DEF Init, SetPending, DelPending, Handled
  <2>2. MapsAgree(i) /\ LeftFresh(i)
    BY <2>1, AbsentBelow, TimeoutPositive DEF Init, MapsAgree, LeftFresh
  <2>3. KeptIsYoung(i) /\ GoneAges(i)
    BY <2>1 DEF Init, KeptIsYoung, GoneAges
  <2>4. QED
    BY <2>2, <2>3 DEF Init, Part, RunCounted, MissedIsLost
<1>3. QED
  BY <1>1, <1>2 DEF Inductive, OnePicked, Init

-----------------------------------------------------------------------------
(* What the steps of the server do to the POSTs and goroutines of an instance *)

LEMMA Pending ==
    ASSUME NEW j \in Instance
    PROVE  /\ SetPending(j) <=> \E n \in 1..MaxRuns : <<"Set", j, n>> \in spawned
           /\ DelPending(j) <=> \E n \in 0..MaxRuns : <<"Del", j, n>> \in spawned
  BY DEF SetPending, DelPending, SetOf, DelOf

LEMMA PendingNext ==
    ASSUME NEW j \in Instance
    PROVE  /\ SetPending(j)' <=> \E n \in 1..MaxRuns : <<"Set", j, n>> \in spawned'
           /\ DelPending(j)' <=> \E n \in 0..MaxRuns : <<"Del", j, n>> \in spawned'
  BY DEF SetPending, DelPending, SetOf, DelOf

\* Steps that leave the goroutines or the handled POSTs alone.
LEMMA SpawnedSame ==
    ASSUME NEW j \in Instance, spawned' = spawned
    PROVE  (SetPending(j)' <=> SetPending(j)) /\ (DelPending(j)' <=> DelPending(j))
  BY DEF SetPending, DelPending, SetOf, DelOf

LEMMA HandledSame ==
    ASSUME NEW j \in Instance, handling' = handling
    PROVE  Handled(j)' <=> Handled(j)
  BY DEF Handled

LEMMA PostEffect ==
    ASSUME NEW i \in Instance, NEW n \in 1..MaxRuns, PostArrives(i, n), NEW j \in Instance
    PROVE  /\ DelPending(j)' <=> DelPending(j)
           /\ SetPending(i)' /\ Handled(i)'
           /\ i # j => (SetPending(j)' <=> SetPending(j)) /\ (Handled(j)' <=> Handled(j))
<1>1. spawned' = spawned \cup {<<"Set", i, n>>} /\ handling' = handling \cup {<<i, n>>}
  BY DEF PostArrives
<1>2. DelPending(j)' <=> DelPending(j)
  BY <1>1, Pending, PendingNext
<1>3. SetPending(i)' /\ Handled(i)'
  BY <1>1, PendingNext DEF Handled
<1>4. ASSUME i # j PROVE (SetPending(j)' <=> SetPending(j)) /\ (Handled(j)' <=> Handled(j))
  BY <1>1, <1>4, Pending, PendingNext DEF Handled
<1>5. QED
  BY <1>2, <1>3, <1>4

LEMMA AddEffect ==
    ASSUME NEW i \in Instance, NEW n \in 1..MaxRuns, AddInstance(i, n), NEW j \in Instance
    PROVE  /\ (SetPending(j)' <=> SetPending(j)) /\ (DelPending(j)' <=> DelPending(j))
           /\ Handled(i)
           /\ Handled(j)' => Handled(j)
           /\ i # j => (Handled(j)' <=> Handled(j))
<1>1. handling' = handling \ {<<i, n>>} /\ spawned' = spawned /\ <<i, n>> \in handling
  BY DEF AddInstance
<1>2. (SetPending(j)' <=> SetPending(j)) /\ (DelPending(j)' <=> DelPending(j))
  BY <1>1, SpawnedSame
<1>3. QED
  BY <1>1, <1>2 DEF Handled

\* What a POST leaves of the bucket: it and what was there, or what is lost is
\* crossed.
LEMMA AddStores ==
    ASSUME NEW i \in Instance, NEW n \in 1..MaxRuns, AddInstance(i, n), NEW j \in Instance
    PROVE  \/ j \notin bucket' /\ j \notin kept' /\ j \in crossed'
           \/ /\ j \in bucket' <=> j \in bucket \cup {i}
              /\ i # j => (j \in kept' => j \in kept) /\ (j \in crossed' <=> j \in crossed)
              /\ i = j /\ j \notin kept' => (j \in crossed => j \in crossed')
              /\ i = j /\ j \in kept' => Clean(i) /\ age[i] = 0
<1>1. PICK way \in Ways(i, n) :
         /\ bucket' = Stored(i, way)
         /\ IF Clean(i) /\ age[i] = 0 /\ i \notin (bucket \cup {i}) \ Stored(i, way)
            THEN /\ kept' = (kept \ ((bucket \cup {i}) \ Stored(i, way))) \cup {i}
                 /\ crossed' = (crossed \cup ((bucket \cup {i}) \ Stored(i, way))) \ {i}
            ELSE /\ kept' = kept \ (((bucket \cup {i}) \ Stored(i, way)) \cup {i})
                 /\ crossed' = crossed \cup ((bucket \cup {i}) \ Stored(i, way))
  BY DEF AddInstance
<1>2. bucket' \subseteq bucket \cup {i} /\ (j \in bucket' => j \in bucket \cup {i})
  <2>1. way \in {"found", "missed", "replaced"}
    BY DEF Ways
  <2>2. QED
    BY <1>1, <2>1 DEF Stored
<1>3. CASE j \in (bucket \cup {i}) \ bucket'
  <2>1. i = j => i \in (bucket \cup {i}) \ Stored(i, way)
    BY <1>1, <1>3
  <2>2. QED
    BY <1>1, <1>3, <2>1
<1>4. CASE j \notin (bucket \cup {i}) \ bucket'
  BY <1>1, <1>2, <1>4
<1>5. QED
  BY <1>3, <1>4

LEMMA SetEffect ==
    ASSUME NEW i \in Instance, NEW n \in 1..MaxRuns, RunSet(i, n), NEW j \in Instance
    PROVE  /\ DelPending(j)' <=> DelPending(j)
           /\ Handled(j)' <=> Handled(j)
           /\ SetPending(i)
           /\ SetPending(j)' => SetPending(j)
           /\ i # j => (SetPending(j)' <=> SetPending(j))
<1>1. /\ spawned' = spawned \ {<<"Set", i, n>>} /\ <<"Set", i, n>> \in spawned
      /\ handling' = handling
  BY DEF RunSet
<1>2. DelPending(j)' <=> DelPending(j)
  BY <1>1, Pending, PendingNext
<1>3. SetPending(i) /\ (SetPending(j)' => SetPending(j))
  BY <1>1, Pending, PendingNext
<1>4. ASSUME i # j PROVE SetPending(j)' <=> SetPending(j)
  BY <1>1, <1>4, Pending, PendingNext
<1>5. QED
  BY <1>1, <1>2, <1>3, <1>4, HandledSame

LEMMA DelEffect ==
    ASSUME NEW i \in Instance, NEW n \in 0..MaxRuns, RunDel(i, n), NEW j \in Instance
    PROVE  /\ SetPending(j)' <=> SetPending(j)
           /\ Handled(j)' <=> Handled(j)
           /\ DelPending(i)
           /\ DelPending(j)' => DelPending(j)
           /\ i # j => (DelPending(j)' <=> DelPending(j))
<1>1. /\ spawned' = spawned \ {<<"Del", i, n>>} /\ <<"Del", i, n>> \in spawned
      /\ handling' = handling
  BY DEF RunDel
<1>2. SetPending(j)' <=> SetPending(j)
  BY <1>1, Pending, PendingNext
<1>3. DelPending(i) /\ (DelPending(j)' => DelPending(j))
  BY <1>1, Pending, PendingNext
<1>4. ASSUME i # j PROVE DelPending(j)' <=> DelPending(j)
  BY <1>1, <1>4, Pending, PendingNext
<1>5. QED
  BY <1>1, <1>2, <1>3, <1>4, HandledSame

LEMMA TakeOutEffect ==
    ASSUME NEW i \in Instance, NEW n \in 0..MaxRuns, TakeOut(i, n), handling' = handling,
           NEW j \in Instance
    PROVE  /\ SetPending(j)' <=> SetPending(j)
           /\ Handled(j)' <=> Handled(j)
           /\ DelPending(i)'
           /\ i # j => (DelPending(j)' <=> DelPending(j))
           /\ SetPending(i) \/ Handled(i) => i \in crossed'
           /\ crossed \subseteq crossed' /\ (j \in crossed' => j \in crossed \/ j = i)
<1>1. spawned' = spawned \cup {<<"Del", i, n>>}
  BY DEF TakeOut
<1>2. SetPending(j)' <=> SetPending(j)
  BY <1>1, Pending, PendingNext
<1>3. DelPending(i)'
  BY <1>1, PendingNext
<1>4. ASSUME i # j PROVE DelPending(j)' <=> DelPending(j)
  BY <1>1, <1>4, Pending, PendingNext
<1>5. /\ SetPending(i) \/ Handled(i) => i \in crossed'
      /\ crossed \subseteq crossed' /\ (j \in crossed' => j \in crossed \/ j = i)
  BY DEF TakeOut, Underway, Handled
<1>6. QED
  BY <1>2, <1>3, <1>4, <1>5, HandledSame

LEMMA TakeFromOldEffect ==
    ASSUME NEW i \in Instance, NEW n \in 0..MaxRuns, TakeFromOld(i, n),
           handling' = handling, NEW j \in Instance
    PROVE  /\ SetPending(j)' <=> SetPending(j)
           /\ Handled(j)' <=> Handled(j)
           /\ i # j => (DelPending(j)' <=> DelPending(j))
           /\ i \in crossed'
           /\ bucket' = bucket
           /\ crossed \subseteq crossed' /\ (j \in crossed' => j \in crossed \/ j = i)
<1>1. spawned' = spawned \cup {<<"Del", i, n>>}
  BY DEF TakeFromOld
<1>2. SetPending(j)' <=> SetPending(j)
  BY <1>1, Pending, PendingNext
<1>3. ASSUME i # j PROVE DelPending(j)' <=> DelPending(j)
  BY <1>1, <1>3, Pending, PendingNext
<1>4. QED
  BY <1>2, <1>3, HandledSame DEF TakeFromOld

\* Nothing is pending at a tick or after a restart.
LEMMA NothingPending ==
    ASSUME NEW j \in Instance
    PROVE  /\ spawned = {} => ~ SetPending(j) /\ ~ DelPending(j)
           /\ spawned' = {} => ~ SetPending(j)' /\ ~ DelPending(j)'
           /\ handling = {} => ~ Handled(j)
           /\ handling' = {} => ~ Handled(j)'
  BY DEF SetPending, DelPending, Handled

-----------------------------------------------------------------------------
(* Every step keeps each part                                                *)

\* Most steps leave the registry alone.
registry == <<bucket, age, work, reaper>>

LEMMA RegistrySteps ==
    ASSUME [Next]_vars
    PROVE  \/ UNCHANGED registry
           \/ ServerRestarts \/ Tick
           \/ \E i \in Instance : ReaperLooks(i) \/ ReaperRemoves(i)
           \/ \E i \in Instance, n \in 1..MaxRuns :
                 PostArrives(i, n) \/ AddInstance(i, n) \/ RemoveInstance(i, n) \/ RunSet(i, n)
           \/ \E i \in Instance, n \in 0..MaxRuns : RunDel(i, n)
<1>1. ASSUME NEW i \in Instance, Start(i) \/ WebEnds(i) \/ ContainerDies(i)
      PROVE  UNCHANGED registry
  BY <1>1 DEF Start, WebEnds, ContainerDies, server, registry
<1>2. ASSUME NEW i \in Instance, KillLoop(i) \/ KillClient(i) \/ ClientEnds(i) \/ ScriptEnds(i)
      PROVE  UNCHANGED registry
  BY <1>2 DEF KillLoop, KillClient, ClientEnds, ScriptEnds, server, registry
<1>3. ASSUME NEW i \in Instance, Verify(i) \/ VerifyFails(i) \/ SendPing(i) \/ PingFails(i)
      PROVE  UNCHANGED registry
  BY <1>3 DEF Verify, VerifyFails, SendPing, PingFails, server, registry
<1>4. ASSUME NEW i \in Instance, NEW n \in 1..MaxRuns, SendDelete(i, n) \/ DeleteFails(i, n)
      PROVE  UNCHANGED registry
  BY <1>4 DEF SendDelete, DeleteFails, server, registry
<1>5. ASSUME NEW i \in Instance, NEW n \in 1..MaxRuns, NEW m \in Method, Lose(m, i, n)
      PROVE  UNCHANGED registry
  BY <1>5 DEF Lose, server, registry
<1>6. ASSUME LoadRules \/ UNCHANGED vars PROVE UNCHANGED registry
  BY <1>6 DEF LoadRules, vars, server, registry
<1>7. QED
  BY <1>1, <1>2, <1>3, <1>4, <1>5, <1>6
  DEF Next, Environment, Killing, Checking, Polling, Deleting, Delivering, Losing,
      Routines, Reaping

LEMMA RunsFromZero == 1..MaxRuns \subseteq 0..MaxRuns
  BY BoundAssumption

\* What removeInstance and the reaper do to the registry.
Removes(i) == \/ \E n \in 0..MaxRuns : TakeOut(i, n) \/ TakeFromOld(i, n)
              \/ UNCHANGED <<bucket, spawned, crossed>>

LEMMA Removals ==
    ASSUME NEW i \in Instance,
           ReaperRemoves(i) \/ \E n \in 1..MaxRuns : RemoveInstance(i, n)
    PROVE  /\ Removes(i) /\ age' = age /\ handling' = handling /\ passed' = passed
           /\ picked' = picked \/ (picked' = {} /\ i \in picked /\ i \notin bucket')
<1>1. 0 \in 0..MaxRuns
  BY BoundAssumption
<1>2. ASSUME ReaperRemoves(i)
      PROVE  Removes(i) /\ i \notin bucket' /\ UNCHANGED <<age, handling, passed>>
  BY <1>1, <1>2 DEF ReaperRemoves, Removes, TakeOut
<1>3. ASSUME NEW n \in 1..MaxRuns, RemoveInstance(i, n)
      PROVE  Removes(i) /\ UNCHANGED <<age, handling, passed, picked>>
  BY <1>3, RunsFromZero DEF RemoveInstance, Removes, reaper
<1>4. QED
  BY <1>2, <1>3 DEF ReaperRemoves

LEMMA OnePickedKept ==
    ASSUME OnePicked, [Next]_vars
    PROVE  OnePicked'
<1>1. CASE UNCHANGED registry
  BY <1>1 DEF OnePicked, registry, reaper
<1>2. CASE ServerRestarts \/ Tick
  BY <1>2 DEF ServerRestarts, Tick, OnePicked
<1>3. ASSUME NEW i \in Instance, ReaperLooks(i) \/ ReaperRemoves(i) PROVE OnePicked'
  BY <1>3 DEF ReaperLooks, ReaperRemoves, OnePicked
<1>4. ASSUME NEW i \in Instance, NEW n \in 1..MaxRuns,
             PostArrives(i, n) \/ AddInstance(i, n) \/ RemoveInstance(i, n) \/ RunSet(i, n)
      PROVE  OnePicked'
  BY <1>4 DEF PostArrives, AddInstance, RemoveInstance, RunSet, reaper, OnePicked
<1>5. ASSUME NEW i \in Instance, NEW n \in 0..MaxRuns, RunDel(i, n) PROVE OnePicked'
  BY <1>5 DEF RunDel, reaper, OnePicked
<1>6. QED
  BY <1>1, <1>2, <1>3, <1>4, <1>5, RegistrySteps

\* The two maps agree but for what is still to run.
LEMMA MapsAgreeKept ==
    ASSUME Shapes, NEW j \in Instance, MapsAgree(j), LeftFresh(j), [Next]_vars
    PROVE  MapsAgree(j)'
<1> USE AbsentBelow, TimeoutPositive
<1>1. CASE UNCHANGED registry
  <2>1. handling' = handling /\ spawned' = spawned
    BY <1>1 DEF registry, work
  <2>2. QED
    BY <1>1, <2>1, SpawnedSame, HandledSame DEF registry, work, MapsAgree
<1>2. CASE ServerRestarts
  BY <1>2, NothingPending DEF ServerRestarts, MapsAgree
<1>3. CASE Tick
  <2>1. /\ ~ SetPending(j) /\ ~ DelPending(j) /\ ~ Handled(j)
        /\ ~ SetPending(j)' /\ ~ DelPending(j)' /\ ~ Handled(j)'
    BY <1>3, NothingPending DEF Tick, work
  <2>2. bucket' = bucket /\ crossed' = crossed /\ age'[j] = Older(age[j])
    BY <1>3 DEF Tick, work
  <2>3. j \in bucket => age[j] < Timeout
    BY <1>3, <2>1 DEF Tick, LeftFresh, Shapes
  <2>4. (age'[j] = Absent <=> age[j] = Absent) /\ (age[j] < Timeout => age'[j] <= Timeout)
    BY <2>2 DEF Older, Shapes
  <2>5. QED
    BY <2>1, <2>2, <2>3, <2>4 DEF MapsAgree, Shapes
<1>4. ASSUME NEW i \in Instance, ReaperLooks(i) PROVE MapsAgree(j)'
  <2>1. handling' = handling /\ spawned' = spawned /\ bucket' = bucket /\ age' = age
        /\ crossed' = crossed
    BY <1>4 DEF ReaperLooks, work
  <2>2. QED
    BY <2>1, SpawnedSame, HandledSame DEF MapsAgree
<1>5. ASSUME NEW i \in Instance, Removes(i), age' = age, handling' = handling
      PROVE  MapsAgree(j)'
  <2>1. ASSUME NEW n \in 0..MaxRuns, TakeOut(i, n) PROVE MapsAgree(j)'
    <3>1. bucket' = bucket \ {i}
      BY <2>1 DEF TakeOut
    <3>2. CASE i = j
      BY <1>5, <2>1, <3>1, <3>2, TakeOutEffect DEF MapsAgree
    <3>3. CASE i # j
      BY <1>5, <2>1, <3>1, <3>3, TakeOutEffect DEF MapsAgree
    <3>4. QED
      BY <3>2, <3>3
  <2>2. CASE UNCHANGED <<bucket, spawned, crossed>>
    BY <1>5, <2>2, SpawnedSame, HandledSame DEF MapsAgree
  <2>3. ASSUME NEW n \in 0..MaxRuns, TakeFromOld(i, n) PROVE MapsAgree(j)'
    BY <1>5, <2>3, TakeFromOldEffect DEF MapsAgree
  <2>4. QED
    BY <1>5, <2>1, <2>2, <2>3 DEF Removes
<1>6. ASSUME NEW i \in Instance, NEW n \in 1..MaxRuns, PostArrives(i, n)
      PROVE  MapsAgree(j)'
  <2>1. /\ bucket' = bucket /\ age' = age
        /\ crossed' = IF DelPending(i) THEN crossed \cup {i} ELSE crossed
    BY <1>6 DEF PostArrives
  <2>2. CASE i = j
    BY <1>6, <2>1, <2>2, PostEffect DEF MapsAgree
  <2>3. CASE i # j
    BY <1>6, <2>1, <2>3, PostEffect DEF MapsAgree
  <2>4. QED
    BY <2>2, <2>3
<1>7. ASSUME NEW i \in Instance, NEW n \in 1..MaxRuns, AddInstance(i, n)
      PROVE  MapsAgree(j)'
  <2>1. age' = age
    BY <1>7 DEF AddInstance
  <2>2. CASE i = j
    BY <1>7, <2>1, <2>2, AddEffect, AddStores DEF MapsAgree, Clean
  <2>3. CASE i # j
    BY <1>7, <2>1, <2>3, AddEffect, AddStores DEF MapsAgree
  <2>4. QED
    BY <2>2, <2>3
<1>8. ASSUME NEW i \in Instance, NEW n \in 1..MaxRuns, RunSet(i, n)
      PROVE  MapsAgree(j)'
  <2>1. /\ bucket' = bucket
        /\ crossed' = IF Clean(i) /\ i \in bucket THEN crossed \ {i} ELSE crossed
        /\ age' = [age EXCEPT ![i] = 0]
    BY <1>8 DEF RunSet
  <2>2. CASE i = j
    <3>1. age'[j] = 0
      BY <2>1, <2>2 DEF Shapes
    <3>2. QED
      BY <1>8, <2>1, <2>2, <3>1, SetEffect DEF MapsAgree, Clean
  <2>3. CASE i # j
    <3>1. age'[j] = age[j]
      BY <2>1, <2>3 DEF Shapes
    <3>2. QED
      BY <1>8, <2>1, <2>3, <3>1, SetEffect DEF MapsAgree
  <2>4. QED
    BY <2>2, <2>3
<1>9. ASSUME NEW i \in Instance, NEW n \in 0..MaxRuns, RunDel(i, n)
      PROVE  MapsAgree(j)'
  <2>1. bucket' = bucket /\ crossed' = crossed /\ age' = [age EXCEPT ![i] = Absent]
    BY <1>9 DEF RunDel
  <2>2. CASE i = j
    <3>1. age'[j] = Absent
      BY <2>1, <2>2 DEF Shapes
    <3>2. QED
      BY <1>9, <2>1, <2>2, <3>1, DelEffect DEF MapsAgree
  <2>3. CASE i # j
    <3>1. age'[j] = age[j]
      BY <2>1, <2>3 DEF Shapes
    <3>2. QED
      BY <1>9, <2>1, <2>3, <3>1, DelEffect DEF MapsAgree
  <2>4. QED
    BY <2>2, <2>3
<1>10. QED
  BY <1>1, <1>2, <1>3, <1>4, <1>5, <1>6, <1>7, <1>8, <1>9, RegistrySteps, Removals

\* The reaper leaves nothing stale that it could remove.
LEMMA LeftFreshKept ==
    ASSUME Shapes, OnePicked, NEW j \in Instance, MapsAgree(j), LeftFresh(j), [Next]_vars
    PROVE  LeftFresh(j)'
<1> USE AbsentBelow, TimeoutPositive
<1>1. CASE UNCHANGED registry
  <2>1. spawned' = spawned
    BY <1>1 DEF registry, work
  <2>2. QED
    BY <1>1, <2>1, SpawnedSame DEF registry, work, reaper, LeftFresh
<1>2. CASE ServerRestarts
  BY <1>2 DEF ServerRestarts, LeftFresh
<1>3. CASE Tick
  <2>1. ~ SetPending(j) /\ passed' = {} /\ bucket' = bucket /\ age'[j] = Older(age[j])
    BY <1>3, NothingPending DEF Tick
  <2>2. j \in bucket => age[j] < Timeout
    BY <1>3, <2>1 DEF Tick, LeftFresh, Shapes
  <2>3. QED
    BY <2>1, <2>2 DEF LeftFresh, Older, Shapes
<1>4. ASSUME NEW i \in Instance, ReaperLooks(i) PROVE LeftFresh(j)'
  <2>1. spawned' = spawned /\ bucket' = bucket /\ age' = age /\ passed' = passed \cup {i}
        /\ picked = {} /\ picked' = IF age[i] >= Timeout THEN {i} ELSE {}
    BY <1>4 DEF ReaperLooks, Stale, work
  <2>2. QED
    BY <2>1, SpawnedSame DEF LeftFresh
<1>5. ASSUME NEW i \in Instance, Removes(i), age' = age, handling' = handling,
             passed' = passed,
             picked' = picked \/ (picked' = {} /\ i \in picked /\ i \notin bucket')
      PROVE  LeftFresh(j)'
  <2>1. bucket' \subseteq bucket /\ (SetPending(j)' <=> SetPending(j))
    <3>1. ASSUME NEW n \in 0..MaxRuns, TakeOut(i, n)
          PROVE  bucket' = bucket \ {i} /\ (SetPending(j)' <=> SetPending(j))
      BY <1>5, <3>1, TakeOutEffect DEF TakeOut
    <3>2. ASSUME NEW n \in 0..MaxRuns, TakeFromOld(i, n)
          PROVE  bucket' = bucket /\ (SetPending(j)' <=> SetPending(j))
      BY <1>5, <3>2, TakeFromOldEffect
    <3>3. QED
      BY <1>5, <3>1, <3>2, SpawnedSame DEF Removes
  <2>2. j \in picked => j \in picked' \/ (j = i /\ i \notin bucket')
    BY <1>5 DEF OnePicked
  <2>3. QED
    BY <1>5, <2>1, <2>2 DEF LeftFresh
<1>6. ASSUME NEW i \in Instance, NEW n \in 1..MaxRuns, PostArrives(i, n)
      PROVE  LeftFresh(j)'
  <2>1. bucket' = bucket /\ age' = age /\ passed' = passed /\ picked' = picked
    BY <1>6 DEF PostArrives, reaper
  <2>2. SetPending(j) => SetPending(j)'
    BY <1>6, PostEffect
  <2>3. QED
    BY <2>1, <2>2 DEF LeftFresh
<1>7. ASSUME NEW i \in Instance, NEW n \in 1..MaxRuns, AddInstance(i, n)
      PROVE  LeftFresh(j)'
  <2>1. /\ j \in bucket' => j \in bucket \cup {i}
        /\ age' = age /\ passed' = passed /\ picked' = picked
    BY <1>7, AddStores DEF AddInstance, reaper
  <2>2. i = j => SetPending(j) \/ age[j] \in {0, Absent}
    BY <1>7, AddEffect DEF MapsAgree
  <2>3. SetPending(j)' <=> SetPending(j)
    BY <1>7, AddEffect
  <2>4. QED
    BY <2>1, <2>2, <2>3 DEF LeftFresh, Shapes
<1>8. ASSUME NEW i \in Instance, NEW n \in 1..MaxRuns, RunSet(i, n)
      PROVE  LeftFresh(j)'
  <2>1. bucket' = bucket /\ passed' = passed /\ picked' = picked
    BY <1>8 DEF RunSet, reaper
  <2>2. age'[j] = IF i = j THEN 0 ELSE age[j]
    BY <1>8 DEF RunSet, Shapes
  <2>3. i # j => (SetPending(j)' <=> SetPending(j))
    BY <1>8, SetEffect
  <2>4. QED
    BY <2>1, <2>2, <2>3 DEF LeftFresh
<1>9. ASSUME NEW i \in Instance, NEW n \in 0..MaxRuns, RunDel(i, n)
      PROVE  LeftFresh(j)'
  <2>1. bucket' = bucket /\ passed' = passed /\ picked' = picked
    BY <1>9 DEF RunDel, reaper
  <2>2. age'[j] = IF i = j THEN Absent ELSE age[j]
    BY <1>9 DEF RunDel, Shapes
  <2>3. SetPending(j)' <=> SetPending(j)
    BY <1>9, DelEffect
  <2>4. QED
    BY <2>1, <2>2, <2>3 DEF LeftFresh
<1>10. QED
  BY <1>1, <1>2, <1>3, <1>4, <1>5, <1>6, <1>7, <1>8, <1>9, RegistrySteps, Removals

\* Runs are counted.
LEMMA RunCountedKept ==
    ASSUME Shapes, NEW j \in Instance, RunCounted(j), [Next]_vars
    PROVE  RunCounted(j)'
<1>1. ASSUME NEW i \in Instance, Start(i) \/ WebEnds(i) \/ ContainerDies(i)
      PROVE  RunCounted(j)'
  BY <1>1 DEF Start, WebEnds, ContainerDies, Shapes, RunCounted
<1>2. ASSUME NEW i \in Instance, KillLoop(i) \/ KillClient(i) \/ ClientEnds(i) \/ ScriptEnds(i)
      PROVE  RunCounted(j)'
  BY <1>2 DEF KillLoop, KillClient, ClientEnds, ScriptEnds, Shapes, RunCounted
<1>3. ASSUME NEW i \in Instance, Verify(i) \/ VerifyFails(i) \/ SendPing(i) \/ PingFails(i)
      PROVE  RunCounted(j)'
  BY <1>3 DEF Verify, VerifyFails, SendPing, PingFails, Pause, Shapes, RunCounted
<1>4. ASSUME NEW i \in Instance, NEW n \in 1..MaxRuns,
             \/ SendDelete(i, n) \/ DeleteFails(i, n) \/ PostArrives(i, n)
             \/ RemoveInstance(i, n) \/ RunSet(i, n)
      PROVE  RunCounted(j)'
  BY <1>4 DEF SendDelete, DeleteFails, PostArrives, RemoveInstance, RunSet, sidecar, RunCounted
<1>5. ASSUME NEW i \in Instance, NEW n \in 1..MaxRuns, NEW m \in Method, Lose(m, i, n)
      PROVE  RunCounted(j)'
  BY <1>5 DEF Lose, AfterPing, Pause, Shapes, RunCounted
<1>6. ASSUME NEW i \in Instance, NEW n \in 1..MaxRuns, AddInstance(i, n)
      PROVE  RunCounted(j)'
  BY <1>6 DEF AddInstance, AfterPing, Pause, Shapes, RunCounted
<1>7. ASSUME NEW i \in Instance, ReaperLooks(i) \/ ReaperRemoves(i)
      PROVE  RunCounted(j)'
  BY <1>7 DEF ReaperLooks, ReaperRemoves, sidecar, RunCounted
<1>8. CASE ServerRestarts
  <2>1. script' = script /\ run' = run /\ (loop[j] = "none" => loop'[j] = "none")
    BY <1>8 DEF ServerRestarts, AfterPing
  <2>2. QED
    BY <2>1 DEF RunCounted
<1>9. CASE Tick
  BY <1>9 DEF Tick, RunCounted
<1>10. CASE LoadRules \/ UNCHANGED vars
  BY <1>10 DEF LoadRules, vars, sidecar, RunCounted
<1>11. ASSUME NEW i \in Instance, NEW n \in 0..MaxRuns, RunDel(i, n)
      PROVE  RunCounted(j)'
  BY <1>11 DEF RunDel, sidecar, RunCounted
<1>12. QED
  BY <1>1, <1>2, <1>3, <1>4, <1>5, <1>6, <1>7, <1>8, <1>9, <1>10, <1>11
  DEF Next, Environment, Killing, Checking, Polling, Deleting, Delivering, Losing,
      Routines, Reaping

\* No instance has missed more pings than requests were lost.
LEMMA MissedIsLostKept ==
    ASSUME Shapes, losses >= 0, NEW j \in Instance, MissedIsLost(j), [Next]_vars
    PROVE  MissedIsLost(j)'
<1>1. ASSUME NEW i \in Instance, Start(i) \/ WebEnds(i) \/ ContainerDies(i)
      PROVE  MissedIsLost(j)'
  BY <1>1 DEF Start, WebEnds, ContainerDies, budget, Shapes, MissedIsLost
<1>2. ASSUME NEW i \in Instance, KillLoop(i) \/ KillClient(i) \/ ClientEnds(i) \/ ScriptEnds(i)
      PROVE  MissedIsLost(j)'
  BY <1>2 DEF KillLoop, KillClient, ClientEnds, ScriptEnds, budget, MissedIsLost
<1>3. ASSUME NEW i \in Instance, Verify(i) \/ VerifyFails(i) \/ SendPing(i) \/ PingFails(i)
      PROVE  MissedIsLost(j)'
  BY <1>3 DEF Verify, VerifyFails, SendPing, PingFails, budget, Shapes, MissedIsLost
<1>4. ASSUME NEW i \in Instance, NEW n \in 1..MaxRuns,
             \/ SendDelete(i, n) \/ DeleteFails(i, n) \/ PostArrives(i, n)
             \/ RemoveInstance(i, n) \/ RunSet(i, n)
      PROVE  MissedIsLost(j)'
  BY <1>4 DEF SendDelete, DeleteFails, PostArrives, RemoveInstance, RunSet, budget,
     MissedIsLost
<1>5. ASSUME NEW i \in Instance, NEW n \in 1..MaxRuns, AddInstance(i, n)
      PROVE  MissedIsLost(j)'
  BY <1>5 DEF AddInstance, budget, Shapes, MissedIsLost
<1>6. ASSUME NEW i \in Instance, NEW n \in 1..MaxRuns, NEW m \in Method, Lose(m, i, n)
      PROVE  MissedIsLost(j)'
  BY <1>6 DEF Lose, Shapes, MissedIsLost
<1>7. ASSUME NEW i \in Instance, ReaperLooks(i) \/ ReaperRemoves(i)
      PROVE  MissedIsLost(j)'
  BY <1>7 DEF ReaperLooks, ReaperRemoves, budget, MissedIsLost
<1>8. CASE ServerRestarts \/ Tick \/ LoadRules \/ UNCHANGED vars
  BY <1>8 DEF ServerRestarts, Tick, LoadRules, vars, budget, MissedIsLost
<1>9. ASSUME NEW i \in Instance, NEW n \in 0..MaxRuns, RunDel(i, n)
      PROVE  MissedIsLost(j)'
  BY <1>9 DEF RunDel, budget, MissedIsLost
<1>10. QED
  BY <1>1, <1>2, <1>3, <1>4, <1>5, <1>6, <1>7, <1>8, <1>9
  DEF Next, Environment, Killing, Checking, Polling, Deleting, Delivering, Losing,
      Routines, Reaping

\* A step of the sidecar alone.
LEMMA KeptIsYoungFrame ==
    ASSUME NEW j \in Instance, KeptIsYoung(j),
           UNCHANGED <<bucket, age, spawned, picked, missed>>, kept' \subseteq kept,
           j \in kept' /\ Started(j)' => Started(j) /\ (Due(j) => Due(j)')
    PROVE  KeptIsYoung(j)'
  BY SpawnedSame DEF KeptIsYoung

\* A registration that nothing undid is renewed in time.
LEMMA KeptIsYoungKept ==
    ASSUME Shapes, NEW j \in Instance, KeptIsYoung(j), [Next]_vars
    PROVE  KeptIsYoung(j)'
<1> USE AbsentBelow, TimeoutPositive
<1>1. ASSUME NEW i \in Instance, Start(i) \/ WebEnds(i) \/ ContainerDies(i)
      PROVE  KeptIsYoung(j)'
  <2>1. CASE Start(i)
    BY <2>1, SpawnedSame DEF Start, server, work, reaper, Shapes, KeptIsYoung, Started, Due
  <2>2. CASE WebEnds(i)
    BY <2>2, KeptIsYoungFrame DEF WebEnds, server, work, reaper, Started, Due
  <2>3. CASE ContainerDies(i)
    BY <2>3, KeptIsYoungFrame DEF ContainerDies, server, work, reaper, Shapes, Started, Due
  <2>4. QED
    BY <1>1, <2>1, <2>2, <2>3
<1>2. ASSUME NEW i \in Instance, KillLoop(i) \/ KillClient(i) \/ ClientEnds(i) \/ ScriptEnds(i)
      PROVE  KeptIsYoung(j)'
  BY <1>2, KeptIsYoungFrame
  DEF KillLoop, KillClient, ClientEnds, ScriptEnds, server, work, reaper, Shapes,
      Started, Due
<1>3. ASSUME NEW i \in Instance, Verify(i) \/ VerifyFails(i) \/ SendPing(i) \/ PingFails(i)
      PROVE  KeptIsYoung(j)'
  BY <1>3, KeptIsYoungFrame
  DEF Verify, VerifyFails, SendPing, PingFails, Pause, server, work, reaper, Shapes,
      Started, Due
<1>4. ASSUME NEW i \in Instance, NEW n \in 1..MaxRuns, SendDelete(i, n) \/ DeleteFails(i, n)
      PROVE  KeptIsYoung(j)'
  BY <1>4, KeptIsYoungFrame
  DEF SendDelete, DeleteFails, server, work, reaper, Started, Due
<1>5. ASSUME NEW i \in Instance, NEW n \in 1..MaxRuns, NEW m \in Method, Lose(m, i, n)
      PROVE  KeptIsYoung(j)'
  <2>1. UNCHANGED <<bucket, age, spawned, picked, kept, client>>
    BY <1>5 DEF Lose, server, work, reaper
  <2>2. \/ loop'[j] = loop[j] /\ missed'[j] = missed[j]
        \/ loop[j] = "waiting" /\ loop'[j] = "sleep" /\ missed'[j] = missed[j] + 1
        \/ loop'[j] = loop[j] /\ missed'[j] = missed[j] + 1
    BY <1>5 DEF Lose, AfterPing, Pause, Shapes
  <2>3. QED
    BY <2>1, <2>2, SpawnedSame DEF Shapes, KeptIsYoung, Started, Due
<1>6. ASSUME NEW i \in Instance, NEW n \in 1..MaxRuns, PostArrives(i, n)
      PROVE  KeptIsYoung(j)'
  BY <1>6, PostEffect DEF PostArrives, sidecar, reaper, KeptIsYoung, Started, Due
<1>7. ASSUME NEW i \in Instance, NEW n \in 1..MaxRuns, AddInstance(i, n)
      PROVE  KeptIsYoung(j)'
  <2>1. /\ age' = age /\ picked' = picked /\ client' = client
        /\ DelPending(j)' <=> DelPending(j)
        /\ j \in kept' => (j \in bucket' <=> j \in bucket \cup {i})
    BY <1>7, AddEffect, AddStores DEF AddInstance, reaper
  <2>2. CASE i = j
    <3>1. j \in kept' => j \notin picked /\ ~ DelPending(j) /\ age[j] = 0
      BY <1>7, <2>2, AddStores DEF Clean
    <3>2. missed'[j] \in Nat
      BY <1>7 DEF AddInstance, Shapes
    <3>3. QED
      BY <2>1, <2>2, <3>1, <3>2 DEF KeptIsYoung
  <2>3. CASE i # j
    <3>1. loop'[j] = loop[j] /\ missed'[j] = missed[j] /\ (j \in kept' => j \in kept)
      BY <1>7, <2>3, AddStores DEF AddInstance, AfterPing, Pause, Shapes
    <3>2. QED
      BY <2>1, <2>3, <3>1 DEF KeptIsYoung, Started, Due
  <2>4. QED
    BY <2>2, <2>3
<1>8. ASSUME NEW i \in Instance, NEW n \in 1..MaxRuns, RunSet(i, n)
      PROVE  KeptIsYoung(j)'
  <2>1. /\ UNCHANGED <<bucket, picked, client, loop, missed>>
        /\ DelPending(j)' <=> DelPending(j)
        /\ age'[j] = IF i = j THEN 0 ELSE age[j]
    BY <1>8, SetEffect DEF RunSet, reaper, sidecar, Shapes
  <2>2. \/ j \in kept' => j \in kept
        \/ j = i /\ j \notin picked /\ ~ DelPending(j) /\ j \in bucket
    BY <1>8 DEF RunSet, Clean
  <2>3. missed[j] \in Nat
    BY DEF Shapes
  <2>4. QED
    BY <2>1, <2>2, <2>3 DEF KeptIsYoung, Started, Due
<1>9. ASSUME NEW i \in Instance, NEW n \in 0..MaxRuns, RunDel(i, n)
      PROVE  KeptIsYoung(j)'
  <2>1. /\ UNCHANGED <<bucket, picked, client, loop, missed, kept>>
        /\ DelPending(j)' => DelPending(j)
        /\ i = j => DelPending(j)
        /\ age'[j] = IF i = j THEN Absent ELSE age[j]
    BY <1>9, DelEffect DEF RunDel, reaper, sidecar, Shapes
  <2>2. missed[j] \in Nat
    BY DEF Shapes
  <2>3. QED
    BY <2>1, <2>2 DEF KeptIsYoung, Started, Due
<1>10. ASSUME NEW i \in Instance, NEW n \in 1..MaxRuns, RemoveInstance(i, n)
       PROVE  KeptIsYoung(j)'
  <2>1. UNCHANGED <<age, picked, client, loop, missed>> /\ handling' = handling
    BY <1>10 DEF RemoveInstance, reaper, sidecar
  <2>2. CASE (TakeOut(i, n) \/ TakeFromOld(i, n)) /\ kept' = kept \ {i}
    <3>1. i # j => (j \in bucket' <=> j \in bucket)
      BY <2>2 DEF TakeOut, TakeFromOld
    <3>2. i # j => (DelPending(j)' <=> DelPending(j))
      BY <2>1, <2>2, RunsFromZero, TakeOutEffect, TakeFromOldEffect
    <3>3. QED
      BY <2>1, <2>2, <3>1, <3>2 DEF KeptIsYoung, Started, Due
  <2>3. CASE UNCHANGED <<bucket, spawned, kept>>
    BY <2>1, <2>3, KeptIsYoungFrame DEF Started, Due
  <2>4. QED
    BY <1>10, <2>2, <2>3 DEF RemoveInstance
<1>11. ASSUME NEW i \in Instance, ReaperLooks(i)
       PROVE  KeptIsYoung(j)'
  <2>1. /\ UNCHANGED <<bucket, age, spawned, client, loop, missed, kept>>
        /\ j \in picked' => j = i /\ age[i] >= Timeout
    BY <1>11 DEF ReaperLooks, Stale, work, sidecar
  <2>2. age[j] \in Int /\ missed[j] \in Nat
    BY DEF Shapes
  <2>3. QED
    BY <2>1, <2>2, SpawnedSame DEF KeptIsYoung, Started, Due
<1>12. ASSUME NEW i \in Instance, ReaperRemoves(i)
       PROVE  KeptIsYoung(j)'
  <2>1. UNCHANGED <<age, client, loop, missed, kept, handling>> /\ i \in picked /\ picked' = {}
    BY <1>12 DEF ReaperRemoves, sidecar
  <2>2. CASE i \in bucket
    <3>1. TakeOut(i, 0) /\ bucket' = bucket \ {i} /\ 0 \in 0..MaxRuns
      BY <1>12, <2>2, BoundAssumption DEF ReaperRemoves, TakeOut
    <3>2. i # j => (DelPending(j)' <=> DelPending(j))
      BY <2>1, <3>1, TakeOutEffect
    <3>3. QED
      BY <2>1, <3>1, <3>2 DEF KeptIsYoung, Started, Due
  <2>3. CASE i \notin bucket
    <3>1. UNCHANGED <<bucket, spawned>>
      BY <1>12, <2>3 DEF ReaperRemoves
    <3>2. QED
      BY <2>1, <3>1, SpawnedSame DEF KeptIsYoung, Started, Due
  <2>4. QED
    BY <2>2, <2>3
<1>13. CASE ServerRestarts
  BY <1>13 DEF ServerRestarts, KeptIsYoung
<1>14. CASE Tick
  <2>1. loop[j] \in {"none", "sleep", "exited"}
    BY <1>14 DEF Tick, AtRest
  <2>2. loop'[j] = IF loop[j] = "sleep" THEN "ping" ELSE loop[j]
    BY <1>14 DEF Tick
  <2>3. /\ age'[j] <= age[j] + 1 /\ (age'[j] = Absent => age[j] = Absent)
        /\ age[j] \in Int /\ age'[j] \in Int /\ missed[j] \in Nat
    BY <1>14 DEF Tick, Older, Shapes
  <2>4. UNCHANGED <<bucket, kept, missed, picked, spawned, client>>
    BY <1>14 DEF Tick, work
  <2>5. QED
    BY <2>1, <2>2, <2>3, <2>4, SpawnedSame DEF KeptIsYoung, Started, Due
<1>15. CASE LoadRules \/ UNCHANGED vars
  BY <1>15, KeptIsYoungFrame
  DEF LoadRules, vars, server, sidecar, work, reaper, Started, Due
<1>16. QED
  BY <1>1, <1>2, <1>3, <1>4, <1>5, <1>6, <1>7, <1>8, <1>9, <1>10, <1>11, <1>12,
     <1>13, <1>14, <1>15
  DEF Next, Environment, Killing, Checking, Polling, Deleting, Delivering, Losing,
      Routines, Reaping

\* A step of the sidecar alone.
LEMMA GoneAgesFrame ==
    ASSUME NEW j \in Instance, GoneAges(j),
           UNCHANGED <<age, handling, spawned, crossed, rules, loaded, since>>,
           /\ script[j] = "gone" <=> script'[j] = "gone"
           /\ loop[j] = "none" => loop'[j] = "none"
           /\ \A n \in 1..MaxRuns : <<j, n>> \in closing' => <<j, n>> \in closing \/ script[j] # "gone"
           /\ \A m \in Method, n \in 1..MaxRuns : <<m, j, n>> \in flight' =>
                 <<m, j, n>> \in flight \/ script[j] # "gone"
    PROVE  GoneAges(j)'
  BY SpawnedSame, HandledSame DEF GoneAges

\* What is gone grows old.
LEMMA GoneAgesKept ==
    ASSUME Shapes, NEW j \in Instance, MapsAgree(j), GoneAges(j), age[j] <= Timeout + 1,
           [Next]_vars
    PROVE  GoneAges(j)'
<1> USE AbsentBelow, TimeoutPositive
<1>1. ASSUME NEW i \in Instance, Start(i) \/ WebEnds(i)
      PROVE  GoneAges(j)'
  <2>1. /\ script[j] = "gone" <=> script'[j] = "gone"
        /\ script[j] = "gone" => loop'[j] = loop[j]
        /\ UNCHANGED <<age, handling, spawned, crossed, rules, loaded, since, closing, flight>>
    BY <1>1 DEF Start, WebEnds, server, work, tunnel, Shapes
  <2>2. QED
    BY <2>1, SpawnedSame, HandledSame DEF GoneAges
<1>2. ASSUME NEW i \in Instance, ContainerDies(i)
      PROVE  GoneAges(j)'
  <2>1. UNCHANGED <<age, handling, spawned, crossed, rules, loaded, since, flight>>
    BY <1>2 DEF ContainerDies, server, work, tunnel
  <2>2. CASE i = j
    <3>1. script[j] # "gone" /\ loop'[j] = "none"
      BY <1>2, <2>2 DEF ContainerDies, Shapes
    <3>2. \A n \in 1..MaxRuns : <<j, n>> \notin closing'
      <4>1. \A n \in 1..MaxRuns : <<j, n>>[1] = j
        OBVIOUS
      <4>2. QED
        BY <1>2, <2>2, <4>1 DEF ContainerDies
    <3>3. since[j] = 0
      BY <3>1 DEF GoneAges
    <3>4. age[j] # Absent => age[j] >= 0
      BY DEF Shapes
    <3>5. QED
      BY <2>1, <3>1, <3>2, <3>3, <3>4 DEF GoneAges
  <2>3. CASE i # j
    BY <1>2, <2>1, <2>3, GoneAgesFrame DEF ContainerDies, Shapes
  <2>4. QED
    BY <2>2, <2>3
<1>3. ASSUME NEW i \in Instance, KillLoop(i) \/ KillClient(i) \/ ClientEnds(i) \/ ScriptEnds(i)
      PROVE  GoneAges(j)'
  BY <1>3, GoneAgesFrame
  DEF KillLoop, KillClient, ClientEnds, ScriptEnds, server, work, tunnel, Shapes
<1>4. ASSUME NEW i \in Instance, Verify(i) \/ VerifyFails(i) \/ SendPing(i) \/ PingFails(i)
      PROVE  GoneAges(j)'
  <2>1. /\ UNCHANGED <<script, age, handling, spawned, crossed, rules, loaded, since, closing>>
        /\ loop[i] # "none" /\ (loop[j] = "none" => loop'[j] = "none")
        /\ flight' = flight \/ flight' = flight \cup {<<"POST", i, run[i]>>}
    BY <1>4 DEF Verify, VerifyFails, SendPing, PingFails, Pause, server, work, tunnel, Shapes
  <2>2. \A m \in Method, n \in 1..MaxRuns : <<m, j, n>> \in flight' =>
            <<m, j, n>> \in flight \/ script[j] # "gone"
    BY <2>1 DEF GoneAges
  <2>3. QED
    BY <2>1, <2>2, GoneAgesFrame
<1>5. ASSUME NEW i \in Instance, NEW n \in 1..MaxRuns, SendDelete(i, n) \/ DeleteFails(i, n)
      PROVE  GoneAges(j)'
  <2>1. /\ UNCHANGED <<script, age, handling, spawned, crossed, rules, loaded, since, loop>>
        /\ <<i, n>> \in closing /\ closing' \subseteq closing
        /\ flight' = flight \/ flight' = flight \cup {<<"DELETE", i, n>>}
    BY <1>5 DEF SendDelete, DeleteFails, server, work, tunnel
  <2>2. \A m \in Method, k \in 1..MaxRuns : <<m, j, k>> \in flight' =>
            <<m, j, k>> \in flight \/ script[j] # "gone"
    BY <2>1 DEF GoneAges
  <2>3. QED
    BY <2>1, <2>2, GoneAgesFrame
<1>6. ASSUME NEW i \in Instance, NEW n \in 1..MaxRuns, NEW m \in Method, Lose(m, i, n)
      PROVE  GoneAges(j)'
  <2>1. /\ UNCHANGED <<script, age, handling, spawned, crossed, rules, loaded, since, closing>>
        /\ flight' \subseteq flight /\ (loop[j] = "none" => loop'[j] = "none")
    BY <1>6 DEF Lose, AfterPing, Pause, server, work, tunnel, Shapes
  <2>2. QED
    BY <2>1, GoneAgesFrame
<1>7. ASSUME NEW i \in Instance, NEW n \in 1..MaxRuns, PostArrives(i, n)
      PROVE  GoneAges(j)'
  <2>1. /\ UNCHANGED <<script, age, rules, loaded, since, closing, loop>>
        /\ flight' \subseteq flight /\ crossed \subseteq crossed'
        /\ <<"POST", i, n>> \in flight
    BY <1>7 DEF PostArrives, sidecar, tunnel
  <2>2. script[j] = "gone" /\ i = j => since[j] = 0
    BY <2>1 DEF GoneAges, Method
  <2>3. i # j => (SetPending(j)' <=> SetPending(j)) /\ (Handled(j)' <=> Handled(j))
    BY <1>7, PostEffect
  <2>4. QED
    BY <2>1, <2>2, <2>3 DEF GoneAges
<1>8. ASSUME NEW i \in Instance, NEW n \in 1..MaxRuns, AddInstance(i, n)
      PROVE  GoneAges(j)'
  <2>1. /\ UNCHANGED <<script, age, rules, loaded, since, closing, flight>>
        /\ i # j => (j \in crossed => j \in crossed')
        /\ loop[j] = "none" => loop'[j] = "none"
    BY <1>8, AddStores DEF AddInstance, AfterPing, Pause, tunnel, Shapes
  <2>2. /\ (SetPending(j)' <=> SetPending(j)) /\ (Handled(j)' => Handled(j))
        /\ i = j => Handled(j)
    BY <1>8, AddEffect
  <2>3. QED
    BY <2>1, <2>2 DEF GoneAges
<1>9. ASSUME NEW i \in Instance, NEW n \in 1..MaxRuns, RunSet(i, n)
      PROVE  GoneAges(j)'
  <2>1. /\ UNCHANGED <<script, rules, loaded, since, closing, flight, loop>>
        /\ i # j => (j \in crossed' <=> j \in crossed)
        /\ age'[j] = IF i = j THEN 0 ELSE age[j]
    BY <1>9 DEF RunSet, tunnel, sidecar, Shapes
  <2>2. /\ (SetPending(j)' => SetPending(j)) /\ (Handled(j)' <=> Handled(j))
        /\ i = j => SetPending(j)
    BY <1>9, SetEffect
  <2>3. QED
    BY <2>1, <2>2 DEF GoneAges
<1>10. ASSUME NEW i \in Instance, NEW n \in 0..MaxRuns, RunDel(i, n)
       PROVE  GoneAges(j)'
  <2>1. /\ UNCHANGED <<script, rules, loaded, since, closing, flight, loop, crossed>>
        /\ age'[j] = IF i = j THEN Absent ELSE age[j]
    BY <1>10 DEF RunDel, tunnel, sidecar, Shapes
  <2>2. (SetPending(j)' <=> SetPending(j)) /\ (Handled(j)' <=> Handled(j))
    BY <1>10, DelEffect
  <2>3. QED
    BY <2>1, <2>2 DEF GoneAges
<1>11. ASSUME NEW i \in Instance,
              ReaperRemoves(i) \/ \E n \in 1..MaxRuns : RemoveInstance(i, n)
       PROVE  GoneAges(j)'
  <2>1. /\ UNCHANGED <<script, age, rules, loaded, since, closing, loop>>
        /\ flight' \subseteq flight
    BY <1>11 DEF ReaperRemoves, RemoveInstance, tunnel, sidecar
  <2>2. Removes(i) /\ handling' = handling
    BY <1>11, Removals
  <2>3. /\ SetPending(j)' <=> SetPending(j)
        /\ Handled(j)' <=> Handled(j)
        /\ crossed \subseteq crossed'
    BY <2>2, TakeOutEffect, TakeFromOldEffect, SpawnedSame, HandledSame DEF Removes
  <2>4. QED
    BY <2>1, <2>3 DEF GoneAges
<1>12. ASSUME NEW i \in Instance, ReaperLooks(i)
       PROVE  GoneAges(j)'
  BY <1>12, GoneAgesFrame DEF ReaperLooks, work, tunnel, sidecar
<1>13. CASE LoadRules
  <2>1. /\ UNCHANGED <<script, age, handling, spawned, crossed, since, closing, flight, loop>>
        /\ j \in rules' => age[j] # Absent
    BY <1>13 DEF LoadRules, IngressRules, Listed, work, sidecar
  <2>2. j \notin crossed => age[j] <= Timeout
    BY DEF MapsAgree
  <2>3. since[j] \in Int /\ age[j] \in Int
    BY DEF Shapes
  <2>4. QED
    BY <2>1, <2>2, <2>3, SpawnedSame, HandledSame DEF GoneAges
<1>14. CASE ServerRestarts
  <2>1. /\ UNCHANGED <<script, since, closing, flight>> /\ age'[j] = Absent /\ rules' = {}
        /\ loop[j] = "none" => loop'[j] = "none"
    BY <1>14 DEF ServerRestarts, AfterPing
  <2>2. ~ SetPending(j)' /\ ~ Handled(j)'
    BY <1>14, NothingPending DEF ServerRestarts
  <2>3. QED
    BY <2>1, <2>2 DEF GoneAges
<1>15. CASE Tick
  <2>1. /\ UNCHANGED <<script, closing, flight, rules, crossed, handling, spawned>>
        /\ flight = {} /\ handling = {} /\ spawned = {} /\ loaded /\ ~ loaded'
        /\ age'[j] = Older(age[j])
        /\ loop[j] = "none" => loop'[j] = "none"
        /\ script[j] # "gone" => since'[j] = since[j]
        /\ since'[j] <= since[j] + 1
    BY <1>15 DEF Tick, work, Shapes
  <2>2. ~ SetPending(j)' /\ ~ Handled(j)'
    BY <2>1, NothingPending
  <2>3. since[j] \in Int /\ since'[j] \in Int /\ age[j] \in {Absent} \cup Nat
    BY <1>15 DEF Tick, Shapes
  <2>4. age[j] # Absent => age'[j] = age[j] + 1 \/ age'[j] = Timeout + 1
    BY <2>1 DEF Older
  <2>5. age[j] = Timeout + 1 => age'[j] = Timeout + 1
    BY <2>1 DEF Older
  <2>6. age[j] = Absent => age'[j] = Absent
    BY <2>1 DEF Older
  <2>7. QED
    BY <2>1, <2>2, <2>3, <2>4, <2>5, <2>6 DEF GoneAges
<1>16. CASE UNCHANGED vars
  BY <1>16, GoneAgesFrame DEF vars, server, sidecar, work, tunnel
<1>17. QED
  BY <1>1, <1>2, <1>3, <1>4, <1>5, <1>6, <1>7, <1>8, <1>9, <1>10, <1>11, <1>12,
     <1>13, <1>14, <1>15, <1>16
  DEF Next, Environment, Killing, Checking, Polling, Deleting, Delivering, Losing,
      Routines, Reaping

\* The types.  What they say of the age of the entries in the bucket is LeftFresh.
LEMMA TypeOKKept ==
    ASSUME TypeOK, \A i \in Instance : RunCounted(i) /\ MissedIsLost(i),
           \A i \in Instance : LeftFresh(i)', [Next]_vars
    PROVE  TypeOK'
<1> USE BoundAssumption, TimeoutPositive, AbsentBelow
<1> DEFINE Old == \A i \in bucket : ~ SetPending(i) => age[i] <= Timeout
<1>0. bucket' \subseteq Instance => Old'
  BY DEF LeftFresh
<1> HIDE DEF Old
<1>1. ASSUME NEW i \in Instance, Start(i) \/ WebEnds(i) \/ ContainerDies(i)
      PROVE  TypeOK'
  BY <1>0, <1>1 DEF Old, Start, WebEnds, ContainerDies, server, path, work, reaper, tunnel, budget,
     TypeOK
<1>2. ASSUME NEW i \in Instance, KillLoop(i) \/ ClientEnds(i) \/ ScriptEnds(i)
      PROVE  TypeOK'
  BY <1>0, <1>2 DEF Old, KillLoop, ClientEnds, ScriptEnds, server, path, work, reaper, tunnel,
     budget, TypeOK
<1>3. ASSUME NEW i \in Instance, KillClient(i)
      PROVE  TypeOK'
  <2>1. run[i] \in 1..MaxRuns
    BY <1>3 DEF KillClient, RunCounted, TypeOK
  <2>2. <<i, run[i]>> \in Sender
    BY <2>1 DEF Sender
  <2>3. QED
    BY <1>0, <1>3, <2>2 DEF Old, KillClient, server, path, work, reaper, tunnel, budget, TypeOK
<1>4. ASSUME NEW i \in Instance, SendPing(i)
      PROVE  TypeOK'
  <2>1. run[i] \in 1..MaxRuns
    BY <1>4 DEF SendPing, RunCounted, TypeOK
  <2>2. <<"POST", i, run[i]>> \in Request
    BY <2>1 DEF Request, Method
  <2>3. QED
    BY <1>0, <1>4, <2>2 DEF Old, SendPing, server, path, work, reaper, tunnel, budget, TypeOK
<1>5. ASSUME NEW i \in Instance, Verify(i) \/ VerifyFails(i) \/ PingFails(i)
      PROVE  TypeOK'
  BY <1>0, <1>5 DEF Old, Verify, VerifyFails, PingFails, Pause, server, path, work, reaper, tunnel,
     budget, TypeOK
<1>6. ASSUME NEW i \in Instance, NEW n \in 1..MaxRuns, SendDelete(i, n) \/ DeleteFails(i, n)
      PROVE  TypeOK'
  <2>1. <<"DELETE", i, n>> \in Request
    BY DEF Request, Method
  <2>2. QED
    BY <1>0, <1>6, <2>1
    DEF Old, SendDelete, DeleteFails, server, path, work, reaper, tunnel, budget, TypeOK
<1>7. ASSUME NEW i \in Instance, NEW n \in 1..MaxRuns, NEW m \in Method, Lose(m, i, n)
      PROVE  TypeOK'
  <2>1. missed[i] \in 0..MaxLost /\ missed[i] < MaxLost
    BY <1>7 DEF Lose, MissedIsLost, TypeOK
  <2>2. missed' \in [Instance -> 0..MaxLost] /\ losses' \in 0..MaxLost
    BY <1>7, <2>1 DEF Lose, TypeOK
  <2>3. loop' \in [Instance -> {"none", "verify", "ping", "waiting", "sleep", "exited"}]
    BY <1>7 DEF Lose, AfterPing, Pause, TypeOK
  <2>4. flight' \subseteq Request
    BY <1>7 DEF Lose, TypeOK
  <2>5. QED
    BY <1>0, <1>7, <2>2, <2>3, <2>4 DEF Old, Lose, server, path, work, reaper, tunnel, TypeOK
<1>8. ASSUME NEW i \in Instance, NEW n \in 1..MaxRuns, PostArrives(i, n)
      PROVE  TypeOK'
  <2>1. <<i, n>> \in Sender /\ <<"Set", i, n>> \in Routine
    BY RunsFromZero DEF Sender, Routine
  <2>2. QED
    BY <1>0, <1>8, <2>1 DEF Old, PostArrives, sidecar, path, reaper, tunnel, budget, TypeOK
<1>9. ASSUME NEW i \in Instance, NEW n \in 1..MaxRuns, AddInstance(i, n)
      PROVE  TypeOK'
  <2>1. bucket' \subseteq Instance /\ kept' \subseteq Instance /\ crossed' \subseteq Instance
    BY <1>9 DEF AddInstance, Ways, Stored, TypeOK
  <2>2. Busy \subseteq Request
    BY DEF Busy, Request, Method, Sender, TypeOK
  <2>3. /\ opened' \in BOOLEAN /\ handling' \subseteq Sender /\ rivals' \subseteq Sender
        /\ astray' \subseteq Request
    BY <1>9, <2>2 DEF AddInstance, TypeOK
  <2>4. /\ loop' \in [Instance -> {"none", "verify", "ping", "waiting", "sleep", "exited"}]
        /\ missed' \in [Instance -> 0..MaxLost]
    BY <1>9 DEF AddInstance, AfterPing, Pause, TypeOK
  <2>5. QED
    BY <1>0, <1>9, <2>1, <2>3, <2>4 DEF Old, AddInstance, reaper, tunnel, budget, TypeOK
<1>10. ASSUME NEW i \in Instance, NEW n \in 1..MaxRuns, RunSet(i, n)
       PROVE  TypeOK'
  BY <1>0, <1>10 DEF Old, RunSet, sidecar, path, reaper, tunnel, budget, TypeOK
<1>11. ASSUME NEW i \in Instance, NEW n \in 1..MaxRuns, RemoveInstance(i, n)
       PROVE  TypeOK'
  <2>1. <<"Del", i, n>> \in Routine
    BY RunsFromZero DEF Routine
  <2>2. QED
    BY <1>0, <1>11, <2>1
    DEF Old, RemoveInstance, TakeOut, TakeFromOld, sidecar, reaper, tunnel, budget, TypeOK
<1>12. ASSUME NEW i \in Instance, NEW n \in 0..MaxRuns, RunDel(i, n)
       PROVE  TypeOK'
  BY <1>0, <1>12 DEF Old, RunDel, sidecar, path, reaper, tunnel, budget, TypeOK
<1>13. ASSUME NEW i \in Instance, ReaperLooks(i)
       PROVE  TypeOK'
  BY <1>0, <1>13 DEF Old, ReaperLooks, sidecar, path, work, tunnel, budget, TypeOK
<1>14. ASSUME NEW i \in Instance, ReaperRemoves(i)
       PROVE  TypeOK'
  <2>1. <<"Del", i, 0>> \in Routine
    BY DEF Routine
  <2>2. QED
    BY <1>0, <1>14, <2>1 DEF Old, ReaperRemoves, TakeOut, sidecar, path, tunnel, budget, TypeOK
<1>15. CASE LoadRules
  BY <1>0, <1>15
  DEF Old, LoadRules, IngressRules, Listed, sidecar, path, work, reaper, budget, TypeOK
<1>16. CASE ServerRestarts
  <2>1. age' \in [Instance -> {Absent} \cup 0..Timeout + 1]
    BY <1>16 DEF ServerRestarts
  <2>2. loop' \in [Instance -> {"none", "verify", "ping", "waiting", "sleep", "exited"}]
    BY <1>16 DEF ServerRestarts, AfterPing, Pause, TypeOK
  <2>3. restarts' \in 0..MaxRestarts
    BY <1>16 DEF ServerRestarts, TypeOK
  <2>4. QED
    BY <1>0, <1>16, <2>1, <2>2, <2>3 DEF Old, ServerRestarts, TypeOK
<1>17. CASE Tick
  <2>1. \A a \in {Absent} \cup 0..Timeout + 1 : Older(a) \in {Absent} \cup 0..Timeout + 1
    BY DEF Older
  <2>2. age' \in [Instance -> {Absent} \cup 0..Timeout + 1]
    BY <1>17, <2>1 DEF Tick, TypeOK
  <2>3. since' \in [Instance -> 0..Timeout + 2]
    BY <1>17 DEF Tick, TypeOK
  <2>4. loop' \in [Instance -> {"none", "verify", "ping", "waiting", "sleep", "exited"}]
    BY <1>17 DEF Tick, TypeOK
  <2>5. QED
    BY <1>0, <1>17, <2>2, <2>3, <2>4 DEF Old, Tick, path, work, budget, TypeOK
<1>18. CASE UNCHANGED vars
  BY <1>0, <1>18 DEF Old, vars, sidecar, server, path, work, reaper, tunnel, budget, TypeOK
<1>19. QED
  BY <1>1, <1>2, <1>3, <1>4, <1>5, <1>6, <1>7, <1>8, <1>9, <1>10, <1>11, <1>12,
     <1>13, <1>14, <1>15, <1>16, <1>17, <1>18
  DEF Next, Environment, Killing, Checking, Polling, Deleting, Delivering, Losing,
      Routines, Reaping

THEOREM InductiveHolds == Spec => []Inductive
<1>1. Init => Inductive
  BY InitInductive
<1>2. ASSUME Inductive, [Next]_vars
      PROVE  Inductive'
  <2>1. Shapes /\ OnePicked /\ \A i \in Instance : Part(i)
    BY <1>2, TypesHaveShapes DEF Inductive
  <2>2. losses >= 0 /\ \A i \in Instance : age[i] <= Timeout + 1
    BY <1>2, BoundAssumption, TimeoutPositive, AbsentBelow DEF Inductive, TypeOK
  <2>3. ASSUME NEW j \in Instance PROVE Part(j)'
    <3>1. /\ RunCounted(j) /\ MissedIsLost(j) /\ MapsAgree(j) /\ LeftFresh(j)
          /\ KeptIsYoung(j) /\ GoneAges(j)
      BY <2>1 DEF Part
    <3>2. RunCounted(j)' /\ MissedIsLost(j)'
      BY <1>2, <2>1, <2>2, <3>1, RunCountedKept, MissedIsLostKept
    <3>3. MapsAgree(j)' /\ LeftFresh(j)'
      BY <1>2, <2>1, <3>1, MapsAgreeKept, LeftFreshKept
    <3>4. KeptIsYoung(j)' /\ GoneAges(j)'
      BY <1>2, <2>1, <2>2, <3>1, KeptIsYoungKept, GoneAgesKept
    <3>5. QED
      BY <3>2, <3>3, <3>4 DEF Part
  <2>4. TypeOK'
    BY <1>2, <2>1, <2>3, TypeOKKept DEF Inductive, Part
  <2>5. QED
    BY <1>2, <2>1, <2>3, <2>4, OnePickedKept DEF Inductive
<1>3. QED
  BY <1>1, <1>2, PTL DEF Spec

-----------------------------------------------------------------------------
(* The properties                                                            *)

\* Every variable has its type.
THEOREM DeploymentTypeCorrect == Spec => []TypeOK
<1>1. Inductive => TypeOK
  BY DEF Inductive
<1>2. QED
  BY <1>1, InductiveHolds, PTL

\* An instance whose sidecar pings stays registered, for any timeout, as long as
\* the pings that are lost one after the other are fewer.
THEOREM LiveIsRegisteredHolds == Spec => []LiveIsRegistered
<1>1. Inductive => LiveIsRegistered
  BY DEF Inductive, Part, KeptIsYoung, Started, LiveIsRegistered, Pinging
<1>2. QED
  BY <1>1, InductiveHolds, PTL

\* What a container leaves behind in both maps is gone with the timeout; unless a
\* POST met a removal halfway or the bucket was replaced, so is what is left in
\* one of them, and the rule with the load after that.
THEOREM ForgottenInTimeHolds == Spec => []ForgottenInTime
<1>1. ASSUME Inductive, NEW i \in Instance, script[i] = "gone"
      PROVE  /\ i \in bucket \cap Listed => since[i] <= Timeout
             /\ i \notin crossed =>
                 /\ i \in bucket \cup Listed => since[i] <= Timeout
                 /\ i \in rules => since[i] <= Timeout + 1
  <2>1. GoneAges(i) /\ MapsAgree(i) /\ LeftFresh(i) /\ Shapes
    BY <1>1, TypesHaveShapes DEF Inductive, Part
  <2>2. age[i] \in Int /\ since[i] \in Int /\ (i \in Listed <=> age[i] # Absent)
    BY <2>1, AbsentBelow DEF Shapes, Listed
  <2>3. SetPending(i) => since[i] <= Timeout
    BY <1>1, <2>1, TimeoutPositive DEF GoneAges
  <2>4. i \in Listed /\ age[i] <= Timeout => since[i] <= Timeout
    BY <1>1, <2>1, <2>2, TimeoutPositive DEF GoneAges
  <2>5. i \in bucket => SetPending(i) \/ age[i] <= Timeout
    BY <2>1 DEF LeftFresh
  <2>6. i \notin crossed => age[i] <= Timeout /\ (i \in bucket => i \in Listed \/ SetPending(i))
    BY <2>1, <2>2 DEF MapsAgree
  <2>7. i \in rules /\ i \notin crossed => since[i] <= Timeout + 1
    BY <1>1, <2>1 DEF GoneAges
  <2>8. QED
    BY <2>3, <2>4, <2>5, <2>6, <2>7
<1>2. Inductive => ForgottenInTime
  BY <1>1 DEF ForgottenInTime
<1>3. QED
  BY <1>2, InductiveHolds, PTL

===============================================================================
