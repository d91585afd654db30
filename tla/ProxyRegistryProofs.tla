------------------------- MODULE ProxyRegistryProofs -------------------------
(***************************************************************************)
(* Theorems about ProxyRegistry, for every set of requests, instances,     *)
(* tunnels and keys, and every timeout.                                    *)
(***************************************************************************)
EXTENDS ProxyRegistry, TLAPS

-----------------------------------------------------------------------------
(* The inductive invariant                                                   *)

\* What the program counters say of the local variables.
PcOK ==
    /\ \A r \in Request :
        /\ pc[r] \in Posting \cup {"accepted"} => MethodOf[r] = "POST"
        /\ pc[r] \in Deleting => MethodOf[r] = "DELETE"
        /\ pc[r] \in {"set", "check", "getAndDel"} => held[r] # Null
    /\ reaper.pc # "scan" => reaper.stale # Null
    /\ reaper.pc = "getAndDel" => reaper.held # Null

\* A POST has seen or inserted every level it is past and does not owe.
Passed(r, l) ==
    /\ l \notin absent[r]
    /\ \/ pc[r] \in {"set", "insert", "accepted"}
       \/ pc[r] = "lookup" /\ l < level[r]

WalkOK ==
    \A r \in Request :
        /\ \A l \in Level : Passed(r, l) => Has(l, KeyOf(r, l))
        /\ pc[r] = "lookup" => \A l \in absent[r] : l < level[r]
        /\ pc[r] = "accepted" => absent[r] = {}
        /\ pc[r] = "idle" => level[r] = 1 /\ absent[r] = {}

\* A pointer leads to a bucket of the revision it was looked up for.
PointersOK ==
    /\ \A r \in Request :
        held[r] # Null => KeyOf(held[r], Revision) = KeyOf(r, Revision)
    /\ reaper.held # Null =>
        /\ reaper.stale # Null
        /\ KeyOf(reaper.held, Revision) = KeyOf(reaper.stale, Revision)
    /\ \A n \in Name : revisionToInstancesMap[n] # Null =>
        KeyOf(revisionToInstancesMap[n], Revision) = n
    /\ \A r \in Request : <<"Set", r>> \in spawned => MethodOf[r] = "POST"

Filed ==
    /\ \A b \in Bucket, i \in Instance : bucket[b][i] # Null =>
        /\ InstanceOf[bucket[b][i]] = i
        /\ KeyOf(bucket[b][i], Revision) = KeyOf(b, Revision)
    /\ \A i \in Instance : instanceToConfigMap[i] # Null =>
        InstanceOf[instanceToConfigMap[i]] = i

-----------------------------------------------------------------------------
(* Types                                                                     *)


LEMMA BucketUpdate ==
    ASSUME TypeOK, NEW b, NEW i \in Instance, NEW cfg \in ConfigOrNull
    PROVE  [bucket EXCEPT ![b][i] = cfg] \in [Bucket -> [Instance -> ConfigOrNull]]
BY DEF TypeOK

\* Every step preserves the types.
LEMMA TypeStep == TypeOK /\ PcOK /\ [Next]_vars => TypeOK'
<1>. SUFFICES ASSUME TypeOK, PcOK, [Next]_vars PROVE TypeOK'
  OBVIOUS
<1>. USE RequestAssumption, PathAssumption
<1>1. ASSUME NEW r \in Request, BeginPost(r) PROVE TypeOK'
  BY <1>1 DEF BeginPost, TypeOK, Posting, tree
<1>2. ASSUME NEW r \in Request, BeginDelete(r) PROVE TypeOK'
  BY <1>2 DEF BeginDelete, TypeOK, Deleting, tree
<1>3. ASSUME NEW r \in Request, Lookup(r) PROVE TypeOK'
  <2>1. level[r] \in Level /\ level[r] + 1 \in Level
    BY <1>3 DEF Lookup, TypeOK, Level, Revision
  <2>2. absent' \in [Request -> SUBSET Level]
    <3>1. CASE Has(level[r], KeyOf(r, level[r]))
      BY <1>3, <3>1 DEF Lookup, TypeOK
    <3>2. CASE ~ Has(level[r], KeyOf(r, level[r]))
      BY <1>3, <2>1, <3>2 DEF Lookup, TypeOK
    <3>. QED
      BY <3>1, <3>2
  <2>. QED
    BY <1>3, <2>1, <2>2 DEF Lookup, TypeOK, tree
<1>4. ASSUME NEW r \in Request, FindBucket(r) PROVE TypeOK'
  <2>1. BucketOf(InstanceOf[r]) \in BucketOrNull
    BY DEF BucketOf, Key, Level, Revision, TypeOK
  <2>. QED
    BY <1>4, <2>1 DEF FindBucket, TypeOK, Posting, tree
<1>5. ASSUME NEW r \in Request, NewBucket(r) PROVE TypeOK'
  BY <1>5 DEF NewBucket, TypeOK, Level, Revision, Posting, Bucket, ConfigOrNull
<1>6. ASSUME NEW r \in Request, SetInBucket(r) PROVE TypeOK'
  BY <1>6 DEF SetInBucket, TypeOK, Unwind, Posting, Answered, Bucket,
              BucketOrNull, ConfigOrNull
<1>7. ASSUME NEW r \in Request, Insert(r) PROVE TypeOK'
  <2>. PICK l \in Level :
            /\ Put(r, l)
            /\ absent' = [absent EXCEPT ![r] = @ \ {l}]
            /\ pc' = [pc EXCEPT ![r] = Unwind(absent[r] \ {l})]
    BY <1>7 DEF Insert
  <2>1. Unwind(absent[r] \ {l}) \in {"accepted", "insert"}
    BY DEF Unwind
  <2>2. KeyOf(r, l) \in Name
    BY DEF KeyOf, Key
  <2>3. known' \in [Level \ {Revision} -> SUBSET Name]
    BY <2>2 DEF Put, TypeOK, Level, Revision
  <2>4. revisionToInstancesMap' \in [Name -> BucketOrNull]
    <3>1. CASE l = Revision
      BY <3>1, <2>2 DEF Put, TypeOK, Bucket, BucketOrNull
    <3>2. CASE l # Revision
      BY <3>2 DEF Put, TypeOK
    <3>. QED
      BY <3>1, <3>2
  <2>. QED
    BY <1>7, <2>1, <2>3, <2>4 DEF Insert, TypeOK, Posting, Answered
<1>9. ASSUME NEW r \in Request, Resolve(r) PROVE TypeOK'
  <2>1. BucketOf(InstanceOf[r]) \in BucketOrNull
    BY DEF BucketOf, Key, Level, Revision, TypeOK
  <2>2. /\ UNCHANGED <<now, lastPing, level, absent, known, revisionToInstancesMap,
                       bucket, instanceToConfigMap, spawned, reaper>>
        /\ \/ /\ held' = [held EXCEPT ![r] = BucketOf(InstanceOf[r])]
              /\ pc' = [pc EXCEPT ![r] = "check"]
           \/ /\ held' = held
              /\ pc' = [pc EXCEPT ![r] = "notFound"]
    BY <1>9 DEF Resolve, tree
  <2>3. held' \in [Request -> BucketOrNull]
    BY <2>1, <2>2 DEF TypeOK
  <2>4. CASE pc' = [pc EXCEPT ![r] = "check"]
    BY <2>2, <2>3, <2>4 DEF TypeOK, Deleting
  <2>5. CASE pc' = [pc EXCEPT ![r] = "notFound"]
    BY <2>2, <2>3, <2>5 DEF TypeOK, Answered
  <2>. QED
    BY <2>2, <2>4, <2>5
<1>10. ASSUME NEW r \in Request, CheckTunnel(r) PROVE TypeOK'
  <2>1. CASE SameTunnel(r, bucket[held[r]][InstanceOf[r]])
    BY <1>10, <2>1 DEF CheckTunnel, TypeOK, Deleting, tree
  <2>2. CASE ~ SameTunnel(r, bucket[held[r]][InstanceOf[r]])
    BY <1>10, <2>2 DEF CheckTunnel, TypeOK, Answered, BucketOrNull, tree
  <2>. QED
    BY <2>1, <2>2
<1>11. ASSUME NEW r \in Request, GetAndDel(r) PROVE TypeOK'
  <2>1. CASE bucket[held[r]][InstanceOf[r]] # Null
    <3>1. bucket' \in [Bucket -> [Instance -> ConfigOrNull]]
      <4>1. bucket' = [bucket EXCEPT ![held[r]][InstanceOf[r]] = Null]
        BY <1>11, <2>1 DEF GetAndDel
      <4>2. Null \in ConfigOrNull /\ InstanceOf[r] \in Instance
        BY DEF ConfigOrNull
      <4>. QED
        BY ONLY TypeOK, <4>1, <4>2, BucketUpdate
    <3>2. /\ pc' = [pc EXCEPT ![r] = "removed"]
          /\ held' = [held EXCEPT ![r] = Null]
          /\ spawned' = spawned \cup {<<"Del", r>>}
          /\ UNCHANGED <<now, lastPing, level, absent, known,
                         revisionToInstancesMap, instanceToConfigMap, reaper>>
      BY <1>11, <2>1 DEF GetAndDel
    <3>. QED
      BY <3>1, <3>2 DEF TypeOK, Answered, BucketOrNull
  <2>2. CASE bucket[held[r]][InstanceOf[r]] = Null
    BY <1>11, <2>2 DEF GetAndDel, TypeOK, Answered, BucketOrNull
  <2>. QED
    BY <2>1, <2>2
<1>12. ASSUME NEW r \in Request, RunSet(r) PROVE TypeOK'
  BY <1>12 DEF RunSet, TypeOK, ConfigOrNull, handler, tree
<1>13. ASSUME NEW r \in Request, RunDel(r) PROVE TypeOK'
  BY <1>13 DEF RunDel, TypeOK, ConfigOrNull, handler, tree
<1>14. ASSUME NEW i \in Instance, ReapVisit(i) PROVE TypeOK'
  BY <1>14 DEF ReapVisit, TypeOK, BucketOrNull, handler, tree
<1>15. CASE ReapResolve
  <2>1. InstanceOf[reaper.stale] \in Instance
    BY <1>15 DEF ReapResolve, TypeOK, PcOK, ConfigOrNull
  <2>2. BucketOf(InstanceOf[reaper.stale]) \in BucketOrNull
    BY <2>1 DEF BucketOf, Key, Level, Revision, TypeOK
  <2>. QED
    BY <1>15, <2>2 DEF ReapResolve, TypeOK, Scanning, ConfigOrNull, BucketOrNull,
                       handler, tree
<1>16. CASE ReapGetAndDel
  <2>1. bucket' \in [Bucket -> [Instance -> ConfigOrNull]]
    <3>1. InstanceOf[reaper.stale] \in Instance
      BY <1>16 DEF ReapGetAndDel, TypeOK, PcOK, ConfigOrNull
    <3>. QED
      <4>1. CASE bucket[reaper.held][InstanceOf[reaper.stale]] # Null
        <5>1. bucket' = [bucket EXCEPT ![reaper.held][InstanceOf[reaper.stale]] = Null]
          BY <1>16, <4>1 DEF ReapGetAndDel
        <5>2. Null \in ConfigOrNull
          BY DEF ConfigOrNull
        <5>. QED
          BY ONLY TypeOK, <3>1, <5>1, <5>2, BucketUpdate
      <4>2. CASE bucket[reaper.held][InstanceOf[reaper.stale]] = Null
        BY <1>16, <4>2 DEF ReapGetAndDel, TypeOK
      <4>. QED
        BY <4>1, <4>2
  <2>2. reaper' \in [pc : {"scan", "resolve", "getAndDel", "del"},
                     stale : ConfigOrNull,
                     held : BucketOrNull]
    BY <1>16 DEF ReapGetAndDel, TypeOK, Scanning, ConfigOrNull, BucketOrNull
  <2>. QED
    BY <1>16, <2>1, <2>2 DEF ReapGetAndDel, TypeOK, handler
<1>17. CASE ReapDel
  BY <1>17 DEF ReapDel, TypeOK, Scanning, ConfigOrNull, BucketOrNull, handler, tree
<1>18. CASE Tick
  BY <1>18 DEF Tick, TypeOK, handler, tree
<1>19. CASE UNCHANGED vars
  BY <1>19 DEF vars, TypeOK, handler, tree
<1>. QED
  BY <1>1, <1>2, <1>3, <1>4, <1>5, <1>6, <1>7, <1>9, <1>10, <1>11, <1>12,
     <1>13, <1>14, <1>15, <1>16, <1>17, <1>18, <1>19
     DEF Next, Post, Delete, Goroutine, Reap

\* Every step keeps program counters and local variables in line.
LEMMA PcStep == TypeOK /\ PcOK /\ [Next]_vars => PcOK'
<1>. SUFFICES ASSUME TypeOK, PcOK, [Next]_vars PROVE PcOK'
  OBVIOUS
<1>. USE RequestAssumption, NullAssumption DEF TypeOK, PcOK, Posting, Deleting
<1>1. ASSUME NEW r \in Request, BeginPost(r) PROVE PcOK'
  BY <1>1 DEF BeginPost
<1>2. ASSUME NEW r \in Request, BeginDelete(r) PROVE PcOK'
  BY <1>2 DEF BeginDelete
<1>3. ASSUME NEW r \in Request, Lookup(r) PROVE PcOK'
  BY <1>3 DEF Lookup
<1>4. ASSUME NEW r \in Request, FindBucket(r) PROVE PcOK'
  BY <1>4 DEF FindBucket, Has, BucketOf, KeyOf, Revision
<1>5. ASSUME NEW r \in Request, NewBucket(r) PROVE PcOK'
  BY <1>5 DEF NewBucket
<1>6. ASSUME NEW r \in Request, SetInBucket(r) PROVE PcOK'
  BY <1>6 DEF SetInBucket, Unwind
<1>7. ASSUME NEW r \in Request, Insert(r) PROVE PcOK'
  BY <1>7 DEF Insert, Unwind
<1>9. ASSUME NEW r \in Request, Resolve(r) PROVE PcOK'
  BY <1>9 DEF Resolve, Resolves, Has, BucketOf, Level, Revision
<1>10. ASSUME NEW r \in Request, CheckTunnel(r) PROVE PcOK'
  BY <1>10 DEF CheckTunnel
<1>11. ASSUME NEW r \in Request, GetAndDel(r) PROVE PcOK'
  BY <1>11 DEF GetAndDel
<1>12. ASSUME NEW r \in Request, RunSet(r) \/ RunDel(r) PROVE PcOK'
  BY <1>12 DEF RunSet, RunDel, handler
<1>13. ASSUME NEW i \in Instance, ReapVisit(i) PROVE PcOK'
  BY <1>13 DEF ReapVisit, IsStale, handler
<1>14. CASE ReapResolve
  BY <1>14 DEF ReapResolve, Scanning, handler
<1>15. CASE ReapGetAndDel
  BY <1>15 DEF ReapGetAndDel, Scanning, handler
<1>16. CASE ReapDel
  BY <1>16 DEF ReapDel, Scanning, handler
<1>17. CASE Tick \/ UNCHANGED vars
  BY <1>17 DEF Tick, vars, handler
<1>. QED
  BY <1>1, <1>2, <1>3, <1>4, <1>5, <1>6, <1>7, <1>9, <1>10, <1>11, <1>12,
     <1>13, <1>14, <1>15, <1>16, <1>17
     DEF Next, Post, Delete, Goroutine, Reap

LEMMA InitTypePc == Init => TypeOK /\ PcOK
BY DEF Init, TypeOK, PcOK, Posting, Deleting, Scanning, Level, Revision, Bucket,
       BucketOrNull, ConfigOrNull

\* Every variable keeps its type, for any number of requests and instances.
THEOREM TypeCorrect == Spec => []TypeOK
<1>1. TypeOK /\ PcOK /\ [Next]_vars => (TypeOK /\ PcOK)'
  BY TypeStep, PcStep
<1>. QED
  BY InitTypePc, <1>1, PTL DEF Spec

-----------------------------------------------------------------------------
(* The walk of a POST                                                        *)

LEMMA KeyType == ASSUME NEW i \in Instance, NEW l \in Level PROVE Key(i, l) \in Name
BY PathAssumption DEF Key

LEMMA InsertPicks ==
    ASSUME NEW r \in Request, Insert(r)
    PROVE  \E l \in Level :
            /\ Deepest(r, l)
            /\ Put(r, l)
            /\ absent' = [absent EXCEPT ![r] = @ \ {l}]
            /\ pc' = [pc EXCEPT ![r] = Unwind(absent[r] \ {l})]
BY DEF Insert

\* Only Insert touches the keys.
LEMMA TreeKeys ==
    ASSUME TypeOK, [Next]_vars
    PROVE  \/ UNCHANGED <<known, revisionToInstancesMap>>
           \/ \E r \in Request : Insert(r)
BY DEF Next, Post, Delete, Goroutine, Reap, vars, tree, BeginPost, BeginDelete,
       Lookup, FindBucket, NewBucket, SetInBucket, Resolve,
       CheckTunnel, GetAndDel, RunSet, RunDel, ReapVisit, ReapResolve,
       ReapGetAndDel, ReapDel, Tick

LEMMA PutHas ==
    ASSUME TypeOK, NEW r \in Request, NEW l \in Level, Put(r, l)
    PROVE  /\ Has(l, KeyOf(r, l))'
           /\ \A m \in Level, k \in Name : Has(m, k) => Has(m, k)'
<1>1. KeyOf(r, l) \in Name
  BY RequestAssumption, KeyType DEF KeyOf
<1>2. CASE l = Revision
  BY <1>1, <1>2, NullAssumption DEF TypeOK, Put, Has
<1>3. CASE l # Revision
  BY <1>1, <1>3 DEF TypeOK, Put, Has
<1>. QED
  BY <1>2, <1>3

\* No level ever loses a key.
LEMMA HasStable ==
    ASSUME TypeOK, [Next]_vars, NEW l \in Level, NEW k \in Name, Has(l, k)
    PROVE  Has(l, k)'
<1>1. CASE UNCHANGED <<known, revisionToInstancesMap>>
  BY <1>1 DEF Has
<1>2. CASE \E r \in Request : Insert(r)
  BY <1>2, InsertPicks, PutHas
<1>. QED
  BY <1>1, <1>2, TreeKeys

\* The steps that move a POST along its walk; all others leave it alone.
WalkStep(r) ==
    \/ BeginPost(r) \/ Lookup(r) \/ FindBucket(r) \/ NewBucket(r)
    \/ SetInBucket(r) \/ Insert(r)

\* The part of WalkOK that is about one request.
Walk(r) ==
    /\ \A l \in Level : Passed(r, l) => Has(l, KeyOf(r, l))
    /\ pc[r] = "lookup" => \A l \in absent[r] : l < level[r]
    /\ pc[r] = "accepted" => absent[r] = {}
    /\ pc[r] = "idle" => level[r] = 1 /\ absent[r] = {}

\* A request whose own walk does not move keeps what it has passed.
LEMMA WalkFrame ==
    ASSUME TypeOK, [Next]_vars, NEW r \in Request, Walk(r),
           UNCHANGED <<level[r], absent[r]>>,
           \/ UNCHANGED pc[r]
           \/ pc'[r] \notin {"idle", "lookup", "set", "insert", "accepted"}
    PROVE  Walk(r)'
<1>1. ASSUME NEW l \in Level, Passed(r, l)' PROVE Has(l, KeyOf(r, l))'
  <2>1. Has(l, KeyOf(r, l))
    BY <1>1 DEF Passed, Walk
  <2>2. KeyOf(r, l) \in Name
    BY RequestAssumption, KeyType DEF KeyOf
  <2>. QED
    BY <2>1, <2>2, HasStable DEF KeyOf, Key
<1>. QED
  BY <1>1 DEF Walk

\* The request that moves has every level it passes.
LEMMA WalkMoves ==
    ASSUME TypeOK, PcOK, [Next]_vars, NEW r \in Request, Walk(r), WalkStep(r)
    PROVE  Walk(r)'
<1>. USE DEF Walk, Passed
<1>a. \A l \in Level : Has(l, KeyOf(r, l)) => Has(l, KeyOf(r, l))'
  BY RequestAssumption, KeyType, HasStable DEF KeyOf, Key
<1>1. CASE BeginPost(r)
  BY <1>1, <1>a DEF BeginPost, TypeOK, Level
<1>2. CASE Lookup(r)
  BY <1>2, <1>a DEF Lookup, TypeOK, Level, Revision
<1>3. CASE FindBucket(r)
  BY <1>3, <1>a DEF FindBucket, TypeOK, Level, Revision
<1>4. CASE NewBucket(r)
  BY <1>4, <1>a DEF NewBucket, TypeOK, Level, Revision
<1>5. CASE SetInBucket(r)
  BY <1>5, <1>a DEF SetInBucket, Unwind, TypeOK
<1>6. CASE Insert(r)
  <2>. PICK l \in Level :
            /\ Deepest(r, l)
            /\ Put(r, l)
            /\ absent' = [absent EXCEPT ![r] = @ \ {l}]
            /\ pc' = [pc EXCEPT ![r] = Unwind(absent[r] \ {l})]
    BY <1>6, InsertPicks
  <2>1. Has(l, KeyOf(r, l))'
    BY PutHas
  <2>. QED
    BY <1>6, <1>a, <2>1 DEF Insert, Unwind, TypeOK
<1>. QED
  BY <1>1, <1>2, <1>3, <1>4, <1>5, <1>6 DEF WalkStep

\* What a step that is not part of the walk of r does to r.
LEMMA WalkOthers ==
    ASSUME TypeOK, [Next]_vars, NEW r \in Request, ~ WalkStep(r)
    PROVE  /\ UNCHANGED <<level[r], absent[r]>>
           /\ \/ UNCHANGED pc[r]
              \/ pc'[r] \notin {"idle", "lookup", "set", "insert", "accepted"}
<1>1. ASSUME NEW q \in Request, WalkStep(q)
      PROVE  q # r /\ UNCHANGED <<level[r], absent[r], pc[r]>>
  <2>1. q # r
    BY <1>1
  <2>2. CASE BeginPost(q) \/ FindBucket(q) \/ NewBucket(q) \/ SetInBucket(q)
    BY <2>1, <2>2 DEF TypeOK, BeginPost, FindBucket, NewBucket, SetInBucket
  <2>3. CASE Lookup(q)
    BY <2>1, <2>3 DEF TypeOK, Lookup
  <2>4. CASE Insert(q)
    BY <2>1, <2>4 DEF TypeOK, Insert
  <2>. QED
    BY <1>1, <2>1, <2>2, <2>3, <2>4 DEF WalkStep
<1>2. ASSUME NEW q \in Request, BeginDelete(q) \/ Delete(q)
      PROVE  /\ UNCHANGED <<level, absent>>
             /\ \/ UNCHANGED pc[r]
                \/ pc'[r] \notin {"idle", "lookup", "set", "insert", "accepted"}
  BY <1>2 DEF TypeOK, Delete, BeginDelete, Resolve, CheckTunnel, GetAndDel
<1>3. CASE UNCHANGED handler
  BY <1>3 DEF handler
<1>4. \/ UNCHANGED handler
      \/ \E q \in Request : WalkStep(q) \/ BeginDelete(q) \/ Delete(q)
  BY DEF Next, Post, WalkStep, Goroutine, Reap, vars, RunSet, RunDel, ReapVisit,
         ReapResolve, ReapGetAndDel, ReapDel, Tick
<1>. QED
  BY <1>1, <1>2, <1>3, <1>4

LEMMA WalkPreserved == TypeOK /\ PcOK /\ WalkOK /\ [Next]_vars => WalkOK'
<1>. SUFFICES ASSUME TypeOK, PcOK, WalkOK, [Next]_vars, NEW r \in Request
              PROVE  Walk(r)'
  BY DEF WalkOK, Walk
<1>1. Walk(r)
  BY DEF WalkOK, Walk
<1>. QED
  BY <1>1, WalkFrame, WalkMoves, WalkOthers

-----------------------------------------------------------------------------
(* What the walks guarantee                                                  *)

\* A key is put only above keys that are there.
LEMMA PutAboveChildren ==
    ASSUME TypeOK, PcOK, WalkOK, [Next]_vars, NEW r \in Request, Insert(r)
    PROVE  \E l \in Level :
            /\ Put(r, l)
            /\ \A m \in Level : m > l => Has(m, KeyOf(r, m))'
<1>. PICK l \in Level : Deepest(r, l) /\ Put(r, l)
  BY InsertPicks
<1>1. ASSUME NEW m \in Level, m > l PROVE Has(m, KeyOf(r, m))'
  <2>1. m \notin absent[r]
    BY <1>1 DEF Deepest, Level
  <2>2. Has(m, KeyOf(r, m))
    BY <2>1 DEF WalkOK, Passed, Insert
  <2>3. KeyOf(r, m) \in Name
    BY RequestAssumption, KeyType DEF KeyOf
  <2>. QED
    BY <2>2, <2>3, HasStable DEF KeyOf, Key
<1>. QED
  BY <1>1

LEMMA ParentsPreserved ==
    TypeOK /\ PcOK /\ WalkOK /\ ParentsHaveChildren /\ [Next]_vars
        => ParentsHaveChildren'
<1>. SUFFICES ASSUME TypeOK, PcOK, WalkOK, ParentsHaveChildren, [Next]_vars,
                     NEW l \in Level \ {Revision}, NEW k \in known'[l]
              PROVE  \E r \in Request :
                        /\ KeyOf(r, l) = k
                        /\ \A m \in Level : m > l => Has(m, KeyOf(r, m))'
  BY DEF ParentsHaveChildren, KeyOf, Key
<1>1. CASE k \in known[l]
  <2>. PICK r \in Request : /\ KeyOf(r, l) = k
                            /\ \A m \in Level : m > l => Has(m, KeyOf(r, m))
    BY <1>1 DEF ParentsHaveChildren
  <2>1. \A m \in Level : KeyOf(r, m) \in Name
    BY RequestAssumption, KeyType DEF KeyOf
  <2>. QED
    BY <2>1, HasStable DEF KeyOf, Key
<1>2. CASE k \notin known[l]
  <2>. PICK r \in Request : Insert(r)
    BY <1>2, TreeKeys
  <2>. PICK n \in Level : /\ Put(r, n)
                          /\ \A m \in Level : m > n => Has(m, KeyOf(r, m))'
    BY PutAboveChildren
  <2>1. n = l /\ k = KeyOf(r, n)
    BY <1>2 DEF Put, TypeOK
  <2>. QED
    BY <2>1
<1>. QED
  BY <1>1, <1>2

LEMMA InitWalk == Init => WalkOK /\ ParentsHaveChildren
BY DEF Init, WalkOK, Passed, ParentsHaveChildren, Level, Revision

WalkInv == TypeOK /\ PcOK /\ WalkOK /\ ParentsHaveChildren

LEMMA WalkInvariant == Spec => []WalkInv
<1>1. Init => WalkInv
  BY InitTypePc, InitWalk DEF WalkInv
<1>2. WalkInv /\ [Next]_vars => WalkInv'
  BY TypeStep, PcStep, WalkPreserved, ParentsPreserved DEF WalkInv
<1>. QED
  BY <1>1, <1>2, PTL DEF Spec

\* Whatever registrations race to create the same project, region, service
\* and revision, and whichever bucket replaces which, a registration
\* that was answered 202 is found under its path.
THEOREM AcceptedResolvesHolds == Spec => []AcceptedResolves
<1>1. WalkInv => AcceptedResolves
  BY DEF WalkInv, WalkOK, Passed, AcceptedResolves, Resolves, KeyOf
<1>. QED
  BY WalkInvariant, <1>1, PTL

\* No key is ever visible above a missing one.
THEOREM ParentsHaveChildrenHolds == Spec => []ParentsHaveChildren
<1>1. WalkInv => ParentsHaveChildren
  BY DEF WalkInv
<1>. QED
  BY WalkInvariant, <1>1, PTL

-----------------------------------------------------------------------------
(* Where the configs are filed                                               *)

FileInv == TypeOK /\ PcOK /\ PointersOK /\ Filed

LEMMA BucketOfRevision ==
    ASSUME TypeOK, PointersOK, NEW r \in Request, BucketOf(InstanceOf[r]) # Null
    PROVE  KeyOf(BucketOf(InstanceOf[r]), Revision) = KeyOf(r, Revision)
BY RequestAssumption, KeyType DEF PointersOK, BucketOf, KeyOf, Key, Level, Revision

LEMMA PointersPreserved == FileInv /\ [Next]_vars => PointersOK'
<1>. SUFFICES ASSUME TypeOK, PcOK, PointersOK, [Next]_vars PROVE PointersOK'
  BY DEF FileInv
<1>. USE NullAssumption DEF TypeOK, PointersOK, KeyOf
<1>1. ASSUME NEW r \in Request, BeginPost(r) PROVE PointersOK'
  BY <1>1 DEF BeginPost, tree
<1>2. ASSUME NEW r \in Request, BeginDelete(r) \/ Lookup(r) PROVE PointersOK'
  BY <1>2 DEF BeginDelete, Lookup, tree
<1>3. ASSUME NEW r \in Request, FindBucket(r) PROVE PointersOK'
  BY <1>3, BucketOfRevision DEF FindBucket, tree
<1>4. ASSUME NEW r \in Request, NewBucket(r) PROVE PointersOK'
  BY <1>4 DEF NewBucket
<1>5. ASSUME NEW r \in Request, SetInBucket(r) PROVE PointersOK'
  BY <1>5 DEF SetInBucket
<1>6. ASSUME NEW r \in Request, Insert(r) PROVE PointersOK'
  <2>. PICK l \in Level : Put(r, l)
    BY <1>6, InsertPicks
  <2>1. \A n \in Name : revisionToInstancesMap'[n] # Null =>
            KeyOf(revisionToInstancesMap'[n], Revision) = n
    BY DEF Put
  <2>. QED
    BY <1>6, <2>1 DEF Insert
<1>8. ASSUME NEW r \in Request, Resolve(r) PROVE PointersOK'
  <2>1. /\ UNCHANGED <<revisionToInstancesMap, reaper, spawned>>
        /\ held' = held \/ held' = [held EXCEPT ![r] = BucketOf(InstanceOf[r])]
    BY <1>8 DEF Resolve, tree
  <2>2. \A q \in Request :
            held'[q] # Null => KeyOf(held'[q], Revision) = KeyOf(q, Revision)
    BY <2>1, BucketOfRevision
  <2>. QED
    BY <2>1, <2>2
<1>9. ASSUME NEW r \in Request, CheckTunnel(r) PROVE PointersOK'
  BY <1>9 DEF CheckTunnel, tree
<1>10. ASSUME NEW r \in Request, GetAndDel(r) PROVE PointersOK'
  BY <1>10 DEF GetAndDel
<1>11. ASSUME NEW r \in Request, RunSet(r) \/ RunDel(r) PROVE PointersOK'
  BY <1>11 DEF RunSet, RunDel, handler, tree
<1>12. ASSUME NEW i \in Instance, ReapVisit(i) PROVE PointersOK'
  BY <1>12 DEF ReapVisit, handler, tree
<1>13. CASE ReapResolve
  <2>1. reaper.stale \in Request
    BY <1>13 DEF ReapResolve, PcOK, ConfigOrNull
  <2>. QED
    BY <1>13, <2>1, BucketOfRevision DEF ReapResolve, Scanning, handler, tree
<1>14. CASE ReapGetAndDel
  BY <1>14 DEF ReapGetAndDel, Scanning, handler
<1>15. CASE ReapDel
  BY <1>15 DEF ReapDel, Scanning, handler, tree
<1>16. CASE Tick \/ UNCHANGED vars
  BY <1>16 DEF Tick, vars, handler, tree
<1>. QED
  BY <1>1, <1>2, <1>3, <1>4, <1>5, <1>6, <1>8, <1>9, <1>10, <1>11, <1>12,
     <1>13, <1>14, <1>15, <1>16
     DEF Next, Post, Delete, Goroutine, Reap

\* Storing the config of a request in a bucket of its revision, and removing
\* an entry, keep the bucket filed.
LEMMA BucketFiled ==
    ASSUME TypeOK, Filed, NEW b \in Bucket, NEW i \in Instance,
           NEW cfg \in ConfigOrNull,
           cfg # Null => /\ InstanceOf[cfg] = i
                         /\ KeyOf(cfg, Revision) = KeyOf(b, Revision),
           bucket' = [bucket EXCEPT ![b][i] = cfg],
           UNCHANGED instanceToConfigMap
    PROVE  Filed'
BY DEF Filed, TypeOK, KeyOf

LEMMA FiledPreserved == FileInv /\ [Next]_vars => Filed'
<1>. SUFFICES ASSUME FileInv, [Next]_vars PROVE Filed'
  OBVIOUS
<1>. USE RequestAssumption DEF FileInv, ConfigOrNull, Bucket
<1>1. ASSUME NEW r \in Request, NewBucket(r) PROVE Filed'
  BY <1>1, BucketFiled DEF NewBucket
<1>2. ASSUME NEW r \in Request, SetInBucket(r) PROVE Filed'
  <2>1. held[r] \in Bucket /\ KeyOf(held[r], Revision) = KeyOf(r, Revision)
    BY <1>2 DEF SetInBucket, TypeOK, PcOK, PointersOK, BucketOrNull
  <2>. QED
    BY <1>2, <2>1, BucketFiled DEF SetInBucket
<1>3. ASSUME NEW r \in Request, GetAndDel(r) PROVE Filed'
  <2>1. held[r] \in Bucket
    BY <1>3 DEF GetAndDel, TypeOK, PcOK, BucketOrNull
  <2>2. CASE bucket[held[r]][InstanceOf[r]] # Null
    BY <1>3, <2>1, <2>2, BucketFiled DEF GetAndDel
  <2>3. CASE bucket[held[r]][InstanceOf[r]] = Null
    BY <1>3, <2>3 DEF GetAndDel, Filed, KeyOf
  <2>. QED
    BY <2>2, <2>3
<1>4. CASE ReapGetAndDel
  <2>1. reaper.held \in Bucket /\ InstanceOf[reaper.stale] \in Instance
    BY <1>4 DEF ReapGetAndDel, TypeOK, PcOK, BucketOrNull
  <2>2. CASE bucket[reaper.held][InstanceOf[reaper.stale]] # Null
    BY <1>4, <2>1, <2>2, BucketFiled DEF ReapGetAndDel
  <2>3. CASE bucket[reaper.held][InstanceOf[reaper.stale]] = Null
    BY <1>4, <2>3 DEF ReapGetAndDel, Filed, KeyOf
  <2>. QED
    BY <2>2, <2>3
<1>5. ASSUME NEW r \in Request, RunSet(r) \/ RunDel(r) PROVE Filed'
  <2>1. InstanceOf[r] \in Instance
    OBVIOUS
  <2>2. CASE RunSet(r)
    BY <2>1, <2>2 DEF RunSet, Filed, KeyOf, TypeOK, tree
  <2>3. CASE RunDel(r)
    BY <2>1, <2>3 DEF RunDel, Filed, KeyOf, TypeOK, tree
  <2>. QED
    BY <1>5, <2>2, <2>3
<1>6. CASE ReapDel
  BY <1>6 DEF ReapDel, Filed, KeyOf, TypeOK, tree
<1>7. CASE UNCHANGED <<bucket, instanceToConfigMap>>
  BY <1>7 DEF Filed, KeyOf
<1>8. \/ UNCHANGED <<bucket, instanceToConfigMap>>
      \/ ReapGetAndDel \/ ReapDel
      \/ \E r \in Request : \/ NewBucket(r) \/ SetInBucket(r) \/ GetAndDel(r)
                            \/ RunSet(r) \/ RunDel(r)
  BY DEF Next, Post, Delete, Goroutine, Reap, vars, tree, BeginPost, BeginDelete,
         Lookup, FindBucket, Insert, Resolve, CheckTunnel,
         ReapVisit, ReapResolve, Tick
<1>. QED
  BY <1>1, <1>2, <1>3, <1>4, <1>5, <1>6, <1>7, <1>8

LEMMA FileInvariant == Spec => []FileInv
<1>1. Init => FileInv
  BY InitTypePc DEF Init, FileInv, PointersOK, Filed, Scanning
<1>2. FileInv /\ [Next]_vars => FileInv'
  BY TypeStep, PcStep, PointersPreserved, FiledPreserved DEF FileInv
<1>. QED
  BY <1>1, <1>2, PTL DEF Spec

\* DELETE and the reaper look where addInstance stored, for any paths the
\* instances have, two of them sharing the name of a revision included.
THEOREM FiledUnderRevisionHolds == Spec => []FiledUnderRevision
<1>1. FileInv => FiledUnderRevision
  BY BucketOfRevision DEF FileInv, Filed, FiledUnderRevision, KeyOf, Key
<1>. QED
  BY FileInvariant, <1>1, PTL

-----------------------------------------------------------------------------
(* Where the tunnel server learns of a registration                          *)

Started(r) == pc[r] # "idle" /\ MethodOf[r] = "POST"

\* Who can still change the global map: a POST that has begun, a DELETE that
\* has succeeded, and the reaper with a config that is old enough.
Origins ==
    /\ \A r \in Request : <<"Set", r>> \in spawned => Started(r)
    /\ \A r \in Request : <<"Del", r>> \in spawned => pc[r] = "removed"
    /\ \A i \in Instance : instanceToConfigMap[i] # Null =>
        Started(instanceToConfigMap[i])
    /\ reaper.stale # Null =>
        Started(reaper.stale) /\ Idle(reaper.stale) >= Timeout

Routed ==
    \A r \in Request : pc[r] \in Posting \cup {"accepted"} /\ NotRemoved(InstanceOf[r])
        => InIngressRules(InstanceOf[r]) \/ <<"Set", r>> \in spawned

RouteInv == FileInv /\ Origins /\ Routed

\* A request that has begun never begins again, and keeps its ts; one that has
\* removed something has; and time does not go back.
LEMMA Progress ==
    ASSUME TypeOK, [Next]_vars, NEW r \in Request
    PROVE  /\ now <= now'
           /\ pc[r] # "idle" => pc'[r] # "idle" /\ UNCHANGED lastPing[r]
           /\ pc[r] = "removed" => pc'[r] = "removed"
<1>1. ASSUME NEW q \in Request, BeginPost(q) \/ BeginDelete(q)
      PROVE  /\ UNCHANGED now
             /\ pc[r] # "idle" => UNCHANGED <<pc[r], lastPing[r]>>
  BY <1>1 DEF BeginPost, BeginDelete, TypeOK
<1>2. ASSUME NEW q \in Request, Post(q) \/ Delete(q)
      PROVE  /\ UNCHANGED <<now, lastPing>>
             /\ pc[q] \notin {"idle", "removed"} /\ pc'[q] # "idle"
             /\ q # r => UNCHANGED pc[r]
  <2>1. CASE Lookup(q) \/ FindBucket(q) \/ NewBucket(q)
    BY <2>1 DEF Lookup, FindBucket, NewBucket, TypeOK
  <2>2. CASE SetInBucket(q)
    BY <2>2 DEF SetInBucket, Unwind, TypeOK
  <2>3. CASE Insert(q)
    BY <2>3 DEF Insert, Unwind, TypeOK
  <2>4. CASE Delete(q)
    BY <2>4 DEF Delete, Resolve, CheckTunnel, GetAndDel, TypeOK
  <2>. QED
    BY <1>2, <2>1, <2>2, <2>3, <2>4 DEF Post
<1>3. \/ UNCHANGED handler /\ now <= now'
      \/ \E q \in Request : BeginPost(q) \/ BeginDelete(q) \/ Post(q) \/ Delete(q)
  <2>1. CASE Tick
    BY <2>1 DEF Tick, TypeOK
  <2>2. CASE UNCHANGED <<now, handler>>
    BY <2>2 DEF TypeOK
  <2>. QED
    BY <2>1, <2>2
       DEF Next, Goroutine, Reap, vars, RunSet, RunDel, ReapVisit, ReapResolve,
           ReapGetAndDel, ReapDel
<1>. QED
  BY <1>1, <1>2, <1>3 DEF handler, TypeOK

LEMMA NotRemovedBefore ==
    ASSUME TypeOK, TypeOK', [Next]_vars, NEW i \in Instance, NotRemoved(i)'
    PROVE  NotRemoved(i)
<1>. SUFFICES ASSUME NEW r \in Request, InstanceOf[r] = i
              PROVE  /\ pc[r] # "removed"
                     /\ Started(r) => Idle(r) < Timeout
  BY DEF NotRemoved, Started
<1>1. /\ now <= now'
      /\ pc[r] # "idle" => pc'[r] # "idle" /\ UNCHANGED lastPing[r]
      /\ pc[r] = "removed" => pc'[r] = "removed"
  BY Progress
<1>2. /\ pc'[r] # "removed"
      /\ Started(r)' => now' - lastPing'[r] < Timeout
  BY DEF NotRemoved, Started, Idle
<1>3. ASSUME Started(r) PROVE Idle(r) < Timeout
  <2>1. Started(r)' /\ lastPing'[r] = lastPing[r]
    BY <1>1, <1>3 DEF Started
  <2>2. now' \in Int /\ now \in Int /\ lastPing[r] \in Int /\ Timeout \in Int
    BY TimeAssumption DEF TypeOK
  <2>. QED
    BY <1>1, <1>2, <2>1, <2>2 DEF Idle
<1>. QED
  BY <1>1, <1>2, <1>3

LEMMA StartedStays ==
    ASSUME TypeOK, TypeOK', [Next]_vars, NEW r \in Request, Started(r)
    PROVE  /\ Started(r)'
           /\ Idle(r) >= Timeout => (Idle(r) >= Timeout)'
<1>1. now <= now' /\ pc'[r] # "idle" /\ UNCHANGED lastPing[r]
  BY Progress DEF Started
<1>2. now' \in Int /\ now \in Int /\ lastPing[r] \in Int /\ Timeout \in Int
  BY TimeAssumption DEF TypeOK
<1>. QED
  BY <1>1, <1>2 DEF Started, Idle

\* Which steps touch the goroutines, the global map and the reaper.
LEMMA Frames ==
    ASSUME [Next]_vars
    PROVE  /\ \/ UNCHANGED spawned
              \/ \E r \in Request :
                    BeginPost(r) \/ GetAndDel(r) \/ RunSet(r) \/ RunDel(r)
           /\ \/ UNCHANGED instanceToConfigMap
              \/ ReapDel
              \/ \E r \in Request : RunSet(r) \/ RunDel(r)
           /\ \/ UNCHANGED reaper
              \/ Reap
              \/ \E i \in Instance : ReapVisit(i)
<1>1. ASSUME NEW r \in Request, BeginDelete(r) \/ Post(r) \/ Resolve(r) \/ CheckTunnel(r)
      PROVE  UNCHANGED <<spawned, instanceToConfigMap, reaper>>
  BY <1>1 DEF Post, BeginDelete, Lookup, FindBucket, NewBucket, SetInBucket,
              Insert, Resolve, CheckTunnel
<1>2. ASSUME NEW r \in Request, BeginPost(r) \/ GetAndDel(r)
      PROVE  UNCHANGED <<instanceToConfigMap, reaper>>
  BY <1>2 DEF BeginPost, GetAndDel
<1>3. ASSUME NEW r \in Request, Goroutine(r)
      PROVE  UNCHANGED reaper
  BY <1>3 DEF Goroutine, RunSet, RunDel
<1>4. ASSUME NEW i \in Instance, ReapVisit(i)
      PROVE  UNCHANGED <<spawned, instanceToConfigMap>>
  BY <1>4 DEF ReapVisit
<1>5. CASE ReapResolve \/ ReapGetAndDel
  BY <1>5 DEF ReapResolve, ReapGetAndDel, Reap
<1>6. CASE ReapDel
  BY <1>6 DEF ReapDel, Reap
<1>7. CASE Tick \/ UNCHANGED vars
  BY <1>7 DEF Tick, vars
<1>. QED
  BY <1>1, <1>2, <1>3, <1>4, <1>5, <1>6, <1>7 DEF Next, Delete, Goroutine, Reap

LEMMA OriginsPreserved == FileInv /\ Origins /\ [Next]_vars => Origins'
<1>. SUFFICES ASSUME FileInv, Origins, [Next]_vars PROVE Origins'
  OBVIOUS
<1>. TypeOK /\ TypeOK'
  BY TypeStep DEF FileInv
<1>1. ASSUME NEW r \in Request, <<"Set", r>> \in spawned' PROVE Started(r)'
  <2>1. CASE <<"Set", r>> \in spawned
    BY <2>1, StartedStays DEF Origins
  <2>2. CASE <<"Set", r>> \notin spawned
    <3>1. PICK q \in Request :
            BeginPost(q) \/ GetAndDel(q) \/ RunSet(q) \/ RunDel(q)
      BY <1>1, <2>2, Frames
    <3>2. ~ RunSet(q) /\ ~ RunDel(q)
      BY <1>1, <2>2 DEF RunSet, RunDel
    <3>3. ~ GetAndDel(q)
      BY <1>1, <2>2 DEF GetAndDel
    <3>4. BeginPost(r)
      BY <1>1, <2>2, <3>1, <3>2, <3>3 DEF BeginPost
    <3>. QED
      BY <3>4 DEF BeginPost, Started, TypeOK
  <2>. QED
    BY <2>1, <2>2
<1>2. ASSUME NEW r \in Request, <<"Del", r>> \in spawned' PROVE pc'[r] = "removed"
  <2>1. CASE <<"Del", r>> \in spawned
    BY <2>1, Progress DEF Origins
  <2>2. CASE <<"Del", r>> \notin spawned
    <3>1. PICK q \in Request :
            BeginPost(q) \/ GetAndDel(q) \/ RunSet(q) \/ RunDel(q)
      BY <1>2, <2>2, Frames
    <3>2. ~ RunSet(q) /\ ~ RunDel(q) /\ ~ BeginPost(q)
      BY <1>2, <2>2 DEF RunSet, RunDel, BeginPost
    <3>3. GetAndDel(r) /\ spawned' # spawned
      BY <1>2, <2>2, <3>1, <3>2 DEF GetAndDel
    <3>. QED
      BY <3>3 DEF GetAndDel, TypeOK
  <2>. QED
    BY <2>1, <2>2
<1>3. ASSUME NEW i \in Instance, instanceToConfigMap'[i] # Null
      PROVE  Started(instanceToConfigMap[i])'
  <2>1. CASE instanceToConfigMap'[i] = instanceToConfigMap[i]
    BY <1>3, <2>1, StartedStays DEF Origins, TypeOK, ConfigOrNull, Started
  <2>2. CASE instanceToConfigMap'[i] # instanceToConfigMap[i]
    <3>1. PICK r \in Request : RunSet(r) /\ instanceToConfigMap'[i] = r
      BY <1>3, <2>2, Frames DEF TypeOK, ReapDel, RunSet, RunDel
    <3>. QED
      BY <3>1, StartedStays DEF RunSet, Origins, Started
  <2>. QED
    BY <2>1, <2>2
<1>4. ASSUME reaper'.stale # Null
      PROVE  Started(reaper.stale)' /\ (Idle(reaper.stale) >= Timeout)'
  <2>1. CASE reaper'.stale = reaper.stale
    <3>1. reaper.stale \in Request
      BY <1>4, <2>1 DEF TypeOK, ConfigOrNull
    <3>. QED
      BY <1>4, <2>1, <3>1, StartedStays DEF Origins, Started, Idle
  <2>2. CASE reaper'.stale # reaper.stale
    <3>1. PICK i \in Instance : ReapVisit(i)
      BY <1>4, <2>2, Frames
         DEF Reap, ReapResolve, ReapGetAndDel, ReapDel, Scanning
    <3>. DEFINE cfg == instanceToConfigMap[i]
    <3>2. cfg \in Request /\ Started(cfg) /\ Idle(cfg) >= Timeout
      BY <3>1 DEF ReapVisit, IsStale, Origins, TypeOK, ConfigOrNull
    <3>3. reaper'.stale = cfg
      BY <3>1 DEF ReapVisit
    <3>. QED
      BY <3>2, <3>3, StartedStays DEF Started, Idle
  <2>. QED
    BY <2>1, <2>2
<1>. QED
  BY <1>1, <1>2, <1>3, <1>4 DEF Origins, Started, Idle

\* Only BeginPost starts the walk of a POST.
LEMMA PostingBefore ==
    ASSUME TypeOK, [Next]_vars, NEW r \in Request, ~ BeginPost(r),
           pc'[r] \in Posting \cup {"accepted"}
    PROVE  pc[r] \in Posting \cup {"accepted"}
<1>1. CASE WalkStep(r)
  BY <1>1 DEF WalkStep, Lookup, FindBucket, NewBucket, SetInBucket, Insert, Posting
<1>2. CASE ~ WalkStep(r)
  BY <1>2, WalkOthers DEF Posting
<1>. QED
  BY <1>1, <1>2

LEMMA RoutedPreserved == RouteInv /\ [Next]_vars => Routed'
<1>. SUFFICES ASSUME RouteInv, [Next]_vars, NEW r \in Request,
                     pc'[r] \in Posting \cup {"accepted"},
                     NotRemoved(InstanceOf[r])',
                     <<"Set", r>> \notin spawned'
              PROVE  InIngressRules(InstanceOf[r])'
  BY DEF Routed
<1>. DEFINE i == InstanceOf[r]
<1>1. TypeOK /\ TypeOK' /\ PcOK /\ i \in Instance
  BY TypeStep, RequestAssumption DEF RouteInv, FileInv
<1>2. NotRemoved(i)
  BY <1>1, NotRemovedBefore
<1>3. CASE RunSet(r)
  BY <1>1, <1>3, NullAssumption DEF RunSet, InIngressRules, TypeOK
<1>4. CASE ~ RunSet(r)
  <2>1. <<"Set", r>> \notin spawned
    <3>1. CASE UNCHANGED spawned
      BY <3>1
    <3>2. ASSUME NEW q \in Request, BeginPost(q) \/ GetAndDel(q) PROVE spawned \subseteq spawned'
      BY <3>2 DEF BeginPost, GetAndDel
    <3>3. ASSUME NEW q \in Request, RunSet(q) \/ RunDel(q), ~ RunSet(r)
          PROVE  <<"Set", r>> \notin spawned
      BY <3>3 DEF RunSet, RunDel
    <3>. QED
      BY <1>4, <3>1, <3>2, <3>3, Frames
  <2>2. pc[r] \in Posting \cup {"accepted"}
    <3>1. ~ BeginPost(r)
      BY DEF BeginPost
    <3>. QED
      BY <1>1, <3>1, PostingBefore
  <2>3. InIngressRules(i)
    BY <1>2, <2>1, <2>2 DEF RouteInv, Routed
  <2>4. CASE instanceToConfigMap'[i] = instanceToConfigMap[i]
    BY <2>3, <2>4 DEF InIngressRules
  <2>5. CASE ReapDel
    <3>1. InstanceOf[reaper.stale] # i
      <4>1. reaper.stale \in Request
        BY <1>1, <2>5 DEF ReapDel, PcOK, TypeOK, ConfigOrNull
      <4>2. Started(reaper.stale) /\ Idle(reaper.stale) >= Timeout
        BY <4>1, NullAssumption DEF RouteInv, Origins
      <4>3. Idle(reaper.stale) \in Int /\ Timeout \in Int
        BY <1>1, <4>1, TimeAssumption DEF TypeOK, Idle
      <4>. QED
        BY <1>2, <4>1, <4>2, <4>3 DEF NotRemoved, Started
    <3>. QED
      BY <1>1, <2>3, <2>5, <3>1 DEF ReapDel, InIngressRules, TypeOK
  <2>6. ASSUME NEW q \in Request, RunSet(q) PROVE InIngressRules(i)'
    BY <1>1, <2>3, <2>6, NullAssumption DEF RunSet, InIngressRules, TypeOK
  <2>7. ASSUME NEW q \in Request, RunDel(q) PROVE InIngressRules(i)'
    <3>1. InstanceOf[q] # i
      BY <1>2, <2>7 DEF RunDel, RouteInv, Origins, NotRemoved
    <3>. QED
      BY <1>1, <2>3, <2>7, <3>1 DEF RunDel, InIngressRules, TypeOK
  <2>. QED
    BY <2>4, <2>5, <2>6, <2>7, Frames
<1>. QED
  BY <1>3, <1>4

\* However the goroutines of addInstance are delayed, a registration that was
\* answered reaches the tunnel server unless something removed the instance.
THEOREM AcceptedIsRoutedHolds == Spec => []AcceptedIsRouted
<1>1. Init => Origins /\ Routed
  BY DEF Init, Origins, Routed, Posting, Scanning
<1>2. RouteInv /\ [Next]_vars => (Origins /\ Routed)'
  BY OriginsPreserved, RoutedPreserved DEF RouteInv
<1>3. Origins /\ Routed /\ FileInv /\ [Next]_vars => (Origins /\ Routed)'
  BY <1>2 DEF RouteInv
<1>4. Routed => AcceptedIsRouted
  BY DEF Routed, AcceptedIsRouted
<1>. QED
  BY FileInvariant, <1>1, <1>3, <1>4, PTL DEF Spec

-----------------------------------------------------------------------------
(* Whose bucket is which                                                     *)

\* Who holds a pointer is about to use it, and the revision has a bucket.
HoldersOK ==
    /\ \A r \in Request : held[r] # Null =>
        /\ pc[r] \in {"set", "check", "getAndDel"}
        /\ Has(Revision, KeyOf(r, Revision))
    /\ reaper.held # Null =>
        /\ reaper.pc = "getAndDel"
        /\ Has(Revision, KeyOf(reaper.stale, Revision))

\* A POST owes a bucket only while it inserts.
OwesOK == \A r \in Request : Revision \in absent[r] => pc[r] = "insert"

\* The walk of r has stored the config and has at most outer keys to insert.
HasStored(r) ==
    /\ pc[r] \in {"insert", "accepted"}
    /\ Revision \notin absent[r]

\* A bucket that is linked is that of a POST that has stored.
LinkedOK ==
    \A n \in Name : revisionToInstancesMap[n] # Null =>
        HasStored(revisionToInstancesMap[n])

\* The bucket that r may yet make, or has made and not inserted.
Private(r) == pc[r] \in {"idle", "lookup"} \/ Revision \in absent[r]

\* It is linked nowhere, nobody holds a pointer to it, and once it is made it
\* has the one entry it was made for.
PrivateOK ==
    \A r \in Request : Private(r) =>
        /\ \A n \in Name : revisionToInstancesMap[n] # r
        /\ \A q \in Request : held[q] # r
        /\ reaper.held # r
        /\ \A i \in Instance :
            bucket[r][i] = IF Revision \in absent[r] /\ i = InstanceOf[r] THEN r ELSE Null

Buckets   == HoldersOK /\ OwesOK /\ LinkedOK /\ PrivateOK
BucketInv == WalkInv /\ FileInv /\ Origins /\ Buckets

LEMMA RequestKey ==
    ASSUME NEW r \in Request
    PROVE  InstanceOf[r] \in Instance /\ KeyOf(r, Revision) \in Name
BY RequestAssumption, KeyType DEF KeyOf, Level, Revision

\* Steps that leave the tree and the pointers alone.
LEMMA BucketsFrame ==
    ASSUME TypeOK, Buckets, UNCHANGED <<held, revisionToInstancesMap, bucket>>,
           reaper'.held = reaper.held,
           reaper.held # Null => UNCHANGED reaper,
           \A r \in Request :
            \/ UNCHANGED <<pc[r], absent[r]>>
            \/ /\ held[r] = Null /\ pc[r] \in {"idle", "lookup", "resolve"}
               /\ pc'[r] # "idle" /\ (pc'[r] = "lookup" => pc[r] \in {"idle", "lookup"})
               /\ Revision \notin absent'[r]
    PROVE  Buckets'
<1>. USE DEF TypeOK, Buckets
<1>1. HoldersOK'
  BY DEF HoldersOK, Has, KeyOf, Key
<1>2. OwesOK'
  BY DEF OwesOK
<1>3. LinkedOK'
  BY DEF LinkedOK, HasStored, BucketOrNull, Bucket
<1>4. PrivateOK'
  BY DEF PrivateOK, OwesOK, Private
<1>. QED
  BY <1>1, <1>2, <1>3, <1>4

\* A pointer to the bucket that is linked is taken.
LEMMA BucketsTake ==
    ASSUME TypeOK, Buckets, NEW r \in Request, NEW s \in {"set", "check"},
           Has(Revision, KeyOf(r, Revision)),
           pc[r] \in {"lookup", "resolve"},
           held' = [held EXCEPT ![r] = BucketOf(InstanceOf[r])],
           pc' = [pc EXCEPT ![r] = s],
           UNCHANGED <<level, absent, tree, reaper>>
    PROVE  Buckets'
<1>. USE DEF TypeOK, Buckets
<1>0. BucketOf(InstanceOf[r]) = revisionToInstancesMap[KeyOf(r, Revision)]
  BY DEF BucketOf, KeyOf
<1>1. HoldersOK'
  BY DEF HoldersOK, Has, KeyOf, Key, tree
<1>2. OwesOK'
  BY DEF OwesOK
<1>3. LinkedOK'
  BY DEF LinkedOK, HasStored, tree, BucketOrNull, Bucket
<1>4. PrivateOK'
  BY <1>0, RequestKey DEF PrivateOK, Private, tree
<1>. QED
  BY <1>1, <1>2, <1>3, <1>4

\* A pointer is dropped, and an entry of the bucket it leads to may be written.
LEMMA BucketsDrop ==
    ASSUME TypeOK, Buckets, NEW r \in Request, NEW s,
           s \in {"insert", "accepted", "notFound", "removed"},
           pc[r] \in {"set", "check", "getAndDel"}, held[r] # Null,
           held' = [held EXCEPT ![r] = Null],
           pc' = [pc EXCEPT ![r] = s],
           \/ UNCHANGED bucket
           \/ \E cfg : bucket' = [bucket EXCEPT ![held[r]][InstanceOf[r]] = cfg],
           UNCHANGED <<level, absent, known, revisionToInstancesMap, reaper>>
    PROVE  Buckets'
<1>. USE NullAssumption DEF TypeOK, Buckets
<1>0. held[r] \in Request /\ \A q \in Request : Private(q) => held[r] # q
  BY DEF PrivateOK, BucketOrNull, Bucket
<1>1. HoldersOK'
  BY DEF HoldersOK, Has, KeyOf, Key
<1>2. OwesOK'
  BY DEF OwesOK
<1>3. LinkedOK'
  BY DEF LinkedOK, HasStored, BucketOrNull, Bucket
<1>4. PrivateOK'
  <2>1. \A q \in Request : Private(q)' => Private(q) /\ q # held[r]
    BY <1>0 DEF Private
  <2>2. \A q \in Request : q # held[r] => bucket'[q] = bucket[q]
    BY <1>0 DEF Bucket
  <2>. QED
    BY <2>1, <2>2 DEF PrivateOK, Private
<1>. QED
  BY <1>1, <1>2, <1>3, <1>4

LEMMA BucketsNew ==
    ASSUME TypeOK, PcOK, WalkOK, Buckets, NEW r \in Request, NewBucket(r)
    PROVE  Buckets'
<1>. USE NullAssumption DEF TypeOK, Buckets, NewBucket
<1>1. HoldersOK'
  BY DEF HoldersOK, Has, KeyOf, Key
<1>2. OwesOK'
  BY DEF OwesOK
<1>3. LinkedOK'
  <2>1. \A n \in Name : revisionToInstancesMap[n] # r
    BY DEF PrivateOK, Private
  <2>. QED
    BY <2>1 DEF LinkedOK, HasStored, BucketOrNull, Bucket
<1>4. PrivateOK'
  <2>1. Private(r) /\ Revision \notin absent[r]
    BY DEF Private, OwesOK
  <2>2. \A q \in Request : Private(q)' => Private(q)
    BY <2>1 DEF Private
  <2>3. \A q \in Request : q # r => bucket'[q] = bucket[q] /\ absent'[q] = absent[q]
    BY DEF Bucket
  <2>4. Revision \in absent'[r]
    OBVIOUS
  <2>5. \A i \in Instance : bucket'[r][i] = IF i = InstanceOf[r] THEN r ELSE Null
    <3>1. \A i \in Instance : bucket[r][i] = Null
      BY <2>1 DEF PrivateOK
    <3>. QED
      BY <3>1 DEF Bucket
  <2>. QED
    BY <2>1, <2>2, <2>3, <2>4, <2>5 DEF PrivateOK
<1>. QED
  BY <1>1, <1>2, <1>3, <1>4

LEMMA BucketsInsert ==
    ASSUME TypeOK, PcOK, WalkOK, Buckets, NEW r \in Request, Insert(r)
    PROVE  Buckets'
<1>. USE NullAssumption DEF TypeOK, Buckets
<1>. PICK l \in Level :
        /\ Deepest(r, l) /\ Put(r, l)
        /\ absent' = [absent EXCEPT ![r] = @ \ {l}]
        /\ pc' = [pc EXCEPT ![r] = Unwind(absent[r] \ {l})]
  BY InsertPicks
<1>a. /\ pc[r] = "insert" /\ held[r] = Null /\ KeyOf(r, Revision) \in Name
      /\ UNCHANGED <<held, reaper, bucket>>
  BY RequestKey DEF Insert, HoldersOK
<1>b. Revision \in absent[r] => l = Revision
  BY DEF Deepest, Level, Revision
<1>c. /\ absent'[r] = absent[r] \ {l}
      /\ pc'[r] = IF absent[r] \ {l} = {} THEN "accepted" ELSE "insert"
      /\ \A q \in Request : q # r => pc'[q] = pc[q] /\ absent'[q] = absent[q]
  BY DEF Unwind
<1>1. HoldersOK'
  <2>1. \A q \in Request : Has(Revision, KeyOf(q, Revision)) => Has(Revision, KeyOf(q, Revision))'
    BY PutHas, RequestKey DEF KeyOf, Key, Level, Revision
  <2>2. reaper.held # Null => reaper.stale \in Request
    BY DEF PcOK, HoldersOK, ConfigOrNull
  <2>. QED
    BY <1>a, <1>c, <2>1, <2>2 DEF HoldersOK, KeyOf, Key
<1>2. OwesOK'
  BY <1>a, <1>b, <1>c DEF OwesOK
<1>3. LinkedOK'
  <2>1. HasStored(r)'
    BY <1>a, <1>b, <1>c DEF HasStored
  <2>2. \A q \in Request : HasStored(q) => HasStored(q)'
    BY <2>1, <1>c DEF HasStored
  <2>3. \A n \in Name : revisionToInstancesMap'[n] \in {revisionToInstancesMap[n], r}
    BY <1>a DEF Put
  <2>. QED
    BY <2>1, <2>2, <2>3 DEF LinkedOK, BucketOrNull, Bucket
<1>4. PrivateOK'
  <2>1. ~ Private(r)'
    BY <1>a, <1>b, <1>c DEF Private
  <2>2. \A n \in Name : revisionToInstancesMap'[n] \in {revisionToInstancesMap[n], r}
    BY <1>a DEF Put
  <2>3. \A q \in Request : q # r => (Private(q)' <=> Private(q))
    BY <1>c DEF Private
  <2>. QED
    BY <1>a, <1>c, <2>1, <2>2, <2>3 DEF PrivateOK
<1>. QED
  BY <1>1, <1>2, <1>3, <1>4

LEMMA BucketsReap ==
    ASSUME TypeOK, PcOK, PointersOK, Buckets, Reap \/ (\E i \in Instance : ReapVisit(i))
    PROVE  Buckets'
<1>. USE NullAssumption DEF TypeOK, Buckets
<1>0. UNCHANGED <<handler, revisionToInstancesMap>>
  BY DEF Reap, ReapVisit, ReapResolve, ReapGetAndDel, ReapDel, tree
<1>1. HoldersOK'
  BY <1>0 DEF HoldersOK, Reap, ReapVisit, ReapResolve, ReapGetAndDel, ReapDel,
              Scanning, handler, tree, Has, BucketOf, KeyOf, Key
<1>2. OwesOK'
  BY <1>0 DEF OwesOK, handler
<1>3. LinkedOK'
  BY <1>0 DEF LinkedOK, HasStored, handler, BucketOrNull, Bucket
<1>4. PrivateOK'
  <2>. SUFFICES ASSUME NEW q \in Request, Private(q)
                PROVE  reaper'.held # q /\ bucket'[q] = bucket[q]
    BY <1>0 DEF PrivateOK, Private, handler
  <2>1. reaper.held # q /\ \A n \in Name : revisionToInstancesMap[n] # q
    BY DEF PrivateOK
  <2>2. CASE ReapResolve
    <3>1. reaper.stale \in Request
      BY <2>2 DEF ReapResolve, PcOK, ConfigOrNull
    <3>. QED
      BY <2>1, <2>2, <3>1, RequestKey DEF ReapResolve, Scanning, tree, BucketOf, KeyOf
  <2>3. CASE ReapGetAndDel
    BY <2>1, <2>3 DEF ReapGetAndDel, Scanning, Bucket
  <2>4. CASE ReapDel \/ \E i \in Instance : ReapVisit(i)
    BY <2>1, <2>4 DEF ReapDel, ReapVisit, Scanning, tree
  <2>. QED
    BY <2>2, <2>3, <2>4 DEF Reap
<1>. QED
  BY <1>1, <1>2, <1>3, <1>4

LEMMA BucketsPreserved ==
    ASSUME BucketInv, [Next]_vars
    PROVE  Buckets'
<1>0. TypeOK /\ PcOK /\ WalkOK /\ PointersOK /\ Buckets
  BY DEF BucketInv, WalkInv, FileInv
<1>. USE <1>0, NullAssumption
<1>1. ASSUME NEW r \in Request, BeginPost(r) \/ BeginDelete(r) \/ Lookup(r)
      PROVE  Buckets'
  <2>1. UNCHANGED <<held, tree, reaper>> /\ held[r] = Null
    BY <1>1 DEF BeginPost, BeginDelete, Lookup, Buckets, HoldersOK
  <2>2. \A q \in Request : q # r => UNCHANGED <<pc[q], absent[q]>>
    BY <1>1 DEF BeginPost, BeginDelete, Lookup, TypeOK
  <2>3. /\ pc[r] \in {"idle", "lookup"} /\ pc'[r] \in {"lookup", "resolve"}
        /\ Revision \notin absent'[r]
    BY <1>1 DEF BeginPost, BeginDelete, Lookup, TypeOK, Buckets, OwesOK
  <2>. QED
    BY <2>1, <2>2, <2>3, BucketsFrame DEF tree
<1>2. ASSUME NEW r \in Request, FindBucket(r)
      PROVE  Buckets'
  BY <1>2, BucketsTake DEF FindBucket
<1>3. ASSUME NEW r \in Request, Resolve(r)
      PROVE  Buckets'
  <2>1. CASE Resolves(InstanceOf[r])
    <3>1. Has(Revision, KeyOf(r, Revision))
      BY <2>1 DEF Resolves, KeyOf, Level, Revision
    <3>. QED
      BY <1>3, <2>1, <3>1, BucketsTake DEF Resolve
  <2>2. CASE ~ Resolves(InstanceOf[r])
    <3>1. UNCHANGED <<held, tree, reaper, absent>> /\ held[r] = Null
      BY <1>3, <2>2 DEF Resolve, Buckets, HoldersOK
    <3>2. pc[r] = "resolve" /\ pc' = [pc EXCEPT ![r] = "notFound"] /\ Revision \notin absent'[r]
      BY <1>3, <2>2 DEF Resolve, Buckets, OwesOK
    <3>. QED
      BY <3>1, <3>2, BucketsFrame DEF tree, TypeOK
  <2>. QED
    BY <2>1, <2>2
<1>4. ASSUME NEW r \in Request, SetInBucket(r)
      PROVE  Buckets'
  <2>1. held[r] # Null /\ Unwind(absent[r]) \in {"insert", "accepted"}
    BY <1>4 DEF SetInBucket, PcOK, Unwind
  <2>. QED
    BY <1>4, <2>1, BucketsDrop DEF SetInBucket
<1>5. ASSUME NEW r \in Request, CheckTunnel(r)
      PROVE  Buckets'
  <2>1. held[r] # Null
    BY <1>5 DEF CheckTunnel, PcOK
  <2>2. CASE SameTunnel(r, bucket[held[r]][InstanceOf[r]])
    <3>1. /\ UNCHANGED <<held, tree, reaper, absent>>
          /\ pc[r] = "check" /\ pc' = [pc EXCEPT ![r] = "getAndDel"]
      BY <1>5, <2>2 DEF CheckTunnel
    <3>. USE DEF TypeOK, Buckets
    <3>2. HoldersOK'
      BY <3>1 DEF HoldersOK, Has, KeyOf, Key, tree
    <3>3. OwesOK'
      BY <3>1 DEF OwesOK
    <3>4. LinkedOK'
      BY <3>1 DEF LinkedOK, HasStored, tree, BucketOrNull, Bucket
    <3>5. PrivateOK'
      BY <3>1 DEF PrivateOK, Private, tree
    <3>. QED
      BY <3>2, <3>3, <3>4, <3>5
  <2>3. CASE ~ SameTunnel(r, bucket[held[r]][InstanceOf[r]])
    BY <1>5, <2>1, <2>3, BucketsDrop DEF CheckTunnel, tree
  <2>. QED
    BY <2>2, <2>3
<1>6. ASSUME NEW r \in Request, GetAndDel(r)
      PROVE  Buckets'
  <2>1. held[r] # Null
    BY <1>6 DEF GetAndDel, PcOK
  <2>2. PICK s \in {"removed", "notFound"} :
          /\ pc' = [pc EXCEPT ![r] = s]
          /\ \/ UNCHANGED bucket
             \/ bucket' = [bucket EXCEPT ![held[r]][InstanceOf[r]] = Null]
    BY <1>6 DEF GetAndDel
  <2>. QED
    BY <1>6, <2>1, <2>2, BucketsDrop DEF GetAndDel
<1>7. ASSUME \/ \E r \in Request : Goroutine(r)
             \/ Tick
             \/ UNCHANGED vars
      PROVE  Buckets'
  <2>1. UNCHANGED <<handler, tree, reaper>>
    BY <1>7 DEF Goroutine, RunSet, RunDel, Tick, vars
  <2>. QED
    BY <2>1, BucketsFrame DEF handler, tree
<1>. QED
  BY <1>1, <1>2, <1>3, <1>4, <1>5, <1>6, <1>7, BucketsNew, BucketsInsert, BucketsReap
     DEF Next, Post, Delete

LEMMA BucketInvariant == Spec => []BucketInv
<1>1. Init => Origins /\ Buckets
  BY NullAssumption DEF Init, Origins, Buckets, HoldersOK, OwesOK, LinkedOK, HasStored,
                        PrivateOK, Private, Scanning, Bucket
<1>2. WalkInv /\ FileInv /\ Origins /\ Buckets => BucketInv
  BY DEF BucketInv
<1>3. BucketInv /\ [Next]_vars => (Origins /\ Buckets)'
  BY OriginsPreserved, BucketsPreserved DEF BucketInv
<1>. QED
  BY FileInvariant, WalkInvariant, <1>1, <1>2, <1>3, PTL DEF Spec

-----------------------------------------------------------------------------
(* The maps implement one map from instances to registrations (Registry)     *)

LEMMA InvParts ==
    ASSUME BucketInv
    PROVE  /\ TypeOK /\ PcOK /\ WalkOK /\ PointersOK /\ Filed /\ Origins
           /\ HoldersOK /\ OwesOK /\ LinkedOK /\ PrivateOK
BY DEF BucketInv, WalkInv, FileInv, Buckets

LEMMA StaleType ==
    ASSUME TypeOK, PointersOK, reaper.held # Null
    PROVE  reaper.stale \in Request /\ reaper.held \in Request
BY DEF TypeOK, PointersOK, ConfigOrNull, BucketOrNull, Bucket

LEMMA LinkedType ==
    ASSUME TypeOK, NEW i \in Instance, BucketOf(i) # Null
    PROVE  BucketOf(i) \in Request /\ Key(i, Revision) \in Name
BY KeyType DEF TypeOK, BucketOf, BucketOrNull, Bucket, Level, Revision

\* What a step of one request makes of its status.
LEMMA StatusMoves ==
    ASSUME NEW r \in Request,
           \A q \in Request : q # r => UNCHANGED <<pc[q], absent[q]>>
    PROVE  Promise!Becomes(r, StatusOf(r)')
<1>1. \A q \in Request : q # r => StatusOf(q)' = StatusOf(q)
  BY DEF StatusOf, OwesOuterKeys
<1>2. /\ status' = [q \in Request |-> StatusOf(q)']
      /\ status = [q \in Request |-> StatusOf(q)]
  BY DEF status
<1>. QED
  BY <1>1, <1>2 DEF Promise!Becomes

LEMMA StatusKept ==
    ASSUME NEW r \in Request,
           \A q \in Request : q # r => UNCHANGED <<pc[q], absent[q]>>,
           StatusOf(r)' = StatusOf(r)
    PROVE  UNCHANGED status
BY DEF status, StatusOf, OwesOuterKeys

\* Steps that link no bucket and leave alone who owes one.
LEMMA RivalsKept ==
    ASSUME UNCHANGED revisionToInstancesMap,
           \A r \in Request : OwesBucket(r) /\ BucketOf(InstanceOf[r]) # Null
                <=> OwesBucket(r)' /\ BucketOf(InstanceOf[r]) # Null
    PROVE  UNCHANGED rivals
BY DEF rivals, BucketOf, Key

\* Who holds nothing, or the bucket that is linked, is not astray.
LEMMA AstrayMoves ==
    ASSUME TypeOK, NEW r \in Request,
           UNCHANGED revisionToInstancesMap,
           \A q \in Request : q # r => UNCHANGED held[q],
           held'[r] \in {Null, BucketOf(InstanceOf[r])}
    PROVE  astray' = astray \ {r}
BY DEF astray, BucketOf, Key

LEMMA ReaperAstrayKept ==
    ASSUME UNCHANGED <<revisionToInstancesMap, reaper>>
    PROVE  UNCHANGED <<doomed, reaperAstray>>
BY DEF doomed, reaperAstray, BucketOf, Key

LEMMA SameReading ==
    ASSUME UNCHANGED <<revisionToInstancesMap, bucket>>
    PROVE  UNCHANGED registered
BY DEF registered, BucketOf, Key

\* A write to the bucket that is linked for an instance writes the entry of this
\* instance, and only that.
LEMMA LinkedWrite ==
    ASSUME TypeOK, UNCHANGED revisionToInstancesMap, NEW i \in Instance, NEW cfg,
           BucketOf(i) # Null, bucket' = [bucket EXCEPT ![BucketOf(i)][i] = cfg]
    PROVE  Promise!Register(i, cfg)
<1>. DEFINE b == BucketOf(i)
<1>1. b \in Request
  BY LinkedType
<1>2. \A j \in Instance : BucketOf(j)' = BucketOf(j)
  BY DEF BucketOf, Key
<1>3. ASSUME NEW j \in Instance, BucketOf(j) # Null
      PROVE  bucket'[BucketOf(j)][j] = IF j = i THEN cfg ELSE bucket[BucketOf(j)][j]
  <2>1. BucketOf(j) \in Request
    BY <1>3, LinkedType
  <2>. QED
    BY <1>1, <2>1 DEF TypeOK, Bucket
<1>4. \A j \in Instance :
        registered'[j] = IF j = i THEN cfg ELSE registered[j]
  BY <1>2, <1>3 DEF registered
<1>5. registered' = [j \in Instance |-> registered'[j]]
  BY DEF registered
<1>6. registered = [j \in Instance |-> registered[j]]
  BY DEF registered
<1>. QED
  BY <1>4, <1>5, <1>6 DEF Promise!Register

\* A write to a bucket that is linked nowhere is not read.
LEMMA HiddenWrite ==
    ASSUME TypeOK, UNCHANGED revisionToInstancesMap, NEW b \in Request,
           \A i \in Instance : BucketOf(i) # b,
           \A c \in Request : c # b => UNCHANGED bucket[c]
    PROVE  UNCHANGED registered
<1>1. \A j \in Instance : BucketOf(j)' = BucketOf(j)
  BY DEF BucketOf, Key
<1>2. ASSUME NEW j \in Instance, BucketOf(j) # Null
      PROVE  bucket'[BucketOf(j)][j] = bucket[BucketOf(j)][j]
  BY <1>2, LinkedType
<1>. QED
  BY <1>1, <1>2 DEF registered

\* The bucket that was linked when a handler, or the reaper, looked and is not
\* linked any more is not linked elsewhere.
LEMMA ReplacedIsHidden ==
    ASSUME TypeOK, PointersOK, NEW r \in Request, NEW b \in Request,
           KeyOf(b, Revision) = KeyOf(r, Revision), b # BucketOf(InstanceOf[r])
    PROVE  \A i \in Instance : BucketOf(i) # b
<1>. SUFFICES ASSUME NEW i \in Instance, BucketOf(i) = b PROVE FALSE
  OBVIOUS
<1>1. Key(i, Revision) \in Name
  BY KeyType DEF Level, Revision
<1>2. KeyOf(b, Revision) = Key(i, Revision)
  BY <1>1, NullAssumption DEF PointersOK, BucketOf
<1>. QED
  BY <1>2 DEF BucketOf, KeyOf

\* Linking a bucket makes one entry readable, that of its creator, and none but
\* this one of the revision.
LEMMA LinkedNew ==
    ASSUME BucketInv, NEW r \in Request, Insert(r), Revision \in absent[r],
           revisionToInstancesMap' = [revisionToInstancesMap EXCEPT ![KeyOf(r, Revision)] = r]
    PROVE  /\ \A q \in Request :
                BucketOf(InstanceOf[q])' =
                    IF q \in Promise!OfRevision(RevisionOf[InstanceOf[r]])
                    THEN r ELSE BucketOf(InstanceOf[q])
           /\ registered' = [i \in Instance |->
                IF i = InstanceOf[r] THEN r
                ELSE IF RevisionOf[i] = RevisionOf[InstanceOf[r]] THEN Null
                ELSE registered[i]]
<1>. DEFINE i == InstanceOf[r]
<1>0. /\ TypeOK /\ PrivateOK /\ i \in Instance /\ r # Null
      /\ \A q \in Request : InstanceOf[q] \in Instance
  BY InvParts, RequestKey, NullAssumption
<1>1. \A j \in Instance : bucket[r][j] = IF j = i THEN r ELSE Null
  BY <1>0 DEF PrivateOK, Private
<1>2. bucket' = bucket /\ \A j \in Instance : Key(j, Revision) \in Name
  BY KeyType DEF Insert, Level, Revision
<1>3. \A j \in Instance :
        BucketOf(j)' = IF RevisionOf[j] = RevisionOf[i] THEN r ELSE BucketOf(j)
  BY <1>0, <1>2 DEF TypeOK, BucketOf, Key, KeyOf, RevisionOf
<1>4. \A j \in Instance : registered'[j] =
            IF j = i THEN r
            ELSE IF RevisionOf[j] = RevisionOf[i] THEN Null ELSE registered[j]
  BY <1>0, <1>1, <1>2, <1>3 DEF registered
<1>5. registered' = [j \in Instance |-> registered'[j]]
  BY DEF registered
<1>6. \A q \in Request :
        BucketOf(InstanceOf[q])' = IF q \in Promise!OfRevision(RevisionOf[i])
                                   THEN r ELSE BucketOf(InstanceOf[q])
  BY <1>0, <1>3 DEF Promise!OfRevision
<1>. QED
  BY <1>4, <1>5, <1>6

\* A revision has a bucket exactly from the first POST on that has stored.
LEMMA OpenedIsLinked ==
    ASSUME BucketInv, NEW i \in Instance
    PROVE  Promise!Opened(RevisionOf[i]) <=> BucketOf(i) # Null
<1>0. /\ TypeOK /\ PcOK /\ WalkOK /\ PointersOK /\ LinkedOK
      /\ RevisionOf[i] = Key(i, Revision) /\ Key(i, Revision) \in Name
  BY InvParts, KeyType DEF RevisionOf, Level, Revision
<1>1. ASSUME BucketOf(i) # Null PROVE Promise!Opened(RevisionOf[i])
  <2>. DEFINE b == BucketOf(i)
  <2>1. b \in Request /\ HasStored(b)
    BY <1>0, <1>1, LinkedType DEF LinkedOK, BucketOf
  <2>2. status[b] \in {"stored", "accepted"} /\ MethodOf[b] = "POST"
    BY <1>0, <2>1 DEF HasStored, status, StatusOf, OwesOuterKeys, Answered, PcOK, Posting
  <2>3. RevisionOf[InstanceOf[b]] = RevisionOf[i]
    BY <1>0, <1>1, <2>1, RequestKey DEF PointersOK, BucketOf, KeyOf, RevisionOf
  <2>. HIDE DEF b
  <2>. QED
    BY <2>1, <2>2, <2>3 DEF Promise!Opened, Promise!OfRevision
<1>2. ASSUME Promise!Opened(RevisionOf[i]) PROVE BucketOf(i) # Null
  <2>1. PICK q \in Request : /\ RevisionOf[InstanceOf[q]] = RevisionOf[i]
                             /\ status[q] \in {"stored", "accepted"}
    BY <1>2 DEF Promise!Opened, Promise!OfRevision
  <2>2. pc[q] \in {"insert", "accepted"} /\ (pc[q] = "insert" => Revision \notin absent[q])
    BY <2>1 DEF status, StatusOf, OwesOuterKeys, Answered
  <2>3. Revision \in Level /\ Passed(q, Revision)
    BY <1>0, <2>2 DEF WalkOK, Passed, Level, Revision
  <2>4. Has(Revision, KeyOf(q, Revision))
    BY <1>0, <2>3 DEF WalkOK
  <2>5. KeyOf(q, Revision) = Key(i, Revision)
    BY <1>0, <2>1, RequestKey DEF RevisionOf, KeyOf
  <2>. QED
    BY <2>4, <2>5 DEF Has, BucketOf
<1>. QED
  BY <1>1, <1>2

\* Linking a bucket where there was none: the POSTs that owe one become rivals,
\* and nobody holds a pointer.
LEMMA FirstOfRevision ==
    ASSUME BucketInv, NEW r \in Request, Insert(r), Revision \in absent[r],
           revisionToInstancesMap' = [revisionToInstancesMap EXCEPT ![KeyOf(r, Revision)] = r],
           BucketOf(InstanceOf[r]) = Null,
           Revision \notin absent'[r],
           \A q \in Request : q # r => UNCHANGED <<pc[q], absent[q]>>
    PROVE  /\ r \notin rivals \cup astray
           /\ \E late \in SUBSET {q \in Promise!Peers(r) : Promise!Waiting(q)} :
                rivals' = rivals \cup late
           /\ UNCHANGED <<astray, reaperAstray>>
<1>0. /\ TypeOK /\ PcOK /\ PointersOK /\ HoldersOK /\ OwesOK /\ r # Null
      /\ UNCHANGED <<held, reaper>> /\ pc[r] = "insert"
  BY InvParts, NullAssumption DEF Insert
<1>. DEFINE Of == Promise!OfRevision(RevisionOf[InstanceOf[r]])
<1>1. \A q \in Request :
        BucketOf(InstanceOf[q])' = IF q \in Of THEN r ELSE BucketOf(InstanceOf[q])
  BY LinkedNew
<1>2. \A q \in Request : q \in Of => BucketOf(InstanceOf[q]) = Null
  BY RequestKey DEF Promise!OfRevision, RevisionOf, BucketOf
<1>3. \A q \in Request : q \in Of => held[q] = Null
  BY <1>0, <1>2 DEF HoldersOK, Has, BucketOf, KeyOf
<1>4. r \in Of
  BY DEF Promise!OfRevision
<1>5. UNCHANGED astray /\ r \notin astray
  BY <1>0, <1>1, <1>3, <1>4 DEF astray
<1>6. UNCHANGED reaperAstray
  <2>1. CASE reaper.held = Null
    BY <1>0, <2>1 DEF reaperAstray
  <2>2. CASE reaper.held # Null
    <3>1. reaper.stale \in Request /\ BucketOf(InstanceOf[reaper.stale]) # Null
      BY <1>0, <2>2, StaleType DEF HoldersOK, Has, BucketOf, KeyOf
    <3>. QED
      BY <1>0, <1>1, <1>2, <3>1 DEF reaperAstray
  <2>. QED
    BY <2>1, <2>2
<1>. DEFINE late == {q \in Request : q \in Of /\ q # r /\ OwesBucket(q)}
<1>7. rivals' = rivals \cup late /\ r \notin rivals
  <2>1. \A q \in Request : OwesBucket(q)' <=> q # r /\ OwesBucket(q)
    BY DEF OwesBucket
  <2>. QED
    BY <1>0, <1>1, <1>2, <1>4, <2>1 DEF rivals
<1>8. late \in SUBSET {q \in Promise!Peers(r) : Promise!Waiting(q)}
  <2>1. \A q \in late : status[q] = "pending" /\ MethodOf[q] = "POST"
    BY <1>0 DEF OwesBucket, status, StatusOf, OwesOuterKeys, Answered, PcOK, Posting
  <2>. QED
    BY <2>1 DEF Promise!Peers, Promise!OfRevision, Promise!Waiting
<1>. QED
  BY <1>5, <1>6, <1>7, <1>8

\* Linking a bucket where there was one: who held the old one goes astray.
LEMMA RivalOfRevision ==
    ASSUME BucketInv, NEW r \in Request, Insert(r), Revision \in absent[r],
           revisionToInstancesMap' = [revisionToInstancesMap EXCEPT ![KeyOf(r, Revision)] = r],
           BucketOf(InstanceOf[r]) # Null,
           Revision \notin absent'[r],
           \A q \in Request : q # r => UNCHANGED <<pc[q], absent[q]>>
    PROVE  /\ r \in rivals
           /\ rivals' = rivals \ {r}
           /\ \E lost \in SUBSET {q \in Promise!Peers(r) : Promise!Busy(q)} :
                astray' = astray \cup lost
           /\ \/ UNCHANGED reaperAstray
              \/ /\ doomed # Null
                 /\ RevisionOf[InstanceOf[doomed]] = RevisionOf[InstanceOf[r]]
                 /\ reaperAstray' = TRUE
<1>0. /\ TypeOK /\ PcOK /\ PointersOK /\ HoldersOK /\ PrivateOK /\ r # Null
      /\ UNCHANGED <<held, reaper>> /\ pc[r] = "insert" /\ held[r] = Null
  BY InvParts, NullAssumption DEF Insert, HoldersOK
<1>. DEFINE Of == Promise!OfRevision(RevisionOf[InstanceOf[r]])
<1>1. \A q \in Request :
        BucketOf(InstanceOf[q])' = IF q \in Of THEN r ELSE BucketOf(InstanceOf[q])
  BY LinkedNew
<1>2. \A q \in Request : q \in Of => BucketOf(InstanceOf[q]) # Null
  BY RequestKey DEF Promise!OfRevision, RevisionOf, BucketOf
<1>3. (\A q \in Request : held[q] # r) /\ reaper.held # r
  BY <1>0 DEF PrivateOK, Private
<1>4. r \in rivals /\ rivals' = rivals \ {r}
  <2>1. \A q \in Request : OwesBucket(q)' <=> q # r /\ OwesBucket(q)
    BY DEF OwesBucket
  <2>2. OwesBucket(r)
    BY <1>0 DEF OwesBucket
  <2>. QED
    BY <1>0, <1>1, <1>2, <2>1, <2>2 DEF rivals
<1>. DEFINE lost == {q \in Request : q \in Of /\ held[q] # Null}
<1>5. astray' = astray \cup lost
  BY <1>0, <1>1, <1>3 DEF astray
<1>6. lost \in SUBSET {q \in Promise!Peers(r) : Promise!Busy(q)}
  <2>1. \A q \in lost : pc[q] \in {"set", "check", "getAndDel"} /\ q # r
    BY <1>0 DEF HoldersOK
  <2>2. \A q \in lost : status[q] \in {"pending", "matched"}
    BY <2>1 DEF status, StatusOf, OwesOuterKeys, Answered
  <2>. QED
    BY <2>1, <2>2 DEF Promise!Peers, Promise!OfRevision, Promise!Busy
<1>7. ASSUME ~ UNCHANGED reaperAstray
      PROVE  /\ doomed # Null
             /\ RevisionOf[InstanceOf[doomed]] = RevisionOf[InstanceOf[r]]
             /\ reaperAstray' = TRUE
  <2>1. reaper.held # Null
    BY <1>0, <1>7 DEF reaperAstray
  <2>2. reaper.stale \in Request /\ reaper.stale # Null /\ doomed = reaper.stale
    BY <1>0, <2>1, StaleType, NullAssumption DEF HoldersOK, doomed
  <2>3. reaper.stale \in Of
    BY <1>0, <1>1, <1>7, <2>1, <2>2 DEF reaperAstray
  <2>4. reaperAstray'
    BY <1>0, <1>1, <1>3, <2>1, <2>2, <2>3 DEF reaperAstray
  <2>. QED
    BY <2>2, <2>3, <2>4 DEF Promise!OfRevision, reaperAstray
<1>. QED
  BY <1>4, <1>5, <1>6, <1>7

\* The walk of a POST, seen from outside: it arrives, stores, may have outer
\* keys to insert, and is accepted.
LEMMA WalkImplements ==
    ASSUME BucketInv, NEW r \in Request,
           BeginPost(r) \/ Lookup(r) \/ FindBucket(r) \/ NewBucket(r)
    PROVE  [Promise!Next]_Promise!vars
<1>0. TypeOK /\ PcOK /\ PrivateOK /\ HoldersOK /\ OwesOK /\ InstanceOf[r] \in Instance
  BY InvParts, RequestKey
<1>1. /\ UNCHANGED <<now, doomed, reaperAstray>>
      /\ \A q \in Request : q # r => UNCHANGED <<pc[q], absent[q]>>
  BY <1>0, ReaperAstrayKept DEF BeginPost, Lookup, FindBucket, NewBucket, TypeOK, tree
<1>2. UNCHANGED rivals
  <2>1. UNCHANGED revisionToInstancesMap
    BY DEF BeginPost, Lookup, FindBucket, NewBucket, tree
  <2>2. ~ OwesBucket(r) /\ (OwesBucket(r)' => NewBucket(r))
    BY <1>0 DEF OwesBucket, BeginPost, Lookup, FindBucket, NewBucket, TypeOK
  <2>3. NewBucket(r) => BucketOf(InstanceOf[r]) = Null
    BY DEF NewBucket, Has, BucketOf, KeyOf
  <2>. QED
    BY <1>1, <2>1, <2>2, <2>3, RivalsKept DEF OwesBucket
<1>3. UNCHANGED astray
  <2>1. held[r] = Null /\ held'[r] \in {Null, BucketOf(InstanceOf[r])}
    BY <1>0 DEF HoldersOK, BeginPost, Lookup, FindBucket, NewBucket, TypeOK
  <2>2. /\ UNCHANGED revisionToInstancesMap
        /\ \A q \in Request : q # r => UNCHANGED held[q]
    BY <1>0 DEF BeginPost, Lookup, FindBucket, NewBucket, tree, TypeOK
  <2>3. r \notin astray
    BY <2>1 DEF astray
  <2>. QED
    BY <1>0, <2>1, <2>2, <2>3, AstrayMoves
<1>4. UNCHANGED registered
  <2>1. CASE NewBucket(r)
    <3>1. \A i \in Instance : BucketOf(i) # r
      BY <1>0, <2>1, KeyType DEF PrivateOK, Private, NewBucket, BucketOf, Level, Revision
    <3>2. \A c \in Request : c # r => UNCHANGED bucket[c]
      BY <1>0, <2>1 DEF NewBucket, TypeOK, Bucket
    <3>. QED
      BY <1>0, <2>1, <3>1, <3>2, HiddenWrite DEF NewBucket
  <2>2. CASE ~ NewBucket(r)
    BY <2>2, SameReading DEF BeginPost, Lookup, FindBucket, tree
  <2>. QED
    BY <2>1, <2>2
<1>5. CASE BeginPost(r)
  <2>1. status[r] = "idle" /\ StatusOf(r)' = "pending" /\ MethodOf[r] = "POST"
    BY <1>0, <1>5 DEF BeginPost, TypeOK, status, StatusOf, OwesOuterKeys, Answered
  <2>2. lastPing' = [lastPing EXCEPT ![r] = now]
    BY <1>5 DEF BeginPost
  <2>. QED
    BY <1>1, <1>2, <1>3, <1>4, <2>1, <2>2, StatusMoves DEF Promise!Next, Promise!Arrive
<1>6. CASE Lookup(r) \/ FindBucket(r) \/ NewBucket(r)
  <2>1. StatusOf(r)' = StatusOf(r)
    <3>1. \/ pc[r] = "lookup" /\ pc'[r] \in {"lookup", "set"}
          \/ NewBucket(r)
      BY <1>0, <1>6 DEF Lookup, FindBucket, TypeOK
    <3>2. CASE NewBucket(r)
      BY <1>0, <3>2 DEF NewBucket, TypeOK, StatusOf, OwesOuterKeys, Answered, Revision
    <3>3. CASE pc[r] = "lookup" /\ pc'[r] \in {"lookup", "set"}
      BY <3>3 DEF StatusOf, OwesOuterKeys, Answered
    <3>. QED
      BY <3>1, <3>2, <3>3
  <2>2. UNCHANGED <<status, lastPing>>
    BY <1>1, <1>6, <2>1, StatusKept DEF Lookup, FindBucket, NewBucket
  <2>. QED
    BY <1>1, <1>2, <1>3, <1>4, <2>2 DEF Promise!vars
<1>. QED
  BY <1>5, <1>6

LEMMA SetImplements ==
    ASSUME BucketInv, NEW r \in Request, SetInBucket(r)
    PROVE  Promise!Next
<1>0. /\ TypeOK /\ PcOK /\ PointersOK /\ HoldersOK /\ OwesOK
      /\ InstanceOf[r] \in Instance /\ MethodOf[r] = "POST"
      /\ held[r] # Null /\ held[r] \in Request
  BY InvParts, RequestKey DEF SetInBucket, PcOK, Posting, TypeOK, BucketOrNull, Bucket
<1>1. /\ UNCHANGED <<now, lastPing, doomed, reaperAstray>>
      /\ UNCHANGED <<revisionToInstancesMap, absent>>
      /\ pc[r] = "set" /\ pc'[r] = Unwind(absent[r]) /\ Revision \notin absent[r]
      /\ \A q \in Request : q # r => UNCHANGED <<pc[q], absent[q]>>
  BY <1>0, ReaperAstrayKept DEF SetInBucket, TypeOK, OwesOK
<1>2. UNCHANGED rivals /\ r \notin rivals
  <2>1. ~ OwesBucket(r) /\ ~ OwesBucket(r)'
    BY <1>1 DEF OwesBucket
  <2>. QED
    BY <1>1, <2>1, RivalsKept DEF OwesBucket, rivals
<1>3. astray' = astray \ {r}
  BY <1>0, <1>1, AstrayMoves DEF SetInBucket, TypeOK
<1>4. Promise!Waiting(r) /\ Promise!Stores(r)
  <2>1. status[r] = "pending" /\ StatusOf(r)' \in {"stored", "accepted"}
    BY <1>1 DEF Unwind, status, StatusOf, OwesOuterKeys, Answered
  <2>. QED
    BY <1>0, <1>1, <2>1, StatusMoves DEF Promise!Waiting, Promise!Stores
<1>5. CASE held[r] = BucketOf(InstanceOf[r])
  <2>1. Promise!Register(InstanceOf[r], r)
    BY <1>0, <1>1, <1>5, LinkedWrite DEF SetInBucket
  <2>2. r \notin astray /\ UNCHANGED astray
    BY <1>3, <1>5 DEF astray
  <2>3. Promise!Opened(RevisionOf[InstanceOf[r]])
    BY <1>0, <1>5, OpenedIsLinked
  <2>. QED
    BY <1>1, <1>2, <1>4, <2>1, <2>2, <2>3 DEF Promise!Next, Promise!Store
<1>6. CASE held[r] # BucketOf(InstanceOf[r])
  <2>1. \A i \in Instance : BucketOf(i) # held[r]
    BY <1>0, <1>6, ReplacedIsHidden DEF PointersOK
  <2>2. \A c \in Request : c # held[r] => UNCHANGED bucket[c]
    BY <1>0 DEF SetInBucket, TypeOK, Bucket
  <2>3. UNCHANGED registered
    BY <1>0, <1>1, <2>1, <2>2, HiddenWrite
  <2>4. r \in astray
    BY <1>0, <1>6 DEF astray
  <2>. QED
    BY <1>1, <1>2, <1>3, <1>4, <2>3, <2>4 DEF Promise!Next, Promise!Stray
<1>. QED
  BY <1>5, <1>6

LEMMA InsertImplements ==
    ASSUME BucketInv, NEW r \in Request, Insert(r)
    PROVE  [Promise!Next]_Promise!vars
<1>0. /\ TypeOK /\ PcOK /\ HoldersOK /\ InstanceOf[r] \in Instance
      /\ MethodOf[r] = "POST"
  BY InvParts, RequestKey DEF Insert, PcOK, Posting
<1>1. PICK l \in Level :
        /\ Deepest(r, l) /\ Put(r, l)
        /\ absent' = [absent EXCEPT ![r] = @ \ {l}]
        /\ pc' = [pc EXCEPT ![r] = Unwind(absent[r] \ {l})]
  BY InsertPicks
<1>2. /\ pc[r] = "insert" /\ absent'[r] = absent[r] \ {l}
      /\ pc'[r] = Unwind(absent[r] \ {l})
      /\ \A q \in Request : q # r => UNCHANGED <<pc[q], absent[q]>>
      /\ UNCHANGED <<now, lastPing, held, bucket, reaper>>
  BY <1>0, <1>1 DEF Insert, TypeOK
<1>3. UNCHANGED doomed
  BY <1>2 DEF doomed
<1>4. CASE l = Revision
  <2>1. /\ Revision \in absent[r] /\ Revision \notin absent'[r]
        /\ revisionToInstancesMap' = [revisionToInstancesMap EXCEPT ![KeyOf(r, Revision)] = r]
    BY <1>1, <1>2, <1>4 DEF Deepest, Put
  <2>2. Promise!Waiting(r) /\ Promise!Stores(r)
    <3>1. status[r] = "pending" /\ StatusOf(r)' \in {"stored", "accepted"}
      BY <1>2, <1>4, <2>1 DEF Unwind, status, StatusOf, OwesOuterKeys, Answered
    <3>. QED
      BY <1>0, <1>2, <3>1, StatusMoves DEF Promise!Waiting, Promise!Stores
  <2>3. registered' = [i \in Instance |->
            IF i = InstanceOf[r] THEN r
            ELSE IF RevisionOf[i] = RevisionOf[InstanceOf[r]] THEN Null
            ELSE registered[i]]
    BY <2>1, LinkedNew
  <2>4. CASE BucketOf(InstanceOf[r]) = Null
    <3>1. Promise!Register(InstanceOf[r], r)
      <4>1. \A i \in Instance :
                RevisionOf[i] = RevisionOf[InstanceOf[r]] => registered[i] = Null
        BY <1>0, <2>4 DEF RevisionOf, registered, BucketOf
      <4>2. registered = [i \in Instance |-> registered[i]]
        BY DEF registered
      <4>. QED
        BY <2>3, <4>1, <4>2 DEF Promise!Register
    <3>2. ~ Promise!Opened(RevisionOf[InstanceOf[r]])
      BY <1>0, <2>4, OpenedIsLinked
    <3>3. /\ r \notin rivals \cup astray
          /\ \E late \in SUBSET {q \in Promise!Peers(r) : Promise!Waiting(q)} :
                rivals' = rivals \cup late
          /\ UNCHANGED <<astray, reaperAstray>>
      BY <1>2, <2>1, <2>4, FirstOfRevision
    <3>4. Promise!Store(r)
      BY <1>2, <1>3, <2>2, <3>1, <3>2, <3>3 DEF Promise!Store
    <3>. QED
      BY <3>4 DEF Promise!Next
  <2>5. CASE BucketOf(InstanceOf[r]) # Null
    <3>1. /\ r \in rivals
          /\ rivals' = rivals \ {r}
          /\ \E lost \in SUBSET {q \in Promise!Peers(r) : Promise!Busy(q)} :
                astray' = astray \cup lost
          /\ \/ UNCHANGED reaperAstray
             \/ /\ doomed # Null
                /\ RevisionOf[InstanceOf[doomed]] = RevisionOf[InstanceOf[r]]
                /\ reaperAstray' = TRUE
      BY <1>2, <2>1, <2>5, RivalOfRevision
    <3>2. Promise!StoreAsRival(r)
      BY <1>2, <1>3, <2>2, <2>3, <3>1 DEF Promise!StoreAsRival
    <3>. QED
      BY <3>2 DEF Promise!Next
  <2>. QED
    BY <2>4, <2>5
<1>5. CASE l # Revision
  <2>1. Revision \notin absent[r] /\ Revision \notin absent'[r]
    BY <1>0, <1>1, <1>2, <1>5 DEF Deepest, TypeOK, Level, Revision
  <2>2. UNCHANGED revisionToInstancesMap
    BY <1>1, <1>5 DEF Put
  <2>3. UNCHANGED <<registered, astray, reaperAstray>>
    BY <1>2, <2>2, SameReading, ReaperAstrayKept DEF astray, BucketOf, Key
  <2>4. UNCHANGED rivals
    <3>1. ~ OwesBucket(r) /\ ~ OwesBucket(r)'
      BY <2>1 DEF OwesBucket
    <3>. QED
      BY <1>2, <2>2, <3>1, RivalsKept DEF OwesBucket
  <2>5. status[r] = "stored" /\ StatusOf(r)' \in {"stored", "accepted"}
    BY <1>2, <2>1 DEF Unwind, status, StatusOf, OwesOuterKeys, Answered
  <2>6. CASE StatusOf(r)' = "accepted"
    BY <1>2, <1>3, <2>3, <2>4, <2>5, <2>6, StatusMoves DEF Promise!Next, Promise!Accept
  <2>7. CASE StatusOf(r)' = "stored"
    <3>1. UNCHANGED status
      BY <1>2, <2>5, <2>7, StatusKept DEF status
    <3>. QED
      BY <1>2, <1>3, <2>3, <2>4, <3>1 DEF Promise!vars
  <2>. QED
    BY <2>5, <2>6, <2>7
<1>. QED
  BY <1>4, <1>5

\* A DELETE removes what it finds when it removes, and what it answers was true
\* at some time since it arrived, unless it went astray.
LEMMA DeleteImplements ==
    ASSUME BucketInv, NEW r \in Request, BeginDelete(r) \/ Delete(r)
    PROVE  [Promise!Next]_Promise!vars
<1>. DEFINE i == InstanceOf[r]
<1>0. /\ TypeOK /\ PcOK /\ PointersOK /\ WalkOK /\ HoldersOK /\ OwesOK
      /\ i \in Instance
  BY InvParts, RequestKey
<1>1. /\ UNCHANGED <<now, lastPing, revisionToInstancesMap, absent>>
      /\ MethodOf[r] = "DELETE"
      /\ \A q \in Request : q # r => UNCHANGED <<pc[q], absent[q], held[q]>>
  BY <1>0 DEF Delete, BeginDelete, Resolve, CheckTunnel, GetAndDel, TypeOK, PcOK,
              Deleting, tree
<1>2. UNCHANGED <<doomed, reaperAstray>>
  BY <1>1, ReaperAstrayKept DEF Delete, BeginDelete, Resolve, CheckTunnel, GetAndDel
<1>3. UNCHANGED rivals
  <2>1. ~ OwesBucket(r) /\ ~ OwesBucket(r)'
    BY <1>0 DEF OwesBucket, Delete, BeginDelete, Resolve, CheckTunnel, GetAndDel, TypeOK
  <2>. QED
    BY <1>1, <2>1, RivalsKept DEF OwesBucket
<1>4. CASE BeginDelete(r)
  <2>1. status[r] = "idle" /\ StatusOf(r)' = "pending"
    BY <1>0, <1>4 DEF BeginDelete, TypeOK, status, StatusOf, OwesOuterKeys, Answered
  <2>2. UNCHANGED <<registered, astray>>
    BY <1>4, SameReading DEF BeginDelete, tree, astray, BucketOf, Key
  <2>. QED
    BY <1>1, <1>2, <1>3, <2>1, <2>2, StatusMoves DEF Promise!Next, Promise!Arrive
<1>5. CASE Resolve(r)
  <2>1. /\ status[r] = "pending" /\ UNCHANGED registered
        /\ held[r] = Null /\ r \notin astray
    BY <1>0, <1>5, SameReading
       DEF Resolve, tree, status, StatusOf, OwesOuterKeys, Answered, HoldersOK, astray
  <2>2. UNCHANGED astray
    <3>1. held'[r] \in {Null, BucketOf(i)}
      BY <1>0, <1>5, <2>1 DEF Resolve, TypeOK
    <3>. QED
      BY <1>0, <1>1, <2>1, <3>1, AstrayMoves
  <2>3. CASE Resolves(i)
    <3>1. StatusOf(r)' = StatusOf(r)
      BY <1>0, <1>5, <2>3 DEF Resolve, TypeOK, StatusOf, OwesOuterKeys, Answered
    <3>. QED
      BY <1>1, <1>2, <1>3, <2>1, <2>2, <3>1, StatusKept DEF Promise!vars
  <2>4. CASE ~ Resolves(i)
    <3>1. StatusOf(r)' = "notFound"
      BY <1>0, <1>5, <2>4 DEF Resolve, TypeOK, StatusOf, OwesOuterKeys, Answered
    <3>2. Promise!MayBeUnknown(i)
      <4>1. ASSUME NEW q \in Request, InstanceOf[q] = i, status[q] = "accepted"
            PROVE  FALSE
        <5>1. pc[q] = "accepted"
          BY <4>1 DEF status, StatusOf, OwesOuterKeys, Answered
        <5>2. Resolves(i)
          BY <1>0, <4>1, <5>1 DEF WalkOK, Passed, Resolves, KeyOf
        <5>. QED
          BY <2>4, <5>2
      <4>. QED
        BY <4>1 DEF Promise!MayBeUnknown
    <3>. QED
      BY <1>1, <1>2, <1>3, <2>1, <2>2, <3>1, <3>2, StatusMoves
         DEF Promise!Next, Promise!NotFound
  <2>. QED
    BY <2>3, <2>4
<1>6. ASSUME pc[r] \in {"check", "getAndDel"}
      PROVE  /\ held[r] # Null /\ held[r] \in Request
             /\ r \in astray <=> held[r] # BucketOf(i)
             /\ r \notin astray => registered[i] = bucket[held[r]][i]
  BY <1>0, <1>6 DEF PcOK, TypeOK, BucketOrNull, Bucket, astray, registered
<1>7. CASE CheckTunnel(r)
  <2>1. /\ status[r] = "pending" /\ UNCHANGED registered /\ pc[r] = "check"
        /\ r \notin astray => registered[i] = bucket[held[r]][i]
    BY <1>6, <1>7, SameReading
       DEF CheckTunnel, tree, status, StatusOf, OwesOuterKeys, Answered
  <2>2. CASE SameTunnel(r, bucket[held[r]][i])
    <3>1. /\ StatusOf(r)' = "matched" /\ UNCHANGED astray
          /\ r \notin astray => Promise!OfTunnel(i, TunnelOf[r])
      BY <1>0, <1>1, <1>7, <2>1, <2>2
         DEF CheckTunnel, SameTunnel, TypeOK, StatusOf, OwesOuterKeys, Answered,
             Promise!OfTunnel, astray, BucketOf, Key
    <3>2. Promise!Becomes(r, "matched")
      BY <1>1, <3>1, StatusMoves
    <3>. QED
      BY <1>1, <1>2, <1>3, <2>1, <3>1, <3>2 DEF Promise!Next, Promise!Match, Promise!Stray
  <2>3. CASE ~ SameTunnel(r, bucket[held[r]][i])
    <3>1. /\ StatusOf(r)' = "notFound"
          /\ r \notin astray => ~ Promise!OfTunnel(i, TunnelOf[r])
      BY <1>0, <1>7, <2>1, <2>3
         DEF CheckTunnel, SameTunnel, TypeOK, StatusOf, OwesOuterKeys, Answered, Promise!OfTunnel
    <3>2. astray' = astray \ {r}
      BY <1>0, <1>1, <1>7, <2>3, AstrayMoves DEF CheckTunnel, TypeOK
    <3>3. Promise!Becomes(r, "notFound")
      BY <1>1, <3>1, StatusMoves
    <3>. QED
      BY <1>1, <1>2, <1>3, <2>1, <3>1, <3>2, <3>3
         DEF Promise!Next, Promise!NotFound, Promise!Stray, Promise!Busy
  <2>. QED
    BY <2>2, <2>3
<1>8. CASE GetAndDel(r)
  <2>1. /\ status[r] = "matched" /\ pc[r] = "getAndDel"
        /\ held[r] # Null /\ held[r] \in Request
        /\ r \in astray <=> held[r] # BucketOf(i)
        /\ r \notin astray => registered[i] = bucket[held[r]][i]
    BY <1>6, <1>8 DEF GetAndDel, status, StatusOf, OwesOuterKeys, Answered
  <2>2. astray' = astray \ {r}
    BY <1>0, <1>1, <1>8, AstrayMoves DEF GetAndDel, TypeOK
  <2>3. StatusOf(r)' = IF bucket[held[r]][i] # Null THEN "removed" ELSE "notFound"
    BY <1>0, <1>8 DEF GetAndDel, TypeOK, StatusOf, OwesOuterKeys, Answered
  <2>4. Promise!Becomes(r, IF bucket[held[r]][i] # Null THEN "removed" ELSE "notFound")
    BY <1>1, <2>3, StatusMoves
  <2>5. CASE r \in astray
    <3>1. UNCHANGED registered
      <4>1. \A j \in Instance : BucketOf(j) # held[r]
        BY <1>0, <2>1, <2>5, ReplacedIsHidden DEF PointersOK
      <4>2. \A c \in Request : c # held[r] => UNCHANGED bucket[c]
        BY <1>0, <1>8 DEF GetAndDel, TypeOK, Bucket
      <4>. QED
        BY <1>0, <1>1, <2>1, <4>1, <4>2, HiddenWrite
    <3>. QED
      BY <1>1, <1>2, <1>3, <2>1, <2>2, <2>4, <2>5, <3>1
         DEF Promise!Next, Promise!Stray, Promise!Busy
  <2>6. CASE r \notin astray /\ bucket[held[r]][i] # Null
    <3>1. Promise!Register(i, Null)
      BY <1>0, <1>1, <1>8, <2>1, <2>6, LinkedWrite DEF GetAndDel
    <3>. QED
      BY <1>1, <1>2, <1>3, <2>1, <2>2, <2>4, <2>6, <3>1 DEF Promise!Next, Promise!Remove
  <2>7. CASE r \notin astray /\ bucket[held[r]][i] = Null
    <3>1. UNCHANGED registered
      BY <1>1, <1>8, <2>7, SameReading DEF GetAndDel
    <3>. QED
      BY <1>1, <1>2, <1>3, <2>1, <2>2, <2>4, <2>7, <3>1 DEF Promise!Next, Promise!NotFound
  <2>. QED
    BY <2>5, <2>6, <2>7
<1>. QED
  BY <1>4, <1>5, <1>7, <1>8 DEF Delete

\* The reaper chooses a registration by its age, and then takes whatever the
\* instance has; that it finds no bucket or no entry makes no difference.
LEMMA ReaperImplements ==
    ASSUME BucketInv, Reap \/ (\E i \in Instance : ReapVisit(i))
    PROVE  [Promise!Next]_Promise!vars
<1>0. TypeOK /\ PcOK /\ Filed /\ Origins /\ PointersOK /\ HoldersOK
  BY InvParts
<1>1. UNCHANGED <<now, lastPing, status, revisionToInstancesMap, rivals, astray>>
  BY DEF Reap, ReapVisit, ReapResolve, ReapGetAndDel, ReapDel, handler, tree, status,
         StatusOf, OwesOuterKeys, rivals, astray, OwesBucket, BucketOf, Key
<1>2. ASSUME NEW i \in Instance, ReapVisit(i)
      PROVE  Promise!Next
  <2>. DEFINE cfg == instanceToConfigMap[i]
  <2>1. /\ cfg \in Request /\ cfg # Null /\ Started(cfg) /\ Idle(cfg) >= Timeout
        /\ doomed = Null /\ doomed' = cfg
    BY <1>0, <1>2 DEF ReapVisit, IsStale, Origins, TypeOK, ConfigOrNull, doomed
  <2>2. status[cfg] # "idle"
    BY <2>1 DEF Started, status, StatusOf, OwesOuterKeys, Answered
  <2>3. UNCHANGED <<registered, reaperAstray>>
    BY <1>0, <1>2, SameReading DEF ReapVisit, tree, reaperAstray, HoldersOK
  <2>. HIDE DEF cfg
  <2>. QED
    BY <1>1, <2>1, <2>2, <2>3 DEF Started, Idle, Promise!Next, Promise!Doom
<1>. DEFINE i == InstanceOf[reaper.stale]
<1>3. CASE ReapResolve
  <2>1. /\ i \in Instance /\ doomed = reaper.stale /\ doomed # Null
        /\ reaper.held = Null /\ ~ reaperAstray
    BY <1>0, <1>3, RequestAssumption
       DEF ReapResolve, PcOK, TypeOK, ConfigOrNull, doomed, HoldersOK, reaperAstray
  <2>2. UNCHANGED registered
    BY <1>3, SameReading DEF ReapResolve, tree
  <2>3. CASE BucketOf(i) # Null
    <3>1. UNCHANGED <<doomed, reaperAstray>>
      BY <1>1, <1>3, <2>1, <2>3 DEF ReapResolve, doomed, reaperAstray, BucketOf, Key
    <3>. QED
      BY <1>1, <2>2, <3>1 DEF Promise!vars
  <2>4. CASE BucketOf(i) = Null
    <3>1. doomed' = Null /\ reaperAstray' = FALSE
      BY <1>3, <2>4 DEF ReapResolve, Scanning, doomed, reaperAstray
    <3>2. registered[i] = Null
      BY <2>1, <2>4 DEF registered
    <3>3. Promise!Register(i, Null)
      BY <2>1, <2>2, <3>2 DEF Promise!Register, registered
    <3>. QED
      BY <1>1, <2>1, <3>1, <3>3 DEF Promise!Next, Promise!Reap
  <2>. QED
    BY <2>3, <2>4
<1>4. CASE ReapGetAndDel
  <2>1. /\ i \in Instance /\ doomed = reaper.stale /\ doomed # Null /\ doomed' = Null
        /\ reaper.held # Null /\ reaper.held \in Request /\ reaper.stale \in Request
        /\ reaperAstray' = FALSE
    BY <1>0, <1>4, StaleType, RequestAssumption
       DEF ReapGetAndDel, PcOK, TypeOK, ConfigOrNull, Scanning, doomed, reaperAstray
  <2>2. CASE reaperAstray
    <3>1. \A j \in Instance : BucketOf(j) # reaper.held
      BY <1>0, <2>1, <2>2, ReplacedIsHidden DEF PointersOK, reaperAstray
    <3>2. \A c \in Request : c # reaper.held => UNCHANGED bucket[c]
      BY <1>0, <1>4 DEF ReapGetAndDel, TypeOK, Bucket
    <3>3. UNCHANGED registered
      BY <1>0, <1>1, <2>1, <3>1, <3>2, HiddenWrite
    <3>. QED
      BY <1>1, <2>1, <2>2, <3>3 DEF Promise!Next, Promise!Reap
  <2>3. CASE ~ reaperAstray
    <3>0. BucketOf(i) = reaper.held
      BY <2>1, <2>3 DEF reaperAstray
    <3>1. Promise!Register(i, Null)
      <4>1. CASE bucket[reaper.held][i] # Null
        BY <1>0, <1>1, <1>4, <2>1, <3>0, <4>1, LinkedWrite DEF ReapGetAndDel
      <4>2. CASE bucket[reaper.held][i] = Null
        <5>1. registered[i] = Null /\ UNCHANGED registered
          BY <1>4, <2>1, <3>0, <4>2, SameReading DEF ReapGetAndDel, registered
        <5>. QED
          BY <2>1, <5>1 DEF Promise!Register, registered
      <4>. QED
        BY <4>1, <4>2
    <3>. QED
      BY <1>1, <2>1, <2>3, <3>1 DEF Promise!Next, Promise!Reap
  <2>. QED
    BY <2>2, <2>3
<1>5. CASE ReapDel
  <2>1. UNCHANGED <<registered, doomed, reaperAstray>>
    BY <1>0, <1>5, SameReading
       DEF ReapDel, tree, Scanning, doomed, reaperAstray, HoldersOK
  <2>. QED
    BY <1>1, <2>1 DEF Promise!vars
<1>. QED
  BY <1>2, <1>3, <1>4, <1>5 DEF Reap

\* What nobody sees who looks registrations up by path.
LEMMA HiddenSteps ==
    ASSUME BucketInv, (\E r \in Request : Goroutine(r)) \/ Tick \/ UNCHANGED vars
    PROVE  [Promise!Next]_Promise!vars
<1>1. UNCHANGED <<lastPing, status, registered, doomed, rivals, astray, reaperAstray>>
  BY SameReading, ReaperAstrayKept
     DEF Goroutine, RunSet, RunDel, Tick, vars, handler, tree, status, StatusOf,
         OwesOuterKeys, rivals, astray, OwesBucket, BucketOf, Key
<1>2. now' = now \/ now' = now + 1
  BY DEF Goroutine, RunSet, RunDel, Tick, vars
<1>. QED
  BY <1>1, <1>2 DEF Promise!Next, Promise!Tick, Promise!vars

\* The flat maps, the nested inserts, the buckets that several POSTs create at
\* once and replace, and the pointers that are held across other requests' steps
\* are one map from instances to registrations (Registry): addInstance writes
\* its instance's entry before it answers, removeInstance and the reaper take
\* away what is there when they remove, and a registration is dropped otherwise
\* only by a POST that was under way when the first of its revision was stored.
\* Nothing is assumed of GetOrCompute but what the pinned library does.
THEOREM RegistryImplemented == Spec => ImplementsRegistry
<1>1. Init => Promise!Init
  <2>. SUFFICES ASSUME Init PROVE Promise!Init
    OBVIOUS
  <2>1. status = [r \in Request |-> "idle"]
    BY DEF Init, status, StatusOf, OwesOuterKeys, Answered
  <2>2. registered = [i \in Instance |-> Null] /\ doomed = Null
    BY PathAssumption DEF Init, registered, BucketOf, Key, Level, Revision, doomed, Scanning
  <2>3. rivals = {} /\ astray = {} /\ reaperAstray = FALSE
    BY DEF Init, rivals, OwesBucket, astray, reaperAstray, Scanning
  <2>. QED
    BY <2>1, <2>2, <2>3 DEF Init, Promise!Init
<1>2. BucketInv /\ [Next]_vars => [Promise!Next]_Promise!vars
  BY WalkImplements, SetImplements, InsertImplements, DeleteImplements,
     ReaperImplements, HiddenSteps DEF Next, Post
<1>. QED
  BY BucketInvariant, <1>1, <1>2, PTL DEF Spec, ImplementsRegistry, Promise!Spec

=============================================================================
