---------------------------- MODULE ProxyRegistry ----------------------------
(***************************************************************************)
(* The registry of the SSH Proxy Server (proxy/main.go): the concurrent    *)
(* maps that POST (addInstance), DELETE (removeInstance) and the idle      *)
(* reaper share without a lock.  Every step below is one operation on one  *)
(* of the maps, which is what haxmap makes atomic.                         *)
(*                                                                         *)
(* The four providers of the code always return the one global map of the  *)
(* next level, so the "tree" is flat: each of the levels project, region   *)
(* and service is a set of keys, and the level revision maps a key to a    *)
(* bucket of instances that every path with this revision name shares.     *)
(***************************************************************************)
EXTENDS Integers, FiniteSets

CONSTANTS
    Request,        \* HTTP requests; each is sent once, which bounds a behaviour
    Instance,       \* Cloud Run instance IDs
    Tunnel,         \* SSH_PROXY_CLIENT_IDs
    Name,           \* keys of the four levels
    MethodOf,       \* the HTTP method of a request
    InstanceOf,     \* the instance in its path
    TunnelOf,       \* the client ID in its header
    PathOf,         \* PathOf[i][l]: the key of instance i at level l
    Null,           \* no entry
    Timeout,        \* maxIdleTimeout, in ticks
    MaxTime         \* bound on the clock

Level    == 1..4    \* project, region, service, revision
Revision == 4

ASSUME RequestAssumption ==
    /\ MethodOf \in [Request -> {"POST", "DELETE"}]
    /\ InstanceOf \in [Request -> Instance]
    /\ TunnelOf \in [Request -> Tunnel]
ASSUME NullAssumption == Null \notin Request
ASSUME PathAssumption == PathOf \in [Instance -> [Level -> Name]]
ASSUME TimeAssumption == Timeout \in Nat \ {0} /\ MaxTime \in Nat

VARIABLES
    now,                    \* the clock of time.Now and time.Since
    pc,                     \* where the handler of a request is
    lastPing,               \* the ts a POST puts in the config it stores; the
                            \* config itself is named by its request
    level,                  \* the next level the walk of a POST looks up
    absent,                 \* the levels it found absent and has yet to insert
    held,                   \* the bucket a handler holds a pointer to
    known,                  \* the keys of the levels project, region, service
    revisionToInstancesMap, \* revision key -> bucket (named by its creator)
    bucket,                 \* bucket -> instance -> config
    instanceToConfigMap,    \* instance -> config, read by the tunnel server
    spawned,                \* goroutines not run yet: <<"Set" | "Del", request>>
    reaper                  \* the goroutine of idleInstancesReaper

handler == <<pc, lastPing, level, absent, held>>
tree    == <<known, revisionToInstancesMap, bucket>>
vars    == <<now, handler, tree, instanceToConfigMap, spawned, reaper>>

Bucket       == Request \* a POST creates at most one bucket
ConfigOrNull == Request \cup {Null}
BucketOrNull == Bucket \cup {Null}

Posting  == {"lookup", "set", "insert"}
Deleting == {"resolve", "check", "getAndDel"}
Answered == {"accepted", "removed", "notFound"}

\* Every variable has its type.
TypeOK ==
    /\ now \in Nat
    /\ pc \in [Request -> {"idle"} \cup Posting \cup Deleting \cup Answered]
    /\ lastPing \in [Request -> Nat]
    /\ level \in [Request -> Level]
    /\ absent \in [Request -> SUBSET Level]
    /\ held \in [Request -> BucketOrNull]
    /\ known \in [Level \ {Revision} -> SUBSET Name]
    /\ revisionToInstancesMap \in [Name -> BucketOrNull]
    /\ bucket \in [Bucket -> [Instance -> ConfigOrNull]]
    /\ instanceToConfigMap \in [Instance -> ConfigOrNull]
    /\ spawned \subseteq ({"Set", "Del"} \X Request)
    /\ reaper \in [pc : {"scan", "resolve", "getAndDel", "del"},
                   stale : ConfigOrNull,
                   held : BucketOrNull]

\* The reaper between two stale entries.
Scanning == [pc |-> "scan", stale |-> Null, held |-> Null]

Init ==
    /\ now = 0
    /\ pc = [r \in Request |-> "idle"]
    /\ lastPing = [r \in Request |-> 0]
    /\ level = [r \in Request |-> 1]
    /\ absent = [r \in Request |-> {}]
    /\ held = [r \in Request |-> Null]
    /\ known = [l \in Level \ {Revision} |-> {}]
    /\ revisionToInstancesMap = [n \in Name |-> Null]
    /\ bucket = [b \in Bucket |-> [i \in Instance |-> Null]]
    /\ instanceToConfigMap = [i \in Instance |-> Null]
    /\ spawned = {}
    /\ reaper = Scanning

-----------------------------------------------------------------------------
(* Helpers *)

Key(i, l)   == PathOf[i][l]
KeyOf(r, l) == Key(InstanceOf[r], l)

Has(l, k) ==
    IF l = Revision THEN revisionToInstancesMap[k] # Null ELSE k \in known[l]

\* The chain of Gets that every handler but addInstance starts with.  No level
\* ever loses a key, so the chain succeeds exactly if its last Get would find
\* all four keys.
Resolves(i) == \A l \in Level : Has(l, Key(i, l))

BucketOf(i) == revisionToInstancesMap[Key(i, Revision)]

Idle(r) == now - lastPing[r]

-----------------------------------------------------------------------------
(* POST /project/../instance/.. : addInstance.  The nested GetOrComputes     *)
(* look the levels up from the top.  A level that is present is descended    *)
(* into; for one that is absent the provider first does the same with the    *)
(* levels below, and the key is inserted when the provider returns.          *)

BeginPost(r) ==
    /\ pc[r] = "idle"
    /\ MethodOf[r] = "POST"
    /\ pc' = [pc EXCEPT ![r] = "lookup"]
    /\ lastPing' = [lastPing EXCEPT ![r] = now]
    /\ spawned' = spawned \cup {<<"Set", r>>}
    /\ UNCHANGED <<now, level, absent, held, tree, instanceToConfigMap, reaper>>

\* Mutant: the provider's value is not stored under the absent key.
LookupForgets(r) ==
    /\ pc[r] = "lookup"
    /\ level[r] # Revision
    /\ level' = [level EXCEPT ![r] = @ + 1]
    /\ UNCHANGED <<now, pc, lastPing, absent, held, tree, instanceToConfigMap,
                   spawned, reaper>>

\* Mutant: no last level.
LookupUnbounded(r) ==
    /\ pc[r] = "lookup"
    /\ level' = [level EXCEPT ![r] = @ + 1]
    /\ UNCHANGED <<now, pc, lastPing, absent, held, tree, instanceToConfigMap,
                   spawned, reaper>>

\* GetOrCompute above the revision level: descend, now or in the provider.
Lookup(r) ==
    /\ pc[r] = "lookup"
    /\ level[r] # Revision
    /\ level' = [level EXCEPT ![r] = @ + 1]
    /\ absent' = IF Has(level[r], KeyOf(r, level[r]))
                 THEN absent
                 ELSE [absent EXCEPT ![r] = @ \cup {level[r]}]
    /\ UNCHANGED <<now, pc, lastPing, held, tree, instanceToConfigMap, spawned,
                   reaper>>

\* GetOrCompute at the revision level finds the bucket.
FindBucket(r) ==
    /\ pc[r] = "lookup"
    /\ level[r] = Revision
    /\ Has(Revision, KeyOf(r, Revision))
    /\ held' = [held EXCEPT ![r] = BucketOf(InstanceOf[r])]
    /\ pc' = [pc EXCEPT ![r] = "set"]
    /\ UNCHANGED <<now, lastPing, level, absent, tree, instanceToConfigMap,
                   spawned, reaper>>

\* Mutant: a bucket is made without looking for the one there is.
NewBucketAlways(r) ==
    /\ pc[r] = "lookup"
    /\ level[r] = Revision
    /\ bucket' = [bucket EXCEPT ![r][InstanceOf[r]] = r]
    /\ absent' = [absent EXCEPT ![r] = @ \cup {Revision}]
    /\ pc' = [pc EXCEPT ![r] = "insert"]
    /\ UNCHANGED <<now, lastPing, level, held, known, revisionToInstancesMap,
                   instanceToConfigMap, spawned, reaper>>

\* GetOrCompute at the revision level computes a bucket that holds the config.
NewBucket(r) ==
    /\ pc[r] = "lookup"
    /\ level[r] = Revision
    /\ ~ Has(Revision, KeyOf(r, Revision))
    /\ bucket' = [bucket EXCEPT ![r][InstanceOf[r]] = r]
    /\ absent' = [absent EXCEPT ![r] = @ \cup {Revision}]
    /\ pc' = [pc EXCEPT ![r] = "insert"]
    /\ UNCHANGED <<now, lastPing, level, held, known, revisionToInstancesMap,
                   instanceToConfigMap, spawned, reaper>>

\* The handler answers once every absent level of its walk is inserted.
Unwind(missing) == IF missing = {} THEN "accepted" ELSE "insert"

\* Mutant: the config is stored under the instance that made the bucket.
SetUnderCreator(r) ==
    /\ pc[r] = "set"
    /\ bucket' = [bucket EXCEPT ![held[r]][InstanceOf[held[r]]] = r]
    /\ held' = [held EXCEPT ![r] = Null]
    /\ pc' = [pc EXCEPT ![r] = Unwind(absent[r])]
    /\ UNCHANGED <<now, lastPing, level, absent, known, revisionToInstancesMap,
                   instanceToConfigMap, spawned, reaper>>

\* instances.Set in a bucket that was loaded.
SetInBucket(r) ==
    /\ pc[r] = "set"
    /\ bucket' = [bucket EXCEPT ![held[r]][InstanceOf[r]] = r]
    /\ held' = [held EXCEPT ![r] = Null]
    /\ pc' = [pc EXCEPT ![r] = Unwind(absent[r])]
    /\ UNCHANGED <<now, lastPing, level, absent, known, revisionToInstancesMap,
                   instanceToConfigMap, spawned, reaper>>

\* Mutant: the outer keys are inserted first.
DeepestFirst(r, l) == l \in absent[r] /\ \A m \in absent[r] : m >= l

Deepest(r, l) == l \in absent[r] /\ \A m \in absent[r] : m <= l

Put(r, l) ==
    IF l = Revision
    THEN /\ revisionToInstancesMap' =
                [revisionToInstancesMap EXCEPT ![KeyOf(r, Revision)] = r]
         /\ UNCHANGED known
    ELSE /\ known' = [known EXCEPT ![l] = @ \cup {KeyOf(r, l)}]
         /\ UNCHANGED revisionToInstancesMap

\* The provider returned: GetOrCompute stores its value, whatever another
\* request has inserted under the key meanwhile.  Above the revision level the
\* value is the same map; at the revision level a bucket may be replaced.
Insert(r) ==
    /\ pc[r] = "insert"
    /\ \E l \in Level :
        /\ Deepest(r, l)
        /\ Put(r, l)
        /\ absent' = [absent EXCEPT ![r] = @ \ {l}]
        /\ pc' = [pc EXCEPT ![r] = Unwind(absent[r] \ {l})]
    /\ UNCHANGED <<now, lastPing, level, held, bucket, instanceToConfigMap,
                   spawned, reaper>>

-----------------------------------------------------------------------------
(* DELETE /project/../instance/.. : removeInstance *)

BeginDelete(r) ==
    /\ pc[r] = "idle"
    /\ MethodOf[r] = "DELETE"
    /\ pc' = [pc EXCEPT ![r] = "resolve"]
    /\ UNCHANGED <<now, lastPing, level, absent, held, tree,
                   instanceToConfigMap, spawned, reaper>>

Resolve(r) ==
    /\ pc[r] = "resolve"
    /\ IF Resolves(InstanceOf[r])
       THEN /\ held' = [held EXCEPT ![r] = BucketOf(InstanceOf[r])]
            /\ pc' = [pc EXCEPT ![r] = "check"]
       ELSE /\ pc' = [pc EXCEPT ![r] = "notFound"]
            /\ UNCHANGED held
    /\ UNCHANGED <<now, lastPing, level, absent, tree, instanceToConfigMap,
                   spawned, reaper>>

\* instances.Get, and the comparison of the two client IDs.
SameTunnel(r, cfg) == cfg # Null /\ TunnelOf[r] = TunnelOf[cfg]

CheckTunnel(r) ==
    /\ pc[r] = "check"
    /\ IF SameTunnel(r, bucket[held[r]][InstanceOf[r]])
       THEN /\ pc' = [pc EXCEPT ![r] = "getAndDel"]
            /\ UNCHANGED held
       ELSE /\ pc' = [pc EXCEPT ![r] = "notFound"]
            /\ held' = [held EXCEPT ![r] = Null]
    /\ UNCHANGED <<now, lastPing, level, absent, tree, instanceToConfigMap,
                   spawned, reaper>>

\* Mutant: the global entry goes even if the bucket had none, and the client
\* is told that nothing was found.
GetAndDelAlways(r) ==
    /\ pc[r] = "getAndDel"
    /\ bucket' = [bucket EXCEPT ![held[r]][InstanceOf[r]] = Null]
    /\ spawned' = spawned \cup {<<"Del", r>>}
    /\ pc' = [pc EXCEPT ![r] = "notFound"]
    /\ held' = [held EXCEPT ![r] = Null]
    /\ UNCHANGED <<now, lastPing, level, absent, known, revisionToInstancesMap,
                   instanceToConfigMap, reaper>>

GetAndDel(r) ==
    /\ pc[r] = "getAndDel"
    /\ IF bucket[held[r]][InstanceOf[r]] # Null
       THEN /\ bucket' = [bucket EXCEPT ![held[r]][InstanceOf[r]] = Null]
            /\ spawned' = spawned \cup {<<"Del", r>>}
            /\ pc' = [pc EXCEPT ![r] = "removed"]
       ELSE /\ pc' = [pc EXCEPT ![r] = "notFound"]
            /\ UNCHANGED <<bucket, spawned>>
    /\ held' = [held EXCEPT ![r] = Null]
    /\ UNCHANGED <<now, lastPing, level, absent, known, revisionToInstancesMap,
                   instanceToConfigMap, reaper>>

-----------------------------------------------------------------------------
(* The goroutines of `go instanceToConfigMap.Set' and `go ..Del'             *)

RunSet(r) ==
    /\ <<"Set", r>> \in spawned
    /\ spawned' = spawned \ {<<"Set", r>>}
    /\ instanceToConfigMap' = [instanceToConfigMap EXCEPT ![InstanceOf[r]] = r]
    /\ UNCHANGED <<now, handler, tree, reaper>>

RunDel(r) ==
    /\ <<"Del", r>> \in spawned
    /\ spawned' = spawned \ {<<"Del", r>>}
    /\ instanceToConfigMap' =
            [instanceToConfigMap EXCEPT ![InstanceOf[r]] = Null]
    /\ UNCHANGED <<now, handler, tree, reaper>>

-----------------------------------------------------------------------------
(* idleInstancesReaper.  Its passes over the global map follow each other     *)
(* for ever and a visit of an entry that is not stale changes nothing, so     *)
(* what is left of a pass is that every stale entry is visited at some time,  *)
(* in any order; ForEach walks the live map, so the entry is read then.       *)

IsStale(cfg) == cfg # Null /\ Idle(cfg) >= Timeout

ReapVisit(i) ==
    /\ reaper.pc = "scan"
    /\ IsStale(instanceToConfigMap[i])
    /\ reaper' = [pc |-> "resolve", stale |-> instanceToConfigMap[i], held |-> Null]
    /\ UNCHANGED <<now, handler, tree, instanceToConfigMap, spawned>>

\* Mutant: the bucket is looked up under the service instead of the revision.
ReapResolveService ==
    /\ reaper.pc = "resolve"
    /\ LET b == revisionToInstancesMap[KeyOf(reaper.stale, Revision - 1)]
       IN  reaper' = IF b # Null
                     THEN [pc |-> "getAndDel", stale |-> reaper.stale, held |-> b]
                     ELSE Scanning
    /\ UNCHANGED <<now, handler, tree, instanceToConfigMap, spawned>>

ReapResolve ==
    /\ reaper.pc = "resolve"
    /\ LET b == BucketOf(InstanceOf[reaper.stale])
       IN  reaper' = IF b # Null
                     THEN [pc |-> "getAndDel", stale |-> reaper.stale, held |-> b]
                     ELSE Scanning
    /\ UNCHANGED <<now, handler, tree, instanceToConfigMap, spawned>>

ReapGetAndDel ==
    /\ reaper.pc = "getAndDel"
    /\ LET i == InstanceOf[reaper.stale]
       IN  IF bucket[reaper.held][i] # Null
           THEN /\ bucket' = [bucket EXCEPT ![reaper.held][i] = Null]
                /\ reaper' = [pc |-> "del", stale |-> reaper.stale, held |-> Null]
           ELSE /\ reaper' = Scanning
                /\ UNCHANGED bucket
    /\ UNCHANGED <<now, handler, known, revisionToInstancesMap,
                   instanceToConfigMap, spawned>>

ReapDel ==
    /\ reaper.pc = "del"
    /\ instanceToConfigMap' =
            [instanceToConfigMap EXCEPT ![InstanceOf[reaper.stale]] = Null]
    /\ reaper' = Scanning
    /\ UNCHANGED <<now, handler, tree, spawned>>

-----------------------------------------------------------------------------

Tick ==
    /\ now < MaxTime
    /\ now' = now + 1
    /\ UNCHANGED <<handler, tree, instanceToConfigMap, spawned, reaper>>

Post(r) ==
    \/ Lookup(r) \/ FindBucket(r) \/ NewBucket(r)
    \/ SetInBucket(r) \/ Insert(r)

Delete(r) == Resolve(r) \/ CheckTunnel(r) \/ GetAndDel(r)

Goroutine(r) == RunSet(r) \/ RunDel(r)

Reap == ReapResolve \/ ReapGetAndDel \/ ReapDel

Next ==
    \/ \E r \in Request :
        \/ BeginPost(r) \/ BeginDelete(r)
        \/ Post(r) \/ Delete(r) \/ Goroutine(r)
    \/ \E i \in Instance : ReapVisit(i)
    \/ Reap
    \/ Tick

Spec == Init /\ [][Next]_vars

\* The Go scheduler runs every goroutine, and every pass of the reaper visits
\* every entry of the map (SF: visits of other entries come in between).
\* Nothing makes a client send a request, and the clock need not advance.
Fairness ==
    /\ \A r \in Request : WF_vars(Post(r)) /\ WF_vars(Delete(r))
                          /\ WF_vars(RunSet(r)) /\ WF_vars(RunDel(r))
    /\ \A i \in Instance : SF_vars(ReapVisit(i))
    /\ WF_vars(Reap)

FairSpec == Spec /\ Fairness

-----------------------------------------------------------------------------
(* Properties *)

\* A registration that was answered 202 can be found: every level of its path
\* has its key, whichever of the nested providers inserted it and however many
\* requests were inserting the same keys.  (addInstance, then getInstance.)
AcceptedResolves ==
    \A r \in Request : pc[r] = "accepted" => Resolves(InstanceOf[r])

\* A key becomes visible only after everything below it: whoever sees a
\* project, region or service can go on down to the bucket of some instance.
\* (The providers insert inner keys first.)
ParentsHaveChildren ==
    \A l \in Level \ {Revision} : \A k \in known[l] :
        \E r \in Request : /\ KeyOf(r, l) = k
                           /\ \A m \in Level : m > l => Has(m, KeyOf(r, m))

\* Every config is filed where DELETE and the reaper look for it: under its
\* own instance ID, in a bucket of its own revision.
FiledUnderRevision ==
    /\ \A b \in Bucket, i \in Instance :
        LET cfg == bucket[b][i] IN
        cfg # Null =>
            /\ InstanceOf[cfg] = i
            /\ PathOf[i][Revision] = PathOf[InstanceOf[b]][Revision]
    /\ \A r \in Request : LET b == BucketOf(InstanceOf[r]) IN
        b # Null =>
            PathOf[InstanceOf[b]][Revision] = PathOf[InstanceOf[r]][Revision]
    /\ \A i \in Instance : LET cfg == instanceToConfigMap[i] IN
        cfg # Null => InstanceOf[cfg] = i

\* Nothing can have removed i: no DELETE for it has succeeded, and no config
\* of it is old enough for the reaper.
NotRemoved(i) ==
    \A r \in Request : InstanceOf[r] = i =>
        /\ pc[r] # "removed"
        /\ MethodOf[r] = "POST" /\ pc[r] # "idle" => Idle(r) < Timeout

InBucket(i)       == BucketOf(i) # Null /\ bucket[BucketOf(i)][i] # Null
InIngressRules(i) == instanceToConfigMap[i] # Null

\* The tunnel server learns of every registration that was answered 202, now
\* or when the goroutine of addInstance runs, unless the instance was removed.
AcceptedIsRouted ==
    \A r \in Request : pc[r] = "accepted" /\ NotRemoved(InstanceOf[r]) =>
        InIngressRules(InstanceOf[r]) \/ <<"Set", r>> \in spawned


\* What a reader finds under the path of each instance, once the path resolves.
registered ==
    [i \in Instance |-> IF BucketOf(i) = Null THEN Null ELSE bucket[BucketOf(i)][i]]

\* A POST that has a bucket to insert, and one that has stored its config and
\* has only outer keys to insert.
OwesBucket(r)    == pc[r] = "insert" /\ Revision \in absent[r]
OwesOuterKeys(r) == pc[r] = "insert" /\ Revision \notin absent[r]

StatusOf(r) ==
    IF pc[r] \in Answered \cup {"idle"} THEN pc[r]
    ELSE IF pc[r] = "getAndDel" THEN "matched"
    ELSE IF OwesOuterKeys(r) THEN "stored" ELSE "pending"

status == [r \in Request |-> StatusOf(r)]

doomed == IF reaper.pc \in {"resolve", "getAndDel"} THEN reaper.stale ELSE Null

\* The POSTs whose bucket will replace the one that is linked.
rivals == {r \in Request : OwesBucket(r) /\ BucketOf(InstanceOf[r]) # Null}

\* Who holds a pointer to a bucket that was replaced.
astray == {r \in Request : held[r] # Null /\ held[r] # BucketOf(InstanceOf[r])}

reaperAstray ==
    reaper.held # Null /\ reaper.held # BucketOf(InstanceOf[reaper.stale])

RevisionOf == [i \in Instance |-> Key(i, Revision)]

\* now and lastPing are those of this module.
Promise == INSTANCE Registry

\* The maps, the nested inserts and the pointers that handlers and the reaper
\* hold are one map from instances to registrations: every request has its
\* effect on that map between arrival and answer and answers what it found
\* there.  The one way to lose a registration is a POST that was already under
\* way when the first of its revision was stored: it drops the others.
ImplementsRegistry == Promise!Spec

\* The instance is in the ingress rules with a ping older than the timeout.
StaleRule(i) == IsStale(instanceToConfigMap[i])

\* The reaper gets rid of a stale rule of an instance that its bucket holds.
StaleRegistrationReaped ==
    \A i \in Instance :
        StaleRule(i) /\ InBucket(i) ~> ~ (StaleRule(i) /\ InBucket(i))

\* README.md:304: "the SSH Proxy Server drops registrations if a Cloud Run
\* instance has not renewed its registration within 15 minutes."
UnrenewedDropped ==
    \A i \in Instance : StaleRule(i) ~> ~ StaleRule(i)

\* README.md:302-304, the other way round: the reaper takes away only the
\* registration of an instance that was not renewed within the timeout.
RenewedKept ==
    [][\A b \in Bucket, i \in Instance :
        ReapGetAndDel /\ bucket'[b][i] # bucket[b][i]
            => Idle(bucket[b][i]) >= Timeout]_vars

=============================================================================
