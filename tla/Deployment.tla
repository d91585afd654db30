------------------------------ MODULE Deployment ------------------------------
(***************************************************************************)
(* The sidecars of the Cloud Run instances and the SSH Proxy Server: the   *)
(* script init/wssh that supervisord runs in each sidecar, the processes   *)
(* that it starts (the tunnel client gost and poll_ssh_proxy_server, which *)
(* pings the server), their requests, the registry with its reaper, and    *)
(* the ingress rules that the tunnel server loads from it.                 *)
(*                                                                         *)
(* A tick is the interval of the pings and of the reaper.  Between two     *)
(* ticks every loop pings once, the reaper runs, the rules are loaded and  *)
(* every request is delivered or lost.  The registry is ProxyRegistry's,   *)
(* of one revision: the bucket, the global map, and the goroutines that     *)
(* change that map after the request or the reaper changed the bucket.     *)
(* POSTs that look the bucket up before there is one each make their own,  *)
(* and the last one stays.                                                 *)
(***************************************************************************)
EXTENDS Integers, FiniteSets

CONSTANTS
    Instance,
    Timeout,        \* maxIdleTimeout, in ticks
    MaxRuns,        \* bound: how often init/wssh is started in a container
    MaxLost,        \* bound: requests that are lost, in all
    MaxRestarts     \* bound: restarts of the server

ASSUME TimeoutAssumption == Timeout \in Nat \ {0}
ASSUME BoundAssumption == MaxRuns \in Nat /\ MaxLost \in Nat /\ MaxRestarts \in Nat

VARIABLES
    script,     \* init/wssh; "gone" with the container
    run,        \* how often it was started
    client,     \* the tunnel client
    loop,       \* poll_ssh_proxy_server POST
    closing,    \* each poll_ssh_proxy_server DELETE: <<instance, run>>
    flight,     \* requests on their way: <<method, instance, run>>
    bucket,     \* the instances in the bucket of the revision
    opened,     \* the revision has a bucket
    rivals,     \* the POSTs that may have found none: <<instance, run>>
    astray,      \* the requests that may have found a bucket that was replaced
    age,        \* instance -> ticks since the last ping of its entry in
                \* instanceToConfigMap; -1 if it has none
    handling,   \* the POSTs in addInstance: <<instance, run>>
    spawned,    \* the goroutines on instanceToConfigMap that have not run:
                \* <<"Set" | "Del", instance, run>>, run 0 for the reaper's Del
    passed,     \* the instances that the reaper looked at since the tick
    picked,     \* what the reaper has found stale and is about to remove
    rules,      \* the instances that the tunnel server has a rule for
    loaded,     \* the rules were loaded since the tick
    crossed,    \* instances with a POST that a removal met halfway or that was
                \* stored in a replaced bucket, until a POST completes alone
    kept,       \* instances whose last ping nothing has undone
    missed,     \* pings of this loop that were lost one after the other
    since,      \* ticks since the container is gone
    losses, restarts

sidecar == <<script, run, client, loop, closing>>
work    == <<handling, spawned, crossed>>
reaper  == <<passed, picked>>
tunnel  == <<rules, loaded>>
path    == <<opened, rivals, astray>>
server  == <<bucket, path, age, work, reaper, tunnel>>
budget  == <<losses, restarts>>
vars    == <<sidecar, flight, server, kept, missed, since, budget>>

Absent   == -1
Method   == {"POST", "DELETE"}
Sender   == Instance \X (1..MaxRuns)
Request  == Method \X Instance \X (1..MaxRuns)
Routine  == {"Set", "Del"} \X Instance \X (0..MaxRuns)

SetOf(i)  == {<<"Set", i, n>> : n \in 1..MaxRuns}
DelOf(i)  == {<<"Del", i, n>> : n \in 0..MaxRuns}

SetPending(i) == SetOf(i) \cap spawned # {}
DelPending(i) == DelOf(i) \cap spawned # {}

\* A POST of the instance has begun and is not through.
Underway(i) == SetPending(i) \/ \E n \in 1..MaxRuns : <<i, n>> \in handling

\* Every variable has its type, and an entry that the reaper can remove is never
\* older than the timeout.
TypeOK ==
    /\ script \in [Instance -> {"ended", "up", "kill_loop", "kill_client",
                                "delete", "gone"}]
    /\ run \in [Instance -> 0..MaxRuns]
    /\ client \in [Instance -> {"off", "on", "ending"}]
    /\ loop \in [Instance -> {"none", "verify", "ping", "waiting", "sleep", "exited"}]
    /\ closing \subseteq Sender
    /\ flight \subseteq Request
    /\ bucket \subseteq Instance
    /\ opened \in BOOLEAN
    /\ rivals \subseteq Sender
    /\ astray \subseteq Request
    /\ age \in [Instance -> {Absent} \cup 0..Timeout + 1]
    /\ \A i \in bucket : ~ SetPending(i) => age[i] <= Timeout
    /\ handling \subseteq Sender
    /\ spawned \subseteq Routine
    /\ passed \subseteq Instance
    /\ picked \subseteq Instance
    /\ crossed \subseteq Instance
    /\ rules \subseteq Instance
    /\ loaded \in BOOLEAN
    /\ kept \subseteq Instance
    /\ missed \in [Instance -> 0..MaxLost]
    /\ since \in [Instance -> 0..Timeout + 2]
    /\ losses \in 0..MaxLost
    /\ restarts \in 0..MaxRestarts

Init ==
    /\ script = [i \in Instance |-> "ended"]
    /\ run = [i \in Instance |-> 0]
    /\ client = [i \in Instance |-> "off"]
    /\ loop = [i \in Instance |-> "none"]
    /\ closing = {}
    /\ flight = {}
    /\ bucket = {}
    /\ opened = FALSE /\ rivals = {} /\ astray = {}
    /\ age = [i \in Instance |-> Absent]
    /\ handling = {}
    /\ spawned = {}
    /\ passed = {}
    /\ picked = {}
    /\ crossed = {}
    /\ rules = {}
    /\ loaded = FALSE
    /\ kept = {}
    /\ missed = [i \in Instance |-> 0]
    /\ since = [i \in Instance |-> 0]
    /\ losses = 0
    /\ restarts = 0

-----------------------------------------------------------------------------
(* The sidecar                                                               *)

\* supervisord starts init/wssh, at first and when it has failed or is to be
\* restarted: the tunnel client, the loop and the web terminal.  If the client of
\* the run before has not ended, the new one may find its addresses taken and end.
Start(i) ==
    /\ script[i] = "ended"
    /\ run[i] < MaxRuns
    /\ script' = [script EXCEPT ![i] = "up"]
    /\ run' = [run EXCEPT ![i] = @ + 1]
    /\ \E c \in IF client[i] = "ending" THEN {"on", "ending"} ELSE {"on"} :
          client' = [client EXCEPT ![i] = c]
    /\ loop' = [loop EXCEPT ![i] = "verify"]
    /\ kept' = kept \ {i}
    /\ missed' = [missed EXCEPT ![i] = 0]
    /\ UNCHANGED <<closing, flight, server, since, budget>>

\* The certificate of the server has the right name, or openssl cannot tell and
\* the loop ends.
Verify(i) ==
    /\ loop[i] = "verify"
    /\ loop' = [loop EXCEPT ![i] = "ping"]
    /\ UNCHANGED <<script, run, client, closing, flight, server, kept, missed,
                   since, budget>>

VerifyFails(i) ==
    /\ loop[i] = "verify"
    /\ losses < MaxLost
    /\ loop' = [loop EXCEPT ![i] = "exited"]
    /\ losses' = losses + 1
    /\ UNCHANGED <<script, run, client, closing, flight, server, kept, missed,
                   since, restarts>>

\* Mutant: the loop is no loop.
PauseForever(i) == [loop EXCEPT ![i] = "none"]

\* sleep, whatever became of the request.
Pause(i) == [loop EXCEPT ![i] = "sleep"]

\* ping_ssh_proxy_server: the token and the request go through the client.
SendPing(i) ==
    /\ loop[i] = "ping"
    /\ client[i] # "off"
    /\ loop' = [loop EXCEPT ![i] = "waiting"]
    /\ flight' = flight \cup {<<"POST", i, run[i]>>}
    /\ UNCHANGED <<script, run, client, closing, server, kept, missed, since, budget>>

\* There is no client.
PingFails(i) ==
    /\ loop[i] = "ping"
    /\ client[i] = "off"
    /\ loop' = Pause(i)
    /\ UNCHANGED <<script, run, client, closing, flight, server, kept, missed,
                   since, budget>>

\* The web terminal ends, of itself or because supervisord stops the script.
WebEnds(i) ==
    /\ script[i] = "up"
    /\ script' = [script EXCEPT ![i] = "kill_loop"]
    /\ UNCHANGED <<run, client, loop, closing, flight, server, kept, missed,
                   since, budget>>

\* What the loop has sent is not taken back.
KillLoop(i) ==
    /\ script[i] = "kill_loop"
    /\ script' = [script EXCEPT ![i] = "kill_client"]
    /\ loop' = [loop EXCEPT ![i] = "none"]
    /\ UNCHANGED <<run, client, closing, flight, server, kept, missed, since, budget>>

\* The end of the client is not waited for.
KillClient(i) ==
    /\ script[i] = "kill_client"
    /\ script' = [script EXCEPT ![i] = "delete"]
    /\ client' = [client EXCEPT ![i] = "ending"]
    /\ closing' = closing \cup {<<i, run[i]>>}
    /\ UNCHANGED <<run, loop, flight, server, kept, missed, since, budget>>

ClientEnds(i) ==
    /\ client[i] = "ending"
    /\ client' = [client EXCEPT ![i] = "off"]
    /\ UNCHANGED <<script, run, loop, closing, flight, server, kept, missed,
                   since, budget>>

\* Of a script that was killed meanwhile, the DELETE goes through the client of
\* the next run.
SendDelete(i, n) ==
    /\ <<i, n>> \in closing
    /\ client[i] # "off"
    /\ closing' = closing \ {<<i, n>>}
    /\ flight' = flight \cup {<<"DELETE", i, n>>}
    /\ UNCHANGED <<script, run, client, loop, server, kept, missed, since, budget>>

\* There is no client, or the server cannot be verified.
DeleteFails(i, n) ==
    /\ <<i, n>> \in closing
    /\ closing' = closing \ {<<i, n>>}
    /\ UNCHANGED <<script, run, client, loop, flight, server, kept, missed,
                   since, budget>>

\* The script ends with its DELETE, or supervisord kills it, which leaves the
\* DELETE behind.
ScriptEnds(i) ==
    /\ script[i] = "delete"
    /\ script' = [script EXCEPT ![i] = "ended"]
    /\ UNCHANGED <<run, client, loop, closing, flight, server, kept, missed,
                   since, budget>>

ContainerDies(i) ==
    /\ script[i] # "gone"
    /\ script' = [script EXCEPT ![i] = "gone"]
    /\ client' = [client EXCEPT ![i] = "off"]
    /\ loop' = [loop EXCEPT ![i] = "none"]
    /\ closing' = {c \in closing : c[1] # i}
    /\ UNCHANGED <<run, flight, server, kept, missed, since, budget>>

-----------------------------------------------------------------------------
(* The server                                                                *)

\* The loop that waits for the answer to this request goes on.
AfterPing(i, n) ==
    IF run[i] = n /\ loop[i] = "waiting" THEN Pause(i) ELSE loop

\* addInstance begins: the goroutine for the global map is started first.
PostArrives(i, n) ==
    /\ <<"POST", i, n>> \in flight
    /\ flight' = flight \ {<<"POST", i, n>>}
    /\ handling' = handling \cup {<<i, n>>}
    /\ spawned' = spawned \cup {<<"Set", i, n>>}
    /\ crossed' = IF DelPending(i) THEN crossed \cup {i} ELSE crossed
    /\ UNCHANGED <<sidecar, bucket, path, age, reaper, tunnel, kept, missed, since, budget>>

\* No removal of the instance is on its way.
Clean(i) == i \notin picked /\ ~ DelPending(i)

\* How a POST may come upon the bucket: there is one, or it makes it; it found
\* none and makes one although there is one by now; it found one that has been
\* replaced since.
Ways(i, n) ==
    {"found"} \cup {"missed"   : s \in rivals \cap {<<i, n>>}}
              \cup {"replaced" : s \in astray \cap {<<"POST", i, n>>}}

\* The bucket, when the POST has stored the instance.
Stored(i, way) == CASE way = "found"    -> bucket \cup {i}
                    [] way = "missed"   -> {i}
                    [] way = "replaced" -> bucket

\* The requests that may be busy with the bucket that is replaced.
Busy == {<<"POST", p[1], p[2]>> : p \in handling} \cup {f \in flight : f[1] = "DELETE"}

\* The POST stores in the bucket and is answered.
AddInstance(i, n) ==
    /\ <<i, n>> \in handling
    /\ handling' = handling \ {<<i, n>>}
    /\ opened' = TRUE
    /\ rivals' = (IF opened THEN rivals ELSE handling) \ {<<i, n>>}
    /\ \E way \in Ways(i, n) :
          LET lost == (bucket \cup {i}) \ Stored(i, way) IN
          /\ bucket' = Stored(i, way)
          /\ astray' = (IF way = "missed" THEN astray \cup Busy ELSE astray)
                          \ {<<"POST", i, n>>}
          /\ IF Clean(i) /\ age[i] = 0 /\ i \notin lost
             THEN /\ kept' = (kept \ lost) \cup {i}
                  /\ crossed' = (crossed \cup lost) \ {i}
             ELSE /\ kept' = kept \ (lost \cup {i})
                  /\ crossed' = crossed \cup lost
    /\ loop' = AfterPing(i, n)
    /\ missed' = [missed EXCEPT ![i] = IF loop' # loop THEN 0 ELSE @]
    /\ UNCHANGED <<script, run, client, closing, flight, age, spawned, reaper,
                   tunnel, since, budget>>

\* instanceToConfigMap.Set
RunSet(i, n) ==
    /\ <<"Set", i, n>> \in spawned
    /\ spawned' = spawned \ {<<"Set", i, n>>}
    /\ age' = [age EXCEPT ![i] = 0]
    /\ IF Clean(i) /\ i \in bucket
       THEN kept' = kept \cup {i} /\ crossed' = crossed \ {i}
       ELSE UNCHANGED <<kept, crossed>>
    /\ UNCHANGED <<sidecar, flight, bucket, path, handling, reaper, tunnel, missed,
                   since, budget>>

\* The instance leaves the bucket, and the global map later.
TakeOut(i, n) ==
    /\ bucket' = bucket \ {i}
    /\ spawned' = spawned \cup {<<"Del", i, n>>}
    /\ crossed' = IF Underway(i) THEN crossed \cup {i} ELSE crossed

\* It leaves a bucket that was replaced, and the global map all the same.
TakeFromOld(i, n) ==
    /\ spawned' = spawned \cup {<<"Del", i, n>>}
    /\ crossed' = crossed \cup {i}
    /\ UNCHANGED bucket

\* removeInstance: all runs in a container have the same tunnel.
RemoveInstance(i, n) ==
    /\ <<"DELETE", i, n>> \in flight
    /\ flight' = flight \ {<<"DELETE", i, n>>}
    /\ \/ i \in bucket /\ TakeOut(i, n) /\ kept' = kept \ {i}
       \/ <<"DELETE", i, n>> \in astray /\ TakeFromOld(i, n) /\ kept' = kept \ {i}
       \/ /\ i \notin bucket \/ <<"DELETE", i, n>> \in astray
          /\ UNCHANGED <<bucket, spawned, crossed, kept>>
    /\ astray' = astray \ {<<"DELETE", i, n>>}
    /\ UNCHANGED <<sidecar, opened, rivals, age, handling, reaper, tunnel, missed,
                   since, budget>>

\* instanceToConfigMap.Del
RunDel(i, n) ==
    /\ <<"Del", i, n>> \in spawned
    /\ spawned' = spawned \ {<<"Del", i, n>>}
    /\ age' = [age EXCEPT ![i] = Absent]
    /\ UNCHANGED <<sidecar, flight, bucket, path, handling, crossed, reaper, tunnel,
                   kept, missed, since, budget>>

\* A request does not get through, or not past the filters.
Lose(m, i, n) ==
    /\ <<m, i, n>> \in flight
    /\ losses < MaxLost
    /\ losses' = losses + 1
    /\ flight' = flight \ {<<m, i, n>>}
    /\ loop' = IF m = "POST" THEN AfterPing(i, n) ELSE loop
    /\ missed' = [missed EXCEPT ![i] = IF loop' # loop THEN @ + 1 ELSE @]
    /\ UNCHANGED <<script, run, client, closing, server, kept, since, restarts>>

\* Mutant: one tick less.
StaleEarly(i) == age[i] >= Timeout - 1 /\ age[i] # Absent

\* Mutant: one tick more.
StaleLate(i) == age[i] > Timeout

Stale(i) == age[i] >= Timeout

\* idleInstancesReaper: one entry of the global map after the other is looked at
\* and then removed from its bucket, with whatever was stored there in between.
ReaperLooks(i) ==
    /\ picked = {}
    /\ \A j \in Instance : <<"Del", j, 0>> \notin spawned
    /\ i \notin passed
    /\ passed' = passed \cup {i}
    /\ picked' = IF Stale(i) THEN {i} ELSE {}
    /\ UNCHANGED <<sidecar, flight, bucket, path, age, work, tunnel, kept, missed,
                   since, budget>>

\* The Del is the reaper's own next step.  It has no replaced bucket in its hands:
\* no entry is stale as long as a bucket can be replaced.
ReaperRemoves(i) ==
    /\ i \in picked
    /\ picked' = {}
    /\ IF i \in bucket THEN TakeOut(i, 0) ELSE UNCHANGED <<bucket, spawned, crossed>>
    /\ UNCHANGED <<sidecar, flight, path, age, handling, passed, tunnel, kept, missed,
                   since, budget>>

Listed == {i \in Instance : age[i] # Absent}

\* Mutant: what was loaded before stays.
IngressRulesAdded == rules \cup Listed

\* getIngessRules
IngressRules == Listed

\* The tunnel server loads them.
LoadRules ==
    /\ rules' = IngressRules
    /\ loaded' = TRUE
    /\ UNCHANGED <<sidecar, flight, bucket, path, age, work, reaper, kept, missed,
                   since, budget>>

\* The registry is in memory only, and a POST that was being handled gets no answer.
ServerRestarts ==
    /\ restarts < MaxRestarts
    /\ restarts' = restarts + 1
    /\ bucket' = {} /\ opened' = FALSE /\ rivals' = {} /\ astray' = {}
    /\ age' = [i \in Instance |-> Absent]
    /\ handling' = {} /\ spawned' = {} /\ crossed' = {}
    /\ passed' = {} /\ picked' = {}
    /\ rules' = {} /\ loaded' = FALSE
    /\ kept' = {}
    /\ loop' = [i \in Instance |->
            IF <<i, run[i]>> \in handling THEN AfterPing(i, run[i])[i] ELSE loop[i]]
    /\ UNCHANGED <<script, run, client, closing, flight, missed, since, losses>>

-----------------------------------------------------------------------------
(* The clock                                                                 *)

AtRest(i) == loop[i] \in {"none", "sleep", "exited"}

Older(a) == IF a \in {Absent, Timeout + 1} THEN a ELSE a + 1

Tick ==
    /\ \A i \in Instance : AtRest(i)
    /\ closing = {} /\ flight = {} /\ handling = {} /\ spawned = {}
    /\ passed = Instance /\ picked = {} /\ loaded
    /\ passed' = {}
    /\ loaded' = FALSE
    /\ age' = [i \in Instance |-> Older(age[i])]
    /\ loop' = [i \in Instance |-> IF loop[i] = "sleep" THEN "ping" ELSE loop[i]]
    /\ since' = [i \in Instance |->
            IF script[i] = "gone" /\ since[i] < Timeout + 2
            THEN since[i] + 1 ELSE since[i]]
    /\ UNCHANGED <<script, run, client, closing, flight, bucket, path, work, picked,
                   rules, kept, missed, budget>>

-----------------------------------------------------------------------------

Environment == \/ \E i \in Instance : Start(i) \/ WebEnds(i) \/ ContainerDies(i)
               \/ ServerRestarts

Killing == \E i \in Instance :
    KillLoop(i) \/ KillClient(i) \/ ClientEnds(i) \/ ScriptEnds(i)

Checking(i) == Verify(i) \/ VerifyFails(i)

Deleting(i, n) == SendDelete(i, n) \/ DeleteFails(i, n)

Polling(i) == SendPing(i) \/ PingFails(i)

Delivering(i, n) == PostArrives(i, n) \/ AddInstance(i, n) \/ RemoveInstance(i, n)

Routines(i) == \/ \E n \in 1..MaxRuns : RunSet(i, n)
               \/ \E n \in 0..MaxRuns : RunDel(i, n)

Losing(i, n) == \E m \in Method : Lose(m, i, n)

Reaping == \E i \in Instance : ReaperLooks(i) \/ ReaperRemoves(i)

Next ==
    \/ Environment \/ Killing
    \/ \E i \in Instance : Checking(i) \/ Polling(i) \/ Routines(i)
    \/ \E i \in Instance, n \in 1..MaxRuns :
          Deleting(i, n) \/ Delivering(i, n) \/ Losing(i, n)
    \/ Reaping \/ LoadRules \/ Tick

Spec == Init /\ [][Next]_vars

\* The processes and the goroutines that run do go on, the reaper and the tunnel
\* server have timers, time passes, and a request that is not lost arrives.
Fairness ==
    /\ \A i \in Instance : 
          WF_vars(Checking(i)) /\ WF_vars(Polling(i)) /\ WF_vars(Routines(i))
    /\ \A i \in Instance, n \in 1..MaxRuns :
          WF_vars(Deleting(i, n)) /\ WF_vars(Delivering(i, n))
    /\ WF_vars(Reaping) /\ WF_vars(LoadRules) /\ WF_vars(Tick)

FairSpec == Spec /\ Fairness

-----------------------------------------------------------------------------
(* Properties *)

Pinging(i) == loop[i] \in {"ping", "waiting", "sleep"} /\ client[i] = "on"

\* An instance whose sidecar pings stays registered, in the bucket and in the
\* global map, although pings are lost, as long as those in a row are fewer than
\* the timeout has room for: each renews the registration before the reaper can
\* find it stale (README.md:302-304).  Only a DELETE, a restart of the server, a
\* bucket that is replaced or a ping that met a removal halfway undo a
\* registration, and only until the next ping.
LiveIsRegistered == \A i \in Instance :
    Pinging(i) /\ i \in kept /\ missed[i] + 1 < Timeout
        => i \in bucket /\ age[i] # Absent /\ i \notin picked

\* What a container leaves behind when it ends without a DELETE, or with one
\* that a POST of the loop overtook, is dropped: the registration when the
\* timeout is over, the tunnel server's rule by the load after that.  If a POST
\* and a removal met halfway (main.go:338, 411), or if the bucket with the entry
\* was replaced (main.go:350), one of the two maps may keep its entry for ever,
\* as the runs on ProxyRegistry show; then what is dropped in time is only what
\* both maps have.
ForgottenInTime == \A i \in Instance : script[i] = "gone" =>
    /\ i \in bucket \cap Listed => since[i] <= Timeout
    /\ i \notin crossed =>
        /\ i \in bucket \cup Listed => since[i] <= Timeout
        /\ i \in rules => since[i] <= Timeout + 1

\* While the script runs and its tunnel client too, its instance gets its rule,
\* again too after a restart of the server, a DELETE of an earlier run of the
\* script, lost pings, or a ping whose registration was removed halfway; unless
\* the loop could not verify the server.
Serving(i) == script[i] = "up" /\ client[i] = "on" /\ loop[i] # "exited"

BecomesReachable == \A i \in Instance :
    Serving(i) ~> (i \in rules /\ client[i] = "on") \/ ~ Serving(i)

===============================================================================
