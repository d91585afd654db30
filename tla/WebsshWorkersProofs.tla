-------------------------- MODULE WebsshWorkersProofs --------------------------
(***************************************************************************)
(* Theorems about WebsshWorkers, for any number of POSTs, websockets and   *)
(* clients and any limit.                                                  *)
(***************************************************************************)
EXTENDS WebsshWorkers, FiniteSetTheorems, TLAPS

-----------------------------------------------------------------------------
(* The invariant                                                             *)

\* A worker is in one dict only, the one its POST registered it in, and that
\* dict was made for a POST of the same client.
Registered ==
    /\ \A d \in Dict, w \in Worker :
            entry[d][w] # "absent" => post[w] = "done" /\ workers[w] = d
    /\ \A w \in Worker :
            workers[w] # Null => IpOf[workers[w]] = IpOf[w] /\ post[workers[w]] # "idle"
    /\ \A ip \in Ip :
            clients[ip] # Null => IpOf[clients[ip]] = ip /\ post[clients[ip]] # "idle"

\* A worker that a websocket has is in no dict any more, except as None.
Taken ==
    \A s \in Socket : ref[s] # Null =>
        /\ post[ref[s]] = "done"
        /\ \A d \in Dict : entry[d][ref[s]] # "worker"

\* The timer of a worker, and its end, come after its POST.
Done == \A w \in recycling \cup closed : post[w] = "done"

\* A closed worker is not in the dict of its client, though it may still be
\* in one that clients has lost.
ClosedUnlisted ==
    \A d \in Dict, w \in closed :
        entry[d][w] # "absent" => clients[IpOf[w]] # d

WorkersInv ==
    /\ TypeOK
    /\ Registered
    /\ Taken
    /\ Done
    /\ ClosedUnlisted
    /\ OneSocketPerWorker
    /\ NoEmptyDict

LEMMA WorkersInvInit == Init => WorkersInv
<1> SUFFICES ASSUME Init PROVE WorkersInv
  OBVIOUS
<1>1. TypeOK
  BY DEF Init, TypeOK
<1>2. Registered /\ Taken /\ Done /\ ClosedUnlisted
  BY DEF Init, Registered, Taken, Done, ClosedUnlisted
<1>3. OneSocketPerWorker /\ NoEmptyDict
  BY DEF Init, OneSocketPerWorker, NoEmptyDict
<1> QED
  BY <1>1, <1>2, <1>3 DEF WorkersInv

-----------------------------------------------------------------------------
(* Worker.close                                                              *)

\* Closing a worker only takes entries out, and keeps what the invariant says
\* of the dicts.
LEMMA CloseEffect ==
    ASSUME WorkersInv, NEW w \in Worker, Close(w)
    PROVE  /\ closed' \subseteq Worker
           /\ closed \subseteq closed' /\ closed' \subseteq closed \cup {w}
           /\ broken' \subseteq Worker
           /\ entry' \in [Dict -> [Worker -> {"absent", "worker", "None"}]]
           /\ \A d \in Dict, x \in Worker : entry'[d][x] \in {entry[d][x], "absent"}
           /\ clients' \in [Ip -> Dict \cup {Null}]
           /\ \A ip \in Ip : clients'[ip] \in {clients[ip], Null}
           /\ ClosedUnlisted'
           /\ NoEmptyDict'
<1> DEFINE d0 == clients[IpOf[w]]
<1>0. /\ entry \in [Dict -> [Worker -> {"absent", "worker", "None"}]]
      /\ clients \in [Ip -> Dict \cup {Null}]
      /\ closed \subseteq Worker /\ broken \subseteq Worker
      /\ IpOf[w] \in Ip /\ Null \notin Dict
  BY IpAssumption, NullAssumption DEF WorkersInv, TypeOK, Dict
<1>1. CASE w \in closed
  BY <1>0, <1>1
     DEF Close, WorkersInv, ClosedUnlisted, NoEmptyDict, Ids
<1>2. CASE w \notin closed /\ d0 # Null /\ entry[d0][w] # "absent"
  <2>1. /\ closed' = closed \cup {w}
        /\ entry' = [entry EXCEPT ![d0][w] = "absent"]
        /\ clients' = IF Ids(d0) = {w} THEN [clients EXCEPT ![IpOf[w]] = Null]
                                       ELSE clients
        /\ broken' = broken
    BY <1>2 DEF Close, ClearWorker
  <2>2. d0 \in Dict
    BY <1>0, <1>2
  <2> HIDE DEF d0
  <2>3. /\ entry' \in [Dict -> [Worker -> {"absent", "worker", "None"}]]
        /\ entry'[d0][w] = "absent"
        /\ \A d \in Dict, x \in Worker :
                ~ (d = d0 /\ x = w) => entry'[d][x] = entry[d][x]
    BY <1>0, <2>1, <2>2
  <2>4. /\ clients' \in [Ip -> Dict \cup {Null}]
        /\ \A ip \in Ip : clients'[ip] \in {clients[ip], Null}
        /\ Ids(d0) = {w} => clients'[IpOf[w]] = Null
    BY <1>0, <2>1
  <2>5. ClosedUnlisted'
    <3> SUFFICES ASSUME NEW d \in Dict, NEW x \in closed', entry'[d][x] # "absent"
                 PROVE  clients'[IpOf[x]] # d
      BY DEF ClosedUnlisted
    <3>1. x \in Worker /\ IpOf[x] \in Ip
      BY <1>0, <2>1, IpAssumption
    <3>2. entry[d][x] # "absent" /\ ~ (d = d0 /\ x = w)
      BY <2>3, <3>1
    <3>3. x # w
      <4>1. entry[d0][w] # "absent"
        BY <1>2
      <4>2. ASSUME x = w PROVE d = d0
        BY <2>2, <3>2, <4>1, <4>2 DEF WorkersInv, Registered
      <4> QED
        BY <3>2, <4>2
    <3>4. clients[IpOf[x]] # d
      BY <2>1, <3>2, <3>3 DEF WorkersInv, ClosedUnlisted
    <3> QED
      BY <1>0, <2>4, <3>1, <3>4
  <2>6. NoEmptyDict'
    <3> SUFFICES ASSUME NEW ip \in Ip, clients'[ip] # Null
                 PROVE  \E x \in Worker : entry'[clients'[ip]][x] # "absent"
      BY DEF NoEmptyDict, Ids
    <3>1. clients'[ip] = clients[ip] /\ clients[ip] \in Dict
      BY <1>0, <2>4
    <3>2. PICK x \in Worker : entry[clients[ip]][x] # "absent"
      BY <3>1 DEF WorkersInv, NoEmptyDict, Ids
    <3>3. CASE clients[ip] = d0
      <4>1. ip = IpOf[w]
        BY <1>0, <2>2, <3>1, <3>3 DEF WorkersInv, Registered, d0
      <4>2. Ids(d0) # {w}
        BY <2>4, <4>1
      <4>3. w \in Ids(d0)
        BY <1>2 DEF Ids
      <4>4. PICK y \in Ids(d0) : y # w
        BY <4>2, <4>3
      <4> QED
        BY <2>2, <2>3, <3>1, <3>3, <4>4 DEF Ids
    <3>4. CASE clients[ip] # d0
      BY <2>3, <3>1, <3>2, <3>4
    <3> QED
      BY <3>3, <3>4
  <2>7. \A d \in Dict, x \in Worker : entry'[d][x] \in {entry[d][x], "absent"}
    BY <2>2, <2>3
  <2> QED
    BY <1>0, <2>1, <2>3, <2>4, <2>5, <2>6, <2>7
<1>3. CASE w \notin closed /\ ~ (d0 # Null /\ entry[d0][w] # "absent")
  <2>1. /\ closed' = closed \cup {w} /\ broken' = broken \cup {w}
        /\ entry' = entry /\ clients' = clients
    BY <1>3 DEF Close, ClearWorker
  <2>2. ClosedUnlisted'
    <3> SUFFICES ASSUME NEW d \in Dict, NEW x \in closed', entry[d][x] # "absent"
                 PROVE  clients[IpOf[x]] # d
      BY <2>1 DEF ClosedUnlisted
    <3>1. CASE x \in closed
      BY <3>1 DEF WorkersInv, ClosedUnlisted
    <3>2. CASE x = w
      BY <1>0, <1>3, <3>2
    <3> QED
      BY <2>1, <3>1, <3>2
  <2>3. NoEmptyDict'
    BY <2>1 DEF WorkersInv, NoEmptyDict, Ids
  <2> QED
    BY <1>0, <2>1, <2>2, <2>3
<1> QED
  BY <1>1, <1>2, <1>3

\* Whatever closes a worker that its POST has registered keeps the invariant.
LEMMA CloseKeeps ==
    ASSUME WorkersInv, NEW w \in Worker, post[w] = "done", Close(w),
           post' = post, workers' = workers, ref' = ref,
           recycling' \subseteq recycling,
           socket' \in [Socket -> {"new", "open", "closing", "closed"}]
    PROVE  WorkersInv'
<1>1. /\ closed' \subseteq Worker
      /\ closed \subseteq closed' /\ closed' \subseteq closed \cup {w}
      /\ broken' \subseteq Worker
      /\ entry' \in [Dict -> [Worker -> {"absent", "worker", "None"}]]
      /\ \A d \in Dict, x \in Worker : entry'[d][x] \in {entry[d][x], "absent"}
      /\ clients' \in [Ip -> Dict \cup {Null}]
      /\ \A ip \in Ip : clients'[ip] \in {clients[ip], Null}
      /\ ClosedUnlisted'
      /\ NoEmptyDict'
  BY CloseEffect
<1>2. TypeOK'
  BY <1>1 DEF WorkersInv, TypeOK
<1>3. Registered'
  BY <1>1 DEF WorkersInv, Registered
<1>4. Taken'
  <2> SUFFICES ASSUME NEW s \in Socket, ref[s] # Null
               PROVE  /\ post[ref[s]] = "done"
                      /\ \A d \in Dict : entry'[d][ref[s]] # "worker"
    BY DEF Taken
  <2>1. /\ ref[s] \in Worker /\ post[ref[s]] = "done"
        /\ \A d \in Dict : entry[d][ref[s]] # "worker"
    BY DEF WorkersInv, TypeOK, Taken
  <2> QED
    BY <1>1, <2>1
<1>5. Done'
  BY <1>1 DEF WorkersInv, Done
<1>6. OneSocketPerWorker'
  BY DEF WorkersInv, OneSocketPerWorker
<1> QED
  BY <1>1, <1>2, <1>3, <1>4, <1>5, <1>6 DEF WorkersInv

-----------------------------------------------------------------------------
(* The steps                                                                 *)

LEMMA SubmitKeeps ==
    ASSUME WorkersInv, NEW w \in Worker, Submit(w)
    PROVE  WorkersInv'
<1>0. /\ post[w] = "idle" /\ post' = [post EXCEPT ![w] = "connecting"]
      /\ workers' = [workers EXCEPT ![w] = DictFor(w)]
      /\ UNCHANGED <<clients, entry, closed, broken, recycling, socket, ref>>
  BY DEF Submit
<1>1. IpOf[w] \in Ip /\ Null \notin Worker
  BY IpAssumption, NullAssumption
<1>2. /\ DictFor(w) \in Dict /\ IpOf[DictFor(w)] = IpOf[w]
      /\ DictFor(w) = w \/ post[DictFor(w)] # "idle"
  BY <1>1 DEF DictFor, Dict, WorkersInv, TypeOK, Registered
<1>3. TypeOK'
  <2>1. DictFor(w) # Null
    BY <1>1, <1>2 DEF Dict
  <2> QED
    BY <1>0, <1>2, <2>1 DEF WorkersInv, TypeOK
<1>4. /\ post' \in [Worker -> {"idle", "connecting", "done", "failed", "rejected"}]
      /\ workers' \in [Worker -> Dict \cup {Null}]
      /\ post'[w] = "connecting" /\ workers'[w] = DictFor(w)
      /\ \A x \in Worker : x # w => post'[x] = post[x] /\ workers'[x] = workers[x]
  BY <1>0, <1>3 DEF WorkersInv, TypeOK
<1>5. Registered'
  <2>1. ASSUME NEW d \in Dict, NEW x \in Worker, entry[d][x] # "absent"
        PROVE  post'[x] = "done" /\ workers'[x] = d
    BY <1>0, <1>4, <2>1 DEF WorkersInv, Registered
  <2>2. ASSUME NEW x \in Worker, workers'[x] # Null
        PROVE  IpOf[workers'[x]] = IpOf[x] /\ post'[workers'[x]] # "idle"
    <3>1. CASE x = w
      BY <1>2, <1>4, <3>1 DEF Dict
    <3>2. CASE x # w
      <4>1. /\ workers'[x] = workers[x] /\ workers[x] \in Worker
            /\ IpOf[workers[x]] = IpOf[x] /\ post[workers[x]] # "idle"
        BY <1>4, <2>2, <3>2 DEF WorkersInv, TypeOK, Registered, Dict
      <4> QED
        BY <1>0, <1>4, <4>1
    <3> QED
      BY <3>1, <3>2
  <2>3. ASSUME NEW ip \in Ip, clients[ip] # Null
        PROVE  IpOf[clients[ip]] = ip /\ post'[clients[ip]] # "idle"
    <3>1. /\ clients[ip] \in Worker
          /\ IpOf[clients[ip]] = ip /\ post[clients[ip]] # "idle"
      BY <2>3 DEF WorkersInv, TypeOK, Registered, Dict
    <3> QED
      BY <1>0, <1>4, <3>1
  <2> QED
    BY <1>0, <2>1, <2>2, <2>3 DEF Registered
<1>6. Taken'
  <2> SUFFICES ASSUME NEW s \in Socket, ref[s] # Null
               PROVE  /\ post'[ref[s]] = "done"
                      /\ \A d \in Dict : entry[d][ref[s]] # "worker"
    BY <1>0 DEF Taken
  <2>1. /\ ref[s] \in Worker /\ post[ref[s]] = "done"
        /\ \A d \in Dict : entry[d][ref[s]] # "worker"
    BY DEF WorkersInv, TypeOK, Taken
  <2> QED
    BY <1>0, <1>4, <2>1
<1>7. Done'
  <2>1. recycling \cup closed \subseteq Worker
    BY DEF WorkersInv, TypeOK
  <2> QED
    BY <1>0, <1>4, <2>1 DEF WorkersInv, Done
<1>8. ClosedUnlisted' /\ OneSocketPerWorker' /\ NoEmptyDict'
  BY <1>0 DEF WorkersInv, ClosedUnlisted, OneSocketPerWorker, NoEmptyDict, Ids
<1> QED
  BY <1>3, <1>5, <1>6, <1>7, <1>8 DEF WorkersInv

LEMMA RegisterKeeps ==
    ASSUME WorkersInv, NEW w \in Worker, Register(w)
    PROVE  WorkersInv'
<1> DEFINE d0 == workers[w]
<1>0. /\ post[w] = "connecting" /\ post' = [post EXCEPT ![w] = "done"]
      /\ clients' = IF Ids(d0) = {} THEN [clients EXCEPT ![IpOf[w]] = d0] ELSE clients
      /\ entry' = [entry EXCEPT ![d0][w] = "worker"]
      /\ recycling' = recycling \cup {w}
      /\ UNCHANGED <<workers, closed, broken, socket, ref>>
  BY DEF Register
<1>1. IpOf[w] \in Ip /\ Null \notin Worker
  BY IpAssumption, NullAssumption
<1>2. /\ d0 \in Dict /\ d0 # Null
      /\ IpOf[d0] = IpOf[w] /\ post[d0] # "idle"
  BY <1>0, <1>1 DEF WorkersInv, TypeOK, Registered, Dict
<1>3. TypeOK'
  BY <1>0, <1>1, <1>2 DEF WorkersInv, TypeOK
<1> HIDE DEF d0
<1>4. /\ entry'[d0][w] = "worker"
      /\ \A d \in Dict, x \in Worker :
            ~ (d = d0 /\ x = w) => entry'[d][x] = entry[d][x]
  BY <1>0, <1>2 DEF WorkersInv, TypeOK
<1>5. /\ post'[w] = "done"
      /\ \A x \in Worker : x # w => post'[x] = post[x]
  BY <1>0 DEF WorkersInv, TypeOK
<1>6. \A ip \in Ip : \/ clients'[ip] = clients[ip]
                     \/ ip = IpOf[w] /\ clients'[ip] = d0 /\ Ids(d0) = {}
  BY <1>0, <1>1 DEF WorkersInv, TypeOK
<1>7. Registered'
  <2>1. ASSUME NEW d \in Dict, NEW x \in Worker, entry'[d][x] # "absent"
        PROVE  post'[x] = "done" /\ workers[x] = d
    <3>1. CASE d = d0 /\ x = w
      BY <1>5, <3>1 DEF d0
    <3>2. CASE ~ (d = d0 /\ x = w)
      BY <1>4, <1>5, <2>1, <3>2 DEF WorkersInv, Registered
    <3> QED
      BY <3>1, <3>2
  <2>2. ASSUME NEW x \in Worker, workers[x] # Null
        PROVE  IpOf[workers[x]] = IpOf[x] /\ post'[workers[x]] # "idle"
    <3>1. /\ workers[x] \in Worker
          /\ IpOf[workers[x]] = IpOf[x] /\ post[workers[x]] # "idle"
      BY <2>2 DEF WorkersInv, TypeOK, Registered, Dict
    <3> QED
      BY <1>5, <3>1
  <2>3. ASSUME NEW ip \in Ip, clients'[ip] # Null
        PROVE  IpOf[clients'[ip]] = ip /\ post'[clients'[ip]] # "idle"
    <3>1. CASE clients'[ip] = clients[ip]
      <4>1. /\ clients[ip] \in Worker
            /\ IpOf[clients[ip]] = ip /\ post[clients[ip]] # "idle"
        BY <2>3, <3>1 DEF WorkersInv, TypeOK, Registered, Dict
      <4> QED
        BY <1>5, <3>1, <4>1
    <3>2. CASE ip = IpOf[w] /\ clients'[ip] = d0
      BY <1>2, <1>5, <3>2 DEF Dict
    <3> QED
      BY <1>6, <3>1, <3>2
  <2> QED
    BY <1>0, <2>1, <2>2, <2>3 DEF Registered
<1>8. Taken'
  <2> SUFFICES ASSUME NEW s \in Socket, ref[s] # Null
               PROVE  /\ post'[ref[s]] = "done"
                      /\ \A d \in Dict : entry'[d][ref[s]] # "worker"
    BY <1>0 DEF Taken
  <2>1. /\ ref[s] \in Worker /\ post[ref[s]] = "done"
        /\ \A d \in Dict : entry[d][ref[s]] # "worker"
    BY DEF WorkersInv, TypeOK, Taken
  <2>2. ref[s] # w
    BY <1>0, <2>1
  <2> QED
    BY <1>4, <1>5, <2>1, <2>2
<1>9. Done'
  <2>1. recycling \cup closed \subseteq Worker
    BY DEF WorkersInv, TypeOK
  <2> QED
    BY <1>0, <1>5, <2>1 DEF WorkersInv, Done
<1>10. ClosedUnlisted'
  <2> SUFFICES ASSUME NEW d \in Dict, NEW x \in closed, entry'[d][x] # "absent"
               PROVE  clients'[IpOf[x]] # d
    BY <1>0 DEF ClosedUnlisted
  <2>1. x \in Worker /\ x # w /\ IpOf[x] \in Ip
    BY <1>0, IpAssumption DEF WorkersInv, TypeOK, Done
  <2>2. entry[d][x] # "absent" /\ clients[IpOf[x]] # d
    BY <1>4, <2>1 DEF WorkersInv, ClosedUnlisted
  <2>3. Ids(d0) = {} => d # d0
    BY <2>1, <2>2 DEF Ids
  <2> QED
    BY <1>6, <2>1, <2>2, <2>3
<1>11. OneSocketPerWorker'
  BY <1>0 DEF WorkersInv, OneSocketPerWorker
<1>12. NoEmptyDict'
  <2> SUFFICES ASSUME NEW ip \in Ip, clients'[ip] # Null
               PROVE  \E x \in Worker : entry'[clients'[ip]][x] # "absent"
    BY DEF NoEmptyDict, Ids
  <2>1. CASE clients'[ip] = d0
    BY <1>4, <2>1
  <2>2. CASE clients'[ip] # d0
    <3>1. clients'[ip] = clients[ip] /\ clients[ip] \in Dict
      BY <1>6, <2>2 DEF WorkersInv, TypeOK
    <3>2. PICK x \in Worker : entry[clients[ip]][x] # "absent"
      BY <3>1 DEF WorkersInv, NoEmptyDict, Ids
    <3> QED
      BY <1>4, <2>2, <3>1, <3>2
  <2> QED
    BY <2>1, <2>2
<1> QED
  BY <1>3, <1>7, <1>8, <1>9, <1>10, <1>11, <1>12 DEF WorkersInv

LEMMA OpenSocketKeeps ==
    ASSUME WorkersInv, NEW s \in Socket, NEW ip \in Ip, NEW w \in Worker,
           post[w] = "done", OpenSocket(s, ip, w)
    PROVE  WorkersInv'
<1> DEFINE d0 == clients[ip]
<1>0. /\ d0 # Null /\ entry[d0][w] = "worker"
      /\ entry' = [entry EXCEPT ![d0][w] = "None"]
      /\ ref' = [ref EXCEPT ![s] = w]
      /\ socket' = [socket EXCEPT ![s] = "open"]
      /\ UNCHANGED <<post, workers, clients, closed, broken, recycling>>
  BY DEF OpenSocket, Finds
<1>1. d0 \in Dict
  BY <1>0 DEF WorkersInv, TypeOK
<1>2. TypeOK'
  BY <1>0, <1>1 DEF WorkersInv, TypeOK
<1> HIDE DEF d0
<1>3. /\ entry'[d0][w] = "None"
      /\ \A d \in Dict, x \in Worker :
            ~ (d = d0 /\ x = w) => entry'[d][x] = entry[d][x]
  BY <1>0, <1>1 DEF WorkersInv, TypeOK
<1>4. ref'[s] = w /\ \A t \in Socket : t # s => ref'[t] = ref[t]
  BY <1>0 DEF WorkersInv, TypeOK
<1>5. \A d \in Dict, x \in Worker : entry'[d][x] # "absent" => entry[d][x] # "absent"
  BY <1>0, <1>3
<1>6. Registered'
  BY <1>0, <1>5 DEF WorkersInv, Registered
<1>7. Done'
  BY <1>0 DEF WorkersInv, Done
<1>8. \A d \in Dict : entry'[d][w] # "worker"
  BY <1>0, <1>1, <1>3 DEF WorkersInv, Registered
<1>9. Taken'
  <2> SUFFICES ASSUME NEW t \in Socket, ref'[t] # Null
               PROVE  /\ post[ref'[t]] = "done"
                      /\ \A d \in Dict : entry'[d][ref'[t]] # "worker"
    BY <1>0 DEF Taken
  <2>1. CASE ref'[t] = w
    BY <1>8, <2>1
  <2>2. CASE ref'[t] # w
    <3>1. /\ ref'[t] = ref[t] /\ ref[t] \in Worker /\ post[ref[t]] = "done"
          /\ \A d \in Dict : entry[d][ref[t]] # "worker"
      BY <1>4, <2>2 DEF WorkersInv, TypeOK, Taken
    <3> QED
      BY <1>3, <2>2, <3>1
  <2> QED
    BY <2>1, <2>2
<1>10. ClosedUnlisted'
  <2>1. closed \subseteq Worker
    BY DEF WorkersInv, TypeOK
  <2> QED
    BY <1>0, <1>5, <2>1 DEF WorkersInv, ClosedUnlisted
<1>11. OneSocketPerWorker'
  <2>1. \A t \in Socket : ref[t] # w
    BY <1>0, <1>1, NullAssumption DEF WorkersInv, Taken
  <2> QED
    BY <1>4, <2>1 DEF WorkersInv, OneSocketPerWorker
<1>12. NoEmptyDict'
  <2> SUFFICES ASSUME NEW q \in Ip, clients[q] # Null
               PROVE  \E x \in Worker : entry'[clients[q]][x] # "absent"
    BY <1>0 DEF NoEmptyDict, Ids
  <2>1. clients[q] \in Dict
    BY DEF WorkersInv, TypeOK
  <2>2. PICK x \in Worker : entry[clients[q]][x] # "absent"
    BY DEF WorkersInv, NoEmptyDict, Ids
  <2> QED
    BY <1>3, <2>1, <2>2
<1> QED
  BY <1>2, <1>6, <1>7, <1>9, <1>10, <1>11, <1>12 DEF WorkersInv

\* A POST that ends without a worker.
LEMMA PostEndsKeeps ==
    ASSUME WorkersInv, NEW w \in Worker, NEW end \in {"failed", "rejected"},
           post[w] # "done", post' = [post EXCEPT ![w] = end],
           UNCHANGED <<workers, clients, entry, closed, broken, recycling, socket, ref>>
    PROVE  WorkersInv'
<1>1. TypeOK'
  BY DEF WorkersInv, TypeOK
<1>2. post'[w] = end /\ \A x \in Worker : x # w => post'[x] = post[x]
  BY DEF WorkersInv, TypeOK
<1>3. Registered'
  <2>1. ASSUME NEW d \in Dict, NEW x \in Worker, entry[d][x] # "absent"
        PROVE  post'[x] = "done" /\ workers[x] = d
    BY <1>2, <2>1 DEF WorkersInv, Registered
  <2>2. ASSUME NEW x \in Worker, workers[x] # Null
        PROVE  IpOf[workers[x]] = IpOf[x] /\ post'[workers[x]] # "idle"
    BY <1>2, <2>2 DEF WorkersInv, TypeOK, Registered, Dict
  <2>3. ASSUME NEW ip \in Ip, clients[ip] # Null
        PROVE  IpOf[clients[ip]] = ip /\ post'[clients[ip]] # "idle"
    BY <1>2, <2>3 DEF WorkersInv, TypeOK, Registered, Dict
  <2> QED
    BY <2>1, <2>2, <2>3 DEF Registered
<1>4. Taken'
  <2> SUFFICES ASSUME NEW s \in Socket, ref[s] # Null
               PROVE  /\ post'[ref[s]] = "done"
                      /\ \A d \in Dict : entry[d][ref[s]] # "worker"
    BY DEF Taken
  <2>1. /\ ref[s] \in Worker /\ post[ref[s]] = "done"
        /\ \A d \in Dict : entry[d][ref[s]] # "worker"
    BY DEF WorkersInv, TypeOK, Taken
  <2> QED
    BY <1>2, <2>1
<1>5. Done'
  <2>1. recycling \cup closed \subseteq Worker
    BY DEF WorkersInv, TypeOK
  <2> QED
    BY <1>2, <2>1 DEF WorkersInv, Done
<1>6. ClosedUnlisted' /\ OneSocketPerWorker' /\ NoEmptyDict'
  BY DEF WorkersInv, ClosedUnlisted, OneSocketPerWorker, NoEmptyDict, Ids
<1> QED
  BY <1>1, <1>3, <1>4, <1>5, <1>6 DEF WorkersInv

\* A change of the timers and of the state of the websockets alone.
LEMMA SocketsKeep ==
    ASSUME WorkersInv, recycling' \subseteq recycling,
           socket' \in [Socket -> {"new", "open", "closing", "closed"}],
           UNCHANGED <<post, workers, clients, entry, closed, broken, ref>>
    PROVE  WorkersInv'
BY DEF WorkersInv, TypeOK, Registered, Taken, Done, ClosedUnlisted,
       OneSocketPerWorker, NoEmptyDict, Ids

LEMMA WorkersInvStep == WorkersInv /\ [Next]_vars => WorkersInv'
<1> SUFFICES ASSUME WorkersInv, [Next]_vars PROVE WorkersInv'
  OBVIOUS
<1>0. socket \in [Socket -> {"new", "open", "closing", "closed"}]
  BY DEF WorkersInv, TypeOK
<1>1. ASSUME NEW w \in Worker, Reject(w) PROVE WorkersInv'
  BY <1>1, PostEndsKeeps DEF Reject
<1>2. ASSUME NEW w \in Worker, Submit(w) PROVE WorkersInv'
  BY <1>2, SubmitKeeps
<1>3. ASSUME NEW w \in Worker, ConnectFails(w) PROVE WorkersInv'
  BY <1>3, PostEndsKeeps DEF ConnectFails
<1>4. ASSUME NEW w \in Worker, Register(w) PROVE WorkersInv'
  BY <1>4, RegisterKeeps
<1>5. ASSUME NEW w \in Worker, Recycle(w) PROVE WorkersInv'
  <2>1. /\ post[w] = "done" /\ recycling' \subseteq recycling
        /\ UNCHANGED <<post, workers, socket, ref>>
    BY <1>5 DEF Recycle, WorkersInv, Done
  <2>2. CASE HandlerOf(w) = {}
    <3>1. Close(w)
      BY <1>5, <2>2 DEF Recycle
    <3> QED
      BY <1>0, <2>1, <3>1, CloseKeeps
  <2>3. CASE HandlerOf(w) # {}
    <3>1. UNCHANGED <<closed, clients, entry, broken>>
      BY <1>5, <2>3 DEF Recycle
    <3> QED
      BY <1>0, <2>1, <3>1, SocketsKeep
  <2> QED
    BY <2>2, <2>3
<1>6. ASSUME NEW w \in Worker, ChannelEnds(w) PROVE WorkersInv'
  <2>1. /\ Close(w)
        /\ socket' \in [Socket -> {"new", "open", "closing", "closed"}]
        /\ UNCHANGED <<post, workers, recycling, ref>>
    BY <1>0, <1>6 DEF ChannelEnds, CloseSockets
  <2>2. PICK s \in Socket : ref[s] = w
    BY <1>6 DEF ChannelEnds, HandlerOf
  <2>3. post[w] = "done"
    BY <2>2, NullAssumption DEF WorkersInv, Taken
  <2> QED
    BY <2>1, <2>3, CloseKeeps
<1>7. ASSUME NEW s \in Socket, AnyOpen(s) PROVE WorkersInv'
  <2>1. PICK w \in Worker, ip \in Ip :
            /\ post[w] = "done"
            /\ OpenSocket(s, ip, w) \/ RefuseSocket(s, ip, w)
    BY <1>7 DEF AnyOpen
  <2>2. CASE OpenSocket(s, ip, w)
    BY <2>1, <2>2, OpenSocketKeeps
  <2>3. CASE RefuseSocket(s, ip, w)
    BY <1>0, <2>3, SocketsKeep DEF RefuseSocket
  <2> QED
    BY <2>1, <2>2, <2>3
<1>8. ASSUME NEW s \in Socket, OnClose(s) PROVE WorkersInv'
  <2>1. /\ socket' \in [Socket -> {"new", "open", "closing", "closed"}]
        /\ UNCHANGED <<post, workers, recycling, ref>>
    BY <1>0, <1>8 DEF OnClose
  <2>2. CASE ref[s] = Null
    <3>1. UNCHANGED <<closed, clients, entry, broken>>
      BY <1>8, <2>2 DEF OnClose
    <3> QED
      BY <2>1, <3>1, SocketsKeep
  <2>3. CASE ref[s] # Null
    <3>1. Close(ref[s])
      BY <1>8, <2>3 DEF OnClose
    <3>2. ref[s] \in Worker /\ post[ref[s]] = "done"
      BY <2>3 DEF WorkersInv, TypeOK, Taken
    <3> QED
      BY <2>1, <3>1, <3>2, CloseKeeps
  <2> QED
    BY <2>2, <2>3
<1>9. CASE UNCHANGED vars
  BY <1>0, <1>9, SocketsKeep DEF vars
<1> QED
  BY <1>1, <1>2, <1>3, <1>4, <1>5, <1>6, <1>7, <1>8, <1>9 DEF Next

LEMMA WorkersInvHolds == Spec => []WorkersInv
BY WorkersInvInit, WorkersInvStep, PTL DEF Spec

-----------------------------------------------------------------------------
(* The theorems                                                              *)

\* Every variable of the session registry keeps its type.
THEOREM WorkersTypeCorrect == Spec => []TypeOK
<1>1. WorkersInv => TypeOK
  BY DEF WorkersInv
<1> QED
  BY <1>1, WorkersInvHolds, PTL

\* WsockHandler.open never gives one worker to two websockets.
THEOREM OneSocketPerWorkerHolds == Spec => []OneSocketPerWorker
<1>1. WorkersInv => OneSocketPerWorker
  BY DEF WorkersInv
<1> QED
  BY <1>1, WorkersInvHolds, PTL

\* What WsockHandler.open finds is a worker of this client whose connection is
\* open, although clear_worker may have failed to find it before.
THEOREM FoundWorkersAreOpenHolds == Spec => []FoundWorkersAreOpen
<1>1. WorkersInv => FoundWorkersAreOpen
  <2> SUFFICES ASSUME WorkersInv, NEW ip \in Ip, NEW w \in Worker, Finds(ip, w)
               PROVE  w \notin closed /\ IpOf[w] = ip
    BY DEF FoundWorkersAreOpen
  <2>1. /\ clients[ip] # Null /\ clients[ip] \in Dict
        /\ entry[clients[ip]][w] # "absent"
    BY DEF Finds, WorkersInv, TypeOK
  <2>2. workers[w] = clients[ip] /\ IpOf[clients[ip]] = ip
    BY <2>1 DEF WorkersInv, Registered
  <2>3. IpOf[w] = ip
    BY <2>1, <2>2 DEF WorkersInv, Registered
  <2>4. w \notin closed
    BY <2>1, <2>3 DEF WorkersInv, ClosedUnlisted
  <2> QED
    BY <2>3, <2>4
<1> QED
  BY <1>1, WorkersInvHolds, PTL

\* clear_worker and the registration after the yield leave no empty dict.
THEOREM NoEmptyDictHolds == Spec => []NoEmptyDict
<1>1. WorkersInv => NoEmptyDict
  BY DEF WorkersInv
<1> QED
  BY <1>1, WorkersInvHolds, PTL

\* Who is refused has maxconn sessions that are still open.
LEMMA RejectedIsFull ==
    ASSUME WorkersInv, NEW w \in Worker, Reject(w)
    PROVE  Cardinality(Live(IpOf[w])) >= MaxConn
<1> DEFINE ip == IpOf[w]
           d == clients[ip]
<1>1. d # Null /\ Cardinality(Ids(d)) >= MaxConn
  BY DEF Reject, Full
<1>2. ip \in Ip
  BY IpAssumption
<1>3. d \in Dict /\ d = clients[ip] /\ IpOf[d] = ip
  BY <1>1, <1>2 DEF WorkersInv, TypeOK, Registered
<1> HIDE DEF d, ip
<1>4. ASSUME NEW x \in Worker, entry[d][x] # "absent"
      PROVE  x \in Live(ip)
  <2>1. post[x] = "done" /\ workers[x] = d
    BY <1>3, <1>4 DEF WorkersInv, Registered
  <2>2. IpOf[x] = ip
    BY <1>1, <1>3, <2>1 DEF WorkersInv, Registered
  <2>3. x \notin closed
    BY <1>3, <1>4, <2>2 DEF WorkersInv, ClosedUnlisted
  <2> QED
    BY <2>1, <2>2, <2>3 DEF Live
<1>5. Ids(d) \subseteq Live(ip)
  BY <1>4 DEF Ids
<1>6. IsFiniteSet(Live(ip))
  <2>1. Live(ip) \subseteq Worker
    BY DEF Live
  <2> QED
    BY <2>1, WorkerAssumption, FS_Subset
<1>7. /\ Cardinality(Ids(d)) <= Cardinality(Live(ip))
      /\ Cardinality(Ids(d)) \in Nat /\ Cardinality(Live(ip)) \in Nat
  BY <1>5, <1>6, FS_Subset, FS_CardinalityType
<1> QED
  BY <1>1, <1>7, MaxConnAssumption DEF ip

\* A POST is answered 429 only if its client has maxconn sessions that are
\* still open.
THEOREM RefusedOnlyIfFullHolds == Spec => RefusedOnlyIfFull
<1>1. WorkersInv => \A w \in Worker : Reject(w) => Cardinality(Live(IpOf[w])) >= MaxConn
  BY RejectedIsFull
<1> QED
  BY <1>1, WorkersInvHolds, PTL DEF Spec, RefusedOnlyIfFull

-----------------------------------------------------------------------------
(* The registry implements Sessions                                          *)

Found(w) == Finds(IpOf[w], w)

\* A step that changes what is seen of one POST or worker.
LEMMA TicketMoves ==
    ASSUME NEW w \in Worker,
           \A x \in Worker : x # w => UNCHANGED TicketOf(x)
    PROVE  ticket' = [ticket EXCEPT ![w] = TicketOf(w)']
BY DEF ticket

LEMMA SameSeen ==
    ASSUME UNCHANGED <<post, workers, clients, entry, ref>>
    PROVE  UNCHANGED <<ticket, missed>>
BY DEF ticket, TicketOf, HandlerOf, Finds, missed, OutOfDate, Ids

LEMMA ClosedIsNotFound ==
    ASSUME WorkersInv, NEW w \in closed
    PROVE  ~ Found(w)
BY IpAssumption DEF WorkersInv, TypeOK, ClosedUnlisted, Found, Finds

\* What clear_worker does to the dict of a client: the one entry goes, and the
\* dict goes with the last entry.
LEMMA CloseClears ==
    ASSUME WorkersInv, NEW w \in Worker, w \notin closed, Close(w)
    PROVE  /\ ~ Found(w)'
           /\ \A x \in Worker : x # w => (Found(x)' <=> Found(x))
           /\ \A q \in Worker : workers[q] # Null /\ workers' = workers =>
                (OutOfDate(q)' => OutOfDate(q))
<1> DEFINE d0 == clients[IpOf[w]]
<1>0. /\ entry \in [Dict -> [Worker -> {"absent", "worker", "None"}]]
      /\ clients \in [Ip -> Dict \cup {Null}]
      /\ workers \in [Worker -> Dict \cup {Null}]
      /\ \A x \in Worker : IpOf[x] \in Ip
      /\ Null \notin Dict
  BY IpAssumption, NullAssumption DEF WorkersInv, TypeOK, Dict
<1>1. CASE d0 # Null /\ entry[d0][w] # "absent"
  <2>1. /\ entry' = [entry EXCEPT ![d0][w] = "absent"]
        /\ clients' = IF Ids(d0) = {w} THEN [clients EXCEPT ![IpOf[w]] = Null]
                                       ELSE clients
    BY <1>1 DEF Close, ClearWorker
  <2>2. d0 \in Dict /\ d0 = clients[IpOf[w]]
    BY <1>0, <1>1
  <2> HIDE DEF d0
  <2>3. /\ entry'[d0][w] = "absent"
        /\ \A d \in Dict, x \in Worker :
                ~ (d = d0 /\ x = w) => entry'[d][x] = entry[d][x]
    BY <1>0, <2>1, <2>2
  <2>4. \A ip \in Ip :
            \/ clients'[ip] = clients[ip] /\ (ip = IpOf[w] => Ids(d0) # {w})
            \/ ip = IpOf[w] /\ clients'[ip] = Null /\ Ids(d0) = {w}
    BY <1>0, <2>1
  <2>5. ~ Found(w)'
    BY <1>0, <2>2, <2>3, <2>4 DEF Found, Finds
  <2>6. ASSUME NEW x \in Worker, x # w
        PROVE  Found(x)' <=> Found(x)
    <3>1. CASE clients'[IpOf[x]] = clients[IpOf[x]]
      BY <1>0, <2>3, <2>6, <3>1 DEF Found, Finds
    <3>2. CASE IpOf[x] = IpOf[w] /\ clients'[IpOf[x]] = Null /\ Ids(d0) = {w}
      <4>1. entry[d0][x] = "absent"
        BY <2>6, <3>2 DEF Ids
      <4> QED
        BY <2>2, <3>2, <4>1 DEF Found, Finds
    <3> QED
      BY <1>0, <2>4, <3>1, <3>2
  <2>7. ASSUME NEW q \in Worker, workers[q] # Null, workers' = workers, ~ OutOfDate(q)
        PROVE  ~ OutOfDate(q)'
    <3> DEFINE d == workers[q]
               c == clients[IpOf[q]]
    <3>1. d \in Dict /\ IpOf[q] \in Ip
      BY <1>0, <2>7
    <3>2. Ids(d)' = IF d = d0 THEN Ids(d) \ {w} ELSE Ids(d)
      BY <2>2, <2>3, <2>7, <3>1 DEF Ids
    <3>3. CASE Ids(d) = {}
      <4>1. c \in {Null, d}
        BY <2>7, <3>3 DEF OutOfDate
      <4>2. Ids(d)' = {} /\ c' \in {Null, d}
        BY <2>4, <3>1, <3>2, <3>3, <4>1
      <4> QED
        BY <2>7, <4>2 DEF OutOfDate
    <3>4. CASE Ids(d) # {}
      <4>1. c = d
        BY <2>7, <3>4 DEF OutOfDate
      <4>2. c' \in {Null, d}
        BY <2>4, <3>1, <4>1
      <4>3. CASE Ids(d)' = {}
        BY <2>7, <4>2, <4>3 DEF OutOfDate
      <4>4. CASE Ids(d)' # {}
        <5>1. ~ (IpOf[q] = IpOf[w] /\ Ids(d0) = {w})
          BY <2>2, <3>2, <4>1, <4>4
        <5>2. c' = d
          BY <2>4, <3>1, <4>1, <5>1
        <5> QED
          BY <2>7, <4>4, <5>2 DEF OutOfDate
      <4> QED
        BY <4>3, <4>4
    <3> QED
      BY <3>3, <3>4
  <2> QED
    BY <2>5, <2>6, <2>7
<1>2. CASE ~ (d0 # Null /\ entry[d0][w] # "absent")
  <2>1. UNCHANGED <<clients, entry>>
    BY <1>2 DEF Close, ClearWorker
  <2>2. ~ Found(w)
    BY <1>2 DEF Found, Finds
  <2> QED
    BY <2>1, <2>2 DEF Found, Finds, OutOfDate, Ids
<1> QED
  BY <1>1, <1>2

LEMMA CloseEnds ==
    ASSUME WorkersInv, NEW w \in Worker, post[w] = "done", Close(w),
           UNCHANGED <<post, workers, ref>>
    PROVE  Promise!End(w)
<1>1. CASE w \in closed
  <2>1. closed' = closed \cup {w} /\ UNCHANGED <<ticket, missed>>
    BY <1>1, SameSeen DEF Close
  <2>2. ticket[w] # "valid"
    BY <1>1, ClosedIsNotFound DEF ticket, TicketOf, Found
  <2> QED
    BY <2>1, <2>2 DEF Promise!End, ticket
<1>2. CASE w \notin closed
  <2>1. closed' = closed \cup {w}
    BY <1>2 DEF Close
  <2>2. \A x \in Worker : x # w => UNCHANGED TicketOf(x)
    BY <1>2, CloseClears DEF TicketOf, HandlerOf, Found
  <2>3. TicketOf(w)' = IF ticket[w] = "valid" THEN "void" ELSE ticket[w]
    BY <1>2, CloseClears DEF ticket, TicketOf, HandlerOf, Found
  <2>4. missed' \subseteq missed
    <3>1. ASSUME NEW q \in Worker, post[q] = "connecting", OutOfDate(q)'
          PROVE  OutOfDate(q)
      <4>1. workers[q] # Null
        BY <3>1 DEF WorkersInv, TypeOK
      <4> QED
        BY <1>2, <3>1, <4>1, CloseClears
    <3> QED
      BY <3>1 DEF missed
  <2> QED
    BY <2>1, <2>2, <2>3, <2>4, TicketMoves DEF Promise!End
<1> QED
  BY <1>1, <1>2

\* A websocket that has not been opened uses no worker.
NewHasNone == \A s \in Socket : socket[s] = "new" => ref[s] = Null

LEMMA NewHasNoneStep ==
    ASSUME WorkersInv, NewHasNone, [Next]_vars
    PROVE  NewHasNone'
<1>1. CASE UNCHANGED <<socket, ref>>
  BY <1>1 DEF NewHasNone
<1>2. ASSUME NEW w \in Worker, ChannelEnds(w) PROVE NewHasNone'
  BY <1>2 DEF ChannelEnds, CloseSockets, NewHasNone
<1>3. ASSUME NEW s \in Socket, AnyOpen(s) \/ OnClose(s) PROVE NewHasNone'
  BY <1>3 DEF AnyOpen, OpenSocket, RefuseSocket, OnClose, NewHasNone, WorkersInv, TypeOK
<1> QED
  BY <1>1, <1>2, <1>3 DEF Next, vars, Reject, Submit, ConnectFails, Register, Recycle

\* The POSTs that a client sees answered with a ticket and that are open.
LEMMA OpenIsLive ==
    ASSUME WorkersInv, NEW w \in Worker
    PROVE  Promise!Open(w) = Live(IpOf[w])
BY DEF Promise!Open, Live, ticket, TicketOf, WorkersInv, TypeOK

\* Both modules count with the operator of FiniteSets.
LEMMA SameCardinality ==
    ASSUME NEW S
    PROVE  Promise!Cardinality(S) = Cardinality(S)
BY DEF Promise!Cardinality, Cardinality

LEMMA PostImplements ==
    ASSUME WorkersInv, NEW w \in Worker, Reject(w) \/ Submit(w) \/ ConnectFails(w)
    PROVE  Promise!Next
<1>1. \A x \in Worker : x # w => UNCHANGED <<post[x], workers[x]>>
  BY DEF Reject, Submit, ConnectFails, WorkersInv, TypeOK
<1>2. UNCHANGED <<clients, entry, closed, recycling, socket, ref>>
  BY DEF Reject, Submit, ConnectFails
<1>3. \A x \in Worker : x # w => UNCHANGED TicketOf(x)
  BY <1>1, <1>2 DEF TicketOf, HandlerOf, Finds
<1>4. \A x \in Worker : x # w => UNCHANGED OutOfDate(x)
  BY <1>1, <1>2 DEF OutOfDate, Ids
<1>5. CASE Reject(w)
  <2>1. ticket[w] = "idle" /\ TicketOf(w)' = "rejected"
    BY <1>5 DEF Reject, ticket, TicketOf, WorkersInv, TypeOK
  <2>2. UNCHANGED missed
    BY <1>1, <1>4, <1>5 DEF Reject, missed, WorkersInv, TypeOK
  <2>3. Cardinality(Promise!Open(w)) >= MaxConn
    BY <1>5, OpenIsLive, RejectedIsFull
  <2>4. ticket' = [ticket EXCEPT ![w] = "rejected"]
    BY <1>3, <2>1, TicketMoves
  <2>5. Promise!Reject(w)
    BY <1>2, <2>1, <2>2, <2>3, <2>4, SameCardinality DEF Promise!Reject, Promise!Becomes
  <2> QED
    BY <2>5 DEF Promise!Next
<1>6. CASE Submit(w)
  <2>1. ticket[w] = "idle" /\ TicketOf(w)' = "connecting"
    BY <1>6 DEF Submit, ticket, TicketOf, WorkersInv, TypeOK
  <2>2. ~ OutOfDate(w)'
    <3> DEFINE c == clients[IpOf[w]]
    <3>1. post[w] = "idle" /\ workers'[w] = DictFor(w) /\ UNCHANGED <<clients, entry>>
      BY <1>6 DEF Submit, WorkersInv, TypeOK
    <3>2. CASE c = Null
      <4>1. Ids(w) = {}
        BY <3>1, NullAssumption DEF Ids, WorkersInv, Registered, Dict
      <4> QED
        BY <3>1, <3>2, <4>1 DEF OutOfDate, DictFor, Ids
    <3>3. CASE c # Null
      <4>1. Ids(c) # {}
        BY <3>3, IpAssumption DEF WorkersInv, NoEmptyDict
      <4> QED
        BY <3>1, <3>3, <4>1 DEF OutOfDate, DictFor, Ids
    <3> QED
      BY <3>2, <3>3
  <2>3. post[w] = "idle"
    BY <1>6 DEF Submit
  <2>4. UNCHANGED missed
    BY <1>1, <1>4, <2>2, <2>3 DEF missed
  <2> QED
    BY <1>2, <1>3, <2>1, <2>4, TicketMoves
       DEF Promise!Next, Promise!Submit, Promise!Becomes
<1>7. CASE ConnectFails(w)
  <2>1. ticket[w] = "connecting" /\ TicketOf(w)' = "failed"
    BY <1>7 DEF ConnectFails, ticket, TicketOf, WorkersInv, TypeOK
  <2>2. missed' = missed \ {w}
    BY <1>1, <1>4, <1>7 DEF ConnectFails, missed, WorkersInv, TypeOK
  <2> QED
    BY <1>2, <1>3, <2>1, <2>2, TicketMoves
       DEF Promise!Next, Promise!Fail, Promise!Becomes
<1> QED
  BY <1>5, <1>6, <1>7

\* A registration: the ticket is valid unless the dict has been replaced since
\* it was read, and replaces another dict only then.
LEMMA RegisterImplements ==
    ASSUME WorkersInv, NEW w \in Worker, Register(w)
    PROVE  Promise!Issue(w)
<1> DEFINE d0 == workers[w]
           c  == clients[IpOf[w]]
<1>0. /\ post[w] = "connecting" /\ post' = [post EXCEPT ![w] = "done"]
      /\ clients' = IF Ids(d0) = {} THEN [clients EXCEPT ![IpOf[w]] = d0] ELSE clients
      /\ entry' = [entry EXCEPT ![d0][w] = "worker"]
      /\ recycling' = recycling \cup {w}
      /\ UNCHANGED <<workers, closed, socket, ref>>
  BY DEF Register
<1>1. /\ d0 \in Dict /\ d0 # Null /\ IpOf[d0] = IpOf[w]
      /\ \A x \in Worker : IpOf[x] \in Ip
  <2>1. \A x \in Worker : IpOf[x] \in Ip
    BY IpAssumption
  <2>2. d0 \in Dict /\ d0 # Null
    BY <1>0 DEF WorkersInv, TypeOK
  <2> QED
    BY <2>1, <2>2 DEF WorkersInv, Registered
<1>2. /\ entry'[d0][w] = "worker"
      /\ \A d \in Dict, x \in Worker :
            ~ (d = d0 /\ x = w) => entry'[d][x] = entry[d][x]
  BY <1>0, <1>1 DEF WorkersInv, TypeOK
<1>3. /\ post'[w] = "done"
      /\ \A x \in Worker : x # w => post'[x] = post[x]
  BY <1>0 DEF WorkersInv, TypeOK
<1>4. /\ \A ip \in Ip : ip # IpOf[w] => clients'[ip] = clients[ip]
      /\ Ids(d0) = {} => c' = d0
      /\ Ids(d0) # {} => c' = c
  BY <1>0, <1>1 DEF WorkersInv, TypeOK
<1>5. clients \in [Ip -> Dict \cup {Null}] /\ clients' \in [Ip -> Dict \cup {Null}]
  BY <1>0, <1>1 DEF WorkersInv, TypeOK
<1> HIDE DEF d0, c
<1>6. HandlerOf(w)' = {}
  <2>1. \A s \in Socket : ref[s] # w
    BY <1>0, NullAssumption DEF WorkersInv, Taken
  <2> QED
    BY <1>0, <2>1 DEF HandlerOf
<1>7. TicketOf(w)' = IF c' = d0 THEN "valid" ELSE "void"
  <2>1. CASE c' = d0
    BY <1>1, <1>2, <1>3, <1>6, <2>1 DEF TicketOf, Finds, c
  <2>2. CASE c' # d0
    <3>1. ~ Finds(IpOf[w], w)'
      <4>1. SUFFICES ASSUME c' # Null, entry'[c'][w] = "worker" PROVE FALSE
        BY DEF Finds, c
      <4>2. c' \in Dict
        BY <1>1, <1>5, <4>1 DEF c
      <4>3. entry[c'][w] = "worker"
        BY <1>2, <2>2, <4>1, <4>2
      <4> QED
        BY <1>0, <4>2, <4>3 DEF WorkersInv, Registered
    <3> QED
      BY <1>3, <1>6, <2>2, <3>1 DEF TicketOf
  <2> QED
    BY <2>1, <2>2
<1>8. ASSUME NEW x \in Worker, x # w, IpOf[x] # IpOf[w] \/ c' = c
      PROVE  UNCHANGED TicketOf(x)
  <2>1. clients'[IpOf[x]] = clients[IpOf[x]]
    BY <1>1, <1>4, <1>8 DEF c
  <2>2. Finds(IpOf[x], x)' <=> Finds(IpOf[x], x)
    BY <1>1, <1>2, <1>5, <1>8, <2>1 DEF Finds
  <2> QED
    BY <1>0, <1>3, <1>8, <2>2 DEF TicketOf, HandlerOf
<1> DEFINE Outcome == \/ Promise!Becomes(w, "valid")
                      \/ w \in missed /\ (Promise!Becomes(w, "void") \/ Promise!LoseOthers(w))
<1>9. \A x \in Worker : post[x] # "valid"
  BY DEF WorkersInv, TypeOK
<1>10. ASSUME c' = c PROVE Outcome
  <2>1. ticket' = [ticket EXCEPT ![w] = TicketOf(w)']
    BY <1>8, <1>10, TicketMoves
  <2>2. c' # d0 => w \in missed
    BY <1>0, <1>4, <1>10 DEF missed, OutOfDate, d0, c
  <2> QED
    BY <1>7, <2>1, <2>2 DEF Promise!Becomes
<1>11. ASSUME c' # c PROVE Outcome
  <2>1. Ids(d0) = {} /\ c' = d0 /\ TicketOf(w)' = "valid"
    BY <1>4, <1>7, <1>11
  <2>2. ASSUME NEW x \in Promise!Rivals(w)
        PROVE  TicketOf(x)' = IF ticket[x] = "valid" THEN "void" ELSE ticket[x]
    <3>1. x \in Worker /\ x # w /\ IpOf[x] = IpOf[w]
      BY <2>2 DEF Promise!Rivals
    <3>2. ~ Finds(IpOf[x], x)'
      BY <1>1, <1>2, <2>1, <3>1 DEF Finds, Ids, c
    <3> QED
      BY <1>0, <1>3, <1>9, <3>1, <3>2 DEF ticket, TicketOf, HandlerOf
  <2>3. ASSUME NEW x \in Worker \ (Promise!Rivals(w) \cup {w})
        PROVE  UNCHANGED TicketOf(x)
    BY <1>8, <2>3 DEF Promise!Rivals
  <2>4. CASE c = Null
    <3>1. \A x \in Promise!Rivals(w) : ticket[x] # "valid"
      BY <1>9, <2>4 DEF Promise!Rivals, ticket, TicketOf, Finds, c
    <3>2. \A x \in Worker : x # w => UNCHANGED TicketOf(x)
      BY <2>2, <2>3, <3>1 DEF ticket, Promise!Rivals
    <3> QED
      BY <2>1, <3>2, TicketMoves DEF Promise!Becomes
  <2>5. CASE c # Null
    <3>1. w \in missed
      BY <1>0, <1>11, <2>1, <2>5 DEF missed, OutOfDate, d0, c
    <3>2. Promise!LoseOthers(w)
      BY <2>1, <2>2, <2>3 DEF Promise!LoseOthers, ticket, Promise!Rivals
    <3> QED
      BY <3>1, <3>2
  <2> QED
    BY <2>4, <2>5
<1>12. missed' \subseteq (missed \cup Promise!Connecting(w)) \ {w}
  <2> SUFFICES ASSUME NEW q \in missed'
               PROVE  q # w /\ q \in missed \cup Promise!Connecting(w)
    OBVIOUS
  <2>1. q \in Worker /\ q # w /\ post[q] = "connecting" /\ OutOfDate(q)'
    BY <1>3 DEF missed
  <2>2. CASE IpOf[q] = IpOf[w]
    BY <2>1, <2>2 DEF Promise!Connecting, Promise!Rivals, ticket, TicketOf
  <2>3. CASE IpOf[q] # IpOf[w]
    <3>1. workers[q] # Null /\ workers[q] \in Dict /\ workers[q] # d0
      BY <1>1, <2>1, <2>3 DEF WorkersInv, TypeOK, Registered
    <3>2. Ids(workers[q])' = Ids(workers[q])
      BY <1>0, <1>2, <3>1 DEF Ids
    <3>3. clients'[IpOf[q]] = clients[IpOf[q]]
      BY <1>1, <1>4, <2>1, <2>3
    <3> QED
      BY <1>0, <2>1, <3>2, <3>3 DEF missed, OutOfDate
  <2> QED
    BY <2>2, <2>3
<1>13. ticket[w] = "connecting"
  BY <1>0 DEF ticket, TicketOf
<1>14. Outcome
  BY <1>10, <1>11
<1> QED
  BY <1>0, <1>12, <1>13, <1>14 DEF Promise!Issue

\* The timer, the shell and the websockets.
LEMMA RecycleImplements ==
    ASSUME WorkersInv, NEW w \in Worker, Recycle(w)
    PROVE  Promise!Expire(w)
<1>1. /\ w \in recycling /\ recycling' = recycling \ {w}
      /\ UNCHANGED <<post, workers, socket, ref>>
  BY DEF Recycle
<1>2. post[w] = "done"
  BY <1>1 DEF WorkersInv, Done
<1>3. ticket[w] = "used" <=> HandlerOf(w) # {}
  BY <1>2 DEF ticket, TicketOf
<1>4. CASE HandlerOf(w) = {}
  <2>1. Promise!End(w)
    BY <1>1, <1>2, <1>4, CloseEnds DEF Recycle
  <2> QED
    BY <1>1, <1>3, <1>4, <2>1 DEF Promise!Expire
<1>5. CASE HandlerOf(w) # {}
  BY <1>1, <1>3, <1>5, SameSeen DEF Recycle, Promise!Expire
<1> QED
  BY <1>4, <1>5

LEMMA ChannelEndsImplements ==
    ASSUME WorkersInv, NEW w \in Worker, ChannelEnds(w)
    PROVE  Promise!ShellEnds(w)
<1>1. /\ w \notin closed /\ Close(w)
      /\ UNCHANGED <<post, workers, recycling, ref>>
  BY DEF ChannelEnds
<1>2. PICK s \in Socket : ref[s] = w
  BY DEF ChannelEnds, HandlerOf
<1>3. post[w] = "done"
  BY <1>2, NullAssumption DEF WorkersInv, Taken
<1>4. ticket[w] = "used"
  BY <1>2, <1>3 DEF ticket, TicketOf, HandlerOf
<1>5. Promise!End(w)
  BY <1>1, <1>3, CloseEnds
<1>6. socket' = [t \in Socket |->
                    IF ref[t] = w /\ socket[t] = "open" THEN "closing" ELSE socket[t]]
  BY DEF ChannelEnds, CloseSockets, HandlerOf
<1> QED
  BY <1>1, <1>4, <1>5, <1>6 DEF Promise!ShellEnds

LEMMA OpenImplements ==
    ASSUME WorkersInv, NewHasNone, NEW s \in Socket, AnyOpen(s)
    PROVE  Promise!TurnAway(s) \/ \E w \in Worker : Promise!Use(s, w)
<1>1. PICK w \in Worker, ip \in Ip :
            /\ post[w] = "done"
            /\ OpenSocket(s, ip, w) \/ RefuseSocket(s, ip, w)
  BY DEF AnyOpen
<1>2. CASE RefuseSocket(s, ip, w)
  BY <1>2, SameSeen DEF RefuseSocket, Promise!TurnAway
<1>3. CASE OpenSocket(s, ip, w)
  <2> DEFINE d0 == clients[ip]
  <2>1. /\ d0 # Null /\ entry[d0][w] = "worker"
        /\ entry' = [entry EXCEPT ![d0][w] = "None"]
        /\ ref' = [ref EXCEPT ![s] = w] /\ socket' = [socket EXCEPT ![s] = "open"]
        /\ socket[s] = "new"
        /\ UNCHANGED <<post, workers, clients, closed, recycling>>
    BY <1>3 DEF OpenSocket, Finds
  <2>2. d0 \in Dict /\ d0 = clients[ip]
    BY <2>1 DEF WorkersInv, TypeOK
  <2> HIDE DEF d0
  <2>3. IpOf[w] = ip
    BY <2>1, <2>2 DEF WorkersInv, Registered
  <2>4. /\ entry'[d0][w] = "None"
        /\ \A d \in Dict, x \in Worker :
                ~ (d = d0 /\ x = w) => entry'[d][x] = entry[d][x]
    BY <2>1, <2>2 DEF WorkersInv, TypeOK
  <2>5. ref[s] = Null /\ ref'[s] = w /\ \A t \in Socket : t # s => ref'[t] = ref[t]
    BY <2>1 DEF NewHasNone, WorkersInv, TypeOK
  <2>6. ticket[w] = "valid"
    <3>1. HandlerOf(w) = {}
      BY <2>1, <2>2, NullAssumption DEF HandlerOf, WorkersInv, Taken
    <3>2. Finds(IpOf[w], w)
      BY <2>1, <2>2, <2>3 DEF Finds
    <3> QED
      BY <1>1, <3>1, <3>2 DEF ticket, TicketOf
  <2>7. TicketOf(w)' = "used"
    BY <1>1, <2>1, <2>5 DEF TicketOf, HandlerOf
  <2>8. ASSUME NEW x \in Worker, x # w
        PROVE  UNCHANGED TicketOf(x)
    <3>1. HandlerOf(x)' = HandlerOf(x)
      BY <2>5, <2>8, NullAssumption DEF HandlerOf
    <3>2. Finds(IpOf[x], x)' <=> Finds(IpOf[x], x)
      BY <2>1, <2>4, <2>8, IpAssumption DEF Finds, WorkersInv, TypeOK
    <3> QED
      BY <2>1, <3>1, <3>2 DEF TicketOf
  <2>9. UNCHANGED missed
    <3>1. \A d \in Dict : Ids(d)' = Ids(d)
      BY <2>1, <2>4 DEF Ids
    <3>2. \A q \in Worker : post[q] = "connecting" => workers[q] \in Dict
      BY DEF WorkersInv, TypeOK
    <3> QED
      BY <2>1, <3>1, <3>2 DEF missed, OutOfDate
  <2>10. Promise!Use(s, w)
    BY <2>1, <2>6, <2>7, <2>8, <2>9, TicketMoves DEF Promise!Use, Promise!Becomes
  <2> QED
    BY <2>10
<1> QED
  BY <1>1, <1>2, <1>3

LEMMA OnCloseImplements ==
    ASSUME WorkersInv, NEW s \in Socket, OnClose(s)
    PROVE  Promise!Leave(s)
<1>1. /\ socket[s] \in {"open", "closing"}
      /\ socket' = [socket EXCEPT ![s] = "closed"]
      /\ UNCHANGED <<post, workers, recycling, ref>>
  BY DEF OnClose
<1>2. CASE ref[s] = Null
  <2>1. UNCHANGED <<closed, clients, entry>>
    BY <1>2 DEF OnClose
  <2> QED
    BY <1>1, <1>2, <2>1, SameSeen DEF Promise!Leave
<1>3. CASE ref[s] # Null
  <2>1. ref[s] \in Worker /\ post[ref[s]] = "done" /\ Close(ref[s])
    BY <1>3 DEF OnClose, WorkersInv, TypeOK, Taken
  <2>2. Promise!End(ref[s])
    BY <1>1, <2>1, CloseEnds
  <2> QED
    BY <1>1, <1>3, <2>2 DEF Promise!Leave
<1> QED
  BY <1>2, <1>3

\* What the web terminal keeps of its sessions (clients, the dicts, their
\* entries, the dict that a POST carries across the yield) implements tickets
\* that are issued, used once, expire, and are lost only to overlapping POSTs.
THEOREM SessionsImplemented == Spec => ImplementsSessions
<1>1. Init => Promise!Init /\ NewHasNone
  <2>1. Init => \A w \in Worker : TicketOf(w) = "idle"
    BY DEF Init, TicketOf
  <2> QED
    BY <2>1 DEF Init, Promise!Init, NewHasNone, ticket, missed
<1>2. WorkersInv /\ NewHasNone /\ [Next]_vars => [Promise!Next]_Promise!vars
  <2> SUFFICES ASSUME WorkersInv, NewHasNone, [Next]_vars
               PROVE  [Promise!Next]_Promise!vars
    OBVIOUS
  <2>1. ASSUME NEW w \in Worker, Reject(w) \/ Submit(w) \/ ConnectFails(w)
        PROVE  Promise!Next
    BY <2>1, PostImplements
  <2>2. ASSUME NEW w \in Worker, Register(w) PROVE Promise!Next
    BY <2>2, RegisterImplements DEF Promise!Next
  <2>3. ASSUME NEW w \in Worker, Recycle(w) PROVE Promise!Next
    BY <2>3, RecycleImplements DEF Promise!Next
  <2>4. ASSUME NEW w \in Worker, ChannelEnds(w) PROVE Promise!Next
    BY <2>4, ChannelEndsImplements DEF Promise!Next
  <2>5. ASSUME NEW s \in Socket, AnyOpen(s) PROVE Promise!Next
    BY <2>5, OpenImplements DEF Promise!Next
  <2>6. ASSUME NEW s \in Socket, OnClose(s) PROVE Promise!Next
    BY <2>6, OnCloseImplements DEF Promise!Next
  <2>7. CASE UNCHANGED vars
    BY <2>7, SameSeen DEF vars, Promise!vars
  <2> QED
    BY <2>1, <2>2, <2>3, <2>4, <2>5, <2>6, <2>7 DEF Next
<1>3. Spec => []NewHasNone
  BY <1>1, NewHasNoneStep, WorkersInvHolds, PTL DEF Spec
<1> QED
  BY <1>1, <1>2, <1>3, WorkersInvHolds, PTL DEF Spec, ImplementsSessions, Promise!Spec

=============================================================================
