---------------------------- MODULE WebsshWorkers ----------------------------
(***************************************************************************)
(* The registry of SSH sessions of the web terminal: `clients' of          *)
(* webssh/webssh/worker.py and the handlers that use it.  The IO loop runs *)
(* one callback at a time, so a callback is one step; IndexHandler.post    *)
(* gives the loop back while a thread of its pool connects, and goes on    *)
(* with the dict of workers it read before.                                *)
(*                                                                         *)
(* A POST that succeeds makes one worker, so a worker is named by its POST *)
(* and so is the dict {id: worker} that a POST may create for its client.  *)
(***************************************************************************)
EXTENDS Integers, FiniteSets

CONSTANTS
    Worker,     \* POSTs, each of which makes at most one worker
    Socket,     \* websockets
    Ip,         \* addresses of the clients
    IpOf,       \* the client of a POST
    Null,       \* no dict, no worker
    MaxConn     \* options.maxconn

ASSUME WorkerAssumption == IsFiniteSet(Worker)
ASSUME IpAssumption == IpOf \in [Worker -> Ip]
ASSUME NullAssumption == Null \notin Worker
ASSUME MaxConnAssumption == MaxConn \in Nat \ {0}

VARIABLES
    post,       \* where IndexHandler.post is
    workers,    \* its local `workers': the dict it will register in
    clients,    \* ip -> dict
    entry,      \* dict -> id -> absent, the worker, or None once it is taken
    closed,     \* Worker.closed
    broken,     \* workers whose clear_worker raised (assert or TypeError)
    recycling,  \* the call_later(delay, recycle_worker) that are still to come
    socket,     \* state of the websockets
    ref         \* the worker_ref of a websocket

vars == <<post, workers, clients, entry, closed, broken, recycling, socket, ref>>

Dict == Worker

\* Every variable has its type, and a POST that went on has a dict to register in.
TypeOK ==
    /\ post \in [Worker -> {"idle", "connecting", "done", "failed", "rejected"}]
    /\ workers \in [Worker -> Dict \cup {Null}]
    /\ \A w \in Worker : post[w] \in {"connecting", "done"} => workers[w] # Null
    /\ clients \in [Ip -> Dict \cup {Null}]
    /\ entry \in [Dict -> [Worker -> {"absent", "worker", "None"}]]
    /\ closed \subseteq Worker
    /\ broken \subseteq Worker
    /\ recycling \subseteq Worker
    /\ socket \in [Socket -> {"new", "open", "closing", "closed"}]
    /\ ref \in [Socket -> Worker \cup {Null}]

Init ==
    /\ post = [w \in Worker |-> "idle"]
    /\ workers = [w \in Worker |-> Null]
    /\ clients = [ip \in Ip |-> Null]
    /\ entry = [d \in Dict |-> [w \in Worker |-> "absent"]]
    /\ closed = {}
    /\ broken = {}
    /\ recycling = {}
    /\ socket = [s \in Socket |-> "new"]
    /\ ref = [s \in Socket |-> Null]

-----------------------------------------------------------------------------

Ids(d) == {w \in Worker : entry[d][w] # "absent"}

\* Mutant: clients.get(ip), without the default.
DictForNone(w) == clients[IpOf[w]]

\* The dict that clients.get(ip, {}) returns to the POST w.
DictFor(w) == IF clients[IpOf[w]] = Null THEN w ELSE clients[IpOf[w]]

Full(w) ==
    LET d == clients[IpOf[w]] IN d # Null /\ Cardinality(Ids(d)) >= MaxConn

Reject(w) ==
    /\ post[w] = "idle"
    /\ Full(w)
    /\ post' = [post EXCEPT ![w] = "rejected"]
    /\ UNCHANGED <<workers, clients, entry, closed, broken, recycling, socket, ref>>

\* The checks pass and the connection is handed to a thread.
Submit(w) ==
    /\ post[w] = "idle"
    /\ ~ Full(w)
    /\ post' = [post EXCEPT ![w] = "connecting"]
    /\ workers' = [workers EXCEPT ![w] = DictFor(w)]
    /\ UNCHANGED <<clients, entry, closed, broken, recycling, socket, ref>>

\* ssh_connect raised: host unreachable, wrong credentials, bad host key.
ConnectFails(w) ==
    /\ post[w] = "connecting"
    /\ post' = [post EXCEPT ![w] = "failed"]
    /\ UNCHANGED <<workers, clients, entry, closed, broken, recycling, socket, ref>>

\* ssh_connect returned a worker: it is registered, and will be recycled unless
\* a websocket comes for it.
Register(w) ==
    /\ post[w] = "connecting"
    /\ post' = [post EXCEPT ![w] = "done"]
    /\ clients' = IF Ids(workers[w]) = {}
                  THEN [clients EXCEPT ![IpOf[w]] = workers[w]]
                  ELSE clients
    /\ entry' = [entry EXCEPT ![workers[w]][w] = "worker"]
    /\ recycling' = recycling \cup {w}
    /\ UNCHANGED <<workers, closed, broken, socket, ref>>

-----------------------------------------------------------------------------
(* Worker.close and clear_worker                                             *)

HandlerOf(w) == {s \in Socket : ref[s] = w}

\* Mutant: an entry that a websocket took stays.
ClearUntaken(w) ==
    LET d == clients[IpOf[w]] IN
    IF d # Null /\ entry[d][w] = "worker"
    THEN /\ entry' = [entry EXCEPT ![d][w] = "absent"]
         /\ clients' = IF Ids(d) = {w} THEN [clients EXCEPT ![IpOf[w]] = Null]
                                       ELSE clients
         /\ UNCHANGED broken
    ELSE /\ broken' = broken \cup {w}
         /\ UNCHANGED <<entry, clients>>

\* Mutant: the dict stays when its last worker goes.
ClearKeepsDict(w) ==
    LET d == clients[IpOf[w]] IN
    /\ entry' = IF d # Null THEN [entry EXCEPT ![d][w] = "absent"] ELSE entry
    /\ UNCHANGED <<clients, broken>>

\* clear_worker takes the worker out of whatever dict its client has now.
ClearWorker(w) ==
    LET d == clients[IpOf[w]] IN
    IF d # Null /\ entry[d][w] # "absent"
    THEN /\ entry' = [entry EXCEPT ![d][w] = "absent"]
         /\ clients' = IF Ids(d) = {w} THEN [clients EXCEPT ![IpOf[w]] = Null]
                                       ELSE clients
         /\ UNCHANGED broken
    ELSE /\ broken' = broken \cup {w}
         /\ UNCHANGED <<entry, clients>>

\* Close everything that belongs to w, the websocket first.
Close(w) ==
    IF w \in closed
    THEN UNCHANGED <<closed, clients, entry, broken>>
    ELSE /\ closed' = closed \cup {w}
         /\ ClearWorker(w)

CloseSockets(S) ==
    socket' = [s \in Socket |->
                IF s \in S /\ socket[s] = "open" THEN "closing" ELSE socket[s]]

\* recycle_worker: the delay has passed.
Recycle(w) ==
    /\ w \in recycling
    /\ recycling' = recycling \ {w}
    /\ IF HandlerOf(w) = {}
       THEN Close(w)
       ELSE UNCHANGED <<closed, clients, entry, broken>>
    /\ UNCHANGED <<post, workers, socket, ref>>

\* The shell ends, the connection breaks or the websocket is found closed:
\* noticed only once a websocket has added the worker to the IO loop.
ChannelEnds(w) ==
    /\ HandlerOf(w) # {}
    /\ w \notin closed
    /\ Close(w)
    /\ CloseSockets(HandlerOf(w))
    /\ UNCHANGED <<post, workers, recycling, ref>>

-----------------------------------------------------------------------------
(* WsockHandler                                                              *)

\* Mutant: the worker is looked for among those of all clients.
FindsAnywhere(ip, w) == \E d \in Dict : entry[d][w] = "worker"

Finds(ip, w) == clients[ip] # Null /\ entry[clients[ip]][w] = "worker"

\* Mutant: the worker can be found again.
OpenAgain(s, ip, w) ==
    /\ socket[s] = "new"
    /\ Finds(ip, w)
    /\ ref' = [ref EXCEPT ![s] = w]
    /\ socket' = [socket EXCEPT ![s] = "open"]
    /\ UNCHANGED <<post, workers, clients, entry, closed, broken, recycling>>

\* open: the worker is handed out once, its entry is None from then on.
OpenSocket(s, ip, w) ==
    /\ socket[s] = "new"
    /\ Finds(ip, w)
    /\ entry' = [entry EXCEPT ![clients[ip]][w] = "None"]
    /\ ref' = [ref EXCEPT ![s] = w]
    /\ socket' = [socket EXCEPT ![s] = "open"]
    /\ UNCHANGED <<post, workers, clients, closed, broken, recycling>>

\* open: no such worker for this client.
RefuseSocket(s, ip, w) ==
    /\ socket[s] = "new"
    /\ ~ Finds(ip, w)
    /\ socket' = [socket EXCEPT ![s] = "closing"]
    /\ UNCHANGED <<post, workers, clients, entry, closed, broken, recycling, ref>>

\* Mutant: the worker is not told.
OnCloseOnly(s) ==
    /\ socket[s] \in {"open", "closing"}
    /\ socket' = [socket EXCEPT ![s] = "closed"]
    /\ UNCHANGED <<post, workers, clients, entry, closed, broken, recycling, ref>>

\* on_close: the browser went away, or answered our close.
OnClose(s) ==
    /\ socket[s] \in {"open", "closing"}
    /\ socket' = [socket EXCEPT ![s] = "closed"]
    /\ IF ref[s] = Null
       THEN UNCHANGED <<closed, clients, entry, broken>>
       ELSE Close(ref[s])
    /\ UNCHANGED <<post, workers, recycling, ref>>

-----------------------------------------------------------------------------

\* A client asks for a worker whose id it was told.
AnyOpen(s) ==
    \E w \in Worker : \E ip \in Ip :
        /\ post[w] = "done"
        /\ OpenSocket(s, ip, w) \/ RefuseSocket(s, ip, w)

Next ==
    \/ \E w \in Worker :
        \/ Reject(w) \/ Submit(w) \/ ConnectFails(w) \/ Register(w)
        \/ Recycle(w) \/ ChannelEnds(w)
    \/ \E s \in Socket : AnyOpen(s) \/ OnClose(s)

Spec == Init /\ [][Next]_vars

\* The executor's threads end (connect has a timeout), the timer of call_later
\* fires, and a connection that is being closed is closed.
Fairness ==
    /\ \A w \in Worker : /\ WF_vars(ConnectFails(w) \/ Register(w))
                         /\ WF_vars(Recycle(w))
    /\ \A s \in Socket : WF_vars(socket[s] = "closing" /\ OnClose(s))

FairSpec == Spec /\ Fairness

-----------------------------------------------------------------------------
(* Properties *)

Live(ip) == {w \in Worker : post[w] = "done" /\ w \notin closed /\ IpOf[w] = ip}

\* The id of a worker is a ticket for one websocket: no two of them ever send
\* to the same shell, however their opens, recycling and other POSTs of the
\* client interleave.
OneSocketPerWorker ==
    \A s, t \in Socket : ref[s] # Null /\ ref[s] = ref[t] => s = t

\* A websocket is never given a worker whose SSH connection is already closed:
\* what is closed is out of every dict that clients still leads to, also when
\* clear_worker raised.
FoundWorkersAreOpen ==
    \A ip \in Ip, w \in Worker : Finds(ip, w) => w \notin closed /\ IpOf[w] = ip

\* clients keeps no empty dict for a client that left.
NoEmptyDict == \A ip \in Ip : clients[ip] # Null => Ids(clients[ip]) # {}

\* A client is refused with "Too many live connections" only if it does have
\* that many: closed sessions never count against it.
RefusedOnlyIfFull ==
    [][\A w \in Worker : Reject(w) => Cardinality(Live(IpOf[w])) >= MaxConn]_vars

-----------------------------------------------------------------------------
(* What is seen of it from outside                                           *)

TicketOf(w) ==
    IF post[w] # "done" THEN post[w]
    ELSE IF HandlerOf(w) # {} THEN "used"
    ELSE IF Finds(IpOf[w], w) THEN "valid" ELSE "void"

ticket == [w \in Worker |-> TicketOf(w)]

\* A registration now would replace the dict of the client, or go into another.
OutOfDate(w) ==
    LET d == clients[IpOf[w]] IN
    IF Ids(workers[w]) = {} THEN d \notin {Null, workers[w]} ELSE d # workers[w]

missed == {w \in Worker : post[w] = "connecting" /\ OutOfDate(w)}

\* closed, recycling, socket and ref are those of this module.
Promise == INSTANCE Sessions

\* The dicts, the entries and the check before the yield are tickets: each is
\* used by one websocket at most and while its connection is open, a client is
\* refused for open sessions only, and a ticket that has not expired is lost only
\* to a POST during which another one of the same client was answered.
ImplementsSessions == Promise!Spec

-----------------------------------------------------------------------------

\* No SSH connection is left over: a worker that no websocket came for is
\* closed, and so is one whose websocket is gone.
AbandonedWorkersClose ==
    \A w \in Worker :
        post[w] = "done" /\ (\A s \in HandlerOf(w) : socket[s] = "closed")
            ~> w \in closed \/ (\E s \in HandlerOf(w) : socket[s] = "open")

\* settings.py:60, the help of maxconn: "Maximum live connections (ssh
\* sessions) per client".
MaxConnKept == \A ip \in Ip : Cardinality(Live(ip)) <= MaxConn

\* worker.py:21: assert worker.id in workers.
ClearWorkerFinds == broken = {}

=============================================================================
