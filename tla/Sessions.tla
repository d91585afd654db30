------------------------------- MODULE Sessions -------------------------------
(***************************************************************************)
(* What the web terminal promises a client of its SSH sessions: a POST     *)
(* that connects returns a ticket, which one websocket may use, and which  *)
(* expires if none comes; a client with MaxConn open sessions is refused;  *)
(* and a session ends with its websocket.                                  *)
(*                                                                         *)
(* A client whose POSTs do not overlap keeps its tickets.  A POST during   *)
(* which another one of the client was answered may lose its ticket or     *)
(* those of the client that are not used yet.                              *)
(***************************************************************************)
EXTENDS Integers, FiniteSets

CONSTANTS
    Worker,         \* POSTs, and the sessions they make
    Socket,         \* websockets
    IpOf,           \* the client of a POST
    Null,           \* no session
    MaxConn         \* how many open sessions a client may have

VARIABLES
    ticket,         \* how far a POST is, and what became of its ticket
    missed,         \* POSTs that connect and have missed another one's answer
    closed,         \* sessions that have ended
    recycling,      \* tickets that will expire
    socket, ref     \* the websockets, and the sessions they use

vars == <<ticket, missed, closed, recycling, socket, ref>>

Init ==
    /\ ticket = [w \in Worker |-> "idle"]
    /\ missed = {}
    /\ closed = {}
    /\ recycling = {}
    /\ socket = [s \in Socket |-> "new"]
    /\ ref = [s \in Socket |-> Null]

Becomes(w, t) == ticket' = [ticket EXCEPT ![w] = t]

Rivals(w)     == {x \in Worker \ {w} : IpOf[x] = IpOf[w]}
Connecting(w) == {x \in Rivals(w) : ticket[x] = "connecting"}
Open(w)       == {x \in Worker : /\ IpOf[x] = IpOf[w]
                                 /\ ticket[x] \in {"valid", "used", "void"}
                                 /\ x \notin closed}

Reject(w) ==
    /\ ticket[w] = "idle"
    /\ Cardinality(Open(w)) >= MaxConn
    /\ Becomes(w, "rejected")
    /\ UNCHANGED <<missed, closed, recycling, socket, ref>>

Submit(w) ==
    /\ ticket[w] = "idle"
    /\ Becomes(w, "connecting")
    /\ UNCHANGED <<missed, closed, recycling, socket, ref>>

Fail(w) ==
    /\ ticket[w] = "connecting"
    /\ Becomes(w, "failed")
    /\ missed' = missed \ {w}
    /\ UNCHANGED <<closed, recycling, socket, ref>>

LoseOthers(w) ==
    ticket' = [x \in Worker |->
                IF x = w THEN "valid"
                ELSE IF x \in Rivals(w) /\ ticket[x] = "valid" THEN "void"
                ELSE ticket[x]]

Issue(w) ==
    /\ ticket[w] = "connecting"
    /\ \/ Becomes(w, "valid")
       \/ w \in missed /\ (Becomes(w, "void") \/ LoseOthers(w))
    /\ missed' \subseteq (missed \cup Connecting(w)) \ {w}
    /\ recycling' = recycling \cup {w}
    /\ UNCHANGED <<closed, socket, ref>>

\* A session ends, and its ticket with it; whoever has missed another POST's
\* answer may have caught up.
End(w) ==
    /\ closed' = closed \cup {w}
    /\ ticket' = [ticket EXCEPT ![w] = IF @ = "valid" THEN "void" ELSE @]
    /\ missed' \subseteq missed

Expire(w) ==
    /\ w \in recycling
    /\ recycling' = recycling \ {w}
    /\ IF ticket[w] = "used" THEN UNCHANGED <<ticket, missed, closed>> ELSE End(w)
    /\ UNCHANGED <<socket, ref>>

ShellEnds(w) ==
    /\ ticket[w] = "used" /\ w \notin closed
    /\ End(w)
    /\ socket' = [s \in Socket |->
                    IF ref[s] = w /\ socket[s] = "open" THEN "closing" ELSE socket[s]]
    /\ UNCHANGED <<recycling, ref>>

Use(s, w) ==
    /\ socket[s] = "new"
    /\ ticket[w] = "valid"
    /\ Becomes(w, "used")
    /\ ref' = [ref EXCEPT ![s] = w]
    /\ socket' = [socket EXCEPT ![s] = "open"]
    /\ UNCHANGED <<missed, closed, recycling>>

\* No ticket, another client's, or none that is valid.
TurnAway(s) ==
    /\ socket[s] = "new"
    /\ socket' = [socket EXCEPT ![s] = "closing"]
    /\ UNCHANGED <<ticket, missed, closed, recycling, ref>>

Leave(s) ==
    /\ socket[s] \in {"open", "closing"}
    /\ socket' = [socket EXCEPT ![s] = "closed"]
    /\ IF ref[s] = Null THEN UNCHANGED <<ticket, missed, closed>> ELSE End(ref[s])
    /\ UNCHANGED <<recycling, ref>>

Next ==
    \/ \E w \in Worker :
        \/ Reject(w) \/ Submit(w) \/ Fail(w) \/ Issue(w)
        \/ Expire(w) \/ ShellEnds(w)
    \/ \E s \in Socket :
        \/ \E w \in Worker : Use(s, w)
        \/ TurnAway(s) \/ Leave(s)

Spec == Init /\ [][Next]_vars

===============================================================================
