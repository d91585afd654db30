------------------------------- MODULE Registry -------------------------------
(***************************************************************************)
(* What the SSH Proxy Server promises of the registrations that are found  *)
(* by their path: one entry per instance, which a POST writes and a DELETE *)
(* and the reaper take away.                                               *)
(*                                                                         *)
(* A POST writes once, between its arrival and its answer.  A DELETE and   *)
(* the reaper look first and remove later, whatever is there by then.      *)
(*                                                                         *)
(* One thing more may happen to a registration.  When the first POST of a  *)
(* revision stores, others that have not stored may be its rivals: they    *)
(* have not seen it.  Each of them, when it stores, drops the other        *)
(* registrations of the revision, and who was busy with these goes astray: *)
(* what he does from then on, nobody sees.  A POST that arrives later is   *)
(* never a rival.                                                          *)
(***************************************************************************)
EXTENDS Integers

CONSTANTS
    Request, Instance, MethodOf, InstanceOf, TunnelOf,
    RevisionOf,     \* the revision of an instance
    Null,           \* no registration
    Timeout         \* the age at which the reaper may take a registration

VARIABLES
    now,
    lastPing,       \* when a POST arrived
    status,         \* how far a request is
    registered,     \* instance -> the POST that registered it
    doomed,         \* the registration that the reaper found too old
    rivals,         \* POSTs that will drop the registrations they have not seen
    astray,         \* requests that are busy with dropped registrations
    reaperAstray    \* so is the reaper

vars == <<now, lastPing, status, registered, doomed, rivals, astray, reaperAstray>>

Init ==
    /\ now = 0
    /\ lastPing = [r \in Request |-> 0]
    /\ status = [r \in Request |-> "idle"]
    /\ registered = [i \in Instance |-> Null]
    /\ doomed = Null
    /\ rivals = {}
    /\ astray = {}
    /\ reaperAstray = FALSE

Becomes(r, s)     == status' = [status EXCEPT ![r] = s]
Register(i, post) == registered' = [registered EXCEPT ![i] = post]

OfRevision(n) == {r \in Request : RevisionOf[InstanceOf[r]] = n}
Peers(r)      == OfRevision(RevisionOf[InstanceOf[r]]) \ {r}
Waiting(r)    == MethodOf[r] = "POST" /\ status[r] = "pending"
Busy(r)       == status[r] \in {"pending", "matched"}

\* Some POST of the revision has stored.
Opened(n) == \E q \in OfRevision(n) :
    MethodOf[q] = "POST" /\ status[q] \in {"stored", "accepted"}

Arrive(r) ==
    /\ status[r] = "idle"
    /\ Becomes(r, "pending")
    /\ lastPing' = IF MethodOf[r] = "POST" THEN [lastPing EXCEPT ![r] = now] ELSE lastPing
    /\ UNCHANGED <<now, registered, doomed, rivals, astray, reaperAstray>>

Stores(r) == Becomes(r, "stored") \/ Becomes(r, "accepted")

\* Only the first POST of a revision to store finds rivals.
Store(r) ==
    /\ Waiting(r)
    /\ r \notin rivals \cup astray
    /\ Register(InstanceOf[r], r)
    /\ Stores(r)
    /\ IF Opened(RevisionOf[InstanceOf[r]])
       THEN UNCHANGED rivals
       ELSE \E late \in SUBSET {q \in Peers(r) : Waiting(q)} : rivals' = rivals \cup late
    /\ UNCHANGED <<now, lastPing, doomed, astray, reaperAstray>>

StoreAsRival(r) ==
    /\ Waiting(r)
    /\ r \in rivals
    /\ registered' = [i \in Instance |->
            IF i = InstanceOf[r] THEN r
            ELSE IF RevisionOf[i] = RevisionOf[InstanceOf[r]] THEN Null
            ELSE registered[i]]
    /\ Stores(r)
    /\ rivals' = rivals \ {r}
    /\ \E lost \in SUBSET {q \in Peers(r) : Busy(q)} : astray' = astray \cup lost
    /\ \/ UNCHANGED reaperAstray
       \/ /\ doomed # Null
          /\ RevisionOf[InstanceOf[doomed]] = RevisionOf[InstanceOf[r]]
          /\ reaperAstray' = TRUE
    /\ UNCHANGED <<now, lastPing, doomed>>

Accept(r) ==
    /\ status[r] = "stored"
    /\ Becomes(r, "accepted")
    /\ UNCHANGED <<now, lastPing, registered, doomed, rivals, astray, reaperAstray>>

OfTunnel(i, tunnel) == registered[i] # Null /\ TunnelOf[registered[i]] = tunnel

Match(r) ==
    /\ MethodOf[r] = "DELETE" /\ status[r] = "pending" /\ r \notin astray
    /\ OfTunnel(InstanceOf[r], TunnelOf[r])
    /\ Becomes(r, "matched")
    /\ UNCHANGED <<now, lastPing, registered, doomed, rivals, astray, reaperAstray>>

Remove(r) ==
    /\ status[r] = "matched" /\ r \notin astray
    /\ registered[InstanceOf[r]] # Null
    /\ Register(InstanceOf[r], Null)
    /\ Becomes(r, "removed")
    /\ UNCHANGED <<now, lastPing, doomed, rivals, astray, reaperAstray>>

\* A path may be incomplete until a POST of it is answered.
MayBeUnknown(i) == \A q \in Request : InstanceOf[q] = i => status[q] # "accepted"

NotFound(r) ==
    /\ MethodOf[r] = "DELETE" /\ r \notin astray
    /\ \/ status[r] = "pending" /\ MayBeUnknown(InstanceOf[r])
       \/ status[r] = "pending" /\ ~ OfTunnel(InstanceOf[r], TunnelOf[r])
       \/ status[r] = "matched" /\ registered[InstanceOf[r]] = Null
    /\ Becomes(r, "notFound")
    /\ UNCHANGED <<now, lastPing, registered, doomed, rivals, astray, reaperAstray>>

\* Whatever a request answers that went astray, the registrations stay.
Stray(r) ==
    /\ r \in astray
    /\ \/ /\ Waiting(r)
          /\ Stores(r)
          /\ astray' = astray \ {r}
       \/ /\ MethodOf[r] = "DELETE" /\ status[r] = "pending"
          /\ Becomes(r, "matched")
          /\ UNCHANGED astray
       \/ /\ MethodOf[r] = "DELETE" /\ Busy(r)
          /\ Becomes(r, "notFound") \/ (status[r] = "matched" /\ Becomes(r, "removed"))
          /\ astray' = astray \ {r}
    /\ UNCHANGED <<now, lastPing, registered, doomed, rivals, reaperAstray>>

Doom(r) ==
    /\ doomed = Null
    /\ MethodOf[r] = "POST" /\ status[r] # "idle"
    /\ now - lastPing[r] >= Timeout
    /\ doomed' = r
    /\ UNCHANGED <<now, lastPing, status, registered, rivals, astray, reaperAstray>>

Reap ==
    /\ doomed # Null
    /\ IF reaperAstray THEN UNCHANGED registered ELSE Register(InstanceOf[doomed], Null)
    /\ doomed' = Null
    /\ reaperAstray' = FALSE
    /\ UNCHANGED <<now, lastPing, status, rivals, astray>>

Tick ==
    /\ now' = now + 1
    /\ UNCHANGED <<lastPing, status, registered, doomed, rivals, astray, reaperAstray>>

Next ==
    \/ \E r \in Request :
        \/ Arrive(r)
        \/ Store(r) \/ StoreAsRival(r) \/ Accept(r)
        \/ Match(r) \/ Remove(r) \/ NotFound(r) \/ Stray(r)
        \/ Doom(r)
    \/ Reap
    \/ Tick

Spec == Init /\ [][Next]_vars

===============================================================================
