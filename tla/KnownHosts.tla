------------------------------ MODULE KnownHosts ------------------------------
(***************************************************************************)
(* Trust on first use, which --policy=autoadd promises: the first key of a *)
(* type that a host offers is trusted from then on, a connection is        *)
(* accepted if what it was offered is trusted, and refused only if the     *)
(* host is trusted with another key.                                       *)
(*                                                                         *)
(* A restart keeps what is saved by then.  A key is saved before its       *)
(* connection is accepted; one whose write fails stays trusted unsaved,    *)
(* and may take with it the next one that is written.  Nothing is safe     *)
(* while the process is still starting.                                    *)
(***************************************************************************)
CONSTANTS
    Connection, Key, HostOf, TypeOf,
    None            \* no key yet

VARIABLES
    trusted,        \* pairs of a host and a key
    offered,        \* the key that a connection was offered
    outcome,        \* how far a connection is
    ready,          \* the process has started
    unsaved,        \* trusted until the process ends
    torn            \* the next key that is written will not be saved

vars == <<trusted, offered, outcome, ready, unsaved, torn>>

Init ==
    /\ trusted = {}
    /\ offered = [c \in Connection |-> None]
    /\ outcome = [c \in Connection |-> "none"]
    /\ ready = FALSE
    /\ unsaved = {}
    /\ torn = FALSE

Becomes(c, o) == outcome' = [outcome EXCEPT ![c] = o]
Entry(c)      == <<HostOf[c], offered[c]>>

Start ==
    /\ ~ ready
    /\ ready' = TRUE
    /\ UNCHANGED <<trusted, offered, outcome, unsaved, torn>>

Offer(c) ==
    /\ ready
    /\ outcome[c] = "none"
    /\ \E k \in Key : offered' = [offered EXCEPT ![c] = k]
    /\ Becomes(c, "offered")
    /\ UNCHANGED <<trusted, ready, unsaved, torn>>

Trust(c) ==
    /\ outcome[c] = "offered"
    /\ \A k \in Key : <<HostOf[c], k>> \in trusted => TypeOf[k] # TypeOf[offered[c]]
    /\ trusted' = trusted \cup {Entry(c)}
    /\ unsaved' = unsaved \cup {Entry(c)}
    /\ Becomes(c, "writing")
    /\ UNCHANGED <<offered, ready, torn>>

Save(c) ==
    /\ outcome[c] = "writing"
    /\ unsaved' = IF torn THEN unsaved ELSE unsaved \ {Entry(c)}
    /\ torn' = FALSE
    /\ Becomes(c, "accepted")
    /\ UNCHANGED <<trusted, offered, ready>>

Fail(c) ==
    /\ outcome[c] = "writing"
    /\ torn' \in {torn, TRUE}
    /\ Becomes(c, "failed")
    /\ UNCHANGED <<trusted, offered, ready, unsaved>>

Accept(c) ==
    /\ outcome[c] = "offered"
    /\ Entry(c) \in trusted
    /\ Becomes(c, "accepted")
    /\ UNCHANGED <<trusted, offered, ready, unsaved, torn>>

Refuse(c) ==
    /\ outcome[c] = "offered"
    /\ \E k \in Key \ {offered[c]} : <<HostOf[c], k>> \in trusted
    /\ Becomes(c, "refused")
    /\ UNCHANGED <<trusted, offered, ready, unsaved, torn>>

Restart ==
    /\ trusted' \subseteq trusted
    /\ ready => trusted \ trusted' \subseteq unsaved
    /\ outcome' = [c \in Connection |-> IF outcome[c] = "none" THEN "none" ELSE "dead"]
    /\ ready' = FALSE
    /\ unsaved' = {}
    /\ torn' = FALSE
    /\ UNCHANGED offered

Next ==
    \/ \E c \in Connection :
        Offer(c) \/ Trust(c) \/ Save(c) \/ Fail(c) \/ Accept(c) \/ Refuse(c)
    \/ Start
    \/ Restart

Spec == Init /\ [][Next]_vars

===============================================================================
