--------------------------- MODULE MCProxyRegistry ---------------------------
(***************************************************************************)
(* ProxyRegistry on a small instance: three requests, two instances.       *)
(***************************************************************************)
EXTENDS ProxyRegistry, TLC

CONSTANTS r1, r2, r3, i1, i2, t1, p, regA, regB, svcA, svcB, revA

\* Two services of two regions with the same revision name: i1 and i2 share a
\* bucket and the project, but not the levels in between.
Paths == [i \in Instance |->
    IF i = i1 THEN <<p, regA, svcA, revA>> ELSE <<p, regB, svcB, revA>>]

Posts          == [r \in Request |-> "POST"]
PostsAndDelete == [r \in Request |-> IF r = r3 THEN "DELETE" ELSE "POST"]

\* All requests for one instance.
OneInstance  == [r \in Request |-> i1]

\* The second POST is for the other instance.
TwoInstances == [r \in Request |-> IF r = r2 THEN i2 ELSE i1]

OneTunnel    == [r \in Request |-> t1]

\* r1 and r2 carry the same and may be swapped.
Swap == Permutations({r1, r2})

=============================================================================
