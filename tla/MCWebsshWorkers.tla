--------------------------- MODULE MCWebsshWorkers ---------------------------
(***************************************************************************)
(* WebsshWorkers with up to four POSTs and two websockets, from one client *)
(* or from two.                                                            *)
(***************************************************************************)
EXTENDS WebsshWorkers, TLC

CONSTANTS w1, w2, w3, w4, s1, s2, ip1, ip2

OneClient  == [w \in Worker |-> ip1]
TwoClients == [w \in Worker |-> IF w = w4 THEN ip2 ELSE ip1]

\* POSTs of one client may be swapped, and so may websockets.
AllAlike == Permutations({w1, w2, w3}) \cup Permutations({s1, s2})

=============================================================================
