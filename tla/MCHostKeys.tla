------------------------------ MODULE MCHostKeys ------------------------------
(***************************************************************************)
(* HostKeys with two connections to one host and one to another, two keys  *)
(* of one type and a third of another type.                                *)
(***************************************************************************)
EXTENDS HostKeys, TLC

CONSTANTS c1, c2, c3, h1, h2, k1, k2, k3

Hosts == [c \in Connection |-> IF c = c3 THEN h2 ELSE h1]
Types == [k \in Key |-> IF k = k3 THEN "ssh-ed25519" ELSE "ssh-rsa"]

===============================================================================
