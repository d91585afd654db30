------------------------------ MODULE ByteStream ------------------------------
(***************************************************************************)
(* What a terminal promises about the characters that go through it.  The  *)
(* host takes them in the order in which they were sent, its program       *)
(* prints each that it was given, and what comes out is what went in: in   *)
(* the same order, nothing twice and nothing left out.  The k-th character *)
(* that is sent is the number k.                                           *)
(*                                                                         *)
(* The terminal is closed when its user leaves, and when the program has   *)
(* ended, and at no other time.  What the program printed before its end   *)
(* is received first, unless some input was still to be sent: then the     *)
(* rest of the output may be lost.                                         *)
(***************************************************************************)
EXTENDS Integers, Sequences

VARIABLES
    sent,       \* how many characters were sent
    taken,      \* how many of them the host has taken
    printed,    \* how many of these the program has printed
    received,   \* the characters that came out
    ended,      \* the program has ended
    left,       \* the user has left
    closed

vars == <<sent, taken, printed, received, ended, left, closed>>

\* The first n characters.
Line(n) == [k \in 1..n |-> k]

Init ==
    /\ sent = 0
    /\ taken = 0
    /\ printed = 0
    /\ received = <<>>
    /\ ended = FALSE
    /\ left = FALSE
    /\ closed = FALSE

Send ==
    /\ ~ ended /\ ~ closed
    /\ sent' \in Nat /\ sent <= sent'
    /\ taken <= taken' /\ taken' <= sent'
    /\ UNCHANGED <<printed, received, ended, left, closed>>

Output ==
    /\ ~ ended /\ ~ closed
    /\ printed < taken
    /\ printed' = printed + 1
    /\ UNCHANGED <<sent, taken, received, ended, left, closed>>

Receive ==
    /\ ~ closed
    /\ received' = Line(Len(received'))
    /\ Len(received) <= Len(received') /\ Len(received') <= printed
    /\ UNCHANGED <<sent, taken, printed, ended, left, closed>>

End ==
    /\ ~ closed
    /\ ended' = TRUE
    /\ UNCHANGED <<sent, taken, printed, received, left, closed>>

Leave ==
    /\ ~ closed
    /\ left' = TRUE
    /\ closed' = TRUE
    /\ UNCHANGED <<sent, taken, printed, received, ended>>

\* The end of the program closes the terminal; a message may come too late.
Close ==
    /\ ended /\ ~ closed
    /\ sent' \in Nat /\ sent <= sent'
    /\ taken < sent' \/ Len(received) = printed
    /\ closed' = TRUE
    /\ UNCHANGED <<taken, printed, received, ended, left>>

Next == Send \/ Output \/ Receive \/ End \/ Leave \/ Close

Spec == Init /\ [][Next]_vars

===============================================================================
