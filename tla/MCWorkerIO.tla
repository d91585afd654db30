------------------------------ MODULE MCWorkerIO ------------------------------
(***************************************************************************)
(* WorkerIO with windows of a few characters.  The windows and the packet  *)
(* are smaller than a message and the message is smaller than what can be  *)
(* typed, so that sends are partial, time out and meet new messages.       *)
(***************************************************************************)
EXTENDS WorkerIO, TLC

=============================================================================
