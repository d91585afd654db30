------------------------------- MODULE WorkerIO -------------------------------
(***************************************************************************)
(* The data path of one session of the web terminal (webssh/worker.py and  *)
(* WsockHandler.on_message): the browser's characters wait in data_to_dst, *)
(* go through the window of the SSH channel to the program, and what the   *)
(* program prints goes through the window of the other direction to the    *)
(* browser.  The program prints what it reads, and does not read while its *)
(* output has no room, so one character can be followed all the way round. *)
(*                                                                         *)
(* The file descriptor of a paramiko channel is the read end of a pipe: it *)
(* never gets ready for writing.  WRITE mode therefore means that nothing  *)
(* is read, and that only the timers of update_handler try to send.        *)
(***************************************************************************)
EXTENDS Integers, Sequences

CONSTANTS
    MaxTyped,   \* bound on the characters of a behaviour
    MaxMessage, \* bound on the characters of one websocket message
    Window,     \* characters the server takes before the program reads
    PacketSize, \* characters that one send takes at most
    OutWindow,  \* characters the channel takes before on_read reads
    BufSize     \* BUF_SIZE: characters that one recv returns at most

ASSUME SizeAssumption ==
    /\ MaxTyped \in Nat
    /\ MaxMessage \in Nat \ {0}
    /\ Window \in Nat \ {0}
    /\ PacketSize \in Nat \ {0}
    /\ OutWindow \in Nat \ {0}
    /\ BufSize \in Nat \ {0}

VARIABLES
    typed,          \* how many characters the browser has sent
    data_to_dst,    \* Worker.data_to_dst, its pieces joined
    mode,           \* Worker.mode
    retries,        \* the call_later(0.1, self, ..) that are still to come
    stdin,          \* sent, but not read by the program
    stdout,         \* printed, but not read by the worker
    shown,          \* written to the websocket
    exited,         \* the program ended and the server closed the channel
    left,           \* the websocket is gone: the reason of a close
    closed          \* Worker.closed

vars == <<typed, data_to_dst, mode, retries, stdin, stdout, shown, exited, left,
          closed>>

\* left and closed are those of this module.
Stream == INSTANCE ByteStream
    WITH sent <- typed,
         taken <- typed - Len(data_to_dst),
         printed <- Len(shown) + Len(stdout),
         received <- shown,
         ended <- exited

\* Every variable has its type.
TypeOK ==
    /\ typed \in Nat
    /\ data_to_dst \in Seq(Nat)
    /\ mode \in {"READ", "WRITE"}
    /\ retries \in Nat
    /\ stdin \in Seq(Nat) /\ Len(stdin) <= Window
    /\ stdout \in Seq(Nat) /\ Len(stdout) <= OutWindow
    /\ shown \in Seq(Nat)
    /\ exited \in BOOLEAN
    /\ left \in BOOLEAN
    /\ closed \in BOOLEAN

Init ==
    /\ typed = 0
    /\ data_to_dst = <<>>
    /\ mode = "READ"
    /\ retries = 0
    /\ stdin = <<>>
    /\ stdout = <<>>
    /\ shown = <<>>
    /\ exited = FALSE
    /\ left = FALSE
    /\ closed = FALSE

-----------------------------------------------------------------------------
(* on_write: send what is waiting, of which `timers' retries remain           *)

Take(s, n) == SubSeq(s, 1, n)
Drop(s, n) == SubSeq(s, n + 1, Len(s))
Least(a, b) == IF a <= b THEN a ELSE b

Room == Window - Len(stdin)

\* Mutant: the window is not looked at.
SentPastWindow(n) == Least(n, PacketSize)

Sent(n) == Least(n, Least(Room, PacketSize))

\* Mutant: no timer.
UpdateHandlerOnly(m, timers) ==
    /\ mode' = m
    /\ retries' = timers

\* Mutant: a timer in either mode.
UpdateHandlerTwice(m, timers) ==
    /\ mode' = m
    /\ retries' = IF m = "WRITE" THEN timers + 2 ELSE timers

\* Mutant: the mode is left alone.
UpdateHandlerModeless(m, timers) ==
    /\ mode' = IF mode = "WRITE" THEN "WRITE" ELSE m
    /\ retries' = IF m = "WRITE" THEN timers + 1 ELSE timers

UpdateHandler(m, timers) ==
    /\ mode' = m
    /\ retries' = IF m = "WRITE" THEN timers + 1 ELSE timers

\* Mutant: the worker stays open.
SendRaisesOnly(data, timers) ==
    /\ exited \/ closed
    /\ data_to_dst' = data
    /\ retries' = timers
    /\ UNCHANGED <<mode, stdin, closed>>

\* send raises, the channel is closed: close the worker.
SendRaises(data, timers) ==
    /\ exited \/ closed
    /\ closed' = TRUE
    /\ data_to_dst' = data
    /\ retries' = timers
    /\ UNCHANGED <<mode, stdin>>

\* Mutant: an error is an error, and closes the worker.
SendTimesOutFatal(data, timers) ==
    /\ ~ exited /\ ~ closed
    /\ Room = 0
    /\ closed' = TRUE
    /\ data_to_dst' = data
    /\ retries' = timers
    /\ UNCHANGED <<mode, stdin>>

\* send times out at once because the window is used up.
SendTimesOut(data, timers) ==
    /\ ~ exited /\ ~ closed
    /\ Room = 0
    /\ data_to_dst' = data
    /\ UpdateHandler("WRITE", timers)
    /\ UNCHANGED <<stdin, closed>>

\* Mutant: data_to_dst is not emptied before the rest is appended.
SendTakesOnly(data, timers) ==
    /\ ~ exited /\ ~ closed
    /\ Room > 0
    /\ stdin' = stdin \o Take(data, Sent(Len(data)))
    /\ data_to_dst' = IF Sent(Len(data)) = Len(data) THEN <<>> ELSE data
    /\ UpdateHandler(IF data_to_dst' = <<>> THEN "READ" ELSE "WRITE", timers)
    /\ UNCHANGED closed

\* send takes a part of the data, or all of it.
SendTakes(data, timers) ==
    /\ ~ exited /\ ~ closed
    /\ Room > 0
    /\ stdin' = stdin \o Take(data, Sent(Len(data)))
    /\ data_to_dst' = Drop(data, Sent(Len(data)))
    /\ UpdateHandler(IF Sent(Len(data)) = Len(data) THEN "READ" ELSE "WRITE", timers)
    /\ UNCHANGED closed

OnWrite(data, timers) ==
    \/ SendRaises(data, timers)
    \/ SendTimesOut(data, timers)
    \/ SendTakes(data, timers)

-----------------------------------------------------------------------------

\* The next n characters the browser sends.
Message(n) == [k \in 1..n |-> typed + k]

\* on_message: append the data and try to send at once.  (A closed worker
\* takes no message.)
OnMessage ==
    /\ ~ closed
    /\ \E n \in 1..MaxMessage :
        /\ typed + n <= MaxTyped
        /\ typed' = typed + n
        /\ OnWrite(data_to_dst \o Message(n), retries)
    /\ UNCHANGED <<stdout, shown, exited, left>>

\* A timer of update_handler calls the worker with WRITE.
Retry ==
    /\ retries > 0
    /\ IF data_to_dst = <<>>
       THEN /\ retries' = retries - 1
            /\ UNCHANGED <<data_to_dst, mode, stdin, closed>>
       ELSE OnWrite(data_to_dst, retries - 1)
    /\ UNCHANGED <<typed, stdout, shown, exited, left>>

\* on_read got data.
ReadData ==
    /\ ~ closed /\ mode = "READ"
    /\ stdout # <<>>
    /\ LET n == Least(BufSize, Len(stdout))
       IN  /\ shown' = shown \o Take(stdout, n)
           /\ stdout' = Drop(stdout, n)
    /\ UNCHANGED <<typed, data_to_dst, mode, retries, stdin, exited, left, closed>>

\* on_read got nothing: the channel is closed and all of its output was read.
ReadEnd ==
    /\ ~ closed /\ mode = "READ"
    /\ exited /\ stdout = <<>>
    /\ closed' = TRUE
    /\ UNCHANGED <<typed, data_to_dst, mode, retries, stdin, stdout, shown, exited,
                   left>>

\* on_close, or a write_message that finds the websocket closed.
CloseSocket ==
    /\ ~ closed
    /\ left' = TRUE
    /\ closed' = TRUE
    /\ UNCHANGED <<typed, data_to_dst, mode, retries, stdin, stdout, shown, exited>>

\* The program at the other end.
Echo ==
    /\ ~ exited /\ ~ closed
    /\ stdin # <<>>
    /\ Len(stdout) < OutWindow
    /\ stdout' = Append(stdout, Head(stdin))
    /\ stdin' = Tail(stdin)
    /\ UNCHANGED <<typed, data_to_dst, mode, retries, shown, exited, left, closed>>

Exit ==
    /\ ~ exited /\ ~ closed
    /\ exited' = TRUE
    /\ UNCHANGED <<typed, data_to_dst, mode, retries, stdin, stdout, shown, left, closed>>

Next ==
    \/ OnMessage \/ Retry \/ ReadData \/ ReadEnd \/ CloseSocket
    \/ Echo \/ Exit

Spec == Init /\ [][Next]_vars

\* The IO loop serves its timers and the descriptors it waits for, and the
\* program goes on as long as it can.  Nobody has to type or to leave.
Fairness ==
    /\ WF_vars(Retry)
    /\ WF_vars(ReadData \/ ReadEnd)
    /\ WF_vars(Echo)

FairSpec == Spec /\ Fairness

-----------------------------------------------------------------------------
(* Properties *)

\* Every character the browser sent is in exactly one place and all of them
\* are in order: partial sends, retries from timers and messages that arrive
\* in between lose none, send none twice and let none overtake another.
EveryCharOnceInOrder ==
    shown \o (stdout \o (stdin \o data_to_dst)) = Stream!Line(typed)

\* Reading is off exactly while there is something to send, and then a timer
\* is on its way that will try: the worker can neither forget its data nor
\* stay deaf to the program with nothing left to do.
WaitingIsRetried ==
    ~ closed => /\ mode = "WRITE" <=> data_to_dst # <<>>
                /\ data_to_dst # <<>> => retries > 0

\* A timer that re-arms itself does not multiply: a message adds one timer at
\* most and nothing else adds any, however often the sends of a timer fail and
\* whatever timers an earlier message has left over.
RetriesDoNotMultiply ==
    [][retries' <= retries + (IF typed' # typed THEN 1 ELSE 0)]_vars

\* The session implements the terminal.  Beyond the order of the characters:
\* only the end of the program or of the websocket closes a worker, never a
\* send that finds no room, and what the program printed before it ended is
\* shown, unless it was a retry or a message that noticed the end.
ImplementsByteStream == Stream!Spec

\* Both windows are full and the worker waits for one of them only.
Jammed ==
    /\ mode = "WRITE"
    /\ Len(stdin) = Window
    /\ Len(stdout) = OutWindow

\* Whatever is typed comes back, unless the session ends or is jammed: a
\* worker that has something to send does not read, so a program that waits
\* for its output to be taken keeps both waiting.
TypedIsShown ==
    \A k \in 1..MaxTyped :
        typed >= k ~> Len(shown) >= k \/ exited \/ closed \/ Jammed

\* When the program ends the session is closed, also if the worker is not
\* reading at that time.
ExitCloses == exited ~> closed

=============================================================================
