---------------------------- MODULE WorkerIOProofs ----------------------------
(***************************************************************************)
(* Theorems about WorkerIO, for windows, packets and messages of any size. *)
(***************************************************************************)
EXTENDS WorkerIO, SequenceTheorems, TLAPS

-----------------------------------------------------------------------------
(* Sequences that are cut in two                                             *)

\* The two parts are sequences of the expected lengths ..
LEMMA CutType ==
    ASSUME NEW s \in Seq(Nat), NEW n \in 0..Len(s)
    PROVE  /\ Take(s, n) \in Seq(Nat) /\ Len(Take(s, n)) = n
           /\ Drop(s, n) \in Seq(Nat) /\ Len(Drop(s, n)) = Len(s) - n
<1>1. Len(s) \in Nat /\ \A i \in 1..Len(s) : s[i] \in Nat
  BY LenProperties, ElementOfSeq
<1>2. Take(s, n) \in Seq(Nat) /\ Len(Take(s, n)) = n
  <2>1. \A i \in 1..n : s[i] \in Nat
    BY <1>1
  <2>2. Len(SubSeq(s, 1, n)) = IF 1 <= n THEN n - 1 + 1 ELSE 0
    BY <1>1, <2>1, SubSeqProperties
  <2>3. SubSeq(s, 1, n) \in Seq(Nat)
    BY <1>1, <2>1, SubSeqProperties
  <2> QED
    BY <1>1, <2>2, <2>3 DEF Take
<1>3. Drop(s, n) \in Seq(Nat) /\ Len(Drop(s, n)) = Len(s) - n
  <2>1. \A i \in (n + 1)..Len(s) : s[i] \in Nat
    BY <1>1
  <2>2. Len(SubSeq(s, n + 1, Len(s)))
            = IF n + 1 <= Len(s) THEN Len(s) - (n + 1) + 1 ELSE 0
    BY <1>1, <2>1, SubSeqProperties
  <2>3. SubSeq(s, n + 1, Len(s)) \in Seq(Nat)
    BY <1>1, <2>1, SubSeqProperties
  <2> QED
    BY <1>1, <2>2, <2>3 DEF Drop
<1> QED
  BY <1>2, <1>3

\* .. and make the whole.
LEMMA CutConcat ==
    ASSUME NEW s \in Seq(Nat), NEW n \in 0..Len(s)
    PROVE  Take(s, n) \o Drop(s, n) = s
<1>1. Len(s) \in Nat
  BY LenProperties
<1>2. SubSeq(s, 1, n) \o SubSeq(s, n + 1, Len(s)) = SubSeq(s, 1, Len(s))
  <2>1. 1 \in 1..(Len(s) + 1) /\ n \in (1 - 1)..Len(s) /\ Len(s) \in n..Len(s)
    BY <1>1
  <2> QED
    BY <2>1, ConcatAdjacentSubSeq
<1>3. SubSeq(s, 1, Len(s)) = s
  BY SubSeqFull
<1> QED
  BY <1>2, <1>3 DEF Take, Drop

LEMMA Assoc ==
    ASSUME NEW s \in Seq(Nat), NEW t \in Seq(Nat), NEW u \in Seq(Nat)
    PROVE  (s \o t) \o u = s \o (t \o u)
BY ConcatAssociative, SMTT(30)

\* A sequence is empty exactly if it has no length.
LEMMA EmptyLen ==
    ASSUME NEW s \in Seq(Nat)
    PROVE  Len(s) \in Nat /\ (s = <<>> <=> Len(s) = 0)
BY LenProperties, EmptySeq

-----------------------------------------------------------------------------
(* The characters in order                                                   *)

LEMMA LineType ==
    ASSUME NEW n \in Nat
    PROVE  /\ Stream!Line(n) \in Seq(Nat) /\ Len(Stream!Line(n)) = n
           /\ \A k \in 1..n : Stream!Line(n)[k] = k
BY DEF Stream!Line

\* A message continues the line.
LEMMA LineMessage ==
    ASSUME NEW n \in Nat, NEW m \in Nat, NEW msg,
           msg = [k \in 1..m |-> n + k]
    PROVE  /\ msg \in Seq(Nat) /\ Len(msg) = m
           /\ Stream!Line(n) \o msg = Stream!Line(n + m)
<1>1. msg \in Seq(Nat) /\ Len(msg) = m
  OBVIOUS
<1>2. Stream!Line(n) \in Seq(Nat) /\ Len(Stream!Line(n)) = n
  BY LineType
<1>3. Stream!Line(n + m) \in Seq(Nat) /\ Len(Stream!Line(n + m)) = n + m
  BY LineType
<1>4. /\ Stream!Line(n) \o msg \in Seq(Nat)
      /\ Len(Stream!Line(n) \o msg) = n + m
      /\ \A i \in 1..(n + m) : (Stream!Line(n) \o msg)[i]
                = IF i <= n THEN Stream!Line(n)[i] ELSE msg[i - n]
  BY <1>1, <1>2, ConcatProperties
<1>5. ASSUME NEW i \in 1..(n + m)
      PROVE  (Stream!Line(n) \o msg)[i] = Stream!Line(n + m)[i]
  <2>1. Stream!Line(n + m)[i] = i
    BY LineType
  <2>2. CASE i <= n
    <3>1. Stream!Line(n)[i] = i
      BY <2>2, LineType
    <3> QED
      BY <1>4, <2>1, <2>2, <3>1
  <2>3. CASE ~ (i <= n)
    <3>1. i - n \in 1..m /\ n + (i - n) = i
      BY <2>3
    <3>2. msg[i - n] = i
      BY <3>1
    <3>3. (Stream!Line(n) \o msg)[i] = msg[i - n]
      BY <1>4, <2>3
    <3> QED
      BY <2>1, <3>2, <3>3
  <2> QED
    BY <2>2, <2>3
<1>6. Stream!Line(n) \o msg = Stream!Line(n + m)
  BY <1>3, <1>4, <1>5, SeqEqual
<1> QED
  BY <1>1, <1>6

\* What comes first in a line is a line.
LEMMA LinePrefix ==
    ASSUME NEW n \in Nat, NEW s \in Seq(Nat), NEW t \in Seq(Nat),
           s \o t = Stream!Line(n)
    PROVE  s = Stream!Line(Len(s)) /\ Len(s) <= n
<1>1. Len(s) \in Nat /\ Len(t) \in Nat
  BY LenProperties
<1>2. /\ Len(s \o t) = Len(s) + Len(t)
      /\ \A i \in 1..(Len(s) + Len(t)) :
            (s \o t)[i] = IF i <= Len(s) THEN s[i] ELSE t[i - Len(s)]
  BY ConcatProperties
<1>3. Len(s) + Len(t) = n
  BY <1>2, LineType
<1>4. ASSUME NEW i \in 1..Len(s)
      PROVE  s[i] = Stream!Line(Len(s))[i]
  <2>1. (s \o t)[i] = s[i]
    BY <1>1, <1>2
  <2>2. Stream!Line(n)[i] = i
    BY <1>1, <1>3, LineType
  <2>3. Stream!Line(Len(s))[i] = i
    BY <1>1, LineType
  <2> QED
    BY <2>1, <2>2, <2>3
<1>5. s = Stream!Line(Len(s))
  BY <1>1, <1>4, LineType, SeqEqual
<1> QED
  BY <1>1, <1>3, <1>5

-----------------------------------------------------------------------------
(* on_write                                                                  *)

\* on_write moves data from data_to_dst to the channel without a gap, leaves
\* the worker in WRITE mode exactly if something is left, and adds at most one
\* timer, which it does whenever something is left.
LEMMA OnWriteMoves ==
    ASSUME TypeOK, NEW data \in Seq(Nat), NEW timers \in Nat,
           OnWrite(data, timers)
    PROVE  /\ data_to_dst' \in Seq(Nat)
           /\ mode' \in {"READ", "WRITE"}
           /\ retries' \in timers..(timers + 1)
           /\ stdin' \in Seq(Nat) /\ Len(stdin') <= Window
           /\ closed' \in BOOLEAN
           /\ stdin' \o data_to_dst' = stdin \o data
           /\ data # <<>> /\ ~ closed' =>
                /\ mode' = "WRITE" <=> data_to_dst' # <<>>
                /\ data_to_dst' # <<>> => retries' > 0
<1> USE SizeAssumption
<1>1. /\ stdin \in Seq(Nat) /\ Len(stdin) \in Nat /\ Len(stdin) <= Window
      /\ Len(data) \in Nat /\ mode \in {"READ", "WRITE"} /\ closed \in BOOLEAN
  BY LenProperties DEF TypeOK
<1>2. CASE SendRaises(data, timers)
  BY <1>1, <1>2 DEF SendRaises
<1>3. CASE SendTimesOut(data, timers)
  BY <1>1, <1>3 DEF SendTimesOut, UpdateHandler
<1>4. CASE SendTakes(data, timers)
  <2> DEFINE n == Sent(Len(data))
  <2>1. n \in 0..Len(data) /\ n <= Window - Len(stdin)
    BY <1>1, <1>4 DEF SendTakes, Sent, Room, Least
  <2>2. stdin' = stdin \o Take(data, n) /\ data_to_dst' = Drop(data, n)
    BY <1>4 DEF SendTakes
  <2>3. /\ Take(data, n) \in Seq(Nat) /\ Len(Take(data, n)) = n
        /\ Drop(data, n) \in Seq(Nat) /\ Len(Drop(data, n)) = Len(data) - n
        /\ Take(data, n) \o Drop(data, n) = data
    BY <2>1, CutType, CutConcat
  <2> HIDE DEF n
  <2>4. stdin' \in Seq(Nat) /\ Len(stdin') = Len(stdin) + n
    BY <1>1, <2>2, <2>3, ConcatProperties
  <2>5. stdin' \o data_to_dst' = stdin \o data
    <3>1. (stdin \o Take(data, n)) \o Drop(data, n)
            = stdin \o (Take(data, n) \o Drop(data, n))
      BY <1>1, <2>3, Assoc
    <3> QED
      BY <2>2, <2>3, <3>1
  <2>6. data_to_dst' # <<>> <=> n # Len(data)
    <3>1. Drop(data, n) # <<>> <=> Len(data) - n # 0
      BY <2>3, EmptyLen
    <3> QED
      BY <1>1, <2>1, <2>2, <3>1
  <2>7. /\ mode' = (IF n = Len(data) THEN "READ" ELSE "WRITE")
        /\ retries' = (IF n = Len(data) THEN timers ELSE timers + 1)
        /\ closed' = closed
    BY <1>4 DEF SendTakes, UpdateHandler, n
  <2> QED
    BY <1>1, <2>1, <2>2, <2>3, <2>4, <2>5, <2>6, <2>7
<1> QED
  BY <1>2, <1>3, <1>4 DEF OnWrite

-----------------------------------------------------------------------------
(* The invariant: each of its parts is preserved given TypeOK and itself      *)

IOInv ==
    /\ TypeOK
    /\ EveryCharOnceInOrder
    /\ WaitingIsRetried

LEMMA IOInvInit == Init => IOInv
<1> SUFFICES ASSUME Init PROVE IOInv
  OBVIOUS
<1>1. TypeOK
  <2>1. <<>> \in Seq(Nat) /\ Len(<<>>) = 0
    BY EmptySeq
  <2>2. 0 <= Window /\ 0 <= OutWindow
    BY SizeAssumption
  <2>3. /\ data_to_dst \in Seq(Nat) /\ stdin \in Seq(Nat) /\ stdout \in Seq(Nat)
        /\ shown \in Seq(Nat)
        /\ Len(stdin) <= Window /\ Len(stdout) <= OutWindow
    BY <2>1, <2>2 DEF Init
  <2> QED
    BY <2>3 DEF Init, TypeOK
<1>2. EveryCharOnceInOrder
  <2>1. Stream!Line(0) = <<>>
    BY LineType, EmptyLen
  <2> QED
    BY <2>1, EmptySeq, ConcatEmptySeq DEF Init, EveryCharOnceInOrder
<1> QED
  BY <1>1, <1>2 DEF Init, IOInv, WaitingIsRetried

LEMMA IOInvStep == IOInv /\ [Next]_vars => IOInv'
<1> SUFFICES ASSUME IOInv, [Next]_vars PROVE IOInv'
  OBVIOUS
<1> USE SizeAssumption
<1>t. TypeOK
  BY DEF IOInv
<1>c. shown \o (stdout \o (stdin \o data_to_dst)) = Stream!Line(typed)
  BY DEF IOInv, EveryCharOnceInOrder
<1>1. CASE OnMessage
  <2>1. PICK n \in 1..MaxMessage :
            /\ typed' = typed + n
            /\ OnWrite(data_to_dst \o Message(n), retries)
    BY <1>1 DEF OnMessage
  <2> DEFINE data == data_to_dst \o Message(n)
  <2>2. /\ Message(n) \in Seq(Nat) /\ Len(Message(n)) = n
        /\ Stream!Line(typed) \o Message(n) = Stream!Line(typed')
    <3>1. typed \in Nat /\ n \in Nat
      BY <1>t DEF TypeOK
    <3>2. Message(n) = [k \in 1..n |-> typed + k]
      BY DEF Message
    <3>3. /\ Message(n) \in Seq(Nat) /\ Len(Message(n)) = n
          /\ Stream!Line(typed) \o Message(n) = Stream!Line(typed + n)
      BY <3>1, <3>2, LineMessage
    <3> QED
      BY <2>1, <3>3
  <2>3. /\ data_to_dst \in Seq(Nat) /\ stdin \in Seq(Nat)
        /\ stdout \in Seq(Nat) /\ shown \in Seq(Nat)
    BY <1>t DEF TypeOK
  <2>4. data \in Seq(Nat) /\ data # <<>>
    <3>1. data \in Seq(Nat) /\ Len(data) = Len(data_to_dst) + n
      BY <2>2, <2>3, ConcatProperties
    <3> QED
      BY <2>3, <3>1, EmptyLen
  <2>5. ~ closed /\ shown' = shown /\ stdout' = stdout /\ exited' = exited /\ left' = left
    BY <1>1 DEF OnMessage
  <2> HIDE DEF data
  <2>6. OnWrite(data, retries)
    BY <2>1 DEF data
  <2>7. retries \in Nat
    BY <1>t DEF TypeOK
  <2>8. /\ data_to_dst' \in Seq(Nat)
        /\ mode' \in {"READ", "WRITE"}
        /\ retries' \in retries..(retries + 1)
        /\ stdin' \in Seq(Nat) /\ Len(stdin') <= Window
        /\ closed' \in BOOLEAN
        /\ stdin' \o data_to_dst' = stdin \o data
        /\ ~ closed' => /\ mode' = "WRITE" <=> data_to_dst' # <<>>
                        /\ data_to_dst' # <<>> => retries' > 0
    BY <1>t, <2>4, <2>6, <2>7, OnWriteMoves
  <2>9. TypeOK'
    BY <1>t, <2>1, <2>5, <2>7, <2>8 DEF TypeOK
  <2>10. EveryCharOnceInOrder'
    <3>1. stdin \o data = (stdin \o data_to_dst) \o Message(n)
      BY <2>2, <2>3, Assoc DEF data
    <3>2. stdin \o data_to_dst \in Seq(Nat)
      BY <2>3, ConcatProperties
    <3>3. stdout \o (stdin \o data) = (stdout \o (stdin \o data_to_dst)) \o Message(n)
      <4> DEFINE d == stdin \o data_to_dst
                 m == Message(n)
      <4>1. d \in Seq(Nat) /\ m \in Seq(Nat) /\ stdin \o data = d \o m
        BY <2>2, <3>1, <3>2
      <4> HIDE DEF d, m
      <4>2. (stdout \o d) \o m = stdout \o (d \o m)
        BY <2>3, <4>1, Assoc
      <4> QED
        BY <4>1, <4>2 DEF d, m
    <3>4. stdout \o (stdin \o data_to_dst) \in Seq(Nat)
      BY <2>3, <3>2, ConcatProperties
    <3>5. shown \o (stdout \o (stdin \o data)) = Stream!Line(typed')
      <4> DEFINE d == stdout \o (stdin \o data_to_dst)
                 m == Message(n)
      <4>1. /\ d \in Seq(Nat) /\ m \in Seq(Nat)
            /\ stdout \o (stdin \o data) = d \o m
            /\ shown \o d = Stream!Line(typed)
            /\ Stream!Line(typed) \o m = Stream!Line(typed')
        BY <1>c, <2>2, <3>3, <3>4
      <4> HIDE DEF d, m
      <4>2. (shown \o d) \o m = shown \o (d \o m)
        BY <2>3, <4>1, Assoc
      <4> QED
        BY <4>1, <4>2
    <3> QED
      BY <2>5, <2>8, <3>5 DEF EveryCharOnceInOrder
  <2>11. WaitingIsRetried'
    BY <2>8 DEF WaitingIsRetried
  <2> QED
    BY <2>9, <2>10, <2>11 DEF IOInv
<1>2. CASE Retry
  <2>1. /\ retries > 0 /\ typed' = typed /\ stdout' = stdout
        /\ shown' = shown /\ exited' = exited /\ left' = left
    BY <1>2 DEF Retry
  <2>2. CASE data_to_dst = <<>>
    <3>1. /\ retries' = retries - 1 /\ data_to_dst' = data_to_dst /\ mode' = mode
          /\ stdin' = stdin /\ closed' = closed
      BY <1>2, <2>2 DEF Retry
    <3> QED
      BY <1>t, <1>c, <2>1, <2>2, <3>1
         DEF IOInv, TypeOK, EveryCharOnceInOrder, WaitingIsRetried
  <2>3. CASE data_to_dst # <<>>
    <3>1. OnWrite(data_to_dst, retries - 1)
      BY <1>2, <2>3 DEF Retry
    <3>2. data_to_dst \in Seq(Nat) /\ retries \in Nat /\ retries - 1 \in Nat
      BY <1>t, <2>1 DEF TypeOK
    <3>3. /\ data_to_dst' \in Seq(Nat)
          /\ mode' \in {"READ", "WRITE"}
          /\ retries' \in (retries - 1)..((retries - 1) + 1)
          /\ stdin' \in Seq(Nat) /\ Len(stdin') <= Window
          /\ closed' \in BOOLEAN
          /\ stdin' \o data_to_dst' = stdin \o data_to_dst
          /\ ~ closed' => /\ mode' = "WRITE" <=> data_to_dst' # <<>>
                          /\ data_to_dst' # <<>> => retries' > 0
      BY <1>t, <2>3, <3>1, <3>2, OnWriteMoves
    <3>4. TypeOK'
      BY <1>t, <2>1, <3>2, <3>3 DEF TypeOK
    <3>5. EveryCharOnceInOrder'
      BY <1>c, <2>1, <3>3 DEF EveryCharOnceInOrder
    <3>6. WaitingIsRetried'
      BY <3>3 DEF WaitingIsRetried
    <3> QED
      BY <3>4, <3>5, <3>6 DEF IOInv
  <2> QED
    BY <2>2, <2>3
<1>3. CASE ReadData
  <2> DEFINE n == Least(BufSize, Len(stdout))
  <2>1. /\ shown' = shown \o Take(stdout, n) /\ stdout' = Drop(stdout, n)
        /\ UNCHANGED <<typed, data_to_dst, mode, retries, stdin, exited, left, closed>>
    BY <1>3 DEF ReadData
  <2>2. /\ data_to_dst \in Seq(Nat) /\ stdin \in Seq(Nat)
        /\ stdout \in Seq(Nat) /\ Len(stdout) \in Nat /\ Len(stdout) <= OutWindow
        /\ shown \in Seq(Nat)
    BY <1>t, EmptyLen DEF TypeOK
  <2>3. n \in 0..Len(stdout)
    BY <2>2 DEF Least
  <2> HIDE DEF n
  <2>4. /\ Take(stdout, n) \in Seq(Nat)
        /\ stdout' \in Seq(Nat) /\ Len(stdout') <= OutWindow
        /\ Take(stdout, n) \o stdout' = stdout
    <3>1. /\ Take(stdout, n) \in Seq(Nat)
          /\ Drop(stdout, n) \in Seq(Nat) /\ Len(Drop(stdout, n)) = Len(stdout) - n
      BY <2>2, <2>3, CutType
    <3>2. Take(stdout, n) \o Drop(stdout, n) = stdout
      BY <2>2, <2>3, CutConcat
    <3>3. Len(stdout) - n <= OutWindow
      BY <2>2, <2>3
    <3> QED
      BY <2>1, <3>1, <3>2, <3>3
  <2>5. TypeOK'
    BY <1>t, <2>1, <2>2, <2>4, ConcatProperties DEF TypeOK
  <2>6. EveryCharOnceInOrder'
    <3> DEFINE rest == stdin \o data_to_dst
    <3>1. rest \in Seq(Nat)
      BY <2>2, ConcatProperties
    <3> HIDE DEF rest
    <3>2. stdout' \o rest \in Seq(Nat)
      BY <2>4, <3>1, ConcatProperties
    <3>3. stdout \o rest = Take(stdout, n) \o (stdout' \o rest)
      <4>1. (Take(stdout, n) \o stdout') \o rest = Take(stdout, n) \o (stdout' \o rest)
        BY <2>4, <3>1, Assoc
      <4> QED
        BY <2>4, <4>1
    <3>4. shown \o (stdout \o rest) = shown' \o (stdout' \o rest)
      <4>1. (shown \o Take(stdout, n)) \o (stdout' \o rest)
                = shown \o (Take(stdout, n) \o (stdout' \o rest))
        BY <2>2, <2>4, <3>2, Assoc
      <4> QED
        BY <2>1, <3>3, <4>1
    <3> QED
      BY <1>c, <2>1, <3>4 DEF EveryCharOnceInOrder, rest
  <2> QED
    BY <2>1, <2>5, <2>6 DEF IOInv, WaitingIsRetried
<1>4. CASE ReadEnd
  BY <1>4 DEF ReadEnd, IOInv, TypeOK, EveryCharOnceInOrder, WaitingIsRetried
<1>5. CASE CloseSocket
  BY <1>5 DEF CloseSocket, IOInv, TypeOK, EveryCharOnceInOrder,
              WaitingIsRetried
<1>6. CASE Echo
  <2>1. /\ stdin # <<>> /\ Len(stdout) < OutWindow
        /\ stdout' = Append(stdout, Head(stdin)) /\ stdin' = Tail(stdin)
        /\ UNCHANGED <<typed, data_to_dst, mode, retries, shown, exited, left, closed>>
    BY <1>6 DEF Echo
  <2>2. /\ data_to_dst \in Seq(Nat)
        /\ stdin \in Seq(Nat) /\ Len(stdin) \in Nat /\ Len(stdin) <= Window
        /\ stdout \in Seq(Nat) /\ Len(stdout) \in Nat
    BY <1>t, EmptyLen DEF TypeOK
  <2>3. /\ Head(stdin) \in Nat /\ Tail(stdin) \in Seq(Nat)
        /\ Len(Tail(stdin)) = Len(stdin) - 1
    BY <2>1, <2>2, HeadTailProperties
  <2>4. TypeOK'
    BY <1>t, <2>1, <2>2, <2>3 DEF TypeOK
  <2>5. EveryCharOnceInOrder'
    <3> DEFINE h == <<Head(stdin)>>
               t == Tail(stdin)
    <3>1. h \in Seq(Nat) /\ t \in Seq(Nat) /\ stdin = h \o t
      BY <2>1, <2>2, <2>3
    <3>2. stdout' = stdout \o h
      BY <2>1, <2>2, <2>3
    <3> HIDE DEF h, t
    <3>3. stdin \o data_to_dst = h \o (t \o data_to_dst)
      <4>1. (h \o t) \o data_to_dst = h \o (t \o data_to_dst)
        BY ONLY <2>2, <3>1, Assoc
      <4>. QED
        BY ONLY <3>1, <4>1
    <3>4. t \o data_to_dst \in Seq(Nat)
      BY <2>2, <3>1, ConcatProperties
    <3>5. stdout \o (stdin \o data_to_dst) = stdout' \o (t \o data_to_dst)
      <4> DEFINE d == t \o data_to_dst
      <4>1. d \in Seq(Nat) /\ stdin \o data_to_dst = h \o d
        BY <3>3, <3>4
      <4> HIDE DEF d
      <4>2. (stdout \o h) \o d = stdout \o (h \o d)
        BY <2>2, <3>1, <4>1, Assoc
      <4> QED
        BY <3>2, <4>1, <4>2 DEF d
    <3> QED
      BY <1>c, <2>1, <3>5 DEF EveryCharOnceInOrder, t
  <2> QED
    BY <2>1, <2>4, <2>5 DEF IOInv, WaitingIsRetried
<1>7. CASE Exit
  BY <1>7 DEF Exit, IOInv, TypeOK, EveryCharOnceInOrder, WaitingIsRetried
<1>8. CASE UNCHANGED vars
  BY <1>8 DEF vars, IOInv, TypeOK, EveryCharOnceInOrder, WaitingIsRetried
<1> QED
  BY <1>1, <1>2, <1>3, <1>4, <1>5, <1>6, <1>7, <1>8 DEF Next

LEMMA IOInvHolds == Spec => []IOInv
BY IOInvInit, IOInvStep, PTL DEF Spec

-----------------------------------------------------------------------------
(* The theorems                                                              *)

\* Every variable of a session keeps its type; in particular neither window
\* is ever exceeded (paramiko's send is given no more than it has room for).
THEOREM IOTypeCorrect == Spec => []TypeOK
<1>1. IOInv => TypeOK
  BY DEF IOInv
<1> QED
  BY <1>1, IOInvHolds, PTL

\* on_message, on_write, its retries and on_read lose no character, send none
\* twice and keep all of them in order.
THEOREM EveryCharOnceInOrderHolds == Spec => []EveryCharOnceInOrder
<1>1. IOInv => EveryCharOnceInOrder
  BY DEF IOInv
<1> QED
  BY <1>1, IOInvHolds, PTL

\* While a worker is open it reads unless something is waiting to be sent, and
\* what is waiting has a timer.
THEOREM WaitingIsRetriedHolds == Spec => []WaitingIsRetried
<1>1. IOInv => WaitingIsRetried
  BY DEF IOInv
<1> QED
  BY <1>1, IOInvHolds, PTL

\* update_handler starts one timer at most for each message, and a timer goes
\* on as one timer at most.
THEOREM RetriesDoNotMultiplyHolds == Spec => RetriesDoNotMultiply
<1>1. IOInv /\ [Next]_vars
        => [retries' <= retries + (IF typed' # typed THEN 1 ELSE 0)]_vars
  <2> SUFFICES ASSUME IOInv, [Next]_vars
               PROVE  retries' <= retries + (IF typed' # typed THEN 1 ELSE 0)
    OBVIOUS
  <2>1. TypeOK /\ retries \in Nat /\ typed \in Nat /\ data_to_dst \in Seq(Nat)
    BY DEF IOInv, TypeOK
  <2>2. CASE OnMessage
    <3>1. PICK n \in 1..MaxMessage :
              typed' = typed + n /\ OnWrite(data_to_dst \o Message(n), retries)
      BY <2>2 DEF OnMessage
    <3>2. data_to_dst \o Message(n) \in Seq(Nat)
      <4>1. Message(n) \in Seq(Nat)
        BY <2>1 DEF Message
      <4> QED
        BY <2>1, <4>1, ConcatProperties
    <3>3. retries' \in retries..(retries + 1)
      BY <2>1, <3>1, <3>2, OnWriteMoves
    <3> QED
      BY <2>1, <3>1, <3>3
  <2>3. CASE Retry
    <3>1. retries - 1 \in Nat /\ typed' = typed
      BY <2>1, <2>3 DEF Retry
    <3>2. CASE data_to_dst = <<>>
      BY <2>1, <2>3, <3>1, <3>2 DEF Retry
    <3>3. CASE data_to_dst # <<>>
      <4>1. OnWrite(data_to_dst, retries - 1)
        BY <2>3, <3>3 DEF Retry
      <4>2. retries' \in (retries - 1)..((retries - 1) + 1)
        BY <2>1, <3>1, <4>1, OnWriteMoves
      <4> QED
        BY <2>1, <3>1, <4>2
    <3> QED
      BY <3>2, <3>3
  <2>4. CASE ReadData \/ ReadEnd \/ CloseSocket \/ Echo \/ Exit \/ UNCHANGED vars
    <3>1. retries' = retries /\ typed' = typed
      BY <2>4 DEF ReadData, ReadEnd, CloseSocket, Echo, Exit, vars
    <3> QED
      BY <2>1, <3>1
  <2> QED
    BY <2>2, <2>3, <2>4 DEF Next
<1> QED
  BY <1>1, IOInvHolds, PTL DEF Spec, RetriesDoNotMultiply

-----------------------------------------------------------------------------
(* The session implements the terminal                                       *)

LEMMA OnWriteStream ==
    ASSUME IOInv, NEW data \in Seq(Nat), NEW timers \in Nat,
           OnWrite(data, timers)
    PROVE  \/ /\ exited \/ closed
              /\ data_to_dst' = data /\ closed' = TRUE
           \/ /\ ~ exited /\ ~ closed /\ closed' = FALSE
              /\ data_to_dst' \in Seq(Nat) /\ Len(data_to_dst') <= Len(data)
<1> USE SizeAssumption
<1>1. /\ Len(data) \in Nat /\ Len(stdin) \in Nat /\ Len(stdin) <= Window
      /\ closed \in BOOLEAN
  BY LenProperties DEF IOInv, TypeOK
<1>2. CASE SendRaises(data, timers)
  BY <1>2 DEF SendRaises
<1>3. CASE SendTimesOut(data, timers)
  BY <1>1, <1>3 DEF SendTimesOut
<1>4. CASE SendTakes(data, timers)
  <2>1. Sent(Len(data)) \in 0..Len(data)
    BY <1>1, <1>4 DEF SendTakes, Sent, Room, Least
  <2>2. data_to_dst' = Drop(data, Sent(Len(data)))
    BY <1>4 DEF SendTakes
  <2>3. data_to_dst' \in Seq(Nat) /\ Len(data_to_dst') <= Len(data)
    BY <1>1, <2>1, <2>2, CutType
  <2> QED
    BY <1>1, <1>4, <2>3 DEF SendTakes
<1> QED
  BY <1>2, <1>3, <1>4 DEF OnWrite

\* How much there is of everything.
Amounts ==
    /\ typed \in Nat
    /\ data_to_dst \in Seq(Nat) /\ Len(data_to_dst) \in Nat
    /\ stdin \in Seq(Nat) /\ Len(stdin) \in Nat
    /\ stdout \in Seq(Nat) /\ Len(stdout) \in Nat
    /\ shown \in Seq(Nat) /\ Len(shown) \in Nat
    /\ Len(shown) + Len(stdout) + Len(stdin) + Len(data_to_dst) = typed
    /\ shown = Stream!Line(Len(shown))

LEMMA AmountsAddUp == IOInv => Amounts
<1> SUFFICES ASSUME IOInv PROVE Amounts
  OBVIOUS
<1>1. /\ typed \in Nat
      /\ data_to_dst \in Seq(Nat) /\ Len(data_to_dst) \in Nat
      /\ stdin \in Seq(Nat) /\ Len(stdin) \in Nat
      /\ stdout \in Seq(Nat) /\ Len(stdout) \in Nat
      /\ shown \in Seq(Nat) /\ Len(shown) \in Nat
  BY LenProperties DEF IOInv, TypeOK
<1> DEFINE a == stdin \o data_to_dst
           b == stdout \o a
<1>2. a \in Seq(Nat) /\ Len(a) = Len(stdin) + Len(data_to_dst)
  BY <1>1, ConcatProperties
<1> HIDE DEF a
<1>3. b \in Seq(Nat) /\ Len(b) = Len(stdout) + Len(a)
  BY <1>1, <1>2, ConcatProperties
<1>4. shown \o b = Stream!Line(typed)
  BY DEF IOInv, EveryCharOnceInOrder, a
<1> HIDE DEF b
<1>5. Len(shown \o b) = Len(shown) + Len(b)
  BY <1>1, <1>3, ConcatProperties
<1>6. Len(Stream!Line(typed)) = typed
  BY <1>1, LineType
<1>7. shown = Stream!Line(Len(shown))
  BY <1>1, <1>3, <1>4, LinePrefix
<1>8. Len(shown) + Len(b) = typed
  BY <1>4, <1>5, <1>6
<1>9. Len(shown) + Len(stdout) + Len(stdin) + Len(data_to_dst) = typed
  BY <1>1, <1>2, <1>3, <1>8
<1> QED
  BY <1>1, <1>7, <1>9 DEF Amounts

\* A session of the web terminal is a terminal: every step of it is a step of
\* ByteStream or changes nothing that ByteStream speaks of.
THEOREM ByteStreamImplemented == Spec => ImplementsByteStream
<1>1. Init => Stream!Init
  <2> SUFFICES ASSUME Init PROVE Stream!Init
    OBVIOUS
  <2>1. Len(<<>>) = 0
    BY EmptySeq
  <2>2. Len(data_to_dst) = 0 /\ Len(shown) = 0 /\ Len(stdout) = 0 /\ typed = 0
    BY <2>1 DEF Init
  <2>3. typed - Len(data_to_dst) = 0 /\ Len(shown) + Len(stdout) = 0
    BY <2>2
  <2> QED
    BY <2>3 DEF Init, Stream!Init
<1>2. IOInv /\ Amounts /\ Amounts' /\ [Next]_vars => [Stream!Next]_(Stream!vars)
  <2> SUFFICES ASSUME IOInv, Amounts, Amounts', [Next]_vars
               PROVE  Stream!Next \/ UNCHANGED Stream!vars
    OBVIOUS
  <2> DEFINE taken   == typed - Len(data_to_dst)
             printed == Len(shown) + Len(stdout)
  <2>a. /\ typed \in Nat
        /\ data_to_dst \in Seq(Nat) /\ Len(data_to_dst) \in Nat
        /\ stdin \in Seq(Nat) /\ Len(stdin) \in Nat
        /\ stdout \in Seq(Nat) /\ Len(stdout) \in Nat
        /\ shown \in Seq(Nat) /\ Len(shown) \in Nat
        /\ Len(shown) + Len(stdout) + Len(stdin) + Len(data_to_dst) = typed
        /\ retries \in Nat
        /\ exited \in BOOLEAN /\ closed \in BOOLEAN
    BY DEF Amounts, IOInv, TypeOK
  <2>b. /\ typed' \in Nat
        /\ Len(data_to_dst') \in Nat
        /\ Len(stdin') \in Nat
        /\ stdout' \in Seq(Nat) /\ Len(stdout') \in Nat
        /\ shown' \in Seq(Nat) /\ Len(shown') \in Nat
        /\ Len(shown') + Len(stdout') + Len(stdin') + Len(data_to_dst') = typed'
        /\ shown' = Stream!Line(Len(shown'))
    BY DEF Amounts
  <2>1. CASE OnMessage
    <3>1. PICK n \in 1..MaxMessage :
              typed' = typed + n /\ OnWrite(data_to_dst \o Message(n), retries)
      BY <2>1 DEF OnMessage
    <3> DEFINE data == data_to_dst \o Message(n)
    <3>2. data \in Seq(Nat) /\ Len(data) = Len(data_to_dst) + n
      <4>1. Message(n) \in Seq(Nat) /\ Len(Message(n)) = n
        BY <2>a DEF Message
      <4> QED
        BY <2>a, <4>1, ConcatProperties
    <3>3. ~ closed /\ UNCHANGED <<stdout, shown, exited, left>>
      BY <2>1 DEF OnMessage
    <3> HIDE DEF data
    <3>4. OnWrite(data, retries)
      BY <3>1 DEF data
    <3>5. \/ exited /\ data_to_dst' = data /\ closed' = TRUE
          \/ ~ exited /\ closed' = FALSE /\ Len(data_to_dst') <= Len(data)
      BY <2>a, <3>2, <3>3, <3>4, OnWriteStream
    <3>6. n \in Nat /\ n >= 1
      BY SizeAssumption
    <3>7. CASE exited /\ data_to_dst' = data /\ closed' = TRUE
      <4>1. Len(data_to_dst') = Len(data_to_dst) + n
        BY <3>2, <3>7
      <4>2. taken' = taken /\ taken < typed' /\ typed <= typed'
        BY <2>a, <3>1, <3>6, <4>1
      <4> QED
        BY <2>b, <3>3, <3>7, <4>2 DEF Stream!Next, Stream!Close
    <3>8. CASE ~ exited /\ closed' = FALSE /\ Len(data_to_dst') <= Len(data)
      <4>1. taken <= taken' /\ taken' <= typed' /\ typed <= typed'
        BY <2>a, <2>b, <3>1, <3>2, <3>6, <3>8, SMTT(30)
      <4> QED
        BY <2>a, <2>b, <3>3, <3>8, <4>1 DEF Stream!Next, Stream!Send
    <3> QED
      BY <3>5, <3>7, <3>8
  <2>2. CASE Retry
    <3>1. UNCHANGED <<typed, stdout, shown, exited, left>> /\ retries - 1 \in Nat
      BY <2>2, <2>a DEF Retry
    <3>2. CASE data_to_dst = <<>>
      <4>1. UNCHANGED <<data_to_dst, closed>>
        BY <2>2, <3>2 DEF Retry
      <4> QED
        BY <3>1, <4>1 DEF Stream!vars
    <3>3. CASE data_to_dst # <<>>
      <4>1. OnWrite(data_to_dst, retries - 1)
        BY <2>2, <3>3 DEF Retry
      <4>2. \/ (exited \/ closed) /\ data_to_dst' = data_to_dst /\ closed' = TRUE
            \/ /\ ~ exited /\ ~ closed /\ closed' = FALSE
               /\ Len(data_to_dst') <= Len(data_to_dst)
        BY <2>a, <3>1, <4>1, OnWriteStream
      <4>3. Len(data_to_dst) > 0
        BY <2>a, <3>3, EmptyLen
      <4>4. CASE /\ ~ exited /\ ~ closed /\ closed' = FALSE
                 /\ Len(data_to_dst') <= Len(data_to_dst)
        <5>1. taken <= taken' /\ taken' <= typed' /\ typed <= typed'
          BY <2>a, <2>b, <3>1, <4>4
        <5> QED
          BY <2>a, <2>b, <3>1, <4>4, <5>1 DEF Stream!Next, Stream!Send
      <4>5. CASE closed /\ data_to_dst' = data_to_dst /\ closed' = TRUE
        BY <2>a, <3>1, <4>5 DEF Stream!vars
      <4>6. CASE ~ closed /\ exited /\ data_to_dst' = data_to_dst /\ closed' = TRUE
        <5>1. taken < typed'
          BY <2>a, <3>1, <4>3
        <5> QED
          BY <2>a, <2>b, <3>1, <4>6, <5>1 DEF Stream!Next, Stream!Close
      <4> QED
        BY <4>2, <4>4, <4>5, <4>6
    <3> QED
      BY <3>2, <3>3
  <2>3. CASE ReadData
    <3> DEFINE n == Least(BufSize, Len(stdout))
    <3>1. /\ ~ closed /\ shown' = shown \o Take(stdout, n)
          /\ UNCHANGED <<typed, data_to_dst, stdin, exited, left, closed>>
      BY <2>3 DEF ReadData
    <3>2. n \in 0..Len(stdout)
      BY <2>a, SizeAssumption DEF Least
    <3> HIDE DEF n
    <3>3. Take(stdout, n) \in Seq(Nat) /\ Len(Take(stdout, n)) = n
      BY <2>a, <3>2, CutType
    <3>4. Len(shown') = Len(shown) + n
      BY <2>a, <3>1, <3>3, ConcatProperties
    <3>5. /\ Len(shown) <= Len(shown') /\ Len(shown') <= printed
          /\ printed' = printed /\ taken' = taken
      <4>1. /\ Len(stdin') = Len(stdin) /\ Len(data_to_dst') = Len(data_to_dst)
            /\ typed' = typed
        BY <3>1
      <4>2. Len(stdout') = Len(stdout) - n
        BY <2>a, <2>b, <3>2, <3>4, <4>1
      <4> QED
        BY <2>a, <3>2, <3>4, <4>1, <4>2
    <3> QED
      BY <2>b, <3>1, <3>5 DEF Stream!Next, Stream!Receive
  <2>4. CASE ReadEnd
    <3>1. Len(shown) = printed
      BY <2>4, <2>a, EmptyLen DEF ReadEnd
    <3> QED
      BY <2>4, <2>a, <3>1 DEF ReadEnd, Stream!Next, Stream!Close
  <2>5. CASE CloseSocket
    BY <2>5 DEF CloseSocket, Stream!Next, Stream!Leave
  <2>6. CASE Echo
    <3>1. /\ ~ exited /\ ~ closed /\ stdin # <<>>
          /\ stdout' = Append(stdout, Head(stdin))
          /\ UNCHANGED <<typed, data_to_dst, shown, exited, left, closed>>
      BY <2>6 DEF Echo
    <3>2. Len(stdin) > 0 /\ Len(stdout') = Len(stdout) + 1
      BY <2>a, <3>1, EmptyLen
    <3>3. printed < taken /\ printed' = printed + 1 /\ taken' = taken
      BY <2>a, <2>b, <3>1, <3>2
    <3> QED
      BY <3>1, <3>3 DEF Stream!Next, Stream!Output
  <2>7. CASE Exit
    BY <2>7 DEF Exit, Stream!Next, Stream!End
  <2>8. CASE UNCHANGED vars
    BY <2>8 DEF vars, Stream!vars
  <2> QED
    BY <2>1, <2>2, <2>3, <2>4, <2>5, <2>6, <2>7, <2>8 DEF Next
<1> QED
  BY <1>1, <1>2, IOInvHolds, AmountsAddUp, PTL
     DEF Spec, ImplementsByteStream, Stream!Spec

=============================================================================
