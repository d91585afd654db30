-------------------------- MODULE BrowserClientProofs --------------------------
(***************************************************************************)
(* Theorems about BrowserClient, for any catalog, any number of sessions   *)
(* and queues of any length.                                               *)
(***************************************************************************)
EXTENDS BrowserClient, SequenceTheorems, TLAPS

-----------------------------------------------------------------------------
(* The inductive invariant                                                   *)

\* The inputs are those of the command that is shown; while the handlers of Run
\* go round, they are those of the command that was asked for, and it has not
\* been sent.
InputsOK ==
    /\ dialog # Closed =>
        /\ dialog.cmd \in Command
        /\ inputs = Empty \/ inputs.cmd = dialog.cmd
    /\ click = "run" /\ inputs.filled =>
        asked \in Command /\ inputs.cmd = asked /\ ran = <<>>

SentOK ==
    /\ ran \in {<<>>, <<asked>>}
    /\ asked = None => ran = <<>>

\* Before the first session there is nothing to click on.
BeforeFirst ==
    /\ loading = {} /\ catalog = 0
    /\ dialog = Closed /\ click = "none" /\ asked = None /\ ran = <<>>
    /\ \A s \in Session : queue[s] = <<>>

\* In the first session the queue holds what the dialog shows, and no more
\* while the session is not closed.
FirstDialog ==
    /\ loading \subseteq {1} /\ catalog \in {0, 1}
    /\ dialog # Closed =>
        /\ dialog.by = 1 /\ sock[1] = "open"
        /\ queue[1] = <<dialog.cmd>> /\ inputs.cmd = dialog.cmd
    /\ dialog = Closed /\ sock[1] # "closed" => queue[1] = <<>>

FirstClick ==
    /\ click # "none" => at = 1 /\ dialog # Closed /\ ran = <<>>
    /\ click = "cancel" => asked = None
    /\ click = "run" /\ asked # None => asked = dialog.cmd /\ inputs.filled
    /\ click = "none" /\ asked # None => ran = <<asked>>

FirstSession ==
    /\ Opened = 0 => BeforeFirst
    /\ Opened = 1 => FirstDialog /\ FirstClick

ClickInv == InputsOK /\ SentOK /\ FirstSession

\* Whoever connects has a session left for it.
Room == post # "none" => Opened < MaxSession

PageInv == TypeOK /\ Room /\ OneConnection

LEMMA InitPage == Init => PageInv
BY NoneAssumption, BoundAssumption
   DEF Init, PageInv, TypeOK, Room, OneConnection, Live, Opened, Session, Closed, Empty

LEMMA InitClick == Init => ClickInv
BY NoneAssumption
   DEF Init, ClickInv, InputsOK, SentOK, FirstSession, BeforeFirst, FirstDialog,
       FirstClick, Opened, Session, Closed, Empty

-----------------------------------------------------------------------------
(* Every step keeps the types                                                *)

LEMMA ConnectionTypes ==
    ASSUME TypeOK, Room, Connect \/ KeyRead \/ Answered
    PROVE  TypeOK'
<1>1. CASE Connect
  BY <1>1 DEF Connect, TypeOK, commands, clicking, Opened
<1>2. CASE KeyRead
  BY <1>2 DEF KeyRead, TypeOK, commands, clicking, Opened
<1>3. CASE Refused
  BY <1>3 DEF Refused, StateAfterRefusal, TypeOK, commands, clicking, Opened
<1>4. CASE Accepted
  <2>1. sock' \in Seq({"connecting", "open", "closed"}) /\ Len(sock') = Len(sock) + 1
    BY <1>4 DEF Accepted, TypeOK
  <2>2. Len(sock) < MaxSession
    BY <1>4 DEF Accepted, Room, Opened
  <2>3. Opened' <= MaxSession
    BY <2>1, <2>2, BoundAssumption, LenProperties DEF TypeOK, Opened
  <2>. QED
    BY <1>4, <2>1, <2>3 DEF Accepted, TypeOK, commands, clicking
<1>. QED
  BY <1>1, <1>2, <1>3, <1>4 DEF Answered

LEMMA SocketTypes ==
    ASSUME TypeOK, NEW s \in Session, Socket(s) \/ CatalogLoaded(s)
    PROVE  TypeOK'
<1>. DEFINE Sock == {"connecting", "open", "closed"}
<1>1. ASSUME NEW x \in Sock, s \in DOMAIN sock, sock' = [sock EXCEPT ![s] = x]
      PROVE  sock' \in Seq(Sock) /\ Opened' = Opened
  BY <1>1, ExceptSeq DEF TypeOK, Opened
<1>2. CASE Open(s)
  <2>1. sock' \in Seq(Sock) /\ Opened' = Opened
    BY <1>1, <1>2 DEF Open
  <2>. QED
    BY <1>2, <2>1 DEF Open, TypeOK, clicking
<1>3. CASE Close(s)
  <2>1. sock' \in Seq(Sock) /\ Opened' = Opened
    BY <1>1, <1>3 DEF Close
  <2>2. dialog' \in [cmd : Command \cup {None}, by : 0..MaxSession]
    BY <1>3, BoundAssumption DEF Close, TypeOK, Closed
  <2>. QED
    BY <1>3, <2>1, <2>2 DEF Close, TypeOK, clicking
<1>4. CASE CatalogLoaded(s)
  BY <1>4, BoundAssumption DEF CatalogLoaded, TypeOK, Session, Opened, connection, clicking
<1>. QED
  BY <1>2, <1>3, <1>4 DEF Socket

LEMMA DialogTypes ==
    ASSUME TypeOK,
           FillIn \/ (\E c \in Command : Choose(c))
                  \/ (\E button \in {"run", "cancel"} : Click(button))
    PROVE  TypeOK'
<1>1. CASE FillIn
  <2>1. inputs \in [cmd : Command, filled : BOOLEAN]
    BY <1>1 DEF FillIn, MayFill, TypeOK
  <2>2. inputs' \in [cmd : Command, filled : BOOLEAN]
    BY <1>1, <2>1 DEF FillIn
  <2>. QED
    BY <1>1, <2>2 DEF FillIn, TypeOK, connection, clicking, Opened
<1>2. ASSUME NEW c \in Command, Choose(c)
      PROVE  TypeOK'
  <2>1. catalog \in Session /\ queue' \in [Session -> Seq(Command)]
    BY <1>2, BoundAssumption DEF Choose, TypeOK, Session
  <2>2. dialog' \in [cmd : Command \cup {None}, by : 0..MaxSession]
    BY <1>2 DEF Choose, TypeOK
  <2>3. inputs' \in [cmd : Command, filled : BOOLEAN]
    BY <1>2 DEF Choose
  <2>. QED
    BY <1>2, <2>1, <2>2, <2>3 DEF Choose, TypeOK, connection, clicking, Opened
<1>3. ASSUME NEW button \in {"run", "cancel"}, Click(button)
      PROVE  TypeOK'
  BY <1>3, BoundAssumption DEF Click, TypeOK, connection, commands, Opened
<1>. QED
  BY <1>1, <1>2, <1>3

LEMMA HandlerTypes ==
    ASSUME TypeOK, NEW s \in Session, Handler(s)
    PROVE  TypeOK'
<1>1. at' \in 1..MaxSession + 1 /\ click' \in {"none", "run", "cancel"}
  BY BoundAssumption DEF Handler, Run, Cancel, Handled, Thrown, TypeOK, Session
<1>2. queue' \in [Session -> Seq(Command)]
  <2>1. queue[s] # <<>> => Tail(queue[s]) \in Seq(Command)
    BY DEF TypeOK
  <2>2. \/ queue' = queue
        \/ queue[s] # <<>> /\ queue' = [queue EXCEPT ![s] = Tail(queue[s])]
    BY DEF Handler, Run, Cancel, Shifted
  <2>. QED
    BY <2>1, <2>2 DEF TypeOK
<1>3. /\ dialog' \in [cmd : Command \cup {None}, by : 0..MaxSession]
      /\ inputs' \in [cmd : Command, filled : BOOLEAN] \cup {Empty}
  BY BoundAssumption DEF Handler, Run, Cancel, Callbacks, Closed, TypeOK
<1>4. ran' \in Seq(Command)
  <2>1. queue[s] # <<>> => Head(queue[s]) \in Command
    BY DEF TypeOK
  <2>2. \/ ran' = ran
        \/ queue[s] # <<>> /\ ran' = Append(ran, Head(queue[s]))
    BY DEF Handler, Run, Cancel
  <2>3. ran \in Seq(Command)
    BY DEF TypeOK
  <2>. QED
    BY <2>1, <2>2, <2>3
<1>. QED
  BY <1>1, <1>2, <1>3, <1>4 DEF Handler, Run, Cancel, TypeOK, connection, Opened

LEMMA TypesPreserved ==
    ASSUME TypeOK, Room, [Next]_vars
    PROVE  TypeOK'
<1>1. CASE UNCHANGED vars
  BY <1>1 DEF TypeOK, vars, connection, commands, clicking, Opened
<1>. QED
  BY <1>1, ConnectionTypes, SocketTypes, DialogTypes, HandlerTypes DEF Next

-----------------------------------------------------------------------------
(* The connection                                                            *)

\* Only these steps touch the connection.
LEMMA ConnectionSteps ==
    ASSUME [Next]_vars
    PROVE  \/ Connect \/ KeyRead \/ Refused \/ Accepted
           \/ \E s \in Session : Open(s) \/ Close(s)
           \/ UNCHANGED connection
BY DEF Next, Answered, Socket, Handler, CatalogLoaded, Choose, FillIn, Click, Run, Cancel,
       vars

\* How the socket of one session makes its way.
LEMMA SocketMoves ==
    ASSUME TypeOK, NEW s \in DOMAIN sock, NEW x \in {"open", "closed"},
           sock' = [sock EXCEPT ![s] = x]
    PROVE  /\ Opened' = Opened
           /\ DOMAIN sock' = DOMAIN sock
           /\ \A t \in DOMAIN sock : sock'[t] = IF t = s THEN x ELSE sock[t]
BY ExceptSeq DEF TypeOK, Opened

LEMMA ConnectionPreserved ==
    ASSUME PageInv, [Next]_vars
    PROVE  Room' /\ OneConnection'
<1>0. TypeOK /\ Room /\ OneConnection
  BY DEF PageInv
<1>1. CASE Connect
  <2>1. Live = {} /\ post = "none"
    BY <1>0, <1>1 DEF Connect, MayConnect, OneConnection, Live, TypeOK
  <2>2. Live' = {}
    BY <1>1, <2>1 DEF Connect, Live
  <2>. QED
    BY <1>1, <2>2 DEF Connect, Room, OneConnection, Opened
<1>2. CASE KeyRead
  BY <1>0, <1>2 DEF KeyRead, Room, OneConnection, Opened, Live
<1>3. CASE Refused
  <2>1. Live' = {}
    BY <1>0, <1>3 DEF Refused, OneConnection, Live
  <2>. QED
    BY <1>3, <2>1 DEF Refused, StateAfterRefusal, Room, OneConnection
<1>4. CASE Accepted
  <2>. DEFINE n == Len(sock) + 1
  <2>1. /\ n \in DOMAIN sock' /\ sock'[n] = "connecting"
        /\ \A t \in DOMAIN sock' : t = n \/ (t \in DOMAIN sock /\ sock'[t] = sock[t])
    BY <1>0, <1>4, AppendProperties DEF Accepted, TypeOK
  <2>2. Live = {} /\ state = "CONNECTING"
    BY <1>0, <1>4 DEF Accepted, OneConnection
  <2>3. Live' = {n}
    BY <2>1, <2>2 DEF Live
  <2>. HIDE DEF n
  <2>. QED
    BY <1>4, <2>1, <2>2, <2>3 DEF Accepted, Room, OneConnection
<1>5. ASSUME NEW s \in Session, Open(s)
      PROVE  Room' /\ OneConnection'
  <2>1. s \in DOMAIN sock /\ sock[s] = "connecting" /\ Live = {s} /\ post = "none"
    BY <1>0, <1>5 DEF Open, OneConnection, Live
  <2>2. sock'[s] = "open" /\ Live' = {s}
    BY <1>0, <1>5, <2>1, SocketMoves DEF Open, Live
  <2>. QED
    BY <1>5, <2>1, <2>2 DEF Open, Room, OneConnection
<1>6. ASSUME NEW s \in Session, Close(s)
      PROVE  Room' /\ OneConnection'
  <2>1. s \in DOMAIN sock /\ Live = {s} /\ post = "none"
    BY <1>0, <1>6 DEF Close, OneConnection, Live
  <2>2. Live' = {}
    BY <1>0, <1>6, <2>1, SocketMoves DEF Close, Live
  <2>. QED
    BY <1>6, <2>1, <2>2 DEF Close, Room, OneConnection
<1>7. CASE UNCHANGED connection
  BY <1>0, <1>7 DEF connection, Room, OneConnection, Live, Opened
<1>. QED
  BY <1>1, <1>2, <1>3, <1>4, <1>5, <1>6, <1>7, ConnectionSteps

LEMMA PageInvHolds == Spec => []PageInv
<1>1. PageInv /\ [Next]_vars => PageInv'
  BY TypesPreserved, ConnectionPreserved DEF PageInv
<1>. QED
  BY InitPage, <1>1, PTL DEF Spec

\* Every variable of the page has its type, for any catalog and any number of
\* sessions.
THEOREM PageTypeCorrect == Spec => []TypeOK
<1>1. PageInv => TypeOK
  BY DEF PageInv
<1>. QED
  BY PageInvHolds, <1>1, PTL

\* The page has one connection at a time, and the state in which connect finds
\* it says how far this connection is (main.js: connect, ajax_complete_callback,
\* onopen, onclose), however many sessions the page has had.
THEOREM OneConnectionHolds == Spec => []OneConnection
<1>1. PageInv => OneConnection
  BY DEF PageInv
<1>. QED
  BY PageInvHolds, <1>1, PTL

-----------------------------------------------------------------------------
(* What a click sends                                                        *)

\* A step of the connection happens between two clicks.
LEMMA ConnectionClicks ==
    ASSUME PageInv, ClickInv, Connect \/ KeyRead \/ Answered
    PROVE  ClickInv'
<1>0. TypeOK
  BY DEF PageInv
<1>1. UNCHANGED <<commands, clicking>>
  BY DEF Connect, KeyRead, Answered, Refused, Accepted
<1>2. sock' = sock \/ Accepted
  BY DEF Connect, KeyRead, Answered, Refused
<1>3. (InputsOK /\ SentOK)'
  BY <1>1 DEF ClickInv, InputsOK, SentOK, commands, clicking
<1>4. FirstSession'
  <2>1. CASE sock' = sock
    BY <1>1, <2>1 DEF ClickInv, FirstSession, BeforeFirst, FirstDialog, FirstClick,
                      Opened, commands, clicking
  <2>2. CASE Accepted
    <3>1. Opened' = Opened + 1 /\ Opened \in Nat
      BY <1>0, <2>2, AppendProperties DEF Accepted, Opened, TypeOK
    <3>2. CASE Opened = 0
      <4>1. Opened' = 1 /\ BeforeFirst
        BY <3>1, <3>2 DEF ClickInv, FirstSession
      <4>2. 1 \in Session
        BY <1>0, <2>2, BoundAssumption
           DEF PageInv, Room, Accepted, Opened, TypeOK, Session
      <4>. QED
        BY <1>1, <4>1, <4>2 DEF BeforeFirst, FirstSession, FirstDialog, FirstClick,
                                commands, clicking
    <3>3. CASE Opened # 0
      BY <3>1, <3>3 DEF FirstSession
    <3>. QED
      BY <3>2, <3>3
  <2>. QED
    BY <1>2, <2>1, <2>2
<1>. QED
  BY <1>3, <1>4 DEF ClickInv

\* A session that closes takes its dialog with it, and its queue with it.
LEMMA SocketClicks ==
    ASSUME PageInv, ClickInv, NEW s \in Session, Socket(s) \/ CatalogLoaded(s)
    PROVE  ClickInv'
<1>0. TypeOK
  BY DEF PageInv
<1>1. CASE Open(s)
  <2>1. s \in DOMAIN sock /\ sock[s] = "connecting" /\ Opened' = Opened
        /\ \A t \in DOMAIN sock : t # s => sock'[t] = sock[t]
    BY <1>0, <1>1, SocketMoves DEF Open
  <2>2. (InputsOK /\ SentOK)'
    BY <1>1 DEF Open, ClickInv, InputsOK, SentOK, clicking
  <2>3. Opened # 0 /\ (Opened = 1 => s = 1)
    BY <1>0, <2>1 DEF TypeOK, Opened
  <2>4. FirstSession'
    BY <1>1, <2>1, <2>3 DEF Open, ClickInv, FirstSession, FirstDialog, FirstClick, clicking
  <2>. QED
    BY <2>2, <2>4 DEF ClickInv
<1>2. CASE Close(s)
  <2>1. s \in DOMAIN sock /\ Opened' = Opened /\ sock'[s] = "closed"
    BY <1>0, <1>2, SocketMoves DEF Close
  <2>2. (InputsOK /\ SentOK)'
    BY <1>2 DEF Close, ClickInv, InputsOK, SentOK, clicking
  <2>3. Opened # 0 /\ (Opened = 1 => s = 1)
    BY <1>0, <2>1 DEF TypeOK, Opened
  <2>4. FirstSession'
    BY <1>2, <2>1, <2>3 DEF Close, ClickInv, FirstSession, FirstDialog, FirstClick, clicking
  <2>. QED
    BY <2>2, <2>4 DEF ClickInv
<1>3. CASE CatalogLoaded(s)
  <2>1. (InputsOK /\ SentOK)'
    BY <1>3 DEF CatalogLoaded, ClickInv, InputsOK, SentOK, clicking
  <2>2. Opened' = Opened /\ sock' = sock /\ (Opened = 0 => FALSE)
    BY <1>3 DEF CatalogLoaded, ClickInv, FirstSession, BeforeFirst, connection, Opened
  <2>3. FirstSession'
    BY <1>3, <2>2 DEF CatalogLoaded, ClickInv, FirstSession, FirstDialog, FirstClick,
                      clicking
  <2>. QED
    BY <2>1, <2>3 DEF ClickInv
<1>. QED
  BY <1>1, <1>2, <1>3 DEF Socket

\* The dialog opens on a queue that it then shows, and a click asks for it.
LEMMA DialogClicks ==
    ASSUME PageInv, ClickInv,
           FillIn \/ (\E c \in Command : Choose(c))
                  \/ (\E button \in {"run", "cancel"} : Click(button))
    PROVE  ClickInv'
<1>0. TypeOK
  BY DEF PageInv
<1>1. CASE FillIn
  <2>1. inputs \in [cmd : Command, filled : BOOLEAN]
    BY <1>0, <1>1 DEF FillIn, MayFill, TypeOK
  <2>2. inputs'.cmd = inputs.cmd
    BY <1>1, <2>1 DEF FillIn
  <2>3. (InputsOK /\ SentOK)'
    BY <1>1, <2>1, <2>2 DEF FillIn, MayFill, ClickInv, InputsOK, SentOK, clicking
  <2>4. FirstSession'
    BY <1>1, <2>2 DEF FillIn, MayFill, ClickInv, FirstSession, BeforeFirst, FirstDialog,
                      FirstClick, connection, clicking, Opened
  <2>. QED
    BY <2>3, <2>4 DEF ClickInv
<1>2. ASSUME NEW c \in Command, Choose(c)
      PROVE  ClickInv'
  <2>1. (InputsOK /\ SentOK)'
    BY <1>2 DEF Choose, ClickInv, InputsOK, SentOK, clicking
  <2>2. Opened' = Opened /\ sock' = sock
    BY <1>2 DEF Choose, connection, Opened
  <2>3. Opened # 0 /\ catalog \in Session
    BY <1>0, <1>2 DEF Choose, TypeOK, Session, Opened
  <2>4. CASE Opened = 1
    <3>1. catalog = 1 /\ queue[1] = <<>>
      BY <1>2, <2>4 DEF Choose, ClickInv, FirstSession, FirstDialog
    <3>2. queue'[1] = <<c>>
      BY <1>0, <1>2, <2>3, <3>1 DEF Choose, TypeOK
    <3>. QED
      BY <1>2, <2>1, <2>2, <2>4, <3>1, <3>2, NoneAssumption
         DEF Choose, ClickInv, FirstSession, FirstDialog, FirstClick, Closed, clicking
  <2>. QED
    BY <2>1, <2>2, <2>3, <2>4 DEF ClickInv, FirstSession
<1>3. ASSUME NEW button \in {"run", "cancel"}, Click(button)
      PROVE  ClickInv'
  <2>1. dialog.cmd \in Command
    BY <1>3 DEF Click, ClickInv, InputsOK
  <2>2. (InputsOK /\ SentOK)'
    BY <1>3, <2>1 DEF Click, ClickInv, InputsOK, SentOK, commands, Empty
  <2>3. FirstSession'
    BY <1>3 DEF Click, ClickInv, FirstSession, BeforeFirst, FirstDialog, FirstClick,
                connection, commands, Opened
  <2>. QED
    BY <2>2, <2>3 DEF ClickInv
<1>. QED
  BY <1>1, <1>2, <1>3

\* In the first session a click has one handler, which takes what is shown.
LEMMA FirstHandler ==
    ASSUME PageInv, ClickInv, NEW s \in Session, Handler(s), Opened = 1
    PROVE  (FirstDialog /\ FirstClick)'
<1>0. TypeOK /\ FirstDialog /\ FirstClick
  BY DEF PageInv, ClickInv, FirstSession
<1>1. /\ s = 1 /\ dialog # Closed /\ dialog.by = 1 /\ sock[1] = "open"
      /\ queue[1] = <<dialog.cmd>> /\ inputs.cmd = dialog.cmd /\ ran = <<>>
  BY <1>0 DEF Handler, Run, Cancel, FirstDialog, FirstClick
<1>2. queue[1] # <<>> /\ Head(queue[1]) = dialog.cmd /\ Tail(queue[1]) = <<>>
  BY <1>1
<1>3. /\ click' = "none" /\ dialog' = Closed /\ queue'[1] = <<>>
      /\ UNCHANGED <<sock, loading, catalog, asked>>
  BY <1>0, <1>1, <1>2
     DEF Handler, Run, Cancel, Handled, Callbacks, Shifted, connection, TypeOK
<1>4. asked # None => ran' = <<asked>>
  <2>1. CASE Cancel(s)
    BY <1>0, <2>1 DEF Cancel, FirstClick
  <2>2. CASE Run(s)
    BY <1>0, <1>1, <1>2, <2>2 DEF Run, HasArgs, FirstClick
  <2>. QED
    BY <2>1, <2>2 DEF Handler
<1>. QED
  BY <1>0, <1>3, <1>4 DEF FirstDialog, FirstClick

\* A handler that sends drops the inputs, so that no later one sends.
LEMMA HandlerClicks ==
    ASSUME PageInv, ClickInv, NEW s \in Session, Handler(s)
    PROVE  ClickInv'
<1>0. TypeOK /\ InputsOK /\ SentOK /\ FirstSession
  BY DEF PageInv, ClickInv
<1>1. /\ UNCHANGED <<sock, asked>>
      /\ dialog' \in {dialog, Closed}
      /\ inputs' \in {inputs, Empty}
      /\ click' \in {click, "none"}
  BY DEF Handler, Run, Cancel, Handled, Thrown, Callbacks, connection
<1>2. InputsOK'
  <2>1. dialog' # Closed =>
          dialog'.cmd \in Command /\ (inputs' = Empty \/ inputs'.cmd = dialog'.cmd)
    BY <1>0, <1>1 DEF InputsOK
  <2>2. ASSUME click' = "run", inputs'.filled
        PROVE  ran' = ran /\ inputs' = inputs /\ click = "run"
    <3>1. inputs' # Empty
      BY <2>2 DEF Empty
    <3>. QED
      BY <1>1, <2>2, <3>1 DEF Handler, Run, Cancel, Callbacks
  <2>. QED
    BY <1>0, <1>1, <2>1, <2>2 DEF InputsOK
<1>3. SentOK'
  <2>1. CASE ran' = ran
    BY <1>0, <1>1, <2>1 DEF SentOK
  <2>2. CASE ran' # ran
    <3>1. /\ click = "run" /\ HasArgs(Head(queue[s]))
          /\ ran' = Append(ran, Head(queue[s]))
      BY <2>2 DEF Handler, Run, Cancel
    <3>2. Head(queue[s]) = asked /\ asked \in Command /\ ran = <<>>
      BY <1>0, <3>1 DEF HasArgs, InputsOK
    <3>. QED
      BY <1>1, <3>1, <3>2, NoneAssumption DEF SentOK
  <2>. QED
    BY <2>1, <2>2
<1>4. FirstSession'
  <2>1. Opened' = Opened /\ Opened # 0
    BY <1>0, <1>1 DEF Opened, FirstSession, BeforeFirst, Handler, Run, Cancel
  <2>. QED
    BY <2>1, FirstHandler DEF FirstSession
<1>. QED
  BY <1>2, <1>3, <1>4 DEF ClickInv

LEMMA ClickInvHolds == Spec => []ClickInv
<1>1. PageInv /\ ClickInv /\ [Next]_vars => ClickInv'
  <2>1. UNCHANGED vars /\ ClickInv => ClickInv'
    BY DEF vars, connection, commands, clicking, ClickInv, InputsOK, SentOK, FirstSession,
           BeforeFirst, FirstDialog, FirstClick, Opened
  <2>. QED
    BY <2>1, ConnectionClicks, SocketClicks, DialogClicks, HandlerClicks DEF Next
<1>. QED
  BY PageInvHolds, InitClick, <1>1, PTL DEF Spec

\* A click on Run sends what the dialog shows, once or not at all, whatever the
\* handlers of past sessions and their queues do (main.js: the handlers of the
\* two buttons and $commandCallbacks), and in the first session it sends it.
THEOREM ShownCommandRunsHolds == Spec => []ShownCommandRuns
<1>1. ClickInv => ShownCommandRuns
  BY DEF ClickInv, SentOK, FirstSession, FirstClick, ShownCommandRuns
<1>. QED
  BY ClickInvHolds, <1>1, PTL

===============================================================================
