---------------------------- MODULE BrowserClient ----------------------------
(***************************************************************************)
(* The page of the web terminal (static/js/main.js): the connection, and   *)
(* the catalog of commands.                                                *)
(*                                                                         *)
(* A page may have many sessions, one after the other.  Each has a         *)
(* WebSocket, a command queue and handlers of its own for the Run and      *)
(* Cancel buttons of the one dialog: the handlers of past sessions stay    *)
(* and run before the newest, until one throws.  The click handlers of the *)
(* catalog are those of the session whose catalog was loaded last.         *)
(*                                                                         *)
(* A callback runs to its end: the page does nothing else while the        *)
(* handlers of a click run.                                                *)
(***************************************************************************)
EXTENDS Naturals, Sequences

CONSTANTS
    Command,        \* the catalog
    None,           \* no command
    MaxSession,     \* bound: sessions of a page
    MaxQueue        \* bound: commands in a queue

ASSUME NoneAssumption == None \notin Command
ASSUME BoundAssumption == MaxSession \in Nat /\ MaxQueue \in Nat

VARIABLES
    state,      \* as in the code
    post,       \* the POST of a connect, and the key file before it
    sock,       \* the WebSocket of each session
    loading,    \* the sessions that wait for the catalog
    catalog,    \* the session that a click on the catalog speaks to; 0: none
    queue,      \* session -> its commandQueue
    dialog,     \* the command that is shown, and by which session
    inputs,     \* the inputs for arguments: of which command, and filled in?
    click,      \* the button whose handlers run
    at,         \* the session whose handler is next
    asked,      \* the command that the last click on Run asked for,
    ran         \* and the commands that it sent

connection == <<state, post, sock>>
commands   == <<loading, catalog, queue, dialog, inputs>>
clicking   == <<click, at, asked, ran>>
vars       == <<connection, commands, clicking>>

Session == 1..MaxSession
Opened  == Len(sock)            \* the newest session
Closed  == [cmd |-> None, by |-> 0]
Empty   == [cmd |-> None, filled |-> FALSE]

\* Every variable has its type.
TypeOK ==
    /\ state \in {"DISCONNECTED", "CONNECTING", "CONNECTED"}
    /\ post \in {"none", "reading", "unread", "posted"}
    /\ sock \in Seq({"connecting", "open", "closed"}) /\ Opened <= MaxSession
    /\ loading \subseteq Session
    /\ catalog \in 0..MaxSession
    /\ queue \in [Session -> Seq(Command)]
    /\ dialog \in [cmd : Command \cup {None}, by : 0..MaxSession]
    /\ inputs \in [cmd : Command, filled : BOOLEAN] \cup {Empty}
    /\ click \in {"none", "run", "cancel"}
    /\ at \in 1..MaxSession + 1
    /\ asked \in Command \cup {None}
    /\ ran \in Seq(Command)

Init ==
    /\ state = "DISCONNECTED"
    /\ post = "none"
    /\ sock = <<>>
    /\ loading = {}
    /\ catalog = 0
    /\ queue = [s \in Session |-> <<>>]
    /\ dialog = Closed
    /\ inputs = Empty
    /\ click = "none"
    /\ at = 1
    /\ asked = None
    /\ ran = <<>>

-----------------------------------------------------------------------------
(* The connection                                                            *)

\* Mutant: a page that is connecting connects again.
MayConnectTwice == state # "CONNECTED"

MayConnect == state = "DISCONNECTED"

\* connect, by the form (with a key file or not), the URL or a message.  Data
\* that are not valid change nothing.
Connect ==
    /\ click = "none"
    /\ MayConnect
    /\ Opened < MaxSession
    /\ state' = "CONNECTING"
    /\ post' \in {"reading", "posted"}
    /\ UNCHANGED <<sock, commands, clicking>>

\* Without a text of the key, the page says so but does not leave the state.
KeyRead ==
    /\ click = "none"
    /\ post = "reading"
    /\ post' \in {"posted", "unread"}
    /\ UNCHANGED <<state, sock, commands, clicking>>

\* Mutant: the state is not reset.
StateAfterRefusalKept == state

StateAfterRefusal == "DISCONNECTED"

\* ajax_complete_callback, without and with the id of a worker.
Refused ==
    /\ click = "none"
    /\ post = "posted"
    /\ post' = "none"
    /\ state' = StateAfterRefusal
    /\ UNCHANGED <<sock, commands, clicking>>

Accepted ==
    /\ click = "none"
    /\ post = "posted"
    /\ post' = "none"
    /\ sock' = Append(sock, "connecting")
    /\ UNCHANGED <<state, commands, clicking>>

\* onopen: the catalog is asked for.
Open(s) ==
    /\ click = "none"
    /\ s \in DOMAIN sock /\ sock[s] = "connecting"
    /\ sock' = [sock EXCEPT ![s] = "open"]
    /\ state' = "CONNECTED"
    /\ loading' = loading \cup {s}
    /\ UNCHANGED <<post, catalog, queue, dialog, inputs, clicking>>

\* onclose, whether the socket was open or not: what this session shows is
\* hidden, its queue is left as it is.
Close(s) ==
    /\ click = "none"
    /\ s \in DOMAIN sock /\ sock[s] # "closed"
    /\ sock' = [sock EXCEPT ![s] = "closed"]
    /\ state' = "DISCONNECTED"
    /\ dialog' = IF dialog.by = s THEN Closed ELSE dialog
    /\ UNCHANGED <<post, loading, catalog, queue, inputs, clicking>>

-----------------------------------------------------------------------------
(* The catalog and its dialog                                                *)

\* onCatalogsLoaded takes over the clicks on the catalog; done is not called if
\* it could not be loaded.
CatalogLoaded(s) ==
    /\ click = "none"
    /\ s \in loading
    /\ loading' = loading \ {s}
    /\ catalog' \in {catalog, s}
    /\ UNCHANGED <<connection, queue, dialog, inputs, clicking>>

\* The toolbar is shown while a session is open, and the catalog while it has
\* no dialog in front of it.
Choose(c) ==
    /\ click = "none"
    /\ Opened > 0 /\ sock[Opened] = "open"
    /\ catalog # 0 /\ Len(queue[catalog]) < MaxQueue
    /\ dialog = Closed
    /\ queue' = [queue EXCEPT ![catalog] = Append(@, c)]
    /\ dialog' = [cmd |-> c, by |-> catalog]
    /\ inputs' = [cmd |-> c, filled |-> FALSE]
    /\ UNCHANGED <<connection, loading, catalog, clicking>>

\* Mutant: of an empty dialog too.
MayFillAny == dialog # Closed

MayFill == dialog # Closed /\ inputs # Empty

FillIn ==
    /\ click = "none"
    /\ MayFill
    /\ inputs' = [inputs EXCEPT !.filled = TRUE]
    /\ UNCHANGED <<connection, loading, catalog, queue, dialog, clicking>>

Click(button) ==
    /\ click = "none"
    /\ dialog # Closed
    /\ click' = button
    /\ at' = 1
    /\ asked' = IF button = "run" /\ inputs.filled THEN dialog.cmd ELSE None
    /\ ran' = <<>>
    /\ UNCHANGED <<connection, commands>>

\* The next handler, or the end of the click.
Handled(s) ==
    /\ at' = s + 1
    /\ click' = IF s = Opened THEN "none" ELSE click

Thrown(s) == at' = s /\ click' = "none"

\* $commandCallbacks: hides the dialog if this session shows it, and drops the
\* inputs, whoever made them.
Callbacks(s) ==
    /\ dialog' = IF dialog.by = s THEN Closed ELSE dialog
    /\ inputs' = Empty

\* Mutant: the inputs of any command are taken.
HasArgsOfAny(cmd) == inputs.filled

\* getArgs: only inputs of this command count.
HasArgs(cmd) == inputs.filled /\ inputs.cmd = cmd

\* The handler of Run.  With an empty queue it throws, before the dialog is
\* hidden; so does wssh.send if there is no open socket.
Run(s) ==
    /\ click = "run" /\ at = s
    /\ UNCHANGED <<connection, loading, catalog, asked>>
    /\ IF queue[s] = <<>>
       THEN Thrown(s) /\ UNCHANGED <<queue, dialog, inputs, ran>>
       ELSE /\ queue' = [queue EXCEPT ![s] = Tail(@)]
            /\ IF ~ HasArgs(Head(queue[s]))
               THEN Handled(s) /\ Callbacks(s) /\ UNCHANGED ran
               ELSE IF sock[Opened] = "open"
               THEN Handled(s) /\ Callbacks(s) /\ ran' = Append(ran, Head(queue[s]))
               ELSE Thrown(s) /\ UNCHANGED <<dialog, inputs, ran>>

Shifted(q) == Tail(q)

\* The handler of Cancel.  If it throws, Bootstrap (data-bs-dismiss) still hides
\* a dialog of the newest session.
Cancel(s) ==
    /\ click = "cancel" /\ at = s
    /\ UNCHANGED <<connection, loading, catalog, asked, ran>>
    /\ IF queue[s] = <<>>
       THEN /\ Thrown(s)
            /\ dialog' = IF dialog.by = Opened THEN Closed ELSE dialog
            /\ UNCHANGED <<queue, inputs>>
       ELSE /\ queue' = [queue EXCEPT ![s] = Shifted(@)]
            /\ Handled(s) /\ Callbacks(s)

-----------------------------------------------------------------------------

Answered == Refused \/ Accepted

Socket(s) == Open(s) \/ Close(s)

Handler(s) == Run(s) \/ Cancel(s)

Next ==
    \/ Connect \/ KeyRead \/ Answered
    \/ \E s \in Session : Socket(s) \/ CatalogLoaded(s) \/ Handler(s)
    \/ \E c \in Command : Choose(c)
    \/ FillIn
    \/ \E button \in {"run", "cancel"} : Click(button)

Spec == Init /\ [][Next]_vars

\* Files are read, POSTs are answered or fail, a WebSocket opens or fails, and
\* callbacks end; users need not do anything.  Clicks, however many, do not keep
\* the event loop from a callback that is due.
FairSpec ==
    /\ Spec
    /\ SF_vars(KeyRead) /\ SF_vars(Answered)
    /\ \A s \in Session : SF_vars(Socket(s)) /\ WF_vars(Handler(s))

-----------------------------------------------------------------------------
(* Properties *)

Live == {s \in DOMAIN sock : sock[s] # "closed"}

\* The page has one connection at a time, and its state, which only callbacks of
\* the file reader, of the POST and of the socket change, says how far it is:
\* through connects by form, URL and message at any time, refused POSTs, and
\* sockets that close before they open.
OneConnection ==
    /\ state = "CONNECTED" <=> \E s \in Live : sock[s] = "open"
    /\ state = "CONNECTING" <=> post # "none" \/ \E s \in Live : sock[s] = "connecting"
    /\ \A s, t \in Live : s = t
    /\ post # "none" => Live = {}

\* A click on Run sends the command that the dialog shows, with the arguments
\* filled in there, once or not at all, although the handlers of all sessions
\* run and their queues may hold other commands; and in the first session of a
\* page, whatever was cancelled before, it does send it.
ShownCommandRuns ==
    /\ ran \in {<<>>, <<asked>>}
    /\ asked = None => ran = <<>>
    /\ click = "none" /\ Opened = 1 /\ asked # None => ran = <<asked>>

\* A connect ends, in a session or in the form that can be sent again, unless
\* the key file could not be read.
ConnectingEnds ==
    state = "CONNECTING" ~> state # "CONNECTING" \/ post = "unread"

===============================================================================
