----------------------------- MODULE Application -----------------------------
(***************************************************************************)
(* The life of the program's objects: runListen and runConnect             *)
(* (src/main.cpp), TerminalUI::run (src/cli/terminal_ui.cpp) and the       *)
(* signal handler, with the TcpServer that runListen starts.               *)
(*                                                                         *)
(* ChatSession, TcpServer and TerminalUI are local variables of the two    *)
(* functions and are used by other threads: the detached threads of the    *)
(* server, the receive threads, whose callbacks look at `ui`, and the      *)
(* thread that runs the signal handler.  Two threads work for a client:    *)
(*   - the detached one, in addConnection: it looks at running_, enters    *)
(*     the connection into the maps, starts it, sends HELLO and gives up   *)
(*     its reference;                                                      *)
(*   - the receive thread, from the start of the connection on.            *)
(* The session is here no more than whether it runs and whom it has in its *)
(* maps; stop() is taken to return (module ChatSession is about when it    *)
(* does), and what the ping thread erases is erased by stop().             *)
(*                                                                         *)
(* Linux runs the handler on the main thread and then restarts getline();  *)
(* Windows runs it on a thread of its own.  A signal before the handler is *)
(* installed ends the process and is left out.                             *)
(***************************************************************************)
EXTENDS TcpServer

CONSTANTS
  Remote,      \* the connection that runConnect opens
  Modes,       \* which of the two functions may run
  MaxSignals   \* bound: how many signals arrive

ASSUME ApplicationAssumption ==
  /\ Remote \notin Clients
  /\ Modes \subseteq {"listen", "connect"}
  /\ MaxSignals \in Nat

VARIABLES
  mode,        \* which of the two functions runs: never changes
  where,       \* where the main thread is
  life,        \* the objects: not yet constructed, alive or destroyed
  sessRunning, \* ChatSession::running_
  addPc,       \* where the detached thread of a client is
  chat,        \* where the receive thread of a client is
  entered,     \* whose connections are in connections_
  uiRunning,   \* TerminalUI::running_
  uiPtr,       \* whether g_ui_ptr is set
  installed,   \* whether the signal handler is installed
  inHandler,   \* the handler has found g_ui_ptr set and is about to use it
  signals,     \* how many signals have arrived
  stopAsked,   \* history: a stop() came while run() was in its loop
  stragglers,  \* history: the clients whose detached thread had not yet come
               \* back from addConnection when stop() closed the connections
  outlived     \* history: who used an object after its end

uiVars == <<uiRunning, stopAsked>>
signalVars == <<installed, inHandler, signals>>
threadVars == <<addPc, chat, entered>>
mainVars == <<where, life, sessRunning, uiPtr, stragglers>>
appVars == <<mode, mainVars, threadVars, uiVars, signalVars, outlived>>
vars == <<serverVars, appVars>>

Chats == Clients \cup {Remote}
Objects == {"session", "server", "ui"}

Places == {"begin", "server", "add", "makeUi", "publish", "install", "run",
           "loop", "getline", "line", "leave", "unpublish", "serverStop",
           "sessionStop", "sweep", "dropServer", "dropUi", "dropSession",
           "menu"}

AddPcs == {"none", "test", "insert", "start", "hello", "join", "ended"}

\* Type invariant.
TypeOK ==
  /\ ServerTypeOK
  /\ mode \in Modes
  /\ where \in Places
  /\ life \in [Objects -> {"none", "alive", "dead"}]
  /\ addPc \in [Chats -> AddPcs]
  /\ chat \in [Chats -> {"none", "recv", "callback", "ended"}]
  /\ entered \subseteq Chats
  /\ {sessRunning, uiRunning, uiPtr, installed, inHandler, stopAsked}
       \subseteq BOOLEAN
  /\ signals \in 0 .. MaxSignals
  /\ stragglers \subseteq Clients
  /\ outlived \subseteq Chats \cup {"handler"}

Init ==
  /\ ServerInit
  /\ mode \in Modes
  /\ where = "begin"
  /\ life = [o \in Objects |-> "none"]
  /\ sessRunning = FALSE
  /\ addPc = [c \in Chats |-> "none"]
  /\ chat = [c \in Chats |-> "none"]
  /\ entered = {}
  /\ uiRunning = FALSE
  /\ uiPtr = FALSE
  /\ installed = FALSE
  /\ inHandler = FALSE
  /\ signals = 0
  /\ stopAsked = FALSE
  /\ stragglers = {}
  /\ outlived = {}

-----------------------------------------------------------------------------
(* The main thread: from the start to the loop.                            *)

Main(from, to) ==
  /\ where = from
  /\ where' = to
  /\ ~(inHandler /\ platform = "linux")
  /\ UNCHANGED <<mode, inHandler, signals, outlived>>

Construct(objects) ==
  life' = [o \in Objects |-> IF o \in objects THEN "alive" ELSE life[o]]

\* The session is constructed and started: in runConnect once TcpClient has
\* connected.
Open ==
  /\ Main("begin", IF mode = "listen" THEN "server" ELSE "add")
  /\ Construct({"session"})
  /\ sessRunning' = TRUE
  /\ UNCHANGED <<serverVars, threadVars, uiVars, uiPtr, installed, stragglers>>

\* TcpClient::connect throws, or the name is not found: return.
ConnectFails ==
  /\ mode = "connect"
  /\ Main("begin", "menu")
  /\ UNCHANGED <<serverVars, life, sessRunning, threadVars, uiVars, uiPtr,
                 installed, stragglers>>

Serve ==
  /\ Main("server", "makeUi")
  /\ Start
  /\ Construct({"server"})
  /\ UNCHANGED <<sessRunning, threadVars, uiVars, uiPtr, installed, stragglers>>

\* return: the destructors run, and the session stops in its own.
CannotServe ==
  /\ Main("server", "dropSession")
  /\ StartFails
  /\ UNCHANGED <<life, sessRunning, threadVars, uiVars, uiPtr, installed,
                 stragglers>>

\* addConnection on the main thread, before there is a user interface.
AddRemote ==
  /\ Main("add", "makeUi")
  /\ addPc' = [addPc EXCEPT ![Remote] = "ended"]
  /\ chat' = [chat EXCEPT ![Remote] = "recv"]
  /\ entered' = {Remote}
  /\ UNCHANGED <<serverVars, life, sessRunning, uiVars, uiPtr, installed,
                 stragglers>>

\* make_unique, then g_ui_ptr, then the handlers: callbacks may already run.
MakeUi ==
  /\ Main("makeUi", "publish")
  /\ Construct({"ui"})
  /\ UNCHANGED <<serverVars, sessRunning, threadVars, uiVars, uiPtr, installed,
                 stragglers>>

Publish ==
  /\ Main("publish", "install")
  /\ uiPtr' = TRUE
  /\ UNCHANGED <<serverVars, life, sessRunning, threadVars, uiVars, installed,
                 stragglers>>

Install ==
  /\ Main("install", "run")
  /\ installed' = TRUE
  /\ UNCHANGED <<serverVars, life, sessRunning, threadVars, uiVars, uiPtr,
                 stragglers>>

-----------------------------------------------------------------------------
(* TerminalUI::run.                                                        *)

RunStep(from, to) ==
  /\ Main(from, to)
  /\ UNCHANGED <<serverVars, life, sessRunning, threadVars, stopAsked, uiPtr,
                 installed, stragglers>>

\* A stop() that came before this point is lost.
Run ==
  /\ RunStep("run", "loop")
  /\ uiRunning' = TRUE

\* Mutant of AfterStop: the loop waits to be resumed.
WaitsForResume == "loop"

\* Where the loop goes when its condition fails.
AfterStop == "leave"

Loop ==
  /\ RunStep("loop", IF uiRunning THEN "getline" ELSE AfterStop)
  /\ UNCHANGED uiRunning

\* getline() returns an empty line or another one, or fails: end of file, or,
\* on Windows, Ctrl-C.
GetLine ==
  /\ \E to \in {"loop", "line", "leave"} : RunStep("getline", to)
  /\ UNCHANGED uiRunning

\* /quit and /exit leave the loop; another command, or a broadcast, goes on.
HandleLine ==
  /\ \E to \in {"loop", "leave"} : RunStep("line", to)
  /\ UNCHANGED uiRunning

Leave ==
  /\ RunStep("leave", "unpublish")
  /\ uiRunning' = FALSE

-----------------------------------------------------------------------------
(* The main thread: shutdown and the end of the local variables.           *)

EndStep(from, to) ==
  /\ Main(from, to)
  /\ UNCHANGED <<uiVars, installed>>

\* g_ui_ptr = nullptr
Unpublish ==
  /\ EndStep("unpublish",
             IF mode = "listen" THEN "serverStop" ELSE "sessionStop")
  /\ uiPtr' = FALSE
  /\ UNCHANGED <<serverVars, life, sessRunning, threadVars, stragglers>>

\* The steps of TcpServer::stop; the last one goes on.
ServerStop ==
  /\ \/ StopClear /\ EndStep("serverStop", "serverStop")
     \/ StopClose /\ EndStep("serverStop", "serverStop")
     \/ StopJoin /\ EndStep("serverStop", "sessionStop")
  /\ UNCHANGED <<life, sessRunning, threadVars, uiPtr, stragglers>>

\* ChatSession::stop: running_ is cleared ...
SessionStop ==
  /\ EndStep("sessionStop", "sweep")
  /\ sessRunning' = FALSE
  /\ UNCHANGED <<serverVars, life, threadVars, uiPtr, stragglers>>

\* The connections that nobody else has a reference to are destroyed, once
\* their receive threads have ended; the maps are empty.
JoinAll ==
  LET last == {c \in entered : addPc[c] = "ended"}
  IN  /\ \A c \in last : chat[c] # "callback"
      /\ chat' = [c \in Chats |->
                    IF c \in last /\ chat[c] = "recv" THEN "ended" ELSE chat[c]]
      /\ entered' = {}
      /\ UNCHANGED addPc

\* Mutant of CloseAll: the connections are left alone.
CloseNone == UNCHANGED threadVars

\* connections_.clear()
CloseAll == JoinAll

\* ... and then every connection is disconnected and destroyed.
Sweep ==
  /\ EndStep("sweep", "dropServer")
  /\ CloseAll
  /\ stragglers' = {c \in handedOver : addPc[c] # "ended"}
  /\ UNCHANGED <<serverVars, life, sessRunning, uiPtr>>

Destruct(object) == life' = [life EXCEPT ![object] = "dead"]

\* Locals end in the order opposite to that of their declarations.
DropServer ==
  /\ EndStep("dropServer", "dropUi")
  /\ IF mode = "listen" THEN Destruct("server") ELSE UNCHANGED life
  /\ UNCHANGED <<serverVars, sessRunning, threadVars, uiPtr, stragglers>>

DropUi ==
  /\ EndStep("dropUi", "dropSession")
  /\ Destruct("ui")
  /\ UNCHANGED <<serverVars, sessRunning, threadVars, uiPtr, stragglers>>

\* ~ChatSession: stop() returns at once when it ran before, and then the map
\* of the connections is destroyed.
DropSession ==
  /\ EndStep("dropSession", "menu")
  /\ JoinAll
  /\ Destruct("session")
  /\ sessRunning' = FALSE
  /\ UNCHANGED <<serverVars, uiPtr, stragglers>>

MainThread ==
  \/ Open \/ ConnectFails \/ Serve \/ CannotServe \/ AddRemote
  \/ MakeUi \/ Publish \/ Install
  \/ Run \/ Loop \/ HandleLine \/ Leave
  \/ Unpublish \/ ServerStop \/ SessionStop \/ Sweep
  \/ DropServer \/ DropUi \/ DropSession

-----------------------------------------------------------------------------
(* The detached thread of a client: onAccept_ and addConnection.           *)

AddGoto(c, from, to) ==
  /\ addPc[c] = from
  /\ addPc' = [addPc EXCEPT ![c] = to]
  /\ UNCHANGED <<serverVars, mode, mainVars, uiVars, signalVars>>

\* The thread uses an object; after the object's end nothing more is said
\* about the thread.
AddStep(c, from, object, to) ==
  /\ AddGoto(c, from, IF life[object] = "dead" THEN "ended" ELSE to)
  /\ outlived' = IF life[object] = "dead" THEN outlived \cup {c} ELSE outlived

\* onAccept_ is a member of the server.
CallBack(c) ==
  /\ c \in handedOver
  /\ AddStep(c, "none", "server", "test")
  /\ UNCHANGED <<chat, entered>>

TestRunning(c) ==
  /\ AddStep(c, "test", "session", IF sessRunning THEN "insert" ELSE "ended")
  /\ UNCHANGED <<chat, entered>>

Insert(c) ==
  /\ AddStep(c, "insert", "session", "start")
  /\ entered' = IF life["session"] = "dead" THEN entered ELSE entered \cup {c}
  /\ UNCHANGED chat

\* connPtr->start() uses the thread's own reference.
StartConnection(c) ==
  /\ AddGoto(c, "start", "hello")
  /\ chat' = [chat EXCEPT ![c] = "recv"]
  /\ UNCHANGED <<entered, outlived>>

\* It returns, and the reference is given up: the last one, when stop() has
\* been there.
SendHello(c) ==
  /\ AddStep(c, "hello", "session", IF c \in entered THEN "ended" ELSE "join")
  /\ UNCHANGED <<chat, entered>>

\* ~Connection has joined the receive thread.
Joined(c) ==
  /\ AddGoto(c, "join", "ended")
  /\ chat[c] # "callback"
  /\ chat' = [chat EXCEPT ![c] = "ended"]
  /\ UNCHANGED <<entered, outlived>>

AddConnection(c) ==
  TestRunning(c) \/ Insert(c) \/ StartConnection(c) \/ SendHello(c)
    \/ Joined(c)

-----------------------------------------------------------------------------
(* The receive thread of a client.                                         *)

\* It goes on if the object that it uses is still there.
ChatStep(c, from, object, to) ==
  /\ chat[c] = from
  /\ chat' = [chat EXCEPT ![c] = IF life[object] = "dead" THEN "ended" ELSE to]
  /\ outlived' = IF life[object] = "dead" THEN outlived \cup {c} ELSE outlived
  /\ UNCHANGED <<serverVars, mode, mainVars, addPc, entered, signalVars>>

\* onFrame or onDisconnect without a callback into `ui`.
Handle(c) ==
  /\ \E to \in {"recv", "ended"} : ChatStep(c, "recv", "session", to)
  /\ UNCHANGED uiVars

\* A callback looks at `ui`: there may be none yet.  After the callback for
\* the disconnect the thread ends.
LookAtUi(c) ==
  /\ \E to \in {"recv", "ended"} :
       ChatStep(c, "recv", "ui", IF life["ui"] = "none" THEN to ELSE "callback")
  /\ UNCHANGED uiVars

\* TerminalUI::stop
StopUi ==
  /\ uiRunning' = FALSE
  /\ stopAsked' = (stopAsked \/ uiRunning)

\* It prints, and on the disconnect in runConnect it stops the interface.
UseUi(c) ==
  \/ ChatStep(c, "callback", "ui", "recv") /\ UNCHANGED uiVars
  \/ /\ ChatStep(c, "callback", "ui", "ended")
     /\ IF mode = "connect" THEN StopUi ELSE UNCHANGED uiVars

ChatThread(c) == Handle(c) \/ LookAtUi(c) \/ UseUi(c)

-----------------------------------------------------------------------------
(* Signals.                                                                *)

\* The handler looks at g_ui_ptr.  The handlers stay when the functions have
\* returned; g_shutdown is never read.
Signal ==
  /\ installed
  /\ ~inHandler
  /\ signals < MaxSignals
  /\ signals' = signals + 1
  /\ inHandler' = uiPtr
  /\ UNCHANGED <<serverVars, mode, mainVars, threadVars, uiVars, installed,
                 outlived>>

HandlerStop ==
  /\ inHandler
  /\ inHandler' = FALSE
  /\ IF life["ui"] = "dead"
       THEN outlived' = outlived \cup {"handler"} /\ UNCHANGED uiVars
       ELSE StopUi /\ UNCHANGED outlived
  /\ UNCHANGED <<serverVars, mode, mainVars, threadVars, installed, signals>>

-----------------------------------------------------------------------------
Next ==
  \/ MainThread
  \/ GetLine
  \/ ServerNext /\ UNCHANGED appVars
  \/ \E c \in Chats : CallBack(c) \/ AddConnection(c) \/ ChatThread(c)
  \/ Signal
  \/ HandlerStop

Spec == Init /\ [][Next]_vars

\* Threads are scheduled; the user need not type, clients need not come, and
\* signals and failures need not happen.
FairSpec ==
  /\ Spec
  /\ WF_vars(MainThread)
  /\ WF_vars(HandlerStop)
  /\ WF_vars(AcceptThread /\ UNCHANGED appVars)
  /\ \A c \in Chats : WF_vars(AddConnection(c)) /\ WF_vars(UseUi(c))

-----------------------------------------------------------------------------
(* Properties.                                                             *)

\* The only threads that use the session, the server or the user interface
\* after their end are those of clients for which addConnection had not
\* returned when stop() closed the connections, wherever in it the detached
\* thread was, and the signal handler where it has a thread of its own:
\* runListen waits for all the other threads, and g_ui_ptr is cleared before
\* the user interface ends.
ScopeRespected ==
  outlived \subseteq stragglers \cup {h \in {"handler"} : platform = "windows"}

\* A stop() during the loop ends it, unless getline() waits for ever.
StopEndsRun ==
  stopAsked ~> (where \notin {"loop", "getline", "line", "leave"}
                \/ [](where = "getline"))

=============================================================================
