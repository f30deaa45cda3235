-------------------------- MODULE ApplicationProofs --------------------------
(***************************************************************************)
(* Proofs about Application and the TcpServer in it, for any number of     *)
(* clients, interrupts, errors and signals, on both platforms and in both  *)
(* modes.                                                                  *)
(***************************************************************************)
EXTENDS Application, TLAPS

-----------------------------------------------------------------------------
(* The inductive invariant.                                                *)

\* The accept thread holds a client exactly between accept() and the thread
\* or the close that it gives it, a client is accepted once, the accept thread
\* is started by start(), and stop() gets through its join only when the accept
\* thread has ended.
ServerInv ==
  /\ NoClientLost
  /\ backlog \cap accepted = {}
  /\ client # {} => acceptPc \in {"test", "spawn", "refuse"}
  /\ serverPc = "start" => acceptPc = "none"
  /\ serverPc = "stopped" => acceptPc = "exited"

\* From here on the server has stopped, or was never started.
Late == {"sessionStop", "sweep", "dropServer", "dropUi", "dropSession", "menu"}

\* The main thread is past the sweep over the connections, or there were none.
Swept == {"dropServer", "dropUi", "dropSession", "menu"}

\* Where the main thread is says what the accept thread does and which objects
\* have ended.
PlaceInv ==
  /\ mode = "connect" => where \notin {"server", "serverStop"}
  /\ mode = "connect" \/ where \in {"begin", "server", "add"} =>
       acceptPc = "none"
  /\ where \in Late => acceptPc \in {"none", "exited"}
  /\ acceptPc = "none" => handedOver = {}
  /\ life["server"] = "dead" => where \in {"dropUi", "dropSession", "menu"}
  /\ life["ui"] = "dead" => where \in {"dropSession", "menu"}
  /\ life["session"] = "dead" => where = "menu"

\* g_ui_ptr is set only while the user interface lives, and a handler on the
\* main thread keeps that thread from clearing it.
HandlerInv ==
  /\ uiPtr => where \in {"install", "run", "loop", "getline", "line", "leave",
                         "unpublish"}
  /\ inHandler /\ platform = "linux" => uiPtr

\* A client has threads only when it was handed over, and a receive thread only
\* when the detached one has started it.  Until the sweep, whoever talks in the
\* session and is no longer being added is in the map that the sweep empties;
\* after it only the stragglers have a thread that may go on.
ThreadInv ==
  /\ \A c \in Clients : addPc[c] # "none" => c \in handedOver
  /\ \A c \in Chats :
       chat[c] # "none" => addPc[c] \in {"hello", "join", "ended"}
  /\ addPc[Remote] \in {"none", "ended"}
  /\ where \in {"begin", "server", "add"} => addPc[Remote] = "none"
  /\ where \notin Swept =>
       /\ stragglers = {}
       /\ \A c \in Chats :
            chat[c] \in {"recv", "callback"} /\ addPc[c] = "ended"
              => c \in entered
  /\ where \in Swept =>
       /\ \A c \in handedOver :
            addPc[c] # "ended" \/ chat[c] \in {"recv", "callback"}
              => c \in stragglers
       /\ chat[Remote] \in {"none", "ended"}

IInv ==
  TypeOK /\ ServerInv /\ PlaceInv /\ HandlerInv /\ ThreadInv /\ ScopeRespected

-----------------------------------------------------------------------------
(* The server.                                                             *)

\* What can change the state of the server.
ServerAction ==
  Start \/ StartFails \/ StopClear \/ StopClose \/ StopJoin \/ ServerNext

\* Every step of the program is a step of the server or leaves it alone.
LEMMA ServerFrame == [Next]_vars => ServerAction \/ UNCHANGED serverVars
<1> SUFFICES ASSUME [Next]_vars PROVE ServerAction \/ UNCHANGED serverVars
  OBVIOUS
<1>1. CASE UNCHANGED vars
  BY <1>1 DEF vars
<1>2. CASE MainThread
  BY <1>2 DEF MainThread, Open, ConnectFails, Serve, CannotServe, AddRemote,
              MakeUi, Publish, Install, RunStep, Run, Loop, HandleLine, Leave,
              Unpublish, ServerStop, SessionStop, Sweep, DropServer, DropUi,
              DropSession, ServerAction
<1>3. CASE GetLine
  BY <1>3 DEF GetLine, RunStep
<1>4. CASE ServerNext
  BY <1>4 DEF ServerAction
<1>5. ASSUME NEW c \in Chats, CallBack(c) \/ AddConnection(c) \/ ChatThread(c)
      PROVE  UNCHANGED serverVars
  BY <1>5 DEF CallBack, AddConnection, TestRunning, Insert, StartConnection,
              SendHello, Joined, AddStep, AddGoto, ChatThread, Handle,
              LookAtUi, UseUi, ChatStep
<1>6. CASE Signal \/ HandlerStop
  BY <1>6 DEF Signal, HandlerStop
<1> QED
  BY <1>1, <1>2, <1>3, <1>4, <1>5, <1>6 DEF Next

\* The steps of the server keep its types.
LEMMA ServerTypeStep ==
  ASSUME ServerTypeOK, ServerAction \/ UNCHANGED serverVars
  PROVE  ServerTypeOK'
<1> USE ServerAssumption
        DEF ServerTypeOK, AcceptPcs, ServerPcs, serverVars, ownerVars,
            clientVars, faultVars, acceptVars, ServerGoto, AcceptGoto,
            QueueAfter
<1>0. CASE UNCHANGED serverVars
  BY <1>0
<1>1. Start => ServerTypeOK'
  BY DEF Start
<1>2. StartFails => ServerTypeOK'
  BY DEF StartFails
<1>3. StopClear => ServerTypeOK'
  BY DEF StopClear
<1>4. StopClose => ServerTypeOK'
  BY DEF StopClose
<1>5. StopJoin => ServerTypeOK'
  BY DEF StopJoin
<1>6. LoopTest => ServerTypeOK'
  BY DEF LoopTest
<1>7. AcceptCall => ServerTypeOK'
  BY DEF AcceptCall
<1>8. \A c \in Clients : Accepted(c) => ServerTypeOK'
  BY DEF Accepted
<1>9. AcceptClosed => ServerTypeOK'
  BY DEF AcceptClosed
<1>10. SecondTest => ServerTypeOK'
  BY DEF SecondTest
<1>11. Spawn => ServerTypeOK'
  BY DEF Spawn
<1>12. Refuse => ServerTypeOK'
  BY DEF Refuse, Refused
<1>13. AcceptInterrupted => ServerTypeOK'
  BY DEF AcceptInterrupted, AfterInterrupt
<1>14. AcceptError => ServerTypeOK'
  BY DEF AcceptError
<1>15. \A c \in Clients : Connect(c) => ServerTypeOK'
  BY DEF Connect
<1> HIDE DEF ServerTypeOK
<1> QED
  BY <1>0, <1>1, <1>2, <1>3, <1>4, <1>5, <1>6, <1>7, <1>8, <1>9, <1>10, <1>11,
     <1>12, <1>13, <1>14, <1>15 DEF ServerAction, ServerNext, AcceptThread

\* The steps of the server keep track of every client.
LEMMA ServerStep ==
  ASSUME ServerTypeOK, ServerInv, ServerAction \/ UNCHANGED serverVars
  PROVE  ServerInv'
<1> USE DEF ServerInv, NoClientLost, serverVars, ownerVars,
            clientVars, faultVars, acceptVars, ServerGoto, AcceptGoto,
            QueueAfter
<1>0. CASE UNCHANGED serverVars
  BY <1>0
<1>1. Start => ServerInv'
  BY DEF Start
<1>2. StartFails => ServerInv'
  BY DEF StartFails
<1>3. StopClear => ServerInv'
  BY DEF StopClear
<1>4. StopClose => ServerInv'
  BY DEF StopClose
<1>5. StopJoin => ServerInv'
  BY DEF StopJoin
<1>6. LoopTest => ServerInv'
  BY DEF LoopTest
<1>7. AcceptCall => ServerInv'
  BY DEF AcceptCall
<1>8. \A c \in Clients : Accepted(c) => ServerInv'
  BY DEF Accepted
<1>9. AcceptClosed => ServerInv'
  BY DEF AcceptClosed
<1>10. SecondTest => ServerInv'
  BY DEF SecondTest
<1>11. Spawn => ServerInv'
  BY DEF Spawn
<1>12. Refuse => ServerInv'
  BY DEF Refuse, Refused
<1>13. AcceptInterrupted => ServerInv'
  BY DEF AcceptInterrupted, AfterInterrupt
<1>14. AcceptError => ServerInv'
  BY DEF AcceptError
<1>15. \A c \in Clients : Connect(c) => ServerInv'
  BY DEF Connect
<1> HIDE DEF ServerInv
<1> QED
  BY <1>0, <1>1, <1>2, <1>3, <1>4, <1>5, <1>6, <1>7, <1>8, <1>9, <1>10, <1>11,
     <1>12, <1>13, <1>14, <1>15 DEF ServerAction, ServerNext, AcceptThread

-----------------------------------------------------------------------------
(* The program around it.                                                  *)

\* The types of the program's own state.
AppTypeOK ==
  /\ mode \in Modes
  /\ where \in Places
  /\ life \in [Objects -> {"none", "alive", "dead"}]
  /\ addPc \in [Chats -> AddPcs]
  /\ chat \in [Chats -> {"none", "recv", "callback", "ended"}]
  /\ entered \subseteq Chats
  /\ sessRunning \in BOOLEAN
  /\ uiRunning \in BOOLEAN
  /\ uiPtr \in BOOLEAN
  /\ installed \in BOOLEAN
  /\ inHandler \in BOOLEAN
  /\ stopAsked \in BOOLEAN
  /\ signals \in 0 .. MaxSignals
  /\ stragglers \subseteq Clients
  /\ outlived \subseteq Chats \cup {"handler"}

\* The type invariant has a part for the server and one for the rest.
LEMMA TypeParts == TypeOK <=> ServerTypeOK /\ AppTypeOK
BY DEF TypeOK, AppTypeOK

\* Every step keeps the types of the program's own state.
LEMMA AppTypeStep ==
  ASSUME AppTypeOK, ServerTypeOK, [Next]_vars
  PROVE  AppTypeOK'
<1> USE ApplicationAssumption
        DEF AppTypeOK, Places, AddPcs, Objects, Chats, uiVars, signalVars,
            mainVars, threadVars, appVars
<1>0. CASE UNCHANGED vars
  BY <1>0 DEF vars, serverVars, ownerVars, clientVars, acceptVars, faultVars
<1>1. CASE Open
  BY <1>1 DEF Open, Main, Construct
<1>2. CASE ConnectFails
  BY <1>2 DEF ConnectFails, Main
<1>3. CASE Serve
  BY <1>3 DEF Serve, Main, Construct, Start, ServerGoto
<1>4. CASE CannotServe
  BY <1>4 DEF CannotServe, Main, StartFails, ServerGoto
<1>5. CASE AddRemote
  BY <1>5 DEF AddRemote, Main
<1>6. CASE MakeUi
  BY <1>6 DEF MakeUi, Main, Construct
<1>7. CASE Publish
  BY <1>7 DEF Publish, Main
<1>8. CASE Install
  BY <1>8 DEF Install, Main
<1>9. CASE Run
  BY <1>9 DEF Run, RunStep, Main
<1>10. CASE Loop
  BY <1>10 DEF Loop, RunStep, Main, AfterStop
<1>11. CASE HandleLine
  BY <1>11 DEF HandleLine, RunStep, Main
<1>12. CASE Leave
  BY <1>12 DEF Leave, RunStep, Main
<1>13. CASE Unpublish
  BY <1>13 DEF Unpublish, EndStep, Main
<1>14. CASE ServerStop
  BY <1>14 DEF ServerStop, EndStep, Main, StopClear, StopClose, StopJoin,
               ServerGoto
<1>15. CASE SessionStop
  BY <1>15 DEF SessionStop, EndStep, Main
<1>16. CASE Sweep
  BY <1>16 DEF Sweep, EndStep, Main, CloseAll, JoinAll, ServerTypeOK
<1>17. CASE DropServer
  BY <1>17 DEF DropServer, EndStep, Main, Destruct
<1>18. CASE DropUi
  BY <1>18 DEF DropUi, EndStep, Main, Destruct
<1>19. CASE DropSession
  BY <1>19 DEF DropSession, EndStep, Main, JoinAll, Destruct
<1>20. CASE GetLine
  BY <1>20 DEF GetLine, RunStep, Main
<1>21. CASE ServerNext /\ UNCHANGED appVars
  BY <1>21
<1>22. ASSUME NEW c \in Chats, CallBack(c) PROVE AppTypeOK'
  BY <1>22 DEF CallBack, AddStep, AddGoto
<1>23. ASSUME NEW c \in Chats, TestRunning(c) PROVE AppTypeOK'
  BY <1>23 DEF TestRunning, AddStep, AddGoto
<1>24. ASSUME NEW c \in Chats, Insert(c) PROVE AppTypeOK'
  BY <1>24 DEF Insert, AddStep, AddGoto
<1>25. ASSUME NEW c \in Chats, StartConnection(c) PROVE AppTypeOK'
  BY <1>25 DEF StartConnection, AddGoto
<1>26. ASSUME NEW c \in Chats, SendHello(c) PROVE AppTypeOK'
  BY <1>26 DEF SendHello, AddStep, AddGoto
<1>27. ASSUME NEW c \in Chats, Joined(c) PROVE AppTypeOK'
  BY <1>27 DEF Joined, AddGoto
<1>28. ASSUME NEW c \in Chats, Handle(c) PROVE AppTypeOK'
  BY <1>28 DEF Handle, ChatStep
<1>29. ASSUME NEW c \in Chats, LookAtUi(c) PROVE AppTypeOK'
  BY <1>29 DEF LookAtUi, ChatStep
<1>30. ASSUME NEW c \in Chats, UseUi(c) PROVE AppTypeOK'
  <2>1. CASE ChatStep(c, "callback", "ui", "recv") /\ UNCHANGED uiVars
    BY <2>1 DEF ChatStep
  <2>2. CASE ChatStep(c, "callback", "ui", "ended") /\ UNCHANGED uiVars
    BY <2>2 DEF ChatStep
  <2>3. CASE ChatStep(c, "callback", "ui", "ended") /\ StopUi
    <3>1. uiRunning' \in BOOLEAN /\ stopAsked' \in BOOLEAN
      BY <2>3 DEF StopUi
    <3> QED
      BY <2>3, <3>1 DEF ChatStep
  <2> QED
    BY <1>30, <2>1, <2>2, <2>3 DEF UseUi
<1>31. CASE Signal
  BY <1>31 DEF Signal
<1>32. CASE HandlerStop
  BY <1>32 DEF HandlerStop, StopUi
<1> HIDE DEF AppTypeOK
<1> QED
  BY <1>0, <1>1, <1>2, <1>3, <1>4, <1>5, <1>6, <1>7, <1>8, <1>9, <1>10,
     <1>11, <1>12, <1>13, <1>14, <1>15, <1>16, <1>17, <1>18, <1>19, <1>20,
     <1>21, <1>22, <1>23, <1>24, <1>25, <1>26, <1>27, <1>28, <1>29, <1>30,
     <1>31, <1>32 DEF Next, MainThread, AddConnection, ChatThread

\* An accept thread that has not begun or has ended does nothing, and none
\* takes a client back.
LEMMA AcceptStays ==
  ASSUME ServerNext
  PROVE  /\ acceptPc \in {"none", "exited"}
              => acceptPc' = acceptPc /\ handedOver' = handedOver
         /\ handedOver \subseteq handedOver'
         /\ platform' = platform
         /\ acceptPc' # "none" \/ acceptPc = "none"
BY DEF ServerNext, AcceptThread, LoopTest, AcceptCall, Accepted, AcceptClosed,
       SecondTest, Spawn, Refuse, AcceptInterrupted, AfterInterrupt,
       AcceptError, Connect, AcceptGoto, acceptVars, clientVars

\* Every step keeps the main thread in step with the accept thread and with
\* the objects.
LEMMA PlaceStep ==
  ASSUME TypeOK, ServerInv, PlaceInv, [Next]_vars
  PROVE  PlaceInv'
<1> USE DEF PlaceInv, Late, Objects, uiVars, signalVars, mainVars, threadVars,
            appVars, serverVars, ownerVars, clientVars, acceptVars, faultVars
<1>0. CASE UNCHANGED vars
  BY <1>0 DEF vars
<1>1. CASE Open
  BY <1>1 DEF Open, Main, Construct
<1>2. CASE ConnectFails
  BY <1>2 DEF ConnectFails, Main
<1>3. CASE Serve
  BY <1>3 DEF Serve, Main, Construct, Start, ServerGoto
<1>4. CASE CannotServe
  BY <1>4 DEF CannotServe, Main, StartFails, ServerGoto
<1>5. CASE AddRemote
  BY <1>5 DEF AddRemote, Main
<1>6. CASE MakeUi
  BY <1>6 DEF MakeUi, Main, Construct
<1>7. CASE Publish
  BY <1>7 DEF Publish, Main
<1>8. CASE Install
  BY <1>8 DEF Install, Main
<1>9. CASE Run
  BY <1>9 DEF Run, RunStep, Main
<1>10. CASE Loop
  BY <1>10 DEF Loop, RunStep, Main, AfterStop
<1>11. CASE HandleLine
  BY <1>11 DEF HandleLine, RunStep, Main
<1>12. CASE Leave
  BY <1>12 DEF Leave, RunStep, Main
<1>13. CASE Unpublish
  BY <1>13, ApplicationAssumption DEF Unpublish, EndStep, Main,
               TypeOK
<1>14. CASE ServerStop
  BY <1>14 DEF ServerStop, EndStep, Main, StopClear, StopClose, StopJoin,
               ServerGoto
<1>15. CASE SessionStop
  BY <1>15 DEF SessionStop, EndStep, Main
<1>16. CASE Sweep
  BY <1>16 DEF Sweep, EndStep, Main, CloseAll, JoinAll
<1>17. CASE DropServer
  BY <1>17 DEF DropServer, EndStep, Main, Destruct, TypeOK
<1>18. CASE DropUi
  BY <1>18 DEF DropUi, EndStep, Main, Destruct
<1>19. CASE DropSession
  BY <1>19 DEF DropSession, EndStep, Main, JoinAll, Destruct
<1>20. CASE GetLine
  BY <1>20 DEF GetLine, RunStep, Main
<1>21. CASE ServerNext /\ UNCHANGED appVars
  BY <1>21, AcceptStays
<1>22. ASSUME NEW c \in Chats, CallBack(c) PROVE PlaceInv'
  BY <1>22 DEF CallBack, AddStep, AddGoto
<1>23. ASSUME NEW c \in Chats, TestRunning(c) PROVE PlaceInv'
  BY <1>23 DEF TestRunning, AddStep, AddGoto
<1>24. ASSUME NEW c \in Chats, Insert(c) PROVE PlaceInv'
  BY <1>24 DEF Insert, AddStep, AddGoto
<1>25. ASSUME NEW c \in Chats, StartConnection(c) PROVE PlaceInv'
  BY <1>25 DEF StartConnection, AddGoto
<1>26. ASSUME NEW c \in Chats, SendHello(c) PROVE PlaceInv'
  BY <1>26 DEF SendHello, AddStep, AddGoto
<1>27. ASSUME NEW c \in Chats, Joined(c) PROVE PlaceInv'
  BY <1>27 DEF Joined, AddGoto
<1>28. ASSUME NEW c \in Chats, Handle(c) PROVE PlaceInv'
  BY <1>28 DEF Handle, ChatStep
<1>29. ASSUME NEW c \in Chats, LookAtUi(c) PROVE PlaceInv'
  BY <1>29 DEF LookAtUi, ChatStep
<1>30. ASSUME NEW c \in Chats, UseUi(c) PROVE PlaceInv'
  BY <1>30 DEF UseUi, ChatStep, StopUi
<1>31. CASE Signal
  BY <1>31 DEF Signal
<1>32. CASE HandlerStop
  BY <1>32 DEF HandlerStop, StopUi
<1> HIDE DEF PlaceInv
<1> QED
  BY <1>0, <1>1, <1>2, <1>3, <1>4, <1>5, <1>6, <1>7, <1>8, <1>9, <1>10,
     <1>11, <1>12, <1>13, <1>14, <1>15, <1>16, <1>17, <1>18, <1>19, <1>20,
     <1>21, <1>22, <1>23, <1>24, <1>25, <1>26, <1>27, <1>28, <1>29, <1>30,
     <1>31, <1>32 DEF Next, MainThread, AddConnection, ChatThread

\* Every step keeps g_ui_ptr valid for a handler on the main thread.
LEMMA HandlerStep ==
  ASSUME TypeOK, HandlerInv, [Next]_vars
  PROVE  HandlerInv'
<1> USE DEF HandlerInv, uiVars, signalVars, mainVars, threadVars,
            appVars, serverVars, ownerVars, clientVars, acceptVars, faultVars
<1>0. CASE UNCHANGED vars
  BY <1>0 DEF vars
<1>1. CASE Open
  BY <1>1 DEF Open, Main, Construct
<1>2. CASE ConnectFails
  BY <1>2 DEF ConnectFails, Main
<1>3. CASE Serve
  BY <1>3 DEF Serve, Main, Construct, Start, ServerGoto
<1>4. CASE CannotServe
  BY <1>4 DEF CannotServe, Main, StartFails, ServerGoto
<1>5. CASE AddRemote
  BY <1>5 DEF AddRemote, Main
<1>6. CASE MakeUi
  BY <1>6 DEF MakeUi, Main, Construct
<1>7. CASE Publish
  BY <1>7 DEF Publish, Main
<1>8. CASE Install
  BY <1>8 DEF Install, Main
<1>9. CASE Run
  BY <1>9 DEF Run, RunStep, Main
<1>10. CASE Loop
  BY <1>10 DEF Loop, RunStep, Main, AfterStop
<1>11. CASE HandleLine
  BY <1>11 DEF HandleLine, RunStep, Main
<1>12. CASE Leave
  BY <1>12 DEF Leave, RunStep, Main
<1>13. CASE Unpublish
  BY <1>13 DEF Unpublish, EndStep, Main
<1>14. CASE ServerStop
  BY <1>14 DEF ServerStop, EndStep, Main, StopClear, StopClose, StopJoin,
               ServerGoto
<1>15. CASE SessionStop
  BY <1>15 DEF SessionStop, EndStep, Main
<1>16. CASE Sweep
  BY <1>16 DEF Sweep, EndStep, Main, CloseAll, JoinAll
<1>17. CASE DropServer
  BY <1>17 DEF DropServer, EndStep, Main, Destruct
<1>18. CASE DropUi
  BY <1>18 DEF DropUi, EndStep, Main, Destruct
<1>19. CASE DropSession
  BY <1>19 DEF DropSession, EndStep, Main, JoinAll, Destruct
<1>20. CASE GetLine
  BY <1>20 DEF GetLine, RunStep, Main
<1>21. CASE ServerNext /\ UNCHANGED appVars
  BY <1>21, AcceptStays
<1>22. ASSUME NEW c \in Chats, CallBack(c) PROVE HandlerInv'
  BY <1>22 DEF CallBack, AddStep, AddGoto
<1>23. ASSUME NEW c \in Chats, TestRunning(c) PROVE HandlerInv'
  BY <1>23 DEF TestRunning, AddStep, AddGoto
<1>24. ASSUME NEW c \in Chats, Insert(c) PROVE HandlerInv'
  BY <1>24 DEF Insert, AddStep, AddGoto
<1>25. ASSUME NEW c \in Chats, StartConnection(c) PROVE HandlerInv'
  BY <1>25 DEF StartConnection, AddGoto
<1>26. ASSUME NEW c \in Chats, SendHello(c) PROVE HandlerInv'
  BY <1>26 DEF SendHello, AddStep, AddGoto
<1>27. ASSUME NEW c \in Chats, Joined(c) PROVE HandlerInv'
  BY <1>27 DEF Joined, AddGoto
<1>28. ASSUME NEW c \in Chats, Handle(c) PROVE HandlerInv'
  BY <1>28 DEF Handle, ChatStep
<1>29. ASSUME NEW c \in Chats, LookAtUi(c) PROVE HandlerInv'
  BY <1>29 DEF LookAtUi, ChatStep
<1>30. ASSUME NEW c \in Chats, UseUi(c) PROVE HandlerInv'
  BY <1>30 DEF UseUi, ChatStep, StopUi
<1>31. CASE Signal
  BY <1>31 DEF Signal
<1>32. CASE HandlerStop
  BY <1>32 DEF HandlerStop, StopUi
<1> HIDE DEF HandlerInv
<1> QED
  BY <1>0, <1>1, <1>2, <1>3, <1>4, <1>5, <1>6, <1>7, <1>8, <1>9, <1>10,
     <1>11, <1>12, <1>13, <1>14, <1>15, <1>16, <1>17, <1>18, <1>19, <1>20,
     <1>21, <1>22, <1>23, <1>24, <1>25, <1>26, <1>27, <1>28, <1>29, <1>30,
     <1>31, <1>32 DEF Next, MainThread, AddConnection, ChatThread

\* Every step keeps the session's maps and the stragglers complete: nobody else
\* has a thread that goes on.
LEMMA ThreadStep ==
  ASSUME TypeOK, ServerInv, PlaceInv, ThreadInv, [Next]_vars
  PROVE  ThreadInv'
<1> USE ApplicationAssumption
    DEF ThreadInv, Swept, Chats, uiVars, signalVars, mainVars, threadVars,
            appVars, serverVars, ownerVars, clientVars, acceptVars, faultVars
<1>0. CASE UNCHANGED vars
  BY <1>0 DEF vars
<1>1. CASE Open
  BY <1>1 DEF Open, Main, Construct
<1>2. CASE ConnectFails
  BY <1>2 DEF ConnectFails, Main,
               PlaceInv, TypeOK, ServerTypeOK
<1>3. CASE Serve
  BY <1>3 DEF Serve, Main, Construct, Start, ServerGoto
<1>4. CASE CannotServe
  BY <1>4 DEF CannotServe, Main, StartFails, ServerGoto,
               PlaceInv, TypeOK, ServerTypeOK
<1>5. CASE AddRemote
  <2>1. \A c \in Clients : addPc[c] = "none" /\ chat[c] = "none"
    BY <1>5 DEF AddRemote, Main, PlaceInv
  <2>2. \A c \in Clients : addPc'[c] = addPc[c] /\ chat'[c] = chat[c]
    BY <1>5 DEF AddRemote, TypeOK
  <2>3. /\ addPc'[Remote] = "ended" /\ chat'[Remote] = "recv"
        /\ entered' = {Remote}
    BY <1>5 DEF AddRemote, TypeOK
  <2>4. /\ where = "add" /\ where' = "makeUi"
        /\ UNCHANGED <<handedOver, stragglers>>
    BY <1>5 DEF AddRemote, Main
  <2> QED
    BY <2>1, <2>2, <2>3, <2>4
<1>6. CASE MakeUi
  BY <1>6 DEF MakeUi, Main, Construct
<1>7. CASE Publish
  BY <1>7 DEF Publish, Main
<1>8. CASE Install
  BY <1>8 DEF Install, Main
<1>9. CASE Run
  BY <1>9 DEF Run, RunStep, Main
<1>10. CASE Loop
  BY <1>10 DEF Loop, RunStep, Main, AfterStop
<1>11. CASE HandleLine
  BY <1>11 DEF HandleLine, RunStep, Main
<1>12. CASE Leave
  BY <1>12 DEF Leave, RunStep, Main
<1>13. CASE Unpublish
  BY <1>13 DEF Unpublish, EndStep, Main
<1>14. CASE ServerStop
  BY <1>14 DEF ServerStop, EndStep, Main, StopClear, StopClose, StopJoin,
               ServerGoto
<1>15. CASE SessionStop
  BY <1>15 DEF SessionStop, EndStep, Main
<1>16. CASE Sweep
  BY <1>16 DEF Sweep, EndStep, Main, CloseAll, JoinAll,
               PlaceInv, TypeOK, ServerTypeOK
<1>17. CASE DropServer
  BY <1>17 DEF DropServer, EndStep, Main, Destruct
<1>18. CASE DropUi
  BY <1>18 DEF DropUi, EndStep, Main, Destruct
<1>19. CASE DropSession
  BY <1>19 DEF DropSession, EndStep, Main, JoinAll, Destruct,
               PlaceInv, TypeOK, ServerTypeOK
<1>20. CASE GetLine
  BY <1>20 DEF GetLine, RunStep, Main
<1>21. CASE ServerNext /\ UNCHANGED appVars
  BY <1>21, AcceptStays DEF PlaceInv, Late
<1>22. ASSUME NEW c \in Chats, CallBack(c) PROVE ThreadInv'
  BY <1>22 DEF CallBack, AddStep, AddGoto, PlaceInv, TypeOK,
               ServerTypeOK
<1>23. ASSUME NEW c \in Chats, TestRunning(c) PROVE ThreadInv'
  BY <1>23 DEF TestRunning, AddStep, AddGoto, PlaceInv, TypeOK,
               ServerTypeOK
<1>24. ASSUME NEW c \in Chats, Insert(c) PROVE ThreadInv'
  BY <1>24 DEF Insert, AddStep, AddGoto, PlaceInv, TypeOK,
               ServerTypeOK
<1>25. ASSUME NEW c \in Chats, StartConnection(c) PROVE ThreadInv'
  BY <1>25 DEF StartConnection, AddGoto, PlaceInv, TypeOK,
               ServerTypeOK
<1>26. ASSUME NEW c \in Chats, SendHello(c) PROVE ThreadInv'
  BY <1>26 DEF SendHello, AddStep, AddGoto, PlaceInv, TypeOK,
               ServerTypeOK
<1>27. ASSUME NEW c \in Chats, Joined(c) PROVE ThreadInv'
  BY <1>27 DEF Joined, AddGoto, PlaceInv, TypeOK,
               ServerTypeOK
<1>28. ASSUME NEW c \in Chats, Handle(c) PROVE ThreadInv'
  BY <1>28 DEF Handle, ChatStep, PlaceInv, TypeOK,
               ServerTypeOK
<1>29. ASSUME NEW c \in Chats, LookAtUi(c) PROVE ThreadInv'
  BY <1>29 DEF LookAtUi, ChatStep, PlaceInv, TypeOK,
               ServerTypeOK
<1>30. ASSUME NEW c \in Chats, UseUi(c) PROVE ThreadInv'
  BY <1>30 DEF UseUi, ChatStep, StopUi, PlaceInv, TypeOK,
               ServerTypeOK
<1>31. CASE Signal
  BY <1>31 DEF Signal
<1>32. CASE HandlerStop
  BY <1>32 DEF HandlerStop, StopUi
<1> HIDE DEF ThreadInv
<1> QED
  BY <1>0, <1>1, <1>2, <1>3, <1>4, <1>5, <1>6, <1>7, <1>8, <1>9, <1>10,
     <1>11, <1>12, <1>13, <1>14, <1>15, <1>16, <1>17, <1>18, <1>19, <1>20,
     <1>21, <1>22, <1>23, <1>24, <1>25, <1>26, <1>27, <1>28, <1>29, <1>30,
     <1>31, <1>32 DEF Next, MainThread, AddConnection, ChatThread

\* Nobody but the stragglers, and a handler on a thread of its own, uses an
\* object after its end.
LEMMA ScopeStep ==
  ASSUME TypeOK, ServerInv, PlaceInv, HandlerInv, ThreadInv,
         ScopeRespected, [Next]_vars
  PROVE  ScopeRespected'
<1> USE ApplicationAssumption
    DEF ScopeRespected, Chats, uiVars, signalVars, mainVars, threadVars,
            appVars, serverVars, ownerVars, clientVars, acceptVars, faultVars
<1>0. CASE UNCHANGED vars
  BY <1>0 DEF vars
<1>1. CASE Open
  BY <1>1 DEF Open, Main, Construct
<1>2. CASE ConnectFails
  BY <1>2 DEF ConnectFails, Main
<1>3. CASE Serve
  BY <1>3 DEF Serve, Main, Construct, Start, ServerGoto
<1>4. CASE CannotServe
  BY <1>4 DEF CannotServe, Main, StartFails, ServerGoto
<1>5. CASE AddRemote
  BY <1>5 DEF AddRemote, Main
<1>6. CASE MakeUi
  BY <1>6 DEF MakeUi, Main, Construct
<1>7. CASE Publish
  BY <1>7 DEF Publish, Main
<1>8. CASE Install
  BY <1>8 DEF Install, Main
<1>9. CASE Run
  BY <1>9 DEF Run, RunStep, Main
<1>10. CASE Loop
  BY <1>10 DEF Loop, RunStep, Main, AfterStop
<1>11. CASE HandleLine
  BY <1>11 DEF HandleLine, RunStep, Main
<1>12. CASE Leave
  BY <1>12 DEF Leave, RunStep, Main
<1>13. CASE Unpublish
  BY <1>13 DEF Unpublish, EndStep, Main
<1>14. CASE ServerStop
  BY <1>14 DEF ServerStop, EndStep, Main, StopClear, StopClose, StopJoin,
               ServerGoto
<1>15. CASE SessionStop
  BY <1>15 DEF SessionStop, EndStep, Main
<1>16. CASE Sweep
  BY <1>16 DEF Sweep, EndStep, Main, CloseAll, JoinAll,
               ThreadInv, Swept
<1>17. CASE DropServer
  BY <1>17 DEF DropServer, EndStep, Main, Destruct
<1>18. CASE DropUi
  BY <1>18 DEF DropUi, EndStep, Main, Destruct
<1>19. CASE DropSession
  BY <1>19 DEF DropSession, EndStep, Main, JoinAll, Destruct
<1>20. CASE GetLine
  BY <1>20 DEF GetLine, RunStep, Main
<1>21. CASE ServerNext /\ UNCHANGED appVars
  BY <1>21, AcceptStays
<1>22. ASSUME NEW c \in Chats, CallBack(c) PROVE ScopeRespected'
  BY <1>22 DEF CallBack, AddStep, AddGoto, PlaceInv, ThreadInv,
               Swept, TypeOK, ServerTypeOK
<1>23. ASSUME NEW c \in Chats, TestRunning(c) PROVE ScopeRespected'
  BY <1>23 DEF TestRunning, AddStep, AddGoto, PlaceInv, ThreadInv,
               Swept, TypeOK, ServerTypeOK
<1>24. ASSUME NEW c \in Chats, Insert(c) PROVE ScopeRespected'
  BY <1>24 DEF Insert, AddStep, AddGoto, PlaceInv, ThreadInv,
               Swept, TypeOK, ServerTypeOK
<1>25. ASSUME NEW c \in Chats, StartConnection(c) PROVE ScopeRespected'
  BY <1>25 DEF StartConnection, AddGoto, PlaceInv, ThreadInv,
               Swept, TypeOK, ServerTypeOK
<1>26. ASSUME NEW c \in Chats, SendHello(c) PROVE ScopeRespected'
  BY <1>26 DEF SendHello, AddStep, AddGoto, PlaceInv, ThreadInv,
               Swept, TypeOK, ServerTypeOK
<1>27. ASSUME NEW c \in Chats, Joined(c) PROVE ScopeRespected'
  BY <1>27 DEF Joined, AddGoto, PlaceInv, ThreadInv,
               Swept, TypeOK, ServerTypeOK
<1>28. ASSUME NEW c \in Chats, Handle(c) PROVE ScopeRespected'
  BY <1>28 DEF Handle, ChatStep, PlaceInv, ThreadInv,
               Swept, TypeOK, ServerTypeOK
<1>29. ASSUME NEW c \in Chats, LookAtUi(c) PROVE ScopeRespected'
  BY <1>29 DEF LookAtUi, ChatStep, PlaceInv, ThreadInv,
               Swept, TypeOK, ServerTypeOK
<1>30. ASSUME NEW c \in Chats, UseUi(c) PROVE ScopeRespected'
  BY <1>30 DEF UseUi, ChatStep, StopUi, PlaceInv, ThreadInv,
               Swept, TypeOK, ServerTypeOK
<1>31. CASE Signal
  BY <1>31 DEF Signal
<1>32. CASE HandlerStop
  BY <1>32, ServerAssumption DEF HandlerStop, StopUi, PlaceInv, HandlerInv,
               TypeOK, ServerTypeOK
<1> HIDE DEF ScopeRespected
<1> QED
  BY <1>0, <1>1, <1>2, <1>3, <1>4, <1>5, <1>6, <1>7, <1>8, <1>9, <1>10,
     <1>11, <1>12, <1>13, <1>14, <1>15, <1>16, <1>17, <1>18, <1>19, <1>20,
     <1>21, <1>22, <1>23, <1>24, <1>25, <1>26, <1>27, <1>28, <1>29, <1>30,
     <1>31, <1>32 DEF Next, MainThread, AddConnection, ChatThread

-----------------------------------------------------------------------------
(* Theorems.                                                               *)

\* The initial states satisfy the invariant.
LEMMA InitInv == Init => IInv
<1> SUFFICES ASSUME Init PROVE IInv
  OBVIOUS
<1>1. TypeOK
  <2>0. /\ 0 \in 0 .. MaxInterrupts /\ 0 \in 0 .. MaxErrors
        /\ 0 \in 0 .. MaxSignals
    BY ServerAssumption, ApplicationAssumption
  <2>1. ServerTypeOK
    BY <2>0 DEF Init, ServerInit, ServerTypeOK, AcceptPcs, ServerPcs
  <2>2. AppTypeOK
    BY <2>0 DEF Init, AppTypeOK, Places, AddPcs
  <2> QED
    BY <2>1, <2>2, TypeParts
<1>2. ServerInv
  BY DEF Init, ServerInit, ServerInv, NoClientLost
<1>3. PlaceInv /\ HandlerInv
  BY DEF Init, ServerInit, PlaceInv, HandlerInv, Objects, Late
<1>4. ThreadInv /\ ScopeRespected
  BY DEF Init, ServerInit, ThreadInv, ScopeRespected, Swept, Chats
<1> QED
  BY <1>1, <1>2, <1>3, <1>4 DEF IInv

\* Every step keeps the invariant.
LEMMA StepInv == IInv /\ [Next]_vars => IInv'
<1> SUFFICES ASSUME IInv, [Next]_vars PROVE IInv'
  OBVIOUS
<1>1. /\ TypeOK /\ ServerInv /\ PlaceInv /\ HandlerInv /\ ThreadInv
      /\ ScopeRespected /\ ServerTypeOK /\ AppTypeOK
  BY TypeParts DEF IInv
<1>2. ServerAction \/ UNCHANGED serverVars
  BY ServerFrame
<1>3. ServerTypeOK' /\ AppTypeOK'
  BY <1>1, <1>2, ServerTypeStep, AppTypeStep
<1>4. TypeOK'
  BY <1>3 DEF TypeOK, AppTypeOK
<1>5. ServerInv'
  BY <1>1, <1>2, ServerStep
<1>6. PlaceInv' /\ HandlerInv' /\ ThreadInv' /\ ScopeRespected'
  BY <1>1, PlaceStep, HandlerStep, ThreadStep, ScopeStep
<1> QED
  BY <1>4, <1>5, <1>6 DEF IInv

\* The invariant that the theorems below rest on: where the main thread of
\* runListen or runConnect is, together with what the accept thread, the
\* threads of the clients and the signal handler can still do.
THEOREM Invariance == Spec => []IInv
BY InitInv, StepInv, PTL DEF Spec

\* The variables of the program and of its server keep their types.
THEOREM TypeCorrect == Spec => []TypeOK
<1>1. IInv => TypeOK
  BY DEF IInv
<1> QED
  BY <1>1, Invariance, PTL

\* acceptLoop hands every client over or closes it, exactly one of the two,
\* whenever stop() runs.
THEOREM ClientsAccountedFor == Spec => []NoClientLost
<1>1. IInv => NoClientLost
  BY DEF IInv, ServerInv
<1> QED
  BY <1>1, Invariance, PTL

\* After TcpServer::stop has cleared running_ at most the client that
\* acceptLoop was about to hand over is handed over, and after stop() returned
\* nobody is.
THEOREM StopCutsOff == Spec => StopIsSharp
<1> DEFINE Sharp ==
      /\ ~running /\ acceptPc # "spawn" =>
           acceptPc' # "spawn" /\ handedOver' = handedOver
      /\ serverPc = "stopped" => UNCHANGED <<handedOver, turnedAway>>
<1>1. IInv /\ [Next]_vars => [Sharp]_serverVars
  <2> SUFFICES ASSUME IInv, [Next]_vars, ~UNCHANGED serverVars
               PROVE  Sharp
    OBVIOUS
  <2>1. ServerAction
    BY ServerFrame
  <2>2. serverPc = "stopped" => acceptPc = "exited"
    BY DEF IInv, ServerInv
  <2>3. ~running /\ acceptPc # "spawn" =>
           acceptPc' # "spawn" /\ handedOver' = handedOver
    BY <2>1 DEF ServerAction, ServerNext, AcceptThread, Start, StartFails,
         StopClear, StopClose, StopJoin, LoopTest, AcceptCall, Accepted,
         AcceptClosed, SecondTest, StillWanted, Spawn, Refuse,
         AcceptInterrupted, AfterInterrupt, AcceptError, Connect, ServerGoto,
         AcceptGoto, clientVars, acceptVars
  <2>4. serverPc = "stopped" => UNCHANGED <<handedOver, turnedAway>>
    BY <2>1, <2>2 DEF ServerAction, ServerNext, AcceptThread, Start,
         StartFails, StopClear, StopClose, StopJoin, LoopTest, AcceptCall,
         Accepted, AcceptClosed, SecondTest, Spawn, Refuse, AcceptInterrupted,
         AcceptError, Connect, ServerGoto, AcceptGoto, clientVars, acceptVars
  <2> QED
    BY <2>3, <2>4
<1> QED
  BY <1>1, Invariance, PTL DEF Spec, StopIsSharp

\* No thread uses the session, the server or the user interface of runListen
\* and runConnect after its end, except the two threads of a client for which
\* addConnection had not returned when stop() closed the connections, and on
\* Windows the signal handler.
THEOREM ScopeIsRespected == Spec => []ScopeRespected
<1>1. IInv => ScopeRespected
  BY DEF IInv
<1> QED
  BY <1>1, Invariance, PTL

=============================================================================
