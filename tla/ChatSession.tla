----------------------------- MODULE ChatSession -----------------------------
(***************************************************************************)
(* Class ChatSession (src/chat/chat_session.cpp) as `lantalk listen` wires *)
(* it up in src/main.cpp: one process with                                 *)
(*   - the main thread: it makes the UI once the server has started, then  *)
(*     TerminalUI::run, then ChatSession::stop;                            *)
(*   - one detached accept thread per client, in addConnection;            *)
(*   - one receive thread per started connection (module Connection), in   *)
(*     onFrame and onDisconnect;                                           *)
(*   - the ping thread, in pingLoop.                                       *)
(*                                                                         *)
(* connMutex_ protects both maps.  A critical section that does not block  *)
(* is one action guarded by the mutex being free.  The mutex stays held    *)
(* over several steps where a Connection is destroyed under it, because    *)
(* the destructor joins the receive thread (connMutex), and where ::send   *)
(* blocks on a peer that no longer reads (sender).                         *)
(*                                                                         *)
(* A connId drawn by makeConnId is the connection itself; NoId is the      *)
(* empty string, the id that main.cpp really hands to the callbacks.       *)
(***************************************************************************)
EXTENDS Connection, FiniteSets, Functions

CONSTANTS
  NoId,         \* the empty connId
  RequireAuth   \* AppConfig::requireAuth

ASSUME SessionAssumption ==
  /\ IsFiniteSet(Conns)
  /\ NoId \notin Conns
  /\ {"nobody", "main", "ping"} \cap Conns = {}
  /\ RequireAuth \in BOOLEAN

VARIABLES
  connMutex,    \* who holds connMutex_ while it destroys connections
  sender,       \* who holds connMutex_ and is blocked in ::send
  sessRunning,  \* ChatSession::running_
  connections,  \* the keys of connections_
  peers,        \* peers_: connId -> PeerInfo::state
  addPc,        \* where the accept thread of a connection is
  mainPc,       \* where the main thread is
  pingPc,       \* where the ping thread is
  deadConns,    \* pingLoop's deadConns still to be handed to onDisconnect
  victim,       \* the connection joined under connMutex_, or NoId
  online,       \* history: "connected" minus "disconnected" lines shown
  early,        \* history: connects minus disconnects before there was a UI
  heard,        \* history: connections whose HELLO was accepted
  delivered,    \* history: connections whose CHAT_MESSAGE was shown
  aborted       \* history: a thread joined itself (std::terminate)

mapVars == <<connections, peers>>
lockVars == <<connMutex, sender>>
ctlVars == <<lockVars, sessRunning, addPc, mainPc, pingPc, deadConns, victim>>
histVars == <<online, early, heard, delivered, aborted>>
vars == <<connVars, mapVars, ctlVars, histVars>>

Ids == Conns \cup {NoId}

AddPcs == {"idle", "check", "insert", "inserted", "started", "helloed",
           "join", "done"}
MainPcs == {"start", "ui", "bcast", "stopPing", "stopLock", "stopClear",
            "stopJoin", "stopped"}
PingPcs == {"sleep", "round", "reap", "join", "exited"}

\* The threads that send with connMutex_ held: the main thread, the ping
\* thread and the accept threads.
Senders == {"main", "ping"} \cup Conns

\* Type invariant.
TypeOK ==
  /\ ConnTypeOK
  /\ connMutex \in {"free", "main", "ping"}
  /\ sender \in Senders \cup {"nobody"}
  /\ sessRunning \in BOOLEAN
  /\ connections \subseteq Conns
  /\ DOMAIN peers \subseteq Ids
  /\ peers \in [DOMAIN peers -> ConnectionStates]
  /\ addPc \in [Conns -> AddPcs]
  /\ mainPc \in MainPcs
  /\ pingPc \in PingPcs
  /\ deadConns \subseteq Conns
  /\ victim \in Ids
  /\ online \in Int
  /\ early \in Int
  /\ heard \subseteq Conns
  /\ delivered \subseteq Conns
  /\ aborted \in BOOLEAN

\* ChatSession::start and TcpServer::start have returned.
Init ==
  /\ ConnInit
  /\ connMutex = "free"
  /\ sender = "nobody"
  /\ sessRunning = TRUE
  /\ connections = {}
  /\ peers = [i \in {} |-> "CONNECTED"]
  /\ addPc = [c \in Conns |-> "idle"]
  /\ mainPc = "start"
  /\ pingPc = "sleep"
  /\ deadConns = {}
  /\ victim = NoId
  /\ online = 0
  /\ early = 0
  /\ heard = {}
  /\ delivered = {}
  /\ aborted = FALSE

-----------------------------------------------------------------------------
(* Ids, references and maps.                                               *)

\* The connId that the callbacks of c pass to the session: connIdPtr is
\* never assigned, and the disconnect callback passes "".
ConnIdOf(c) == NoId

\* Thread t holds connMutex_ already, blocked in ::send, or can lock it.
MayEnter(t) == connMutex = "free" /\ sender \in {"nobody", t}

Locked == ~MayEnter("nobody")

\* The accept thread still has its local connPtr.
AccHolds(c) == addPc[c] \in {"inserted", "started", "helloed"}

\* Mutant of FreshPeer: PeerInfo::state has no initializer.
GarbageInfo == "UNINITIALIZED"

\* PeerInfo{}
FreshPeer == "CONNECTED"

SetPeer(id, state) ==
  peers' = [i \in DOMAIN peers \cup {id} |->
              IF i = id THEN state ELSE peers[i]]

\* Mutant of Forget: peers_ keeps the entry.
ForgetConnOnly(id) ==
  /\ connections' = connections \ {id}
  /\ UNCHANGED peers

\* What onDisconnect erases.
Forget(id) ==
  /\ connections' = connections \ {id}
  /\ peers' = Restrict(peers, DOMAIN peers \ {id})

IsAuthenticated(id) == id \in DOMAIN peers /\ peers[id] = "AUTHENTICATED"

-----------------------------------------------------------------------------
(* Sending with connMutex_ held.  The handlers send under it too, but only  *)
(* to a connection with the empty id, and there is none.                    *)

\* Those broadcast() sends to.
Audience == {c \in connections : IsAuthenticated(c)}

\* Those the current loop or call of thread t sends to.
Recipients(t) ==
  CASE t = "ping" -> connections
    [] t = "main" -> IF mainPc = "bcast" THEN Audience ELSE connections
    [] OTHER -> connections \cap {t}

\* t has locked the mutex and does not come back from ::send.
SendBlocks(t) ==
  /\ MayEnter(t)
  /\ \E c \in Recipients(t) : Blocks(c)
  /\ sender' = t

\* t locks the mutex, or has it, and every ::send returns.
SendReturns(t) ==
  /\ MayEnter(t)
  /\ \A c \in Recipients(t) : ~Blocks(c)
  /\ sender' = "nobody"

\* The threads that call such a loop next, but for stop() (StopBlocks).
MaySend(t) ==
  \/ t = "ping" /\ pingPc = "round"
  \/ t = "main" /\ mainPc = "bcast"
  \/ t \in Conns /\ addPc[t] = "started"

Blocked(t) ==
  /\ MaySend(t)
  /\ SendBlocks(t)
  /\ UNCHANGED <<connVars, mapVars, connMutex, sessRunning, addPc, mainPc,
                 pingPc, deadConns, victim, histVars>>

-----------------------------------------------------------------------------
(* The accept threads: TcpServer's callback and addConnection.             *)

Add(c, from, to) ==
  /\ addPc[c] = from
  /\ addPc' = [addPc EXCEPT ![c] = to]
  /\ UNCHANGED <<sessRunning, mainPc, pingPc, deadConns, histVars>>

\* A client is accepted: TcpServer::stop runs before ChatSession::stop.
Accept(c) ==
  /\ mainPc \in {"start", "ui", "bcast"}
  /\ Add(c, "idle", "check")
  /\ UNCHANGED <<connVars, mapVars, lockVars, victim>>

AddCheck(c) ==
  /\ sessRunning
  /\ Add(c, "check", "insert")
  /\ UNCHANGED <<connVars, mapVars, lockVars, victim>>

\* The session is stopping: the new Connection is dropped unstarted.
AddRefused(c) ==
  /\ ~sessRunning
  /\ Add(c, "check", "done")
  /\ Destroy({c})
  /\ UNCHANGED <<envVars, threadVars, mapVars, lockVars, victim>>

AddInsert(c) ==
  /\ ~Locked
  /\ Add(c, "insert", "inserted")
  /\ connections' = connections \cup {c}
  /\ SetPeer(c, FreshPeer)
  /\ UNCHANGED <<connVars, lockVars, victim>>

AddStart(c) ==
  /\ Add(c, "inserted", "started")
  /\ Start(c)
  /\ UNCHANGED <<connState, socket, sent, batch, budget, envVars, mapVars,
                 lockVars, victim>>

sendHello(c) ==
  /\ SendReturns(c)
  /\ Add(c, "started", "helloed")
  /\ Send(connections \cap {c}, "HELLO")
  /\ UNCHANGED <<connRunning, connState, socket, threadVars, envVars, mapVars,
                 connMutex, victim>>

\* addConnection returns: connPtr is released, the map keeps its reference.
AddReturn(c) ==
  /\ c \in connections
  /\ Add(c, "helloed", "done")
  /\ UNCHANGED <<connVars, mapVars, lockVars, victim>>

\* Mutant of AddDrop: the destructor does not join.
AddDropNoJoin(c) ==
  /\ c \notin connections
  /\ Add(c, "helloed", "done")
  /\ Destroy({c})
  /\ UNCHANGED <<threadVars, envVars, mapVars, lockVars, victim>>

\* connPtr was the last reference: the destructor runs, without connMutex_.
AddDrop(c) ==
  /\ c \notin connections
  /\ Add(c, "helloed", "join")
  /\ Destroy({c})
  /\ UNCHANGED <<threadVars, envVars, mapVars, lockVars, victim>>

AddJoin(c) ==
  /\ Joinable(c)
  /\ Add(c, "join", "done")
  /\ UNCHANGED <<connVars, mapVars, lockVars, victim>>

AcceptThread(c) ==
  \/ AddCheck(c)
  \/ AddRefused(c)
  \/ AddInsert(c)
  \/ AddStart(c)
  \/ sendHello(c)
  \/ AddReturn(c)
  \/ AddDrop(c)
  \/ AddJoin(c)

-----------------------------------------------------------------------------
(* The receive threads: onFrame and onDisconnect.                          *)

\* The receive thread of c takes the next frame; it has the given type, and
\* the thread goes on at pc.
Take(c, types, pc) ==
  /\ recvPc[c] = "frames"
  /\ batch[c] # <<>>
  /\ Head(batch[c]).type \in types
  /\ batch' = [batch EXCEPT ![c] = Tail(@)]
  /\ Goto(c, pc)
  /\ UNCHANGED <<budget, envVars, ctlVars, early, aborted>>

FrameOk(c) == Head(batch[c]).ok

\* The connection registered under the id that the callback of c passes.
Target(c) == connections \cap {ConnIdOf(c)}

HelloAccepted(c) ==
  /\ ~Locked
  /\ Take(c, {"HELLO"}, "connectedCb")
  /\ FrameOk(c)
  /\ ~RequireAuth
  /\ SetPeer(ConnIdOf(c), "AUTHENTICATED")
  /\ heard' = heard \cup {c}
  /\ UNCHANGED <<sockVars, connections, online, delivered>>

HelloChallenged(c) ==
  /\ ~Locked
  /\ Take(c, {"HELLO"}, "frames")
  /\ FrameOk(c)
  /\ RequireAuth
  /\ SetPeer(ConnIdOf(c), "AUTHENTICATING")
  /\ Send(Target(c), "AUTH_REQUEST")
  /\ heard' = heard \cup {c}
  /\ UNCHANGED <<connRunning, connState, socket, connections, online,
                 delivered>>

\* HELLO without a device_id.
HelloRejected(c) ==
  /\ ~Locked
  /\ Take(c, {"HELLO"}, "frames")
  /\ ~FrameOk(c)
  /\ Disconnect(Target(c))
  /\ UNCHANGED <<mapVars, online, heard, delivered>>

handleAuthRequest(c) ==
  /\ ~Locked
  /\ Take(c, {"AUTH_REQUEST"}, "frames")
  /\ Send(Target(c), "AUTH_RESPONSE")
  /\ UNCHANGED <<connRunning, connState, socket, mapVars, online, heard,
                 delivered>>

\* The response counts only if the connection is found; a wrong one is
\* answered with AUTH_FAIL and then disconnected.
handleAuthResponse(c) ==
  LET found == Target(c) # {}
  IN  /\ ~Locked
      /\ Take(c, {"AUTH_RESPONSE"},
              IF found /\ FrameOk(c) THEN "connectedCb" ELSE "frames")
      /\ IF FrameOk(c)
           THEN /\ Send(Target(c), "AUTH_OK")
                /\ UNCHANGED <<connRunning, connState, socket>>
           ELSE SendAndDisconnect(Target(c), {"AUTH_FAIL"})
      /\ IF found /\ FrameOk(c)
           THEN SetPeer(ConnIdOf(c), "AUTHENTICATED")
           ELSE UNCHANGED peers
      /\ UNCHANGED <<connections, online, heard, delivered>>

\* Mutant of ChatAccepted: the check of the peer state is missing.
ChatUnchecked(c) ==
  /\ ~Locked
  /\ Take(c, {"CHAT_MESSAGE"}, "chatCb")
  /\ FrameOk(c)
  /\ UNCHANGED <<sockVars, mapVars, online, heard, delivered>>

\* A CHAT_MESSAGE from an authenticated peer that parses.
ChatAccepted(c) ==
  /\ ~Locked
  /\ Take(c, {"CHAT_MESSAGE"}, "chatCb")
  /\ IsAuthenticated(ConnIdOf(c))
  /\ FrameOk(c)
  /\ UNCHANGED <<sockVars, mapVars, online, heard, delivered>>

ChatDropped(c) ==
  /\ ~Locked
  /\ Take(c, {"CHAT_MESSAGE"}, "frames")
  /\ ~IsAuthenticated(ConnIdOf(c)) \/ ~FrameOk(c)
  /\ UNCHANGED <<sockVars, mapVars, online, heard, delivered>>

handlePing(c) ==
  /\ ~Locked
  /\ Take(c, {"PING"}, "frames")
  /\ Send(Target(c), "PONG")
  /\ UNCHANGED <<connRunning, connState, socket, mapVars, online, heard,
                 delivered>>

handleDisconnect(c) ==
  /\ ~Locked
  /\ Take(c, {"DISCONNECT"}, "frames")
  /\ Disconnect(Target(c))
  /\ UNCHANGED <<mapVars, online, heard, delivered>>

\* PONG and the types without a handler touch nothing, not even the mutex.
FrameIgnored(c) ==
  /\ Take(c, {"PONG", "AUTH_OK", "AUTH_FAIL"}, "frames")
  /\ UNCHANGED <<sockVars, mapVars, online, heard, delivered>>

\* Mutant of onDisconnect: shouldNotify is ignored.
NotifyAlways(c) ==
  /\ ~Locked
  /\ recvPc[c] = "onDisconnect"
  /\ Forget(ConnIdOf(c))
  /\ Goto(c, "disconnectedCb")
  /\ UNCHANGED <<sockVars, batch, budget, envVars, ctlVars, histVars>>

\* onDisconnect on the receive thread.  Erasing the last reference to the
\* own connection would make the thread join itself.
onDisconnect(c) ==
  /\ ~Locked
  /\ recvPc[c] = "onDisconnect"
  /\ Forget(ConnIdOf(c))
  /\ aborted' = (aborted \/ (c \in Target(c) /\ ~AccHolds(c)))
  /\ Goto(c, IF IsAuthenticated(ConnIdOf(c)) THEN "disconnectedCb"
                                             ELSE "exited")
  /\ UNCHANGED <<sockVars, batch, budget, envVars, ctlVars, online, early,
                 heard, delivered>>

\* The callbacks of main.cpp run after connMutex_ is released, and show
\* nothing as long as there is no UI.
HasUi == mainPc # "start"

ShowEvent(d) ==
  IF HasUi
    THEN online' = online + d /\ UNCHANGED early
    ELSE early' = early + d /\ UNCHANGED online

ShowConnected(c) ==
  /\ recvPc[c] = "connectedCb"
  /\ ShowEvent(1)
  /\ Goto(c, "frames")
  /\ UNCHANGED <<sockVars, batch, budget, envVars, mapVars, ctlVars, heard,
                 delivered, aborted>>

ShowDisconnected(c) ==
  /\ recvPc[c] = "disconnectedCb"
  /\ ShowEvent(-1)
  /\ Goto(c, "exited")
  /\ UNCHANGED <<sockVars, batch, budget, envVars, mapVars, ctlVars, heard,
                 delivered, aborted>>

ShowMessage(c) ==
  /\ recvPc[c] = "chatCb"
  /\ delivered' = IF HasUi THEN delivered \cup {c} ELSE delivered
  /\ Goto(c, "frames")
  /\ UNCHANGED <<sockVars, batch, budget, envVars, mapVars, ctlVars, online,
                 early, heard, aborted>>

\* recvLoop without what depends on the peer.
LoopStep(c) ==
  /\ \/ LoopExit(c)
     \/ RecvCall(c)
     \/ RecvEnd(c)
     \/ NextRecv(c)
     \/ RateLimit(c)
     \/ SendEnds(c)
  /\ UNCHANGED <<mapVars, ctlVars, histVars>>

onFrame(c) ==
  \/ HelloAccepted(c)
  \/ HelloChallenged(c)
  \/ HelloRejected(c)
  \/ handleAuthRequest(c)
  \/ handleAuthResponse(c)
  \/ ChatAccepted(c)
  \/ ChatDropped(c)
  \/ handlePing(c)
  \/ handleDisconnect(c)
  \/ FrameIgnored(c)

RecvThread(c) ==
  \/ LoopStep(c)
  \/ onFrame(c)
  \/ onDisconnect(c)
  \/ ShowConnected(c)
  \/ ShowDisconnected(c)
  \/ ShowMessage(c)

\* The peer sends, closes or stops reading.
Peer(c) ==
  /\ \/ \E fs \in Batches : RecvFrames(c, fs) \/ RecvInvalid(c, fs)
     \/ addPc[c] # "idle" /\ (RemoteClose(c) \/ PeerStalls(c))
  /\ UNCHANGED <<mapVars, ctlVars, histVars>>

-----------------------------------------------------------------------------
(* The ping thread: pingLoop.                                              *)

\* Mutant of PingWake: running_ is not looked at.
PingNeverStops ==
  /\ pingPc = "sleep"
  /\ pingPc' = "round"
  /\ UNCHANGED <<connVars, mapVars, lockVars, sessRunning, addPc, mainPc,
                 deadConns, victim, histVars>>

\* Fifteen seconds are over.
PingWake ==
  /\ pingPc = "sleep"
  /\ pingPc' = IF sessRunning THEN "round" ELSE "exited"
  /\ UNCHANGED <<connVars, mapVars, lockVars, sessRunning, addPc, mainPc,
                 deadConns, victim, histVars>>

\* Mutant of PingRound: the result of send() is ignored.
PingIgnoresFailure ==
  /\ pingPc = "round"
  /\ SendReturns("ping")
  /\ Send(connections, "PING")
  /\ pingPc' = "reap"
  /\ UNCHANGED <<connRunning, connState, socket, threadVars, envVars, mapVars,
                 connMutex, sessRunning, addPc, mainPc, deadConns, victim,
                 histVars>>

\* send() fails on what cannot send, and may fail once the peer is gone; it
\* may have succeeded earlier in a round that was blocked since.
PingRound ==
  /\ pingPc = "round"
  /\ SendReturns("ping")
  /\ \E broken \in SUBSET {c \in connections : remote[c] = "closed"},
        earlier \in SUBSET (IF sender = "ping" THEN connections ELSE {}) :
       LET alive == ({c \in connections : CanSend(c)} \ broken) \cup earlier
       IN  /\ Send(alive, "PING")
           /\ deadConns' = connections \ alive
  /\ pingPc' = "reap"
  /\ UNCHANGED <<connRunning, connState, socket, threadVars, envVars, mapVars,
                 connMutex, sessRunning, addPc, mainPc, victim, histVars>>

ReapNext(c) ==
  /\ pingPc = "reap"
  /\ ~Locked
  /\ c \in deadConns
  /\ deadConns' = deadConns \ {c}
  /\ Forget(c)
  /\ UNCHANGED <<threadVars, envVars, sender, sessRunning, addPc, mainPc,
                 histVars>>

\* onDisconnect("ping failed") while addConnection still has its reference.
ReapShared(c) ==
  /\ ReapNext(c)
  /\ AccHolds(c)
  /\ UNCHANGED <<sockVars, pingPc, connMutex, victim>>

\* The erase runs the destructor, under connMutex_.
ReapLast(c) ==
  /\ ReapNext(c)
  /\ ~AccHolds(c)
  /\ Destroy({c})
  /\ victim' = c
  /\ connMutex' = "ping"
  /\ pingPc' = "join"

\* Mutant of PingJoin: connMutex_ is not released.
PingJoinKeepsLock ==
  /\ pingPc = "join"
  /\ Joinable(victim)
  /\ victim' = NoId
  /\ pingPc' = "reap"
  /\ UNCHANGED <<connVars, mapVars, lockVars, sessRunning, addPc, mainPc,
                 deadConns, histVars>>

PingJoin ==
  /\ pingPc = "join"
  /\ Joinable(victim)
  /\ victim' = NoId
  /\ connMutex' = "free"
  /\ pingPc' = "reap"
  /\ UNCHANGED <<connVars, mapVars, sender, sessRunning, addPc, mainPc,
                 deadConns, histVars>>

ReapDone ==
  /\ pingPc = "reap"
  /\ deadConns = {}
  /\ pingPc' = "sleep"
  /\ UNCHANGED <<connVars, mapVars, lockVars, sessRunning, addPc, mainPc,
                 deadConns, victim, histVars>>

PingThread ==
  \/ PingWake
  \/ PingRound
  \/ \E c \in Conns : ReapShared(c) \/ ReapLast(c)
  \/ PingJoin
  \/ ReapDone

-----------------------------------------------------------------------------
(* The main thread: the UI is made, TerminalUI::run, ChatSession::stop.     *)

Main(from, to) ==
  /\ mainPc = from
  /\ mainPc' = to
  /\ UNCHANGED <<addPc, pingPc, deadConns, histVars>>

\* ui = std::make_unique<TerminalUI>, after server.start().
MakeUi ==
  /\ Main("start", "ui")
  /\ UNCHANGED <<connVars, mapVars, lockVars, sessRunning, victim>>

\* The user enters a line that is not a command.
EnterLine ==
  /\ Main("ui", "bcast")
  /\ UNCHANGED <<connVars, mapVars, lockVars, sessRunning, victim>>

broadcast ==
  /\ SendReturns("main")
  /\ Main("bcast", "ui")
  /\ Send(Audience, "CHAT_MESSAGE")
  /\ UNCHANGED <<connRunning, connState, socket, threadVars, envVars, mapVars,
                 connMutex, sessRunning, victim>>

\* run() returns (/quit, /exit, end of input); stop() clears running_.
Quit ==
  /\ Main("ui", "stopPing")
  /\ sessRunning' = FALSE
  /\ UNCHANGED <<connVars, mapVars, lockVars, victim>>

StopJoinPing ==
  /\ pingPc = "exited"
  /\ Main("stopPing", "stopLock")
  /\ UNCHANGED <<connVars, mapVars, lockVars, sessRunning, victim>>

StopDisconnect ==
  /\ SendReturns("main")
  /\ Main("stopLock", "stopClear")
  /\ connMutex' = "main"
  /\ Disconnect(connections)
  /\ UNCHANGED <<threadVars, envVars, mapVars, sessRunning, victim>>

\* The DISCONNECT to one peer blocks, after others were disconnected.
StopBlocks ==
  /\ mainPc = "stopLock"
  /\ SendBlocks("main")
  /\ \E S \in SUBSET {c \in connections : ~Blocks(c)} : Disconnect(S)
  /\ UNCHANGED <<threadVars, envVars, mapVars, connMutex, sessRunning, addPc,
                 mainPc, pingPc, deadConns, victim, histVars>>

\* connections_.clear() drops one reference ...
StopShared(c) ==
  /\ c \in connections
  /\ AccHolds(c)
  /\ Main("stopClear", "stopClear")
  /\ connections' = connections \ {c}
  /\ UNCHANGED <<connVars, peers, lockVars, sessRunning, victim>>

\* ... or the last one, and then runs the destructor, under connMutex_.
StopLast(c) ==
  /\ c \in connections
  /\ ~AccHolds(c)
  /\ Main("stopClear", "stopJoin")
  /\ connections' = connections \ {c}
  /\ Destroy({c})
  /\ victim' = c
  /\ UNCHANGED <<threadVars, envVars, peers, lockVars, sessRunning>>

StopJoin ==
  /\ Main("stopJoin", "stopClear")
  /\ Joinable(victim)
  /\ victim' = NoId
  /\ UNCHANGED <<connVars, mapVars, lockVars, sessRunning>>

\* peers_.clear(), and stop() returns.
StopDone ==
  /\ connections = {}
  /\ Main("stopClear", "stopped")
  /\ peers' = [i \in {} |-> FreshPeer]
  /\ connMutex' = "free"
  /\ UNCHANGED <<connVars, connections, sender, sessRunning, victim>>

MainThread ==
  \/ MakeUi
  \/ broadcast
  \/ StopJoinPing
  \/ StopDisconnect
  \/ StopBlocks
  \/ \E c \in Conns : StopShared(c) \/ StopLast(c)
  \/ StopJoin
  \/ StopDone

-----------------------------------------------------------------------------
Next ==
  \/ \E c \in Conns :
       \/ Accept(c)
       \/ AcceptThread(c)
       \/ RecvThread(c)
       \/ Peer(c)
  \/ PingThread
  \/ MainThread
  \/ \E t \in Senders : Blocked(t)
  \/ EnterLine
  \/ Quit

Spec == Init /\ [][Next]_vars

\* Every thread of the process is scheduled; users and peers owe nothing.
Fairness ==
  /\ \A c \in Conns : WF_vars(AcceptThread(c)) /\ WF_vars(RecvThread(c))
  /\ WF_vars(PingThread)
  /\ WF_vars(MainThread)
  /\ \A t \in Senders : WF_vars(Blocked(t))

FairSpec == Spec /\ Fairness

-----------------------------------------------------------------------------
(* Properties.                                                             *)

\* peers_ and connections_ have the same keys whenever the mutex is not held
\* by stop(), apart from the entry that the empty connId creates: addConnection
\* and onDisconnect update both maps in one critical section.
MapsAgree ==
  /\ connections \subseteq DOMAIN peers
  /\ connMutex # "main" => DOMAIN peers \ {NoId} = connections

\* A receive thread runs only while its Connection object exists: the object
\* is in connections_, or addConnection has a reference, or its destructor is
\* waiting for the thread.  Whoever waits has the only reference.
RecvThreadOwned ==
  \A c \in Conns :
    /\ ~Joinable(c) => \/ c \in connections
                       \/ AccHolds(c)
                       \/ addPc[c] = "join"
                       \/ victim = c
    /\ victim = c \/ addPc[c] = "join" => c \notin connections /\ ~AccHolds(c)
    /\ ~(victim = c /\ addPc[c] = "join")

\* No receive thread destroys its own Connection (and so joins itself) in
\* onDisconnect.
NoSelfJoin == ~aborted

\* Connection::state() says DISCONNECTED only when send() no longer writes,
\* also when addConnection calls start() after stop() called disconnect().
DisconnectedIsSilent ==
  \A c \in Conns : connState[c] = "DISCONNECTED" => ~CanSend(c)

\* Chat is shown only after some HELLO was accepted, and never when
\* authentication is required: handleChatMessage's check.
ChatIsGated ==
  \A c \in Conns :
    c \in delivered \/ recvPc[c] = "chatCb" => heard # {} /\ ~RequireAuth

Pending(pc) == Cardinality({c \in Conns : recvPc[c] = pc})

\* The user is told of at least as many connects as disconnects, and of one
\* more while a peer is authenticated, once the pending callbacks are shown and
\* the events that came before there was a UI are counted in: those are never
\* shown, so a peer may be said to disconnect that never was said to connect.
EventsBalance ==
  online + early + Pending("connectedCb") - Pending("disconnectedCb")
    >= (IF IsAuthenticated(NoId) THEN 1 ELSE 0)

\* The receive thread of c needs connMutex_ for its next step.
WaitsForMutex(c) ==
  \/ recvPc[c] = "onDisconnect"
  \/ /\ recvPc[c] = "frames"
     /\ batch[c] # <<>>
     /\ Head(batch[c]).type \notin {"PONG", "AUTH_OK", "AUTH_FAIL"}

\* A thread joins, holding connMutex_, a receive thread that waits for
\* connMutex_, or one that blocks in a recv() or a send() which close() does
\* not end.
JoinStuck ==
  /\ victim # NoId
  /\ \/ WaitsForMutex(victim)
     \/ /\ ~closeWakes
        /\ recvPc[victim] \in {"recv", "sending"}
        /\ remote[victim] = "open"

\* A thread that holds connMutex_ waits for a peer that no longer reads.
SendStuck == sender # "nobody" /\ \E c \in Recipients(sender) : Blocks(c)

Stuck == JoinStuck \/ SendStuck

\* stop() returns, unless from some time on connMutex_ is kept by a stuck join
\* or by a send() to a peer that does not read: nothing else can keep it.
StopReturns == <>[]Stuck \/ (mainPc = "stopPing" ~> mainPc = "stopped")

\* The UI thread comes back from broadcast(), with the same exception: nobody
\* else keeps the mutex.
UiReturns == <>[]Stuck \/ (mainPc = "bcast" ~> mainPc = "ui")

\* A connection whose peer is gone is taken out of the session, although its
\* own disconnect callback never finds it: pingLoop does it, or stop(), unless
\* connMutex_ is kept as above.
GoneIsReaped ==
  \A c \in Conns :
    \/ <>[]Stuck
    \/ remote[c] = "closed" /\ c \in connections
         ~> c \notin connections \/ mainPc = "stopped"

-----------------------------------------------------------------------------
(* The inductive invariant behind the safety properties.                   *)

\* The mutex is held over a step exactly by the thread that is destroying
\* connections, and there is a victim exactly while that thread joins.
LockInv ==
  /\ connMutex = "main" <=> mainPc \in {"stopClear", "stopJoin"}
  /\ connMutex = "ping" <=> pingPc = "join"
  /\ victim # NoId <=> mainPc = "stopJoin" \/ pingPc = "join"

\* What pingLoop found dead stays registered until pingLoop erases it: stop()
\* touches the maps only after the ping thread has exited.
DeadInv ==
  /\ deadConns \subseteq connections
  /\ deadConns # {} => pingPc \in {"reap", "join"}
  /\ mainPc \in {"stopLock", "stopClear", "stopJoin", "stopped"}
       => pingPc = "exited"

\* What is registered or being joined was inserted, and a receive thread
\* exists only after start().
OwnerInv ==
  /\ RecvThreadOwned
  /\ \A c \in Conns :
       /\ c \in connections \/ victim = c => AccHolds(c) \/ addPc[c] = "done"
       /\ recvPc[c] # "none" =>
            addPc[c] \in {"started", "helloed", "join", "done"}

\* A DISCONNECTED connection that start() may still set running is closed.
SilentInv ==
  \A c \in Conns :
    connState[c] = "DISCONNECTED" =>
      socket[c] = "closed" \/ (~connRunning[c] /\ recvPc[c] # "none")

\* The shared entry is AUTHENTICATED only by an accepted HELLO.
GateInv ==
  /\ ChatIsGated
  /\ IsAuthenticated(NoId) => heard # {} /\ ~RequireAuth

IInv ==
  TypeOK /\ LockInv /\ MapsAgree /\ DeadInv /\ OwnerInv /\ NoSelfJoin
    /\ SilentInv /\ GateInv

-----------------------------------------------------------------------------
(* What the documentation promises and the code does not do: each of these *)
(* is refuted by a run.                                                    *)

\* "/quit, /exit - graceful disconnect and exit" (terminal_ui.cpp): stop()
\* returns.
StopTerminates == mainPc = "stopPing" ~> mainPc = "stopped"

\* "Broadcast to all authenticated peers" (chat_session.hpp): broadcast()
\* writes the chat to every registered connection whose HELLO was accepted and
\* that can be written to.
BroadcastReaches ==
  [][ mainPc = "bcast" /\ mainPc' = "ui" =>
        \A c \in connections \cap heard :
          CanSend(c) => "CHAT_MESSAGE" \in sent'[c] ]_vars

=============================================================================
