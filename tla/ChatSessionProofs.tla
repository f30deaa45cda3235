------------------------- MODULE ChatSessionProofs -------------------------
(***************************************************************************)
(* Proofs about ChatSession, for every finite set of connections, every    *)
(* set of frames, both values of RequireAuth, both platforms and whichever   *)
(* peers stop reading.                                                     *)
(***************************************************************************)
EXTENDS ChatSession, FiniteSetTheorems, TLAPS

-----------------------------------------------------------------------------
(* Types.                                                                  *)

\* What recv() hands over is a sequence of frames, and not longer than a
\* natural number.
LEMMA BatchType == \A fs \in Batches : fs \in Seq(Frames) /\ Len(fs) \in Nat
<1>1. SUFFICES ASSUME NEW n \in 1..MaxBatch, NEW fs \in [1..n -> Frames]
               PROVE  fs \in Seq(Frames) /\ Len(fs) \in Nat
  BY DEF Batches
<1>2. n \in Nat
  BY ConnectionAssumption
<1>3. fs \in Seq(Frames)
  BY <1>2
<1> QED
  BY <1>3

\* send() keeps the type of the history.
LEMMA SendType ==
  ASSUME ConnTypeOK, NEW S, NEW type, Send(S, type)
  PROVE  sent' \in [Conns -> SUBSET FrameTypes]
BY ConnectionAssumption DEF ConnTypeOK, Send, Keep

\* disconnect() keeps the types of what it changes.
LEMMA DisconnectType ==
  ASSUME ConnTypeOK, NEW S, NEW types, SendAndDisconnect(S, types)
  PROVE  /\ connRunning' \in [Conns -> BOOLEAN]
         /\ connState' \in [Conns -> ConnectionStates]
         /\ socket' \in [Conns -> {"open", "closed"}]
         /\ sent' \in [Conns -> SUBSET FrameTypes]
<1>1. connRunning' \in [Conns -> BOOLEAN]
  BY DEF ConnTypeOK, SendAndDisconnect
<1>2. connState' \in [Conns -> ConnectionStates]
  BY DEF ConnTypeOK, SendAndDisconnect, ConnectionStates
<1>3. socket' \in [Conns -> {"open", "closed"}]
  BY DEF ConnTypeOK, SendAndDisconnect
<1>4. sent' \in [Conns -> SUBSET FrameTypes]
  BY ConnectionAssumption DEF ConnTypeOK, SendAndDisconnect, Keep
<1> QED
  BY <1>1, <1>2, <1>3, <1>4

\* So does the destructor.
LEMMA DestroyType ==
  ASSUME ConnTypeOK, NEW S, Destroy(S)
  PROVE  /\ connRunning' \in [Conns -> BOOLEAN]
         /\ socket' \in [Conns -> {"open", "closed"}]
         /\ connState' = connState
         /\ sent' = sent
BY DEF ConnTypeOK, Destroy

\* So does the receive thread that disconnects itself.
LEMMA SelfType ==
  ASSUME ConnTypeOK, NEW c \in Conns, DisconnectSelf(c)
  PROVE  /\ connRunning' \in [Conns -> BOOLEAN]
         /\ connState' \in [Conns -> ConnectionStates]
         /\ socket' \in [Conns -> {"open", "closed"}]
         /\ sent' \in [Conns -> SUBSET FrameTypes]
         /\ recvPc' \in [Conns -> RecvPcs]
<1>1. CASE Disconnect({c}) /\ Goto(c, "exited")
  BY <1>1, DisconnectType DEF Disconnect, Goto, ConnTypeOK, RecvPcs
<1>2. CASE /\ connState' = [connState EXCEPT ![c] = "DISCONNECTING"]
           /\ Goto(c, "sending")
           /\ UNCHANGED <<connRunning, socket, sent>>
  BY <1>2 DEF Goto, ConnTypeOK, RecvPcs, ConnectionStates
<1> QED
  BY <1>1, <1>2 DEF DisconnectSelf

\* The session never finds a connection under the id its callbacks pass.
LEMMA NoTarget ==
  ASSUME connections \subseteq Conns, NEW c PROVE Target(c) = {}
BY SessionAssumption DEF Target, ConnIdOf

\* Every step of the process keeps the types.
LEMMA TypeStep == TypeOK /\ [Next]_vars => TypeOK'
<1> SUFFICES ASSUME TypeOK, [Next]_vars PROVE TypeOK'
  OBVIOUS
<1> USE DEF TypeOK, ConnTypeOK, Ids, AddPcs, MainPcs, PingPcs, RecvPcs,
            connVars, sockVars, threadVars, envVars, mapVars, ctlVars, lockVars,
            histVars, Senders
<1>1. ASSUME NEW c \in Conns, Accept(c) PROVE TypeOK'
  BY <1>1 DEF Accept, Add
<1>2. ASSUME NEW c \in Conns, AddCheck(c) PROVE TypeOK'
  BY <1>2 DEF AddCheck, Add
<1>3. ASSUME NEW c \in Conns, AddRefused(c) PROVE TypeOK'
  BY <1>3, DestroyType DEF AddRefused, Add
<1>4. ASSUME NEW c \in Conns, AddInsert(c) PROVE TypeOK'
  BY <1>4 DEF AddInsert, Add, SetPeer, FreshPeer, ConnectionStates
<1>5. ASSUME NEW c \in Conns, AddStart(c) PROVE TypeOK'
  BY <1>5 DEF AddStart, Add, Start
<1>6. ASSUME NEW c \in Conns, sendHello(c) PROVE TypeOK'
  BY <1>6, SendType DEF sendHello, Add, SendReturns
<1>7. ASSUME NEW c \in Conns, AddReturn(c) PROVE TypeOK'
  BY <1>7 DEF AddReturn, Add
<1>8. ASSUME NEW c \in Conns, AddDrop(c) PROVE TypeOK'
  BY <1>8, DestroyType DEF AddDrop, Add
<1>9. ASSUME NEW c \in Conns, AddJoin(c) PROVE TypeOK'
  BY <1>9 DEF AddJoin, Add
<1>10. ASSUME NEW c \in Conns, HelloAccepted(c) PROVE TypeOK'
  BY <1>10 DEF HelloAccepted, SetPeer, ConnectionStates, Take, Goto, ConnIdOf
<1>11. ASSUME NEW c \in Conns, HelloChallenged(c) PROVE TypeOK'
  BY <1>11, SendType
     DEF HelloChallenged, SetPeer, ConnectionStates, Take, Goto, ConnIdOf
<1>12. ASSUME NEW c \in Conns, HelloRejected(c) PROVE TypeOK'
  BY <1>12, DisconnectType DEF HelloRejected, Disconnect, Take, Goto, ConnIdOf
<1>13. ASSUME NEW c \in Conns, handleAuthRequest(c) PROVE TypeOK'
  BY <1>13, SendType DEF handleAuthRequest, Take, Goto, ConnIdOf
<1>14. ASSUME NEW c \in Conns, handleAuthResponse(c) PROVE TypeOK'
  <2>1. Target(c) = {}
    BY NoTarget
  <2>2. batch' \in [Conns -> Seq(Frames)] /\ recvPc' \in [Conns -> RecvPcs]
    BY <1>14, <2>1 DEF handleAuthResponse, Take, Goto
  <2>3. CASE FrameOk(c)
    BY <1>14, <2>1, <2>2, <2>3, SendType DEF handleAuthResponse, Take
  <2>4. CASE ~FrameOk(c)
    BY <1>14, <2>1, <2>2, <2>4, DisconnectType DEF handleAuthResponse, Take
  <2> QED
    BY <2>3, <2>4
<1>15. ASSUME NEW c \in Conns, ChatAccepted(c) PROVE TypeOK'
  BY <1>15 DEF ChatAccepted, Take, Goto, ConnIdOf
<1>16. ASSUME NEW c \in Conns, ChatDropped(c) PROVE TypeOK'
  BY <1>16 DEF ChatDropped, Take, Goto, ConnIdOf
<1>17. ASSUME NEW c \in Conns, handlePing(c) PROVE TypeOK'
  BY <1>17, SendType DEF handlePing, Take, Goto, ConnIdOf
<1>18. ASSUME NEW c \in Conns, handleDisconnect(c) PROVE TypeOK'
  BY <1>18, DisconnectType
     DEF handleDisconnect, Disconnect, Take, Goto, ConnIdOf
<1>19. ASSUME NEW c \in Conns, FrameIgnored(c) PROVE TypeOK'
  BY <1>19 DEF FrameIgnored, Take, Goto, ConnIdOf
<1>20. ASSUME NEW c \in Conns, onDisconnect(c) PROVE TypeOK'
  BY <1>20 DEF onDisconnect, Forget, Restrict, Goto
<1>21. ASSUME NEW c \in Conns, ShowConnected(c) PROVE TypeOK'
  BY <1>21 DEF ShowConnected, ShowEvent, Goto
<1>22. ASSUME NEW c \in Conns, ShowDisconnected(c) PROVE TypeOK'
  BY <1>22 DEF ShowDisconnected, ShowEvent, Goto
<1>23. ASSUME NEW c \in Conns, ShowMessage(c) PROVE TypeOK'
  BY <1>23 DEF ShowMessage, Goto
<1>24. ASSUME NEW c \in Conns, LoopStep(c) PROVE TypeOK'
  <2>1. UNCHANGED <<mapVars, ctlVars, histVars>>
    BY <1>24 DEF LoopStep
  <2>2. CASE LoopExit(c)
    BY <2>1, <2>2 DEF LoopExit, Goto
  <2>3. CASE RecvCall(c)
    BY <2>1, <2>3 DEF RecvCall, Goto
  <2>4. CASE RecvEnd(c)
    <3>1. recvPc' \in [Conns -> RecvPcs]
      <4>1. \E pc \in RecvPcs : Goto(c, pc)
        BY <2>4 DEF RecvEnd
      <4> QED
        BY <4>1 DEF Goto
    <3>2. connRunning' \in [Conns -> BOOLEAN]
      BY <2>4 DEF RecvEnd
    <3>3. connState' \in [Conns -> ConnectionStates]
      BY <2>4 DEF RecvEnd, ConnectionStates
    <3> QED
      BY <2>1, <2>4, <3>1, <3>2, <3>3 DEF RecvEnd
  <2>5. CASE NextRecv(c)
    <3>1. Goto(c, "loop") /\ UNCHANGED <<sockVars, batch, budget, envVars>>
      BY <2>5 DEF NextRecv
    <3> QED
      BY <2>1, <3>1 DEF Goto
  <2>6. CASE RateLimit(c)
    <3>1. DisconnectSelf(c) /\ UNCHANGED <<batch, budget, envVars>>
      BY <2>6 DEF RateLimit
    <3> QED
      BY <2>1, <3>1, SelfType
  <2>7. CASE SendEnds(c)
    BY <2>1, <2>7, DisconnectType DEF SendEnds, Goto, Disconnect
  <2> QED
    BY <1>24, <2>2, <2>3, <2>4, <2>5, <2>6, <2>7 DEF LoopStep
<1>25. ASSUME NEW c \in Conns, Peer(c) PROVE TypeOK'
  <2>1. ASSUME NEW fs \in Batches, RecvFrames(c, fs) PROVE TypeOK'
    BY <1>25, <2>1, BatchType DEF Peer, RecvFrames, Goto
  <2>2. ASSUME NEW fs \in Batches, RecvInvalid(c, fs) PROVE TypeOK'
    BY <1>25, <2>2, BatchType, SelfType DEF Peer, RecvInvalid
  <2>3. CASE RemoteClose(c)
    BY <1>25, <2>3 DEF Peer, RemoteClose
  <2>4. CASE PeerStalls(c)
    BY <1>25, <2>4 DEF Peer, PeerStalls
  <2> QED
    BY <1>25, <2>1, <2>2, <2>3, <2>4 DEF Peer
<1>26. ASSUME PingWake PROVE TypeOK'
  BY <1>26 DEF PingWake
<1>27. ASSUME PingRound PROVE TypeOK'
  BY <1>27, SendType DEF PingRound, SendReturns
<1>28. ASSUME NEW c \in Conns, ReapShared(c) PROVE TypeOK'
  BY <1>28 DEF ReapShared, ReapNext, Forget, Restrict
<1>29. ASSUME NEW c \in Conns, ReapLast(c) PROVE TypeOK'
  BY <1>29, DestroyType DEF ReapLast, ReapNext, Forget, Restrict
<1>30. ASSUME PingJoin PROVE TypeOK'
  BY <1>30 DEF PingJoin
<1>31. ASSUME ReapDone PROVE TypeOK'
  BY <1>31 DEF ReapDone
<1>32. ASSUME EnterLine PROVE TypeOK'
  BY <1>32 DEF EnterLine, Main
<1>33. ASSUME broadcast PROVE TypeOK'
  BY <1>33, SendType DEF broadcast, Main, SendReturns
<1>34. ASSUME Quit PROVE TypeOK'
  BY <1>34 DEF Quit, Main
<1>35. ASSUME StopJoinPing PROVE TypeOK'
  BY <1>35 DEF StopJoinPing, Main
<1>36. ASSUME StopDisconnect PROVE TypeOK'
  BY <1>36, DisconnectType DEF StopDisconnect, Main, Disconnect, SendReturns
<1>37. ASSUME NEW c \in Conns, StopShared(c) PROVE TypeOK'
  BY <1>37 DEF StopShared, Main
<1>38. ASSUME NEW c \in Conns, StopLast(c) PROVE TypeOK'
  BY <1>38, DestroyType DEF StopLast, Main
<1>39. ASSUME StopJoin PROVE TypeOK'
  BY <1>39 DEF StopJoin, Main
<1>40. ASSUME StopDone PROVE TypeOK'
  BY <1>40 DEF StopDone, Main
<1>41. CASE UNCHANGED vars
  BY <1>41 DEF vars
<1>42. ASSUME MakeUi PROVE TypeOK'
  BY <1>42 DEF MakeUi, Main
<1>43. ASSUME StopBlocks PROVE TypeOK'
  BY <1>43, DisconnectType DEF StopBlocks, SendBlocks, Disconnect
<1>44. ASSUME NEW t \in Senders, Blocked(t) PROVE TypeOK'
  BY <1>44 DEF Blocked, SendBlocks
<1> QED
  BY <1>1, <1>2, <1>3, <1>4, <1>5, <1>6, <1>7, <1>8, <1>9, <1>10,
     <1>11, <1>12, <1>13, <1>14, <1>15, <1>16, <1>17, <1>18, <1>19,
     <1>20, <1>21, <1>22, <1>23, <1>24, <1>25, <1>26, <1>27, <1>28,
     <1>29, <1>30, <1>31, <1>32, <1>33, <1>34, <1>35, <1>36, <1>37,
     <1>38, <1>39, <1>40, <1>41, <1>42, <1>43, <1>44
     DEF Next, AcceptThread, RecvThread, onFrame, PingThread, MainThread

\* The initial state has the types.
LEMMA InitType == Init => TypeOK
<1> SUFFICES ASSUME Init PROVE TypeOK
  OBVIOUS
<1>1. ConnTypeOK
  BY ConnectionAssumption
     DEF Init, ConnInit, ConnTypeOK, RecvPcs, ConnectionStates
<1>2. DOMAIN peers \subseteq Ids /\ peers \in [DOMAIN peers -> ConnectionStates]
  BY DEF Init
<1>3. addPc \in [Conns -> AddPcs]
  BY DEF Init, AddPcs
<1>4. /\ connMutex \in {"free", "main", "ping"}
      /\ mainPc \in MainPcs
      /\ pingPc \in PingPcs
      /\ victim \in Ids
      /\ online \in Int /\ early \in Int
      /\ sender \in Senders \cup {"nobody"}
  BY DEF Init, MainPcs, PingPcs, Ids
<1>5. /\ sessRunning \in BOOLEAN /\ aborted \in BOOLEAN
      /\ connections \subseteq Conns /\ deadConns \subseteq Conns
      /\ heard \subseteq Conns /\ delivered \subseteq Conns
  BY DEF Init
<1> QED
  BY <1>1, <1>2, <1>3, <1>4, <1>5 DEF TypeOK

\* The types of all variables are as declared, whatever the peers send.
THEOREM TypeCorrect == Spec => []TypeOK
BY InitType, TypeStep, PTL DEF Spec

-----------------------------------------------------------------------------
(* What the steps of each kind of thread leave alone.                      *)

\* An accept thread leaves the other threads and the history alone.
LEMMA AcceptFrame ==
  ASSUME NEW c, Accept(c) \/ AcceptThread(c)
  PROVE  /\ UNCHANGED <<connMutex, sessRunning, mainPc, pingPc, deadConns>>
         /\ UNCHANGED <<victim, histVars>>
BY DEF Accept, AcceptThread, AddCheck, AddRefused, AddInsert, AddStart,
       sendHello, AddReturn, AddDrop, AddJoin, Add, lockVars

\* Of the maps, a receive thread changes only the entry of the empty connId.
LEMMA RecvFrame ==
  ASSUME TypeOK, NEW c \in Conns, RecvThread(c) \/ Peer(c)
  PROVE  /\ UNCHANGED ctlVars
         /\ connections' = connections
         /\ \A i \in Conns : i \in DOMAIN peers' <=> i \in DOMAIN peers
         /\ \A i \in Conns \cap DOMAIN peers : peers'[i] = peers[i]
<1> USE DEF Take, mapVars
<1>1. NoId \notin Conns /\ connections \subseteq Conns
  BY SessionAssumption DEF TypeOK
<1>2. CASE Peer(c) \/ LoopStep(c)
  BY <1>2 DEF Peer, LoopStep
<1>3. CASE onFrame(c)
  <2>1. UNCHANGED ctlVars /\ connections' = connections
    BY <1>3 DEF onFrame, HelloAccepted, HelloChallenged, HelloRejected,
         handleAuthRequest, handleAuthResponse, ChatAccepted, ChatDropped,
         handlePing, handleDisconnect, FrameIgnored
  <2>2. peers' = peers \/ \E s : SetPeer(NoId, s)
    BY <1>3 DEF onFrame, HelloAccepted, HelloChallenged, HelloRejected,
         handleAuthRequest, handleAuthResponse, ChatAccepted, ChatDropped,
         handlePing, handleDisconnect, FrameIgnored, ConnIdOf
  <2> QED
    BY <1>1, <2>1, <2>2 DEF SetPeer
<1>4. CASE onDisconnect(c)
  BY <1>1, <1>4 DEF onDisconnect, ConnIdOf, Forget, Restrict
<1>5. CASE ShowConnected(c) \/ ShowDisconnected(c) \/ ShowMessage(c)
  BY <1>5 DEF ShowConnected, ShowDisconnected, ShowMessage
<1> QED
  BY <1>2, <1>3, <1>4, <1>5 DEF RecvThread

\* The ping thread moves no receive or accept thread.
LEMMA PingFrame ==
  ASSUME PingThread
  PROVE  UNCHANGED <<threadVars, envVars, sessRunning, addPc, mainPc, histVars>>
BY DEF PingThread, PingWake, PingRound, ReapShared, ReapLast, ReapNext,
       PingJoin, ReapDone, connVars

\* Neither does the main thread.
LEMMA MainFrame ==
  ASSUME MainThread \/ EnterLine \/ Quit
  PROVE  UNCHANGED <<threadVars, envVars, addPc, pingPc, deadConns, histVars>>
BY DEF MainThread, MakeUi, EnterLine, Quit, broadcast, StopJoinPing,
       StopDisconnect, StopBlocks, StopShared, StopLast, StopJoin, StopDone,
       Main, connVars

\* A thread that blocks in ::send changes nothing but who is blocked there.
LEMMA BlockedFrame ==
  ASSUME NEW t, Blocked(t)
  PROVE  UNCHANGED <<connVars, mapVars, connMutex, sessRunning, addPc, mainPc,
                     pingPc, deadConns, victim, histVars>>
BY DEF Blocked

-----------------------------------------------------------------------------
(* The parts of the inductive invariant.                                   *)

\* LockInv is preserved.
LEMMA LockStep == TypeOK /\ LockInv /\ [Next]_vars => LockInv'
<1> SUFFICES ASSUME TypeOK, LockInv, [Next]_vars PROVE LockInv'
  OBVIOUS
<1> USE SessionAssumption DEF LockInv, ctlVars, lockVars
<1>1. ASSUME NEW c \in Conns, Accept(c) \/ AcceptThread(c) PROVE LockInv'
  BY <1>1, AcceptFrame
<1>2. ASSUME NEW c \in Conns, RecvThread(c) \/ Peer(c) PROVE LockInv'
  BY <1>2, RecvFrame
<1>3. CASE PingThread
  BY <1>3, PingFrame
     DEF PingThread, PingWake, PingRound, ReapShared, ReapLast, ReapNext,
         PingJoin, ReapDone, TypeOK, Locked, MayEnter, lockVars
<1>4. CASE MainThread \/ EnterLine \/ Quit
  <2>1. CASE StopBlocks
    BY <2>1, <1>4, MainFrame DEF StopBlocks
  <2>2. CASE ~StopBlocks
    BY <2>2, <1>4, MainFrame
       DEF MainThread, MakeUi, EnterLine, Quit, broadcast, StopJoinPing,
           StopDisconnect, StopShared, StopLast, StopJoin, StopDone, Main,
           TypeOK, Locked, MayEnter, SendReturns, lockVars
  <2> QED
    BY <2>1, <2>2
<1>5. CASE UNCHANGED vars
  BY <1>5 DEF vars
<1>6. ASSUME NEW t \in Senders, Blocked(t) PROVE LockInv'
  BY <1>6, BlockedFrame DEF lockVars
<1> QED
  BY <1>1, <1>2, <1>3, <1>4, <1>5, <1>6 DEF Next

\* MapsAgree is preserved.
LEMMA MapsStep ==
  TypeOK /\ LockInv /\ MapsAgree /\ [Next]_vars => MapsAgree'
<1> SUFFICES ASSUME TypeOK, LockInv, MapsAgree, [Next]_vars PROVE MapsAgree'
  OBVIOUS
<1> USE SessionAssumption DEF MapsAgree, mapVars
<1>1. ASSUME NEW c \in Conns, Accept(c) \/ AcceptThread(c) PROVE MapsAgree'
  BY <1>1, AcceptFrame
     DEF Accept, AcceptThread, AddCheck, AddRefused, AddInsert, AddStart,
         sendHello, AddReturn, AddDrop, AddJoin, SetPeer, Locked, MayEnter,
         lockVars, TypeOK
<1>2. ASSUME NEW c \in Conns, RecvThread(c) \/ Peer(c) PROVE MapsAgree'
  <2>1. DOMAIN peers' \subseteq Ids
    BY <1>2, TypeStep DEF TypeOK, Next
  <2> QED
    BY <1>2, <2>1, RecvFrame DEF ctlVars, lockVars, TypeOK, Ids
<1>3. CASE PingThread
  BY <1>3, PingFrame
     DEF PingThread, PingWake, PingRound, ReapShared, ReapLast, ReapNext,
         PingJoin, ReapDone, Forget, Restrict, LockInv, TypeOK, Locked,
         MayEnter, lockVars
<1>4. CASE MainThread \/ EnterLine \/ Quit
  BY <1>4, MainFrame
     DEF MainThread, MakeUi, StopBlocks, EnterLine, Quit, broadcast,
         StopJoinPing, StopDisconnect,
         StopShared, StopLast, StopJoin, StopDone, Main, LockInv, TypeOK,
         Locked, MayEnter, lockVars
<1>5. CASE UNCHANGED vars
  BY <1>5 DEF vars, ctlVars, lockVars
<1>6. ASSUME NEW t \in Senders, Blocked(t) PROVE MapsAgree'
  BY <1>6, BlockedFrame DEF mapVars, lockVars
<1> QED
  BY <1>1, <1>2, <1>3, <1>4, <1>5, <1>6 DEF Next

\* DeadInv is preserved.
LEMMA DeadStep == TypeOK /\ DeadInv /\ [Next]_vars => DeadInv'
<1> SUFFICES ASSUME TypeOK, DeadInv, [Next]_vars PROVE DeadInv'
  OBVIOUS
<1> USE DEF DeadInv, mapVars
<1>1. ASSUME NEW c \in Conns, Accept(c) \/ AcceptThread(c) PROVE DeadInv'
  BY <1>1, AcceptFrame
     DEF Accept, AcceptThread, AddCheck, AddRefused, AddInsert, AddStart,
         sendHello, AddReturn, AddDrop, AddJoin
<1>2. ASSUME NEW c \in Conns, RecvThread(c) \/ Peer(c) PROVE DeadInv'
  BY <1>2, RecvFrame DEF ctlVars, lockVars
<1>3. CASE PingThread
  BY <1>3, PingFrame
     DEF PingThread, PingWake, PingRound, ReapShared, ReapLast, ReapNext,
         PingJoin, ReapDone, Forget, TypeOK, MainPcs
<1>4. CASE MainThread \/ EnterLine \/ Quit
  BY <1>4, MainFrame
     DEF MainThread, MakeUi, StopBlocks, EnterLine, Quit, broadcast,
         StopJoinPing, StopDisconnect,
         StopShared, StopLast, StopJoin, StopDone, Main, TypeOK
<1>5. CASE UNCHANGED vars
  BY <1>5 DEF vars, ctlVars, lockVars
<1>6. ASSUME NEW t \in Senders, Blocked(t) PROVE DeadInv'
  BY <1>6, BlockedFrame
<1> QED
  BY <1>1, <1>2, <1>3, <1>4, <1>5, <1>6 DEF Next

\* The receive thread that disconnects itself is done or in the send().
LEMMA SelfMoves ==
  ASSUME NEW c, DisconnectSelf(c)
  PROVE  /\ \E pc \in {"sending", "exited"} : Goto(c, pc)
         /\ \/ Disconnect({c})
            \/ /\ connState' = [connState EXCEPT ![c] = "DISCONNECTING"]
               /\ UNCHANGED <<connRunning, socket>>
BY DEF DisconnectSelf

\* A step of the receive thread of c starts from and ends in a started
\* thread, and moves no other thread.
LEMMA RecvMoves ==
  ASSUME TypeOK, NEW c \in Conns, RecvThread(c) \/ Peer(c)
  PROVE  /\ \A d \in Conns \ {c} : recvPc'[d] = recvPc[d]
         /\ recvPc'[c] # recvPc[c] => ~Joinable(c)
         /\ recvPc'[c] # "none" \/ recvPc'[c] = recvPc[c]
<1> USE DEF Goto, Joinable, TypeOK, ConnTypeOK
<1>1. CASE Peer(c)
  BY <1>1 DEF Peer, RecvFrames, RecvInvalid, DisconnectSelf, RemoteClose,
         PeerStalls, threadVars
<1>2. CASE LoopStep(c)
  <2>1. /\ recvPc[c] \in {"loop", "recv", "frames", "sending"}
        /\ \E pc \in {"recv", "onDisconnect", "loop", "sending", "exited"} :
             Goto(c, pc)
    BY <1>2 DEF LoopStep, LoopExit, RecvCall, RecvEnd, NextRecv, RateLimit,
         SendEnds, DisconnectSelf
  <2> QED
    BY <2>1
<1>3. CASE onFrame(c)
  <2>1. recvPc[c] = "frames" /\ \E pc \in {"connectedCb", "frames", "chatCb"} :
          Goto(c, pc)
    BY <1>3 DEF onFrame, HelloAccepted, HelloChallenged, HelloRejected,
         handleAuthRequest, handleAuthResponse, ChatAccepted, ChatDropped,
         handlePing, handleDisconnect, FrameIgnored, Take
  <2> QED
    BY <2>1
<1>4. CASE onDisconnect(c)
  <2>1. recvPc[c] = "onDisconnect" /\ \E pc \in {"disconnectedCb", "exited"} :
          Goto(c, pc)
    BY <1>4 DEF onDisconnect
  <2> QED
    BY <2>1
<1>5. CASE ShowConnected(c) \/ ShowDisconnected(c) \/ ShowMessage(c)
  BY <1>5 DEF ShowConnected, ShowDisconnected, ShowMessage
<1> QED
  BY <1>1, <1>2, <1>3, <1>4, <1>5 DEF RecvThread

\* OwnerInv is preserved: the step that drops the last reference is the one
\* that starts to wait for the thread.
LEMMA OwnerStep ==
  TypeOK /\ LockInv /\ DeadInv /\ OwnerInv /\ [Next]_vars => OwnerInv'
<1> SUFFICES ASSUME TypeOK, LockInv, DeadInv, OwnerInv, [Next]_vars
             PROVE  OwnerInv'
  OBVIOUS
<1> USE SessionAssumption
    DEF OwnerInv, RecvThreadOwned, AccHolds, Joinable, mapVars, connVars,
        threadVars
<1>1. ASSUME NEW c \in Conns, Accept(c) \/ AcceptThread(c) PROVE OwnerInv'
  <2> USE DEF Add, TypeOK, ConnTypeOK
  <2>1. victim' = victim
    BY <1>1, AcceptFrame
  <2>2. CASE Accept(c)
    BY <2>1, <2>2 DEF Accept
  <2>3. CASE AddCheck(c)
    BY <2>1, <2>3 DEF AddCheck
  <2>4. CASE AddRefused(c)
    BY <2>1, <2>4 DEF AddRefused
  <2>5. CASE AddInsert(c)
    BY <2>1, <2>5 DEF AddInsert
  <2>6. CASE AddStart(c)
    BY <2>1, <2>6 DEF AddStart, Start
  <2>7. CASE sendHello(c)
    BY <2>1, <2>7 DEF sendHello
  <2>8. CASE AddReturn(c)
    BY <2>1, <2>8 DEF AddReturn
  <2>9. CASE AddDrop(c)
    BY <2>1, <2>9 DEF AddDrop
  <2>10. CASE AddJoin(c)
    BY <2>1, <2>10 DEF AddJoin
  <2> QED
    BY <1>1, <2>2, <2>3, <2>4, <2>5, <2>6, <2>7, <2>8, <2>9, <2>10
       DEF AcceptThread
<1>2. ASSUME NEW c \in Conns, RecvThread(c) \/ Peer(c) PROVE OwnerInv'
  BY <1>2, RecvFrame, RecvMoves DEF ctlVars, lockVars
<1>3. CASE PingThread
  <2>1. UNCHANGED <<recvPc, addPc>>
    BY <1>3, PingFrame
  <2>2. CASE PingWake \/ PingRound \/ ReapDone
    BY <2>1, <2>2 DEF PingWake, PingRound, ReapDone
  <2>3. ASSUME NEW c \in Conns, ReapShared(c) \/ ReapLast(c) PROVE OwnerInv'
    <3>1. connections' = connections \ {c} /\ victim = NoId
      BY <2>3 DEF ReapShared, ReapLast, ReapNext, Forget, LockInv, Locked,
           MayEnter, lockVars, TypeOK
    <3>2. \/ AccHolds(c) /\ victim' = victim
          \/ ~AccHolds(c) /\ victim' = c
      BY <2>3 DEF ReapShared, ReapLast
    <3>3. c \in connections
      BY <2>3 DEF ReapShared, ReapLast, ReapNext, DeadInv
    <3> QED
      BY <2>1, <3>1, <3>2, <3>3
  <2>4. CASE PingJoin
    BY <2>1, <2>4 DEF PingJoin
  <2> QED
    BY <1>3, <2>2, <2>3, <2>4 DEF PingThread
<1>4. CASE MainThread \/ EnterLine \/ Quit
  <2>1. UNCHANGED <<recvPc, addPc>>
    BY <1>4, MainFrame
  <2>2. CASE MakeUi \/ EnterLine \/ Quit \/ broadcast \/ StopJoinPing
             \/ StopDisconnect \/ StopBlocks \/ StopDone
    BY <2>1, <2>2
       DEF MakeUi, StopBlocks, EnterLine, Quit, broadcast, StopJoinPing,
           StopDisconnect, StopDone
  <2>3. ASSUME NEW c \in Conns, StopShared(c) \/ StopLast(c) PROVE OwnerInv'
    BY <2>1, <2>3 DEF StopShared, StopLast, Main, LockInv, TypeOK
  <2>4. CASE StopJoin
    BY <2>1, <2>4 DEF StopJoin
  <2> QED
    BY <1>4, <2>2, <2>3, <2>4 DEF MainThread
<1>5. CASE UNCHANGED vars
  BY <1>5 DEF vars, ctlVars, lockVars
<1>6. ASSUME NEW t \in Senders, Blocked(t) PROVE OwnerInv'
  BY <1>6, BlockedFrame
<1> QED
  BY <1>1, <1>2, <1>3, <1>4, <1>5, <1>6 DEF Next

\* NoSelfJoin is preserved, since onDisconnect finds no connection to erase.
LEMMA SelfJoinStep == TypeOK /\ NoSelfJoin /\ [Next]_vars => NoSelfJoin'
<1> SUFFICES ASSUME TypeOK, NoSelfJoin, [Next]_vars PROVE NoSelfJoin'
  OBVIOUS
<1> USE DEF NoSelfJoin, histVars
<1>1. ASSUME NEW c \in Conns, Accept(c) \/ AcceptThread(c) PROVE NoSelfJoin'
  BY <1>1, AcceptFrame
<1>2. ASSUME NEW c \in Conns, RecvThread(c) \/ Peer(c) PROVE NoSelfJoin'
  <2>1. CASE onDisconnect(c)
    BY <2>1, NoTarget DEF onDisconnect, TypeOK
  <2>2. CASE ~onDisconnect(c)
    BY <1>2, <2>2
       DEF RecvThread, Peer, LoopStep, onFrame, HelloAccepted, HelloChallenged,
           HelloRejected, handleAuthRequest, handleAuthResponse, ChatAccepted,
           ChatDropped, handlePing, handleDisconnect, FrameIgnored, Take,
           ShowConnected, ShowDisconnected, ShowMessage
  <2> QED
    BY <2>1, <2>2
<1>3. CASE PingThread
  BY <1>3, PingFrame
<1>4. CASE MainThread \/ EnterLine \/ Quit
  BY <1>4, MainFrame
<1>5. CASE UNCHANGED vars
  BY <1>5 DEF vars
<1>6. ASSUME NEW t \in Senders, Blocked(t) PROVE NoSelfJoin'
  BY <1>6, BlockedFrame
<1> QED
  BY <1>1, <1>2, <1>3, <1>4, <1>5, <1>6 DEF Next

\* A step that only closes sockets, only stops connections and moves no
\* state, or disconnect() itself, keeps SilentInv.
LEMMA SilentOps ==
  ASSUME TypeOK, SilentInv,
         \A c \in Conns : recvPc[c] # "none" => recvPc'[c] # "none",
         \/ UNCHANGED <<connRunning, connState, socket>>
         \/ \E S : Destroy(S)
         \/ \E S, T : SendAndDisconnect(S, T)
         \/ \E c : DisconnectSelf(c)
  PROVE  SilentInv'
<1> USE DEF SilentInv, TypeOK, ConnTypeOK
<1>1. CASE UNCHANGED <<connRunning, connState, socket>>
  BY <1>1
<1>2. ASSUME NEW S, Destroy(S) PROVE SilentInv'
  BY <1>2 DEF Destroy
<1>3. ASSUME NEW S, NEW T, SendAndDisconnect(S, T) PROVE SilentInv'
  BY <1>3 DEF SendAndDisconnect
<1>4. ASSUME NEW c, connState' = [connState EXCEPT ![c] = "DISCONNECTING"],
             UNCHANGED <<connRunning, socket>>
      PROVE  SilentInv'
  BY <1>4
<1>5. ASSUME NEW c, Disconnect({c}) PROVE SilentInv'
  BY <1>3, <1>5 DEF Disconnect
<1> QED
  BY <1>1, <1>2, <1>3, <1>4, <1>5, SelfMoves

\* SilentInv is preserved: start() runs only on a connection whose receive
\* thread does not exist yet.
LEMMA SilentStep ==
  TypeOK /\ OwnerInv /\ SilentInv /\ [Next]_vars => SilentInv'
<1> SUFFICES ASSUME TypeOK, OwnerInv, SilentInv, [Next]_vars PROVE SilentInv'
  OBVIOUS
<1> USE DEF connVars, sockVars, threadVars
<1>1. ASSUME NEW c \in Conns, Accept(c) \/ AcceptThread(c) PROVE SilentInv'
  <2>1. CASE AddStart(c)
    <3>1. recvPc[c] = "none"
      BY <2>1 DEF AddStart, Add, OwnerInv
    <3> QED
      BY <2>1, <3>1
         DEF AddStart, Start, SilentInv, TypeOK, ConnTypeOK
  <2>2. CASE AddRefused(c) \/ AddDrop(c)
    BY <2>2, SilentOps DEF AddRefused, AddDrop
  <2>3. CASE Accept(c) \/ AddCheck(c) \/ AddInsert(c) \/ sendHello(c)
             \/ AddReturn(c) \/ AddJoin(c)
    BY <2>3, SilentOps
       DEF Accept, AddCheck, AddInsert, sendHello, AddReturn, AddJoin
  <2> QED
    BY <1>1, <2>1, <2>2, <2>3 DEF AcceptThread
<1>2. ASSUME NEW c \in Conns, RecvThread(c) \/ Peer(c) PROVE SilentInv'
  <2>1. \A d \in Conns : recvPc[d] # "none" => recvPc'[d] # "none"
    BY <1>2, RecvMoves
  <2>2. CASE Peer(c)
    BY <2>1, <2>2, SilentOps
       DEF Peer, RecvFrames, RecvInvalid, RemoteClose, PeerStalls
  <2>3. CASE LoopStep(c)
    <3>1. CASE RecvEnd(c) /\ connRunning[c]
      <4>1. /\ connRunning' = [connRunning EXCEPT ![c] = FALSE]
            /\ connState' = [connState EXCEPT ![c] = "DISCONNECTED"]
            /\ socket' = socket
            /\ recvPc[c] # "none"
        BY <3>1 DEF RecvEnd
      <4> QED
        BY <2>1, <4>1 DEF SilentInv, TypeOK, ConnTypeOK
    <3>2. CASE RecvEnd(c) /\ ~connRunning[c]
      BY <2>1, <3>2, SilentOps DEF RecvEnd
    <3>3. CASE LoopExit(c) \/ RecvCall(c) \/ NextRecv(c) \/ RateLimit(c)
               \/ SendEnds(c)
      BY <2>1, <3>3, SilentOps
         DEF LoopExit, RecvCall, NextRecv, RateLimit, SendEnds, Disconnect
    <3> QED
      BY <2>3, <3>1, <3>2, <3>3 DEF LoopStep
  <2>4. CASE onFrame(c)
    <3>1. CASE HelloRejected(c) \/ handleDisconnect(c)
      BY <2>1, <3>1, SilentOps DEF HelloRejected, handleDisconnect, Disconnect
    <3>2. CASE handleAuthResponse(c)
      BY <2>1, <3>2, SilentOps DEF handleAuthResponse
    <3>3. CASE HelloAccepted(c) \/ HelloChallenged(c) \/ handleAuthRequest(c)
               \/ ChatAccepted(c) \/ ChatDropped(c) \/ handlePing(c)
               \/ FrameIgnored(c)
      BY <2>1, <3>3, SilentOps
         DEF HelloAccepted, HelloChallenged, handleAuthRequest, ChatAccepted,
             ChatDropped, handlePing, FrameIgnored
    <3> QED
      BY <2>4, <3>1, <3>2, <3>3 DEF onFrame
  <2>5. CASE onDisconnect(c) \/ ShowConnected(c) \/ ShowDisconnected(c)
             \/ ShowMessage(c)
    BY <2>1, <2>5, SilentOps
       DEF onDisconnect, ShowConnected, ShowDisconnected, ShowMessage
  <2> QED
    BY <1>2, <2>2, <2>3, <2>4, <2>5 DEF RecvThread
<1>3. CASE PingThread
  <2>1. recvPc' = recvPc
    BY <1>3, PingFrame
  <2> QED
    BY <1>3, <2>1, SilentOps
       DEF PingThread, PingWake, PingRound, ReapShared, ReapLast, PingJoin,
           ReapDone
<1>4. CASE MainThread \/ EnterLine \/ Quit
  <2>1. recvPc' = recvPc
    BY <1>4, MainFrame
  <2> QED
    BY <1>4, <2>1, SilentOps
       DEF MainThread, MakeUi, StopBlocks, EnterLine, Quit, broadcast,
           StopJoinPing, StopDisconnect,
           StopShared, StopLast, StopJoin, StopDone, Disconnect
<1>5. CASE UNCHANGED vars
  BY <1>5, SilentOps DEF vars
<1>6. ASSUME NEW t \in Senders, Blocked(t) PROVE SilentInv'
  BY <1>6, BlockedFrame, SilentOps
<1> QED
  BY <1>1, <1>2, <1>3, <1>4, <1>5, <1>6 DEF Next

\* The ping thread only erases entries of peers_.
LEMMA PingPeers ==
  ASSUME PingThread
  PROVE  \A i \in DOMAIN peers' : i \in DOMAIN peers /\ peers'[i] = peers[i]
<1>1. CASE peers' = peers
  BY <1>1
<1>2. ASSUME NEW c \in Conns, Forget(c)
      PROVE  \A i \in DOMAIN peers' : i \in DOMAIN peers /\ peers'[i] = peers[i]
  BY <1>2 DEF Forget, Restrict
<1>3. peers' = peers \/ \E c \in Conns : Forget(c)
  BY DEF PingThread, PingWake, PingRound, ReapShared, ReapLast, ReapNext,
     PingJoin, ReapDone, mapVars
<1> QED
  BY <1>1, <1>2, <1>3

\* GateInv is preserved.
LEMMA GateStep == TypeOK /\ GateInv /\ [Next]_vars => GateInv'
<1> SUFFICES ASSUME TypeOK, GateInv, [Next]_vars PROVE GateInv'
  OBVIOUS
<1> USE SessionAssumption
    DEF GateInv, ChatIsGated, IsAuthenticated, TypeOK, ConnTypeOK
<1>1. ASSUME NEW c \in Conns, Accept(c) \/ AcceptThread(c) PROVE GateInv'
  <2>1. UNCHANGED <<heard, delivered>>
    BY <1>1, AcceptFrame DEF histVars
  <2>2. IsAuthenticated(NoId)' = IsAuthenticated(NoId)
    BY <1>1 DEF Accept, AcceptThread, AddCheck, AddRefused, AddInsert, AddStart,
         sendHello, AddReturn, AddDrop, AddJoin, SetPeer, mapVars
  <2>3. \A d \in Conns : recvPc'[d] = "chatCb" => recvPc[d] = "chatCb"
    BY <1>1 DEF Accept, AcceptThread, AddCheck, AddRefused, AddInsert, AddStart,
         Start, sendHello, AddReturn, AddDrop, AddJoin, connVars, threadVars
  <2> QED
    BY <2>1, <2>2, <2>3
<1>2. ASSUME NEW c \in Conns, RecvThread(c) \/ Peer(c) PROVE GateInv'
  <2> USE DEF Take, Goto, mapVars, histVars, threadVars
  <2>1. CASE Peer(c)
    BY <2>1 DEF Peer, RecvFrames, RecvInvalid, DisconnectSelf, RemoteClose,
         PeerStalls
  <2>2. CASE LoopStep(c)
    <3>1. UNCHANGED <<mapVars, histVars>>
      BY <2>2 DEF LoopStep
    <3>2. \E pc \in RecvPcs \ {"chatCb"} : Goto(c, pc)
      BY <2>2 DEF LoopStep, LoopExit, RecvCall, RecvEnd, NextRecv, RateLimit,
         SendEnds, DisconnectSelf,
           RecvPcs
    <3> QED
      BY <3>1, <3>2
  <2>3. CASE HelloAccepted(c)
    BY <2>3 DEF HelloAccepted, SetPeer, ConnIdOf
  <2>4. CASE HelloChallenged(c)
    BY <2>4 DEF HelloChallenged, SetPeer, ConnIdOf
  <2>5. CASE ChatAccepted(c)
    BY <2>5 DEF ChatAccepted, ConnIdOf
  <2>6. CASE handleAuthResponse(c)
    <3>1. peers' = peers /\ Goto(c, "frames")
      BY <2>6, NoTarget DEF handleAuthResponse
    <3> QED
      BY <2>6, <3>1 DEF handleAuthResponse
  <2>7. CASE HelloRejected(c) \/ handleAuthRequest(c) \/ ChatDropped(c)
             \/ handlePing(c) \/ handleDisconnect(c) \/ FrameIgnored(c)
    BY <2>7 DEF HelloRejected, handleAuthRequest, ChatDropped, handlePing,
         handleDisconnect, FrameIgnored
  <2>8. CASE onDisconnect(c)
    <3>1. \E pc \in RecvPcs \ {"chatCb"} : Goto(c, pc)
      BY <2>8 DEF onDisconnect, RecvPcs
    <3>2. UNCHANGED <<heard, delivered>> /\ ~IsAuthenticated(NoId)'
      BY <2>8 DEF onDisconnect, Forget, Restrict, ConnIdOf
    <3> QED
      BY <3>1, <3>2
  <2>9. CASE ShowConnected(c) \/ ShowDisconnected(c) \/ ShowMessage(c)
    BY <2>9 DEF ShowConnected, ShowDisconnected, ShowMessage
  <2> QED
    BY <1>2, <2>1, <2>2, <2>3, <2>4, <2>5, <2>6, <2>7, <2>8, <2>9
       DEF RecvThread, onFrame
<1>3. CASE PingThread
  <2>1. UNCHANGED <<recvPc, heard, delivered>>
    BY <1>3, PingFrame DEF threadVars, histVars
  <2>2. IsAuthenticated(NoId)' => IsAuthenticated(NoId)
    BY <1>3, PingPeers
  <2> QED
    BY <2>1, <2>2
<1>4. CASE MainThread \/ EnterLine \/ Quit
  <2>1. UNCHANGED <<recvPc, heard, delivered>>
    BY <1>4, MainFrame DEF threadVars, histVars
  <2>2. IsAuthenticated(NoId)' => IsAuthenticated(NoId)
    BY <1>4 DEF MainThread, MakeUi, StopBlocks, EnterLine, Quit, broadcast,
         StopJoinPing,
         StopDisconnect, StopShared, StopLast, StopJoin, StopDone, mapVars
  <2> QED
    BY <2>1, <2>2
<1>5. CASE UNCHANGED vars
  BY <1>5 DEF vars, connVars, threadVars, mapVars, histVars
<1>6. ASSUME NEW t \in Senders, Blocked(t) PROVE GateInv'
  BY <1>6, BlockedFrame DEF histVars, connVars, threadVars, mapVars
<1> QED
  BY <1>1, <1>2, <1>3, <1>4, <1>5, <1>6 DEF Next

-----------------------------------------------------------------------------
(* What the user is told.                                                  *)

\* The receive threads that are at a given place.
At(pc) == {c \in Conns : recvPc[c] = pc}

\* They can be counted.
LEMMA AtFinite ==
  ASSUME NEW pc PROVE IsFiniteSet(At(pc)) /\ Pending(pc) \in Nat
<1>1. At(pc) \in SUBSET Conns
  BY DEF At
<1>2. IsFiniteSet(At(pc))
  BY <1>1, FS_Subset, SessionAssumption
<1> QED
  BY <1>2, FS_CardinalityType DEF Pending, At

\* When one thread moves, the counts of the two places change by one.
LEMMA PendingMoves ==
  ASSUME TypeOK, NEW c \in Conns, NEW pc, Goto(c, pc), NEW s
  PROVE  Pending(s)' = Pending(s) + (IF s = pc THEN 1 ELSE 0)
                                  - (IF s = recvPc[c] THEN 1 ELSE 0)
<1>1. At(s)' = IF s = pc THEN At(s) \cup {c} ELSE At(s) \ {c}
  BY DEF At, Goto, TypeOK, ConnTypeOK
<1>2. c \in At(s) <=> s = recvPc[c]
  BY DEF At
<1>3. Pending(s) = Cardinality(At(s)) /\ Pending(s)' = Cardinality(At(s)')
  BY DEF Pending, At
<1>4. IsFiniteSet(At(s)) /\ Cardinality(At(s)) \in Nat
  BY <1>3, AtFinite
<1>5. CASE s = pc
  <2>1. Cardinality(At(s) \cup {c}) =
          IF c \in At(s) THEN Cardinality(At(s)) ELSE Cardinality(At(s)) + 1
    BY <1>4, FS_AddElement
  <2>2. Pending(s)' = Cardinality(At(s) \cup {c})
    BY <1>1, <1>3, <1>5
  <2> QED
    BY <1>2, <1>3, <1>4, <1>5, <2>1, <2>2
<1>6. CASE s # pc
  <2>1. Cardinality(At(s) \ {c}) =
          IF c \in At(s) THEN Cardinality(At(s)) - 1 ELSE Cardinality(At(s))
    BY <1>4, FS_RemoveElement
  <2>2. Pending(s)' = Cardinality(At(s) \ {c})
    BY <1>1, <1>3, <1>6
  <2> QED
    BY <1>2, <1>3, <1>4, <1>6, <2>1, <2>2
<1> QED
  BY <1>5, <1>6

\* A step that moves no thread to or from a callback about a connection, and
\* lets nobody become authenticated, keeps the balance.
LEMMA BalanceKept ==
  ASSUME TypeOK, EventsBalance, UNCHANGED <<online, early>>,
         IsAuthenticated(NoId)' => IsAuthenticated(NoId),
         \/ recvPc' = recvPc
         \/ \E c \in Conns :
              /\ recvPc[c] \notin {"connectedCb", "disconnectedCb"}
              /\ \E pc : /\ pc \notin {"connectedCb", "disconnectedCb"}
                         /\ Goto(c, pc)
  PROVE  EventsBalance'
<1>1. /\ Pending("connectedCb")' = Pending("connectedCb")
      /\ Pending("disconnectedCb")' = Pending("disconnectedCb")
  <2>1. CASE recvPc' = recvPc
    BY <2>1 DEF Pending
  <2>2. ASSUME NEW c \in Conns, NEW pc, Goto(c, pc),
               recvPc[c] \notin {"connectedCb", "disconnectedCb"},
               pc \notin {"connectedCb", "disconnectedCb"}
        PROVE  /\ Pending("connectedCb")' = Pending("connectedCb")
               /\ Pending("disconnectedCb")' = Pending("disconnectedCb")
    BY <2>2, PendingMoves, AtFinite
  <2> QED
    BY <2>1, <2>2
<1> QED
  BY <1>1, AtFinite DEF EventsBalance, TypeOK

\* The balance is preserved: HELLO announces a connect, and the disconnect is
\* announced by the one thread that finds the entry authenticated.
LEMMA BalanceStep ==
  TypeOK /\ OwnerInv /\ EventsBalance /\ [Next]_vars => EventsBalance'
<1> SUFFICES ASSUME TypeOK, OwnerInv, EventsBalance, [Next]_vars
             PROVE  EventsBalance'
  OBVIOUS
<1>0. /\ online \in Int /\ early \in Int
      /\ Pending("connectedCb") \in Nat /\ Pending("disconnectedCb") \in Nat
  BY AtFinite DEF TypeOK
<1>1. ASSUME NEW c \in Conns, Accept(c) \/ AcceptThread(c) PROVE EventsBalance'
  <2>1. UNCHANGED <<online, early>>
    BY <1>1, AcceptFrame DEF histVars
  <2>2. IsAuthenticated(NoId)' = IsAuthenticated(NoId)
    BY <1>1, SessionAssumption
       DEF Accept, AcceptThread, AddCheck, AddRefused, AddInsert, AddStart,
           sendHello, AddReturn, AddDrop, AddJoin, SetPeer, mapVars,
           IsAuthenticated
  <2>3. recvPc' = recvPc \/ (recvPc[c] = "none" /\ Goto(c, "loop"))
    BY <1>1 DEF Accept, AcceptThread, AddCheck, AddRefused, AddInsert, AddStart,
         Start, sendHello, AddReturn, AddDrop, AddJoin, connVars, threadVars,
         Add, Goto, OwnerInv
  <2> QED
    BY <2>1, <2>2, <2>3, BalanceKept
<1>2. ASSUME NEW c \in Conns, RecvThread(c) \/ Peer(c) PROVE EventsBalance'
  <2> USE DEF Take, mapVars, histVars, threadVars
  <2>1. CASE Peer(c)
    <3>1. UNCHANGED <<online, early, peers>>
      BY <2>1 DEF Peer
    <3>2. recvPc' = recvPc \/
            (recvPc[c] = "recv"
               /\ \E pc \in {"frames", "sending", "exited"} : Goto(c, pc))
      BY <2>1 DEF Peer, RecvFrames, RecvInvalid, DisconnectSelf, RemoteClose,
         PeerStalls
    <3> QED
      BY <3>1, <3>2, BalanceKept DEF IsAuthenticated
  <2>2. CASE LoopStep(c)
    <3>1. UNCHANGED <<online, early, peers>>
      BY <2>2 DEF LoopStep
    <3>2. /\ recvPc[c] \in {"loop", "recv", "frames", "sending"}
          /\ \E pc \in {"recv", "onDisconnect", "loop", "sending", "exited"} :
               Goto(c, pc)
      BY <2>2 DEF LoopStep, LoopExit, RecvCall, RecvEnd, NextRecv, RateLimit,
         SendEnds, DisconnectSelf
    <3> QED
      BY <3>1, <3>2, BalanceKept DEF IsAuthenticated
  <2>3. CASE HelloAccepted(c)
    <3>1. /\ recvPc[c] = "frames" /\ Goto(c, "connectedCb")
          /\ UNCHANGED <<online, early>>
      BY <2>3 DEF HelloAccepted
    <3>2. /\ Pending("connectedCb")' = Pending("connectedCb") + 1
          /\ Pending("disconnectedCb")' = Pending("disconnectedCb")
      BY <1>0, <3>1, PendingMoves
    <3> QED
      BY <1>0, <3>1, <3>2 DEF EventsBalance
  <2>4. CASE HelloChallenged(c)
    <3>1. /\ recvPc[c] = "frames" /\ Goto(c, "frames")
          /\ UNCHANGED <<online, early>>
      BY <2>4 DEF HelloChallenged
    <3>2. ~IsAuthenticated(NoId)'
      BY <2>4 DEF HelloChallenged, SetPeer, ConnIdOf, IsAuthenticated
    <3> QED
      BY <3>1, <3>2, BalanceKept
  <2>5. CASE handleAuthResponse(c)
    <3>1. peers' = peers /\ Goto(c, "frames")
      BY <2>5, NoTarget DEF handleAuthResponse, TypeOK
    <3>2. recvPc[c] = "frames" /\ UNCHANGED <<online, early>>
      BY <2>5 DEF handleAuthResponse
    <3> QED
      BY <3>1, <3>2, BalanceKept DEF IsAuthenticated
  <2>6. CASE HelloRejected(c) \/ handleAuthRequest(c) \/ ChatAccepted(c)
             \/ ChatDropped(c) \/ handlePing(c) \/ handleDisconnect(c)
             \/ FrameIgnored(c)
    <3>1. /\ UNCHANGED <<online, early, peers>>
          /\ recvPc[c] = "frames"
          /\ \E pc \in {"frames", "chatCb"} : Goto(c, pc)
      BY <2>6 DEF HelloRejected, handleAuthRequest, ChatAccepted, ChatDropped,
           handlePing, handleDisconnect, FrameIgnored
    <3> QED
      BY <3>1, BalanceKept DEF IsAuthenticated
  <2>7. CASE onDisconnect(c)
    <3>1. recvPc[c] = "onDisconnect" /\ UNCHANGED <<online, early>>
      BY <2>7 DEF onDisconnect
    <3>2. ~IsAuthenticated(NoId)'
      BY <2>7 DEF onDisconnect, Forget, Restrict, ConnIdOf, IsAuthenticated
    <3>3. CASE IsAuthenticated(NoId)
      <4>1. Goto(c, "disconnectedCb")
        BY <2>7, <3>3 DEF onDisconnect, ConnIdOf
      <4>2. /\ Pending("connectedCb")' = Pending("connectedCb")
            /\ Pending("disconnectedCb")' = Pending("disconnectedCb") + 1
        BY <1>0, <3>1, <4>1, PendingMoves
      <4> QED
        BY <1>0, <3>1, <3>2, <3>3, <4>2 DEF EventsBalance
    <3>4. CASE ~IsAuthenticated(NoId)
      <4>1. Goto(c, "exited")
        BY <2>7, <3>4 DEF onDisconnect, ConnIdOf
      <4> QED
        BY <3>1, <3>2, <4>1, BalanceKept
    <3> QED
      BY <3>3, <3>4
  <2>8. CASE ShowConnected(c) \/ ShowDisconnected(c)
    <3>1. IsAuthenticated(NoId)' = IsAuthenticated(NoId)
      BY <2>8 DEF ShowConnected, ShowDisconnected, IsAuthenticated
    <3>2. CASE ShowConnected(c)
      <4>1. /\ recvPc[c] = "connectedCb" /\ Goto(c, "frames")
            /\ \/ online' = online + 1 /\ early' = early
               \/ early' = early + 1 /\ online' = online
        BY <3>2 DEF ShowConnected, ShowEvent
      <4>2. /\ Pending("connectedCb")' = Pending("connectedCb") - 1
            /\ Pending("disconnectedCb")' = Pending("disconnectedCb")
        BY <1>0, <4>1, PendingMoves
      <4> QED
        BY <1>0, <3>1, <4>1, <4>2 DEF EventsBalance
    <3>3. CASE ShowDisconnected(c)
      <4>1. /\ recvPc[c] = "disconnectedCb" /\ Goto(c, "exited")
            /\ \/ online' = online - 1 /\ early' = early
               \/ early' = early - 1 /\ online' = online
        BY <3>3 DEF ShowDisconnected, ShowEvent
      <4>2. /\ Pending("connectedCb")' = Pending("connectedCb")
            /\ Pending("disconnectedCb")' = Pending("disconnectedCb") - 1
        BY <1>0, <4>1, PendingMoves
      <4> QED
        BY <1>0, <3>1, <4>1, <4>2 DEF EventsBalance
    <3> QED
      BY <2>8, <3>2, <3>3
  <2>9. CASE ShowMessage(c)
    BY <2>9, BalanceKept DEF ShowMessage, IsAuthenticated
  <2> QED
    BY <1>2, <2>1, <2>2, <2>3, <2>4, <2>5, <2>6, <2>7, <2>8, <2>9
       DEF RecvThread, onFrame
<1>3. CASE PingThread
  <2>1. UNCHANGED <<recvPc, online, early>>
    BY <1>3, PingFrame DEF threadVars, histVars
  <2>2. IsAuthenticated(NoId)' => IsAuthenticated(NoId)
    BY <1>3, PingPeers DEF IsAuthenticated
  <2> QED
    BY <2>1, <2>2, BalanceKept
<1>4. CASE MainThread \/ EnterLine \/ Quit
  <2>1. UNCHANGED <<recvPc, online, early>>
    BY <1>4, MainFrame DEF threadVars, histVars
  <2>2. IsAuthenticated(NoId)' => IsAuthenticated(NoId)
    BY <1>4 DEF MainThread, MakeUi, StopBlocks, EnterLine, Quit, broadcast,
         StopJoinPing,
         StopDisconnect, StopShared, StopLast, StopJoin, StopDone, mapVars,
         IsAuthenticated
  <2> QED
    BY <2>1, <2>2, BalanceKept
<1>5. CASE UNCHANGED vars
  BY <1>5, BalanceKept
     DEF vars, connVars, threadVars, mapVars, histVars, IsAuthenticated
<1>6. ASSUME NEW t \in Senders, Blocked(t) PROVE EventsBalance'
  BY <1>6, BlockedFrame, BalanceKept
     DEF connVars, threadVars, mapVars, histVars, IsAuthenticated
<1> QED
  BY <1>1, <1>2, <1>3, <1>4, <1>5, <1>6 DEF Next

-----------------------------------------------------------------------------
(* The theorems.                                                           *)

\* The inductive invariant holds throughout every run of the process.
THEOREM Invariance == Spec => []IInv
<1>1. Init => IInv
  <2> SUFFICES ASSUME Init PROVE IInv
    OBVIOUS
  <2>1. TypeOK
    BY InitType
  <2>2. LockInv /\ DeadInv /\ NoSelfJoin
    BY SessionAssumption DEF Init, LockInv, DeadInv, NoSelfJoin
  <2>3. DOMAIN peers = {} /\ connections = {}
    BY DEF Init
  <2>4. MapsAgree
    BY <2>3 DEF MapsAgree
  <2>5. OwnerInv
    BY <2>3, SessionAssumption
       DEF Init, ConnInit, OwnerInv, RecvThreadOwned, Joinable, AccHolds
  <2>6. SilentInv
    BY DEF Init, ConnInit, SilentInv
  <2>7. GateInv
    BY <2>3 DEF Init, ConnInit, GateInv, ChatIsGated, IsAuthenticated
  <2> QED
    BY <2>1, <2>2, <2>4, <2>5, <2>6, <2>7 DEF IInv
<1>2. IInv /\ [Next]_vars => IInv'
  BY TypeStep, LockStep, MapsStep, DeadStep, OwnerStep, SelfJoinStep,
       SilentStep,
     GateStep DEF IInv
<1> QED
  BY <1>1, <1>2, PTL DEF Spec

\* The two maps of the session stay in step: addConnection, onDisconnect and
\* stop() never leave an entry in one of them only.
THEOREM MapsConsistent == Spec => []MapsAgree
<1>1. IInv => MapsAgree
  BY DEF IInv
<1> QED
  BY <1>1, Invariance, PTL

\* No receive thread outlives its Connection object, and a Connection is
\* destroyed by one thread only.
THEOREM NoUseAfterDestroy == Spec => []RecvThreadOwned
<1>1. IInv => RecvThreadOwned
  BY DEF IInv, OwnerInv
<1> QED
  BY <1>1, Invariance, PTL

\* With the empty connId no receive thread ever joins itself.
THEOREM NeverSelfJoins == Spec => []NoSelfJoin
<1>1. IInv => NoSelfJoin
  BY DEF IInv
<1> QED
  BY <1>1, Invariance, PTL

\* Nothing is written to a connection whose state is DISCONNECTED.
THEOREM SilentAfterDisconnect == Spec => []DisconnectedIsSilent
<1>1. IInv => DisconnectedIsSilent
  BY DEF IInv, SilentInv, DisconnectedIsSilent, CanSend
<1> QED
  BY <1>1, Invariance, PTL

\* No chat is shown before a HELLO was accepted, and none at all when
\* authentication is required.
THEOREM ChatGate == Spec => []ChatIsGated
<1>1. IInv => ChatIsGated
  BY DEF IInv, GateInv
<1> QED
  BY <1>1, Invariance, PTL

\* Once the callbacks under way are counted in, the user is never told of more
\* disconnects than connects, and of one connect more while the entry of the
\* empty id is authenticated (onConnected_, onDisconnected_ of ChatSession).
THEOREM EventsAreBalanced == Spec => []EventsBalance
<1>1. Init => EventsBalance
  <2> SUFFICES ASSUME Init PROVE EventsBalance
    OBVIOUS
  <2>1. At("connectedCb") = {} /\ At("disconnectedCb") = {}
    BY DEF Init, ConnInit, At
  <2>2. Pending("connectedCb") = 0 /\ Pending("disconnectedCb") = 0
    BY <2>1, FS_EmptySet DEF Pending, At
  <2>3. ~IsAuthenticated(NoId)
    BY DEF Init, IsAuthenticated
  <2> QED
    BY <2>2, <2>3 DEF Init, EventsBalance
<1>2. IInv /\ EventsBalance /\ [Next]_vars => EventsBalance'
  BY BalanceStep DEF IInv
<1> QED
  BY <1>1, <1>2, Invariance, PTL DEF Spec

=============================================================================
