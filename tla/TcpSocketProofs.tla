--------------------------- MODULE TcpSocketProofs ---------------------------
(***************************************************************************)
(* Proofs about TcpSocket, for any number of connections, descriptors,     *)
(* frames and writes in a frame.                                           *)
(***************************************************************************)
EXTENDS TcpSocket, WellFoundedInduction, TLAPS

-----------------------------------------------------------------------------
(* The inductive invariant.                                                *)

Sending == {"send", "lock", "enter", "write"}
Closing == {"close", "clear"}

\* A thread holds sendMutex_.
Writing(t) == pc[t] \in {"enter", "write"}

\* A thread has read handle_ and has not made its system call yet.
Reaching(t) == pc[t] \in {"enter", "recvEnter", "close"}

\* No descriptor names the connection.
Closed(c) == \A f \in Fds : table[f] # c

\* Where the threads can be, and where send() and close() return to; a
\* connection that a thread works on is live.
FlowInv ==
  /\ \A c \in Conns :
       /\ pc[c] \notin {"idle", "join"}
       /\ pc[c] \in Sending => after[c] = "flag"
       /\ pc[c] \in Closing => after[c] = "done"
       /\ stage[c] = "new" <=> pc[c] = "none"
       /\ stage[c] = "destroyed" => pc[c] = "exited"
  /\ pc[Session] \notin {"none", "loop", "recvEnter", "recv", "exited"}
  /\ pc[Session] \in Sending => after[Session] \in {"flag", "idle"}
  /\ pc[Session] \in Closing => after[Session] \in {"done", "join"}
  /\ pc[Session] # "idle" => target \in Conns /\ stage[target] = "live"

\* What the variables of a call hold, and that a frame is written under the
\* lock of its connection.
CallOK(t) ==
  /\ pc[t] \in {"enter", "recvEnter"} => via[t] \in Fds \cup {NoFd}
  /\ pc[t] = "close" => via[t] \in Fds
  /\ pc[t] \in {"write", "recv"} => via[t] \in Conns
  /\ Writing(t) => left[t] \in 1 .. FrameLen /\ sendMutex[On(t)] = t

CallInv == \A t \in Threads : CallOK(t)

\* The descriptor of a connection is the one in handle_ and in whatever a
\* thread has read from it.
HandleInv ==
  \A c \in Conns, f \in Fds :
    table[f] = c => handle[c] = f /\ stage[c] = "live"

\* A thread that closed its connection, or that is stuck in a write to
\* another one, knows that no descriptor names its connection.
NumberOK(t) ==
  /\ Reaching(t) => \A f \in Fds : table[f] = On(t) => via[t] = f
  /\ pc[t] \in {"clear", "join"} => Closed(On(t))
  /\ pc[t] = "write" /\ via[t] # On(t) => Closed(On(t))

NumberInv == \A t \in Threads : NumberOK(t)

\* A handle_ that names nothing of its own was robbed, or is about to be
\* cleared by a thread that closed it.
LostOK(c) ==
  /\ stage[c] = "live"
  /\ handle[c] \in Fds
  /\ table[handle[c]] # c
  => \/ c \in robbed
     \/ \E t \in closers[c] : pc[t] = "clear" /\ On(t) = c

LostInv == \A c \in Conns : LostOK(c)

\* A thread whose number names nothing of its own has a rival that closed the
\* connection, or was robbed.
RivalOK(t) ==
  /\ Reaching(t)
  /\ via[t] \in Fds
  /\ table[via[t]] # On(t)
  => On(t) \in robbed \/ closers[On(t)] \ {t} # {}

RivalInv == \A t \in Threads : RivalOK(t)

\* The first n writes of a frame of thread t.
Run(t, n) == [i \in 1 .. n |-> <<t, i>>]

\* Nobody will write to the connection any more.
Cut(c) ==
  /\ stage[c] # "new"
  /\ \/ peer[c] = "closed"
     \/ /\ Closed(c)
        /\ \A t \in Threads : On(t) = c /\ pc[t] = "write" => via[t] # c

\* Nothing is on the wire, and nobody writes.
Resting(c) == wire[c] = <<>> /\ \A t \in Threads : Writing(t) => On(t) # c

\* The beginning of the frame that a thread is writing is on the wire.
Begun(c) ==
  \E t \in Threads :
    On(t) = c /\ Writing(t) /\ wire[c] = Run(t, FrameLen - left[t])

\* The last frame was cut short.
Ended(c) == Cut(c) /\ \E t \in Threads, n \in Nat : wire[c] = Run(t, n)

WireInv == \A c \in Conns \ hit : Resting(c) \/ Begun(c) \/ Ended(c)

IInv ==
  /\ TypeOK /\ FlowInv /\ CallInv
  /\ HandleInv /\ NumberInv /\ LostInv /\ RivalInv
  /\ WireInv

-----------------------------------------------------------------------------
(* Lemmas on the operators.                                                *)

\* A nonempty set of numbers has a least element, which is what Min takes:
\* accept() gets one of the free descriptors.
LEMMA LeastOfSome ==
  ASSUME NEW S, S \subseteq Nat, S # {}
  PROVE  Min(S) \in S
<1> DEFINE R == {ss \in Nat \X Nat : ss[1] < ss[2]}
<1>1. IsWellFoundedOn(R, Nat)
  BY NatLessThanWellFounded DEF OpToRel
<1> HIDE DEF R
<1>2. PICK x \in S : \A y \in S : ~ (<<y, x>> \in R)
  BY <1>1, WFMin
<1>3. ASSUME NEW y \in S PROVE x <= y
  <2>1. x \in Nat /\ y \in Nat  OBVIOUS
  <2>2. y < x => <<y, x>> \in R  BY <2>1 DEF R
  <2> QED  BY <1>2, <2>1, <2>2
<1> QED  BY <1>3 DEF Min

\* One more write of a frame makes the run of its writes longer by one.
LEMMA RunAppend ==
  ASSUME NEW t, NEW n \in Nat
  PROVE  /\ Append(Run(t, n), <<t, n + 1>>) = Run(t, n + 1)
         /\ Run(t, 0) = <<>>
         /\ Len(Run(t, n)) = n
  BY DEF Run

\* A thread that works on a connection works on a live one.
LEMMA Working ==
  ASSUME TypeOK, FlowInv, NEW t \in Threads,
         pc[t] \notin {"none", "idle", "exited"}
  PROVE  On(t) \in Conns /\ stage[On(t)] = "live"
  BY SocketAssumption DEF TypeOK, FlowInv, On, Threads

\* A thread leaves the calls of the others alone.
Keeps(u) ==
  /\ pc'[u] = pc[u]
  /\ via'[u] = via[u]
  /\ left'[u] = left[u]
  /\ after'[u] = after[u]
  /\ On(u)' = On(u)

\* The steps of a receive thread, and of the world for its connection.
ConnStep(c) ==
  RecvStep(c) \/ RecvData(c) \/ Accept(c) \/ PeerStalls(c) \/ PeerCloses(c)

\* The calls that the session makes.
SessionCall(c) == SessionSend(c) \/ SessionDisconnect(c) \/ SessionDestroy(c)

\* What a step of one thread leaves alone of the others.
LEMMA OthersKeep ==
  ASSUME TypeOK
  PROVE  /\ \A t \in Threads :
              ThreadStep(t) => \A u \in Threads \ {t} : Keeps(u)
         /\ \A c \in Conns :
              ConnStep(c) => \A u \in Threads \ {c} : Keeps(u)
         /\ \A c \in Conns : SessionCall(c) => \A d \in Conns : Keeps(d)
         /\ SessionJoin => \A d \in Conns : Keeps(d)
<1> USE SocketAssumption DEF Threads, On, Keeps
<1>1. ASSUME NEW t \in Threads, SendTest(t)
      PROVE  \A u \in Threads \ {t} : Keeps(u)
  BY <1>1 DEF SendTest, Goto, Return, TypeOK, vars, callVars, connVars,
       worldVars, historyVars
<1>2. ASSUME NEW t \in Threads, SendLock(t)
      PROVE  \A u \in Threads \ {t} : Keeps(u)
  BY <1>2 DEF SendLock, Goto, Return, TypeOK, vars, callVars, connVars,
       worldVars, historyVars
<1>3. ASSUME NEW t \in Threads, SendFails(t)
      PROVE  \A u \in Threads \ {t} : Keeps(u)
  BY <1>3 DEF SendFails, FailUnlock, Unlock, Return, Goto, Named, TypeOK,
       vars, callVars, connVars, worldVars, historyVars
<1>4. ASSUME NEW t \in Threads, SendEnter(t)
      PROVE  \A u \in Threads \ {t} : Keeps(u)
  BY <1>4 DEF SendEnter, Enter, Goto, Named, TypeOK, vars, callVars, connVars,
       worldVars, historyVars
<1>5. ASSUME NEW t \in Threads, SendWrite(t)
      PROVE  \A u \in Threads \ {t} : Keeps(u)
  BY <1>5 DEF SendWrite, Return, Goto, Unlock, TypeOK, vars, callVars,
       connVars, worldVars, historyVars
<1>6. ASSUME NEW t \in Threads, DiscTest(t)
      PROVE  \A u \in Threads \ {t} : Keeps(u)
  BY <1>6 DEF DiscTest, Return, Goto, Home, TypeOK, vars, callVars, connVars,
       worldVars, historyVars
<1>7. ASSUME NEW t \in Threads, DiscFlag(t)
      PROVE  \A u \in Threads \ {t} : Keeps(u)
  BY <1>7 DEF DiscFlag, CloseBegin, IsOpen, Goto, TypeOK, vars, callVars,
       connVars, worldVars, historyVars
<1>8. ASSUME NEW t \in Threads, Close(t)
      PROVE  \A u \in Threads \ {t} : Keeps(u)
  BY <1>8 DEF Close, Goto, TypeOK, vars, callVars, connVars, worldVars,
       historyVars
<1>9. ASSUME NEW t \in Threads, Clear(t)
      PROVE  \A u \in Threads \ {t} : Keeps(u)
  BY <1>9 DEF Clear, Cleared, Return, Goto, TypeOK, vars, callVars, connVars,
       worldVars, historyVars
<1>10. ASSUME NEW t \in Threads, DiscDone(t)
       PROVE  \A u \in Threads \ {t} : Keeps(u)
  BY <1>10 DEF DiscDone, Return, Goto, Home, TypeOK, vars, callVars, connVars,
       worldVars, historyVars
<1>11. ASSUME NEW c \in Conns, RecvFails(c)
       PROVE  \A u \in Threads \ {c} : Keeps(u)
  BY <1>11 DEF RecvFails, Return, Goto, Named, TypeOK, vars, callVars,
       connVars, worldVars, historyVars
<1>12. ASSUME NEW c \in Conns, RecvLoop(c)
       PROVE  \A u \in Threads \ {c} : Keeps(u)
  BY <1>12 DEF RecvLoop, Return, Goto, TypeOK, vars, callVars, connVars,
       worldVars, historyVars
<1>13. ASSUME NEW c \in Conns, RecvEnter(c)
       PROVE  \A u \in Threads \ {c} : Keeps(u)
  BY <1>13 DEF RecvEnter, Enter, Goto, Named, TypeOK, vars, callVars,
       connVars, worldVars, historyVars
<1>14. ASSUME NEW c \in Conns, RecvData(c)
       PROVE  \A u \in Threads \ {c} : Keeps(u)
  BY <1>14 DEF RecvData, Return, Goto, TypeOK, vars, callVars, connVars,
       worldVars, historyVars
<1>15. ASSUME NEW c \in Conns, SessionSend(c)
       PROVE  \A d \in Conns : Keeps(d)
  BY <1>15 DEF SessionSend, Call, Pick, Goto, TypeOK, vars, callVars,
       connVars, worldVars, historyVars
<1>16. ASSUME NEW c \in Conns, SessionDisconnect(c)
       PROVE  \A d \in Conns : Keeps(d)
  BY <1>16 DEF SessionDisconnect, Call, Pick, Goto, TypeOK, vars, callVars,
       connVars, worldVars, historyVars
<1>17. ASSUME NEW c \in Conns, SessionDestroy(c)
       PROVE  \A d \in Conns : Keeps(d)
  BY <1>17 DEF SessionDestroy, Pick, CloseBegin, IsOpen, Goto, TypeOK, vars,
       callVars, connVars, worldVars, historyVars
<1>18. ASSUME NEW c \in Conns, Accept(c)
       PROVE  \A u \in Threads \ {c} : Keeps(u)
  BY <1>18 DEF Accept, Goto, TypeOK, vars, callVars, connVars, worldVars,
       historyVars
<1>19. ASSUME NEW c \in Conns, PeerStalls(c)
       PROVE  \A u \in Threads \ {c} : Keeps(u)
  BY <1>19 DEF PeerStalls, PeerDoes, TypeOK, vars, callVars, connVars,
       worldVars, historyVars
<1>20. ASSUME NEW c \in Conns, PeerCloses(c)
       PROVE  \A u \in Threads \ {c} : Keeps(u)
  BY <1>20 DEF PeerCloses, PeerDoes, TypeOK, vars, callVars, connVars,
       worldVars, historyVars
<1>21. ASSUME SessionJoin PROVE \A d \in Conns : Keeps(d)
  BY <1>21 DEF SessionJoin, Return, Goto, TypeOK, vars, callVars, connVars,
       worldVars, historyVars
<1> QED
  BY <1>1, <1>2, <1>3, <1>4, <1>5, <1>6, <1>7, <1>8, <1>9, <1>10, <1>11,
       <1>12, <1>13, <1>14, <1>15, <1>16, <1>17, <1>18, <1>19, <1>20, <1>21
       DEF ThreadStep, ConnStep, RecvStep, SessionCall

-----------------------------------------------------------------------------
(* Every action preserves the parts of the invariant.                      *)

\* Calls use what they have read, and frames are written under the lock.
LEMMA CallStep ==
  ASSUME TypeOK, FlowInv, CallInv, [Next]_vars
  PROVE  CallInv'
<1> USE SocketAssumption DEF Threads, On
<1>1. ASSUME NEW t \in Threads, SendTest(t)
      PROVE  CallInv'
  <2>1. \A u \in Threads \ {t} : Keeps(u)
    BY <1>1, OthersKeep DEF ThreadStep
  <2>2. CallOK(t)'
    <3>1. CASE running[On(t)]  BY <1>1, Working, <3>1 DEF SendTest, Goto,
         Return, TypeOK, FlowInv, CallInv, CallOK, Writing, LockFree, Sending,
         Closing, vars, callVars, connVars, worldVars, historyVars
    <3>2. CASE ~ (running[On(t)])  BY <1>1, Working, <3>2 DEF SendTest, Goto,
         Return, TypeOK, FlowInv, CallInv, CallOK, Writing, LockFree, Sending,
         Closing, vars, callVars, connVars, worldVars, historyVars
    <3> QED  BY <3>1, <3>2
  <2>3. ASSUME NEW u \in Threads \ {t} PROVE CallOK(u)'
    BY <2>1, <1>1, Working DEF Keeps, SendTest, Goto, Return, TypeOK, FlowInv,
         CallInv, CallOK, Writing, LockFree, Sending, Closing, vars, callVars,
         connVars, worldVars, historyVars
  <2> QED  BY <2>2, <2>3 DEF CallInv
<1>2. ASSUME NEW t \in Threads, SendLock(t)
      PROVE  CallInv'
  <2>1. \A u \in Threads \ {t} : Keeps(u)
    BY <1>2, OthersKeep DEF ThreadStep
  <2>2. CallOK(t)'
    <3>1. CASE handle[On(t)] = NoFd  BY <1>2, Working, <3>1 DEF SendLock,
         Goto, Return, TypeOK, FlowInv, CallInv, CallOK, Writing, LockFree,
         Sending, Closing, vars, callVars, connVars, worldVars, historyVars
    <3>2. CASE ~ (handle[On(t)] = NoFd)  BY <1>2, Working, <3>2 DEF SendLock,
         Goto, Return, TypeOK, FlowInv, CallInv, CallOK, Writing, LockFree,
         Sending, Closing, vars, callVars, connVars, worldVars, historyVars
    <3> QED  BY <3>1, <3>2
  <2>3. ASSUME NEW u \in Threads \ {t} PROVE CallOK(u)'
    BY <2>1, <1>2, Working DEF Keeps, SendLock, Goto, Return, TypeOK, FlowInv,
         CallInv, CallOK, Writing, LockFree, Sending, Closing, vars, callVars,
         connVars, worldVars, historyVars
  <2> QED  BY <2>2, <2>3 DEF CallInv
<1>3. ASSUME NEW t \in Threads, SendFails(t)
      PROVE  CallInv'
  <2>1. \A u \in Threads \ {t} : Keeps(u)
    BY <1>3, OthersKeep DEF ThreadStep
  <2>2. CallOK(t)'
    <3>1. CASE pc[t] = "enter"  BY <1>3, Working, <3>1 DEF SendFails,
         FailUnlock, Unlock, Return, Goto, Named, TypeOK, FlowInv, CallInv,
         CallOK, Writing, LockFree, Sending, Closing, vars, callVars,
         connVars, worldVars, historyVars
    <3>2. CASE ~ (pc[t] = "enter")  BY <1>3, Working, <3>2 DEF SendFails,
         FailUnlock, Unlock, Return, Goto, Named, TypeOK, FlowInv, CallInv,
         CallOK, Writing, LockFree, Sending, Closing, vars, callVars,
         connVars, worldVars, historyVars
    <3> QED  BY <3>1, <3>2
  <2>3. ASSUME NEW u \in Threads \ {t} PROVE CallOK(u)'
    BY <2>1, <1>3, Working DEF Keeps, SendFails, FailUnlock, Unlock, Return,
         Goto, Named, TypeOK, FlowInv, CallInv, CallOK, Writing, LockFree,
         Sending, Closing, vars, callVars, connVars, worldVars, historyVars
  <2> QED  BY <2>2, <2>3 DEF CallInv
<1>4. ASSUME NEW t \in Threads, SendEnter(t)
      PROVE  CallInv'
  <2>1. \A u \in Threads \ {t} : Keeps(u)
    BY <1>4, OthersKeep DEF ThreadStep
  <2>2. CallOK(t)'
    <3>1. Named(via[t]) \in Conns
      BY <1>4 DEF SendEnter, Enter, Named, TypeOK
    <3>2. via'[t] \in Conns /\ pc'[t] = "write"
      BY <1>4, <3>1 DEF SendEnter, Enter, Goto, TypeOK
    <3>3. left' = left /\ sendMutex' = sendMutex /\ On(t)' = On(t)
      BY <1>4 DEF SendEnter, Enter
    <3> QED  BY <1>4, <3>2, <3>3 DEF SendEnter, Enter, CallInv, CallOK,
         Writing
  <2>3. ASSUME NEW u \in Threads \ {t} PROVE CallOK(u)'
    BY <2>1, <1>4, Working DEF Keeps, SendEnter, Enter, Goto, Named, TypeOK,
         FlowInv, CallInv, CallOK, Writing, LockFree, Sending, Closing, vars,
         callVars, connVars, worldVars, historyVars
  <2> QED  BY <2>2, <2>3 DEF CallInv
<1>5. ASSUME NEW t \in Threads, SendWrite(t)
      PROVE  CallInv'
  <2>1. \A u \in Threads \ {t} : Keeps(u)
    BY <1>5, OthersKeep DEF ThreadStep
  <2>2. CallOK(t)'
    <3>1. On(t) \in Conns /\ left[t] \in 1 .. FrameLen /\ sendMutex[On(t)] = t
      BY <1>5, Working DEF SendWrite, CallInv, CallOK, Writing
    <3>2. CASE FrameLen + 1 - left[t] = FrameLen  BY <1>5, <3>1, <3>2 DEF
         SendWrite, Return, Goto, Unlock, TypeOK, FlowInv, CallInv, CallOK,
         Writing, LockFree, Sending, Closing, vars, callVars, connVars,
         worldVars, historyVars
    <3>3. CASE FrameLen + 1 - left[t] # FrameLen
      <4>1. pc'[t] = "enter" /\ via'[t] = handle[On(t)] /\ On(t)' = On(t)
        BY <1>5, <3>3 DEF SendWrite, Goto, TypeOK
      <4>2. left'[t] = left[t] - 1 /\ sendMutex' = sendMutex
        BY <1>5, <3>3 DEF SendWrite, TypeOK
      <4>3. left'[t] \in 1 .. FrameLen
        BY <3>1, <3>3, <4>2
      <4> QED  BY <3>1, <4>1, <4>2, <4>3 DEF TypeOK, CallOK, Writing
    <3> QED  BY <3>2, <3>3
  <2>3. ASSUME NEW u \in Threads \ {t} PROVE CallOK(u)'
    <3>1. On(t) \in Conns /\ sendMutex[On(t)] = t
      BY <1>5, Working DEF SendWrite, CallInv, CallOK, Writing
    <3>2. \A d \in Conns : d # On(t) => sendMutex'[d] = sendMutex[d]
      BY <1>5, <3>1 DEF SendWrite, Unlock, TypeOK
    <3>3. Writing(u) => On(u) \in Conns
      BY Working DEF Writing
    <3> QED  BY <2>1, <3>1, <3>2, <3>3 DEF CallInv, CallOK, Writing, Keeps
  <2> QED  BY <2>2, <2>3 DEF CallInv
<1>6. ASSUME NEW t \in Threads, DiscTest(t)
      PROVE  CallInv'
  <2>1. \A u \in Threads \ {t} : Keeps(u)
    BY <1>6, OthersKeep DEF ThreadStep
  <2>2. CallOK(t)'
    <3>1. CASE gone[On(t)]  BY <1>6, Working, <3>1 DEF DiscTest, Return, Goto,
         Home, TypeOK, FlowInv, CallInv, CallOK, Writing, LockFree, Sending,
         Closing, vars, callVars, connVars, worldVars, historyVars
    <3>2. CASE ~ (gone[On(t)])  BY <1>6, Working, <3>2 DEF DiscTest, Return,
         Goto, Home, TypeOK, FlowInv, CallInv, CallOK, Writing, LockFree,
         Sending, Closing, vars, callVars, connVars, worldVars, historyVars
    <3> QED  BY <3>1, <3>2
  <2>3. ASSUME NEW u \in Threads \ {t} PROVE CallOK(u)'
    BY <2>1, <1>6, Working DEF Keeps, DiscTest, Return, Goto, Home, TypeOK,
         FlowInv, CallInv, CallOK, Writing, LockFree, Sending, Closing, vars,
         callVars, connVars, worldVars, historyVars
  <2> QED  BY <2>2, <2>3 DEF CallInv
<1>7. ASSUME NEW t \in Threads, DiscFlag(t)
      PROVE  CallInv'
  <2>1. \A u \in Threads \ {t} : Keeps(u)
    BY <1>7, OthersKeep DEF ThreadStep
  <2>2. CallOK(t)'
    BY <1>7, Working DEF DiscFlag, CloseBegin, IsOpen, Goto, TypeOK, FlowInv,
         CallInv, CallOK, Writing, LockFree, Sending, Closing, vars, callVars,
         connVars, worldVars, historyVars
  <2>3. ASSUME NEW u \in Threads \ {t} PROVE CallOK(u)'
    BY <2>1, <1>7, Working DEF Keeps, DiscFlag, CloseBegin, IsOpen, Goto,
         TypeOK, FlowInv, CallInv, CallOK, Writing, LockFree, Sending,
         Closing, vars, callVars, connVars, worldVars, historyVars
  <2> QED  BY <2>2, <2>3 DEF CallInv
<1>8. ASSUME NEW t \in Threads, Close(t)
      PROVE  CallInv'
  <2>1. \A u \in Threads \ {t} : Keeps(u)
    BY <1>8, OthersKeep DEF ThreadStep
  <2>2. CallOK(t)'
    BY <1>8, Working DEF Close, Goto, TypeOK, FlowInv, CallInv, CallOK,
         Writing, LockFree, Sending, Closing, vars, callVars, connVars,
         worldVars, historyVars
  <2>3. ASSUME NEW u \in Threads \ {t} PROVE CallOK(u)'
    BY <2>1, <1>8, Working DEF Keeps, Close, Goto, TypeOK, FlowInv, CallInv,
         CallOK, Writing, LockFree, Sending, Closing, vars, callVars,
         connVars, worldVars, historyVars
  <2> QED  BY <2>2, <2>3 DEF CallInv
<1>9. ASSUME NEW t \in Threads, Clear(t)
      PROVE  CallInv'
  <2>1. \A u \in Threads \ {t} : Keeps(u)
    BY <1>9, OthersKeep DEF ThreadStep
  <2>2. CallOK(t)'
    BY <1>9, Working DEF Clear, Cleared, Return, Goto, TypeOK, FlowInv,
         CallInv, CallOK, Writing, LockFree, Sending, Closing, vars, callVars,
         connVars, worldVars, historyVars
  <2>3. ASSUME NEW u \in Threads \ {t} PROVE CallOK(u)'
    BY <2>1, <1>9, Working DEF Keeps, Clear, Cleared, Return, Goto, TypeOK,
         FlowInv, CallInv, CallOK, Writing, LockFree, Sending, Closing, vars,
         callVars, connVars, worldVars, historyVars
  <2> QED  BY <2>2, <2>3 DEF CallInv
<1>10. ASSUME NEW t \in Threads, DiscDone(t)
       PROVE  CallInv'
  <2>1. \A u \in Threads \ {t} : Keeps(u)
    BY <1>10, OthersKeep DEF ThreadStep
  <2>2. CallOK(t)'
    BY <1>10, Working DEF DiscDone, Return, Goto, Home, TypeOK, FlowInv,
         CallInv, CallOK, Writing, LockFree, Sending, Closing, vars, callVars,
         connVars, worldVars, historyVars
  <2>3. ASSUME NEW u \in Threads \ {t} PROVE CallOK(u)'
    BY <2>1, <1>10, Working DEF Keeps, DiscDone, Return, Goto, Home, TypeOK,
         FlowInv, CallInv, CallOK, Writing, LockFree, Sending, Closing, vars,
         callVars, connVars, worldVars, historyVars
  <2> QED  BY <2>2, <2>3 DEF CallInv
<1>11. ASSUME NEW c \in Conns, RecvFails(c)
       PROVE  CallInv'
  <2>1. \A u \in Threads \ {c} : Keeps(u)
    BY <1>11, OthersKeep DEF ConnStep, RecvStep
  <2>2. CallOK(c)'
    BY <1>11, Working DEF RecvFails, Return, Goto, Named, TypeOK, FlowInv,
         CallInv, CallOK, Writing, LockFree, Sending, Closing, vars, callVars,
         connVars, worldVars, historyVars
  <2>3. ASSUME NEW u \in Threads \ {c} PROVE CallOK(u)'
    BY <2>1, <1>11, Working DEF Keeps, RecvFails, Return, Goto, Named, TypeOK,
         FlowInv, CallInv, CallOK, Writing, LockFree, Sending, Closing, vars,
         callVars, connVars, worldVars, historyVars
  <2> QED  BY <2>2, <2>3 DEF CallInv
<1>12. ASSUME NEW c \in Conns, RecvLoop(c)
       PROVE  CallInv'
  <2>1. \A u \in Threads \ {c} : Keeps(u)
    BY <1>12, OthersKeep DEF ConnStep, RecvStep
  <2>2. CallOK(c)'
    <3>1. CASE running[c]  BY <1>12, Working, <3>1 DEF RecvLoop, Return, Goto,
         TypeOK, FlowInv, CallInv, CallOK, Writing, LockFree, Sending,
         Closing, vars, callVars, connVars, worldVars, historyVars
    <3>2. CASE ~ (running[c])  BY <1>12, Working, <3>2 DEF RecvLoop, Return,
         Goto, TypeOK, FlowInv, CallInv, CallOK, Writing, LockFree, Sending,
         Closing, vars, callVars, connVars, worldVars, historyVars
    <3> QED  BY <3>1, <3>2
  <2>3. ASSUME NEW u \in Threads \ {c} PROVE CallOK(u)'
    BY <2>1, <1>12, Working DEF Keeps, RecvLoop, Return, Goto, TypeOK,
         FlowInv, CallInv, CallOK, Writing, LockFree, Sending, Closing, vars,
         callVars, connVars, worldVars, historyVars
  <2> QED  BY <2>2, <2>3 DEF CallInv
<1>13. ASSUME NEW c \in Conns, RecvEnter(c)
       PROVE  CallInv'
  <2>1. \A u \in Threads \ {c} : Keeps(u)
    BY <1>13, OthersKeep DEF ConnStep, RecvStep
  <2>2. CallOK(c)'
    <3>1. Named(via[c]) \in Conns
      BY <1>13 DEF RecvEnter, Enter, Named, TypeOK
    <3>2. via'[c] \in Conns /\ pc'[c] = "recv"
      BY <1>13, <3>1 DEF RecvEnter, Enter, Goto, TypeOK
    <3>3. left' = left /\ sendMutex' = sendMutex /\ On(c)' = On(c)
      BY <1>13 DEF RecvEnter, Enter
    <3> QED  BY <1>13, <3>2, <3>3 DEF RecvEnter, Enter, CallInv, CallOK,
         Writing
  <2>3. ASSUME NEW u \in Threads \ {c} PROVE CallOK(u)'
    BY <2>1, <1>13, Working DEF Keeps, RecvEnter, Enter, Goto, Named, TypeOK,
         FlowInv, CallInv, CallOK, Writing, LockFree, Sending, Closing, vars,
         callVars, connVars, worldVars, historyVars
  <2> QED  BY <2>2, <2>3 DEF CallInv
<1>14. ASSUME NEW c \in Conns, RecvData(c)
       PROVE  CallInv'
  <2>1. \A u \in Threads \ {c} : Keeps(u)
    BY <1>14, OthersKeep DEF ConnStep, RecvStep
  <2>2. CallOK(c)'
    BY <1>14, Working DEF RecvData, Return, Goto, TypeOK, FlowInv, CallInv,
         CallOK, Writing, LockFree, Sending, Closing, vars, callVars,
         connVars, worldVars, historyVars
  <2>3. ASSUME NEW u \in Threads \ {c} PROVE CallOK(u)'
    BY <2>1, <1>14, Working DEF Keeps, RecvData, Return, Goto, TypeOK,
         FlowInv, CallInv, CallOK, Writing, LockFree, Sending, Closing, vars,
         callVars, connVars, worldVars, historyVars
  <2> QED  BY <2>2, <2>3 DEF CallInv
<1>15. ASSUME NEW c \in Conns, SessionSend(c)
       PROVE  CallInv'
  <2>1. \A u \in Conns : Keeps(u)
    BY <1>15, OthersKeep DEF SessionCall
  <2>2. CallOK(Session)'
    BY <1>15, Working DEF SessionSend, Call, Pick, Goto, TypeOK, FlowInv,
         CallInv, CallOK, Writing, LockFree, Sending, Closing, vars, callVars,
         connVars, worldVars, historyVars
  <2>3. ASSUME NEW u \in Conns PROVE CallOK(u)'
    BY <2>1, <1>15, Working DEF Keeps, SessionSend, Call, Pick, Goto, TypeOK,
         FlowInv, CallInv, CallOK, Writing, LockFree, Sending, Closing, vars,
         callVars, connVars, worldVars, historyVars
  <2> QED  BY <2>2, <2>3 DEF CallInv
<1>16. ASSUME NEW c \in Conns, SessionDisconnect(c)
       PROVE  CallInv'
  <2>1. \A u \in Conns : Keeps(u)
    BY <1>16, OthersKeep DEF SessionCall
  <2>2. CallOK(Session)'
    BY <1>16, Working DEF SessionDisconnect, Call, Pick, Goto, TypeOK,
         FlowInv, CallInv, CallOK, Writing, LockFree, Sending, Closing, vars,
         callVars, connVars, worldVars, historyVars
  <2>3. ASSUME NEW u \in Conns PROVE CallOK(u)'
    BY <2>1, <1>16, Working DEF Keeps, SessionDisconnect, Call, Pick, Goto,
         TypeOK, FlowInv, CallInv, CallOK, Writing, LockFree, Sending,
         Closing, vars, callVars, connVars, worldVars, historyVars
  <2> QED  BY <2>2, <2>3 DEF CallInv
<1>17. ASSUME NEW c \in Conns, SessionDestroy(c)
       PROVE  CallInv'
  <2>1. \A u \in Conns : Keeps(u)
    BY <1>17, OthersKeep DEF SessionCall
  <2>2. CallOK(Session)'
    BY <1>17, Working DEF SessionDestroy, Pick, CloseBegin, IsOpen, Goto,
         TypeOK, FlowInv, CallInv, CallOK, Writing, LockFree, Sending,
         Closing, vars, callVars, connVars, worldVars, historyVars
  <2>3. ASSUME NEW u \in Conns PROVE CallOK(u)'
    BY <2>1, <1>17, Working DEF Keeps, SessionDestroy, Pick, CloseBegin,
         IsOpen, Goto, TypeOK, FlowInv, CallInv, CallOK, Writing, LockFree,
         Sending, Closing, vars, callVars, connVars, worldVars, historyVars
  <2> QED  BY <2>2, <2>3 DEF CallInv
<1>18. ASSUME NEW c \in Conns, Accept(c)
       PROVE  CallInv'
  <2>1. \A u \in Threads \ {c} : Keeps(u)
    BY <1>18, OthersKeep DEF ConnStep, RecvStep
  <2>2. CallOK(c)'
    BY <1>18, Working DEF Accept, Goto, TypeOK, FlowInv, CallInv, CallOK,
         Writing, LockFree, Sending, Closing, vars, callVars, connVars,
         worldVars, historyVars
  <2>3. ASSUME NEW u \in Threads \ {c} PROVE CallOK(u)'
    BY <2>1, <1>18, Working DEF Keeps, Accept, Goto, TypeOK, FlowInv, CallInv,
         CallOK, Writing, LockFree, Sending, Closing, vars, callVars,
         connVars, worldVars, historyVars
  <2> QED  BY <2>2, <2>3 DEF CallInv
<1>19. ASSUME NEW c \in Conns, PeerStalls(c)
       PROVE  CallInv'
  <2>1. \A u \in Threads \ {c} : Keeps(u)
    BY <1>19, OthersKeep DEF ConnStep, RecvStep
  <2>2. CallOK(c)'
    BY <1>19, Working DEF PeerStalls, PeerDoes, TypeOK, FlowInv, CallInv,
         CallOK, Writing, LockFree, Sending, Closing, vars, callVars,
         connVars, worldVars, historyVars
  <2>3. ASSUME NEW u \in Threads \ {c} PROVE CallOK(u)'
    BY <2>1, <1>19, Working DEF Keeps, PeerStalls, PeerDoes, TypeOK, FlowInv,
         CallInv, CallOK, Writing, LockFree, Sending, Closing, vars, callVars,
         connVars, worldVars, historyVars
  <2> QED  BY <2>2, <2>3 DEF CallInv
<1>20. ASSUME NEW c \in Conns, PeerCloses(c)
       PROVE  CallInv'
  <2>1. \A u \in Threads \ {c} : Keeps(u)
    BY <1>20, OthersKeep DEF ConnStep, RecvStep
  <2>2. CallOK(c)'
    BY <1>20, Working DEF PeerCloses, PeerDoes, TypeOK, FlowInv, CallInv,
         CallOK, Writing, LockFree, Sending, Closing, vars, callVars,
         connVars, worldVars, historyVars
  <2>3. ASSUME NEW u \in Threads \ {c} PROVE CallOK(u)'
    BY <2>1, <1>20, Working DEF Keeps, PeerCloses, PeerDoes, TypeOK, FlowInv,
         CallInv, CallOK, Writing, LockFree, Sending, Closing, vars, callVars,
         connVars, worldVars, historyVars
  <2> QED  BY <2>2, <2>3 DEF CallInv
<1>21. ASSUME SessionJoin PROVE CallInv'
  <2>1. \A u \in Conns : Keeps(u)
    BY <1>21, OthersKeep
  <2>2. CallOK(Session)'
    BY <1>21, Working DEF SessionJoin, Return, Goto, TypeOK, FlowInv, CallInv,
         CallOK, Writing, LockFree, Sending, Closing, vars, callVars,
         connVars, worldVars, historyVars
  <2>3. ASSUME NEW u \in Conns PROVE CallOK(u)'
    BY <2>1, <1>21, Working DEF Keeps, SessionJoin, Return, Goto, TypeOK,
         FlowInv, CallInv, CallOK, Writing, LockFree, Sending, Closing, vars,
         callVars, connVars, worldVars, historyVars
  <2> QED  BY <2>2, <2>3 DEF CallInv
<1>22. CASE UNCHANGED vars
  BY <1>22, Working DEF TypeOK, FlowInv, CallInv, CallOK, Writing, LockFree,
       vars, callVars, connVars, worldVars, historyVars
<1> QED
  BY <1>1, <1>2, <1>3, <1>4, <1>5, <1>6, <1>7, <1>8, <1>9, <1>10, <1>11,
       <1>12, <1>13, <1>14, <1>15, <1>16, <1>17, <1>18, <1>19, <1>20, <1>21,
       <1>22 DEF Next, ThreadStep, RecvStep

\* What a call keeps has its type.
CallTypes ==
  /\ pc \in [Threads -> Pcs]
  /\ target \in Conns \cup {Nobody}
  /\ via \in [Threads -> Fds \cup Conns \cup {NoFd}]
  /\ left \in [Threads -> 0 .. FrameLen]
  /\ after \in [Threads -> Pcs]

\* Returning from a call keeps the types of what a call keeps.
LEMMA ReturnTypes ==
  ASSUME TypeOK, NEW t \in Threads, NEW label \in Pcs, Return(t, label)
  PROVE  CallTypes'
<1>1. 0 \in 0 .. FrameLen  BY SocketAssumption
<1>2. "none" \in Pcs  BY DEF Pcs
<1> QED  BY <1>1, <1>2 DEF TypeOK, CallTypes, Return, Goto

\* Steps keep the types.
LEMMA TypeStep ==
  ASSUME TypeOK, FlowInv, CallInv, [Next]_vars
  PROVE  TypeOK'
<1> USE SocketAssumption DEF Threads, On
<1>1. ASSUME NEW t \in Threads, SendTest(t)
      PROVE  TypeOK'
  <2>1. CallTypes'
    <3>1. CASE running[On(t)]
      BY <1>1, <3>1 DEF SendTest, Goto, callVars, TypeOK, CallTypes, Pcs
    <3>2. CASE ~ running[On(t)]
      BY <1>1, <3>2, ReturnTypes DEF SendTest, TypeOK
    <3> QED  BY <3>1, <3>2
  <2> QED  BY <1>1, <2>1 DEF SendTest, TypeOK, CallTypes, vars, callVars,
       connVars, worldVars, historyVars
<1>2. ASSUME NEW t \in Threads, SendLock(t)
      PROVE  TypeOK'
  <2>1. On(t) \in Conns  BY <1>2, Working DEF SendLock
  <2>2. CallTypes' /\ sendMutex' \in [Conns -> Threads \cup {Nobody}]
    <3>1. CASE handle[On(t)] = NoFd
      BY <1>2, <3>1, ReturnTypes DEF SendLock, TypeOK
    <3>2. CASE handle[On(t)] # NoFd
      <4>0. /\ left' = [left EXCEPT ![t] = FrameLen]
            /\ sendMutex' = [sendMutex EXCEPT ![On(t)] = t]
        BY <1>2, <3>2 DEF SendLock
      <4>1. left' \in [Threads -> 0 .. FrameLen]
        <5>1. FrameLen \in 0 .. FrameLen  OBVIOUS
        <5> QED  BY <4>0, <5>1 DEF TypeOK
      <4>2. sendMutex' \in [Conns -> Threads \cup {Nobody}]
        BY <4>0 DEF TypeOK
      <4>3. via' \in [Threads -> Fds \cup Conns \cup {NoFd}]
        BY <1>2, <2>1, <3>2, Zenon DEF SendLock, TypeOK
      <4> QED
        BY <1>2, <3>2, <4>1, <4>2, <4>3, Zenon
           DEF SendLock, Goto, TypeOK, CallTypes, Pcs
    <3> QED  BY <3>1, <3>2
  <2> QED  BY <1>2, <2>2 DEF SendLock, TypeOK, CallTypes, vars, callVars,
       connVars, worldVars, historyVars
<1>3. ASSUME NEW t \in Threads, SendFails(t)
      PROVE  TypeOK'
  <2>1. On(t) \in Conns  BY <1>3, Working DEF SendFails
  <2>2. CallTypes'
    BY <1>3, ReturnTypes DEF SendFails, TypeOK
  <2>3. sendMutex' \in [Conns -> Threads \cup {Nobody}]
    BY <1>3, <2>1 DEF SendFails, FailUnlock, Unlock, TypeOK
  <2> QED  BY <1>3, <2>2, <2>3 DEF SendFails, TypeOK, CallTypes, vars,
       callVars, connVars, worldVars, historyVars
<1>4. ASSUME NEW t \in Threads, SendEnter(t)
      PROVE  TypeOK'
  <2>1. Named(via[t]) \in Conns
    BY <1>4 DEF SendEnter, Enter, Named, TypeOK
  <2>2. CallTypes'
    BY <1>4, <2>1 DEF SendEnter, Enter, Goto, TypeOK, CallTypes, Pcs
  <2> QED  BY <1>4, <2>2 DEF SendEnter, Enter, TypeOK, CallTypes, vars,
       callVars, connVars, worldVars, historyVars
<1>5. ASSUME NEW t \in Threads, SendWrite(t)
      PROVE  TypeOK'
  <2> DEFINE i == FrameLen + 1 - left[t]
  <2>1. /\ On(t) \in Conns
        /\ via[t] \in Conns
        /\ left[t] \in 1 .. FrameLen
    BY <1>5, Working DEF SendWrite, CallInv, CallOK, Writing
  <2>2. CallTypes' /\ sendMutex' \in [Conns -> Threads \cup {Nobody}]
    <3>1. CASE i = FrameLen
      BY <1>5, <2>1, <3>1, ReturnTypes DEF SendWrite, Unlock, TypeOK
    <3>2. CASE i # FrameLen
      <4>1. left[t] - 1 \in 0 .. FrameLen
        BY <2>1
      <4>0. /\ left' = [left EXCEPT ![t] = left[t] - 1]
            /\ via' = [via EXCEPT ![t] = handle[On(t)]]
        BY <1>5, <3>2 DEF SendWrite
      <4>2. left' \in [Threads -> 0 .. FrameLen]
        BY <4>0, <4>1 DEF TypeOK
      <4>3. via' \in [Threads -> Fds \cup Conns \cup {NoFd}]
        BY <2>1, <4>0 DEF TypeOK
      <4> QED
        BY <1>5, <3>2, <4>2, <4>3, Zenon
           DEF SendWrite, Goto, TypeOK, CallTypes, Pcs
    <3> QED  BY <3>1, <3>2
  <2>3. wire' \in [Conns -> Seq(Threads \X (1 .. FrameLen))]
    <3>1. i \in 1 .. FrameLen
      BY <2>1
    <3>2. Append(wire[via[t]], <<t, i>>) \in Seq(Threads \X (1 .. FrameLen))
      BY <2>1, <3>1 DEF TypeOK
    <3>3. <<>> \in Seq(Threads \X (1 .. FrameLen))
      OBVIOUS
    <3> HIDE DEF i
    <3>4. wire' = [wire EXCEPT ![via[t]] =
                     IF i = FrameLen THEN <<>> ELSE Append(@, <<t, i>>)]
      BY <1>5 DEF SendWrite, i
    <3> QED  BY <2>1, <3>2, <3>3, <3>4 DEF TypeOK
  <2> QED  BY <1>5, <2>1, <2>2, <2>3 DEF SendWrite, TypeOK, CallTypes, vars,
       callVars, connVars, worldVars, historyVars
<1>6. ASSUME NEW t \in Threads, DiscTest(t)
      PROVE  TypeOK'
  <2>1. CallTypes'
    <3>1. CASE gone[On(t)]
      BY <1>6, <3>1, ReturnTypes DEF DiscTest, Home, Pcs
    <3>2. CASE ~ gone[On(t)]
      BY <1>6, <3>2, Zenon DEF DiscTest, Goto, TypeOK, CallTypes, Pcs
    <3> QED  BY <3>1, <3>2
  <2> QED  BY <1>6, <2>1 DEF DiscTest, TypeOK, CallTypes, vars, callVars,
       connVars, worldVars, historyVars
<1>7. ASSUME NEW t \in Threads, DiscFlag(t)
      PROVE  TypeOK'
  BY <1>7, Working DEF DiscFlag, CloseBegin, IsOpen, Goto, TypeOK, FlowInv,
       CallInv, CallOK, Pcs, Writing, vars, callVars, connVars, worldVars,
       historyVars
<1>8. ASSUME NEW t \in Threads, Close(t)
      PROVE  TypeOK'
  <2>1. On(t) \in Conns /\ via[t] \in Fds
    BY <1>8, Working DEF Close, CallInv, CallOK
  <2>2. closers' \in [Conns -> SUBSET Threads]
    BY <1>8, <2>1 DEF Close, TypeOK
  <2>4. robbed' \subseteq Conns
    <3>1. table[via[t]] \in Conns \cup {Nobody}  BY <2>1 DEF TypeOK
    <3> QED  BY <1>8, <3>1 DEF Close, TypeOK
  <2>3. table' \in [Fds -> Conns \cup {Nobody}] /\ CallTypes'
    BY <1>8, <2>1 DEF Close, Goto, callVars, TypeOK, CallTypes, Pcs
  <2> QED  BY <1>8, <2>2, <2>3, <2>4 DEF Close, TypeOK, CallTypes, vars,
       callVars, connVars, worldVars, historyVars
<1>9. ASSUME NEW t \in Threads, Clear(t)
      PROVE  TypeOK'
  BY <1>9, Working DEF Clear, Cleared, Return, Goto, TypeOK, FlowInv, CallInv,
       CallOK, Pcs, Writing, vars, callVars, connVars, worldVars, historyVars
<1>10. ASSUME NEW t \in Threads, DiscDone(t)
       PROVE  TypeOK'
  BY <1>10, Working DEF DiscDone, Return, Goto, Home, TypeOK, FlowInv,
       CallInv, CallOK, Pcs, Writing, vars, callVars, connVars, worldVars,
       historyVars
<1>11. ASSUME NEW c \in Conns, RecvFails(c)
       PROVE  TypeOK'
  BY <1>11, Working DEF RecvFails, Return, Goto, Named, TypeOK, FlowInv,
       CallInv, CallOK, Pcs, Writing, vars, callVars, connVars, worldVars,
       historyVars
<1>12. ASSUME NEW c \in Conns, RecvLoop(c)
       PROVE  TypeOK'
  <2>1. CallTypes'
    <3>1. CASE running[c]
      BY <1>12, <3>1, Zenon DEF RecvLoop, Goto, TypeOK, CallTypes, Pcs
    <3>2. CASE ~ running[c]
      BY <1>12, <3>2, ReturnTypes DEF RecvLoop, Pcs
    <3> QED  BY <3>1, <3>2
  <2> QED  BY <1>12, <2>1 DEF RecvLoop, TypeOK, CallTypes, vars, callVars,
       connVars, worldVars, historyVars
<1>13. ASSUME NEW c \in Conns, RecvEnter(c)
       PROVE  TypeOK'
  <2>1. Named(via[c]) \in Conns
    BY <1>13 DEF RecvEnter, Enter, Named, TypeOK
  <2>2. CallTypes'
    BY <1>13, <2>1 DEF RecvEnter, Enter, Goto, TypeOK, CallTypes, Pcs
  <2> QED  BY <1>13, <2>2 DEF RecvEnter, Enter, TypeOK, CallTypes, vars,
       callVars, connVars, worldVars, historyVars
<1>14. ASSUME NEW c \in Conns, RecvData(c)
       PROVE  TypeOK'
  <2>1. CallTypes'
    BY <1>14, ReturnTypes DEF RecvData, Pcs
  <2>2. hit' \subseteq Conns
    BY <1>14 DEF RecvData, TypeOK, CallInv, CallOK
  <2> QED  BY <1>14, <2>1, <2>2 DEF RecvData, TypeOK, CallTypes, vars,
       callVars, connVars, worldVars, historyVars
<1>15. ASSUME NEW c \in Conns, SessionSend(c)
       PROVE  TypeOK'
  BY <1>15, Working DEF SessionSend, Call, Pick, Goto, TypeOK, FlowInv,
       CallInv, CallOK, Pcs, Writing, vars, callVars, connVars, worldVars,
       historyVars
<1>16. ASSUME NEW c \in Conns, SessionDisconnect(c)
       PROVE  TypeOK'
  BY <1>16, Working DEF SessionDisconnect, Call, Pick, Goto, TypeOK, FlowInv,
       CallInv, CallOK, Pcs, Writing, vars, callVars, connVars, worldVars,
       historyVars
<1>17. ASSUME NEW c \in Conns, SessionDestroy(c)
       PROVE  TypeOK'
  BY <1>17, Working DEF SessionDestroy, Pick, CloseBegin, IsOpen, Goto,
       TypeOK, FlowInv, CallInv, CallOK, Pcs, Writing, vars, callVars,
       connVars, worldVars, historyVars
<1>18. ASSUME NEW c \in Conns, Accept(c)
       PROVE  TypeOK'
  <2> DEFINE free == {f \in Fds : table[f] = Nobody}
  <2>1. Min(free) \in Fds
    BY <1>18, LeastOfSome DEF Accept
  <2>2. table' \in [Fds -> Conns \cup {Nobody}]
    BY <1>18, <2>1 DEF Accept, TypeOK
  <2>3. handle' \in [Conns -> Fds \cup {NoFd}]
    BY <1>18, <2>1 DEF Accept, TypeOK
  <2>4. running' \in [Conns -> BOOLEAN]
    BY <1>18 DEF Accept, TypeOK
  <2>5. stage' \in [Conns -> {"new", "live", "destroyed"}] /\ CallTypes'
    BY <1>18 DEF Accept, Goto, callVars, TypeOK, CallTypes, Pcs
  <2> QED  BY <1>18, <2>2, <2>3, <2>4, <2>5 DEF Accept, TypeOK, CallTypes,
       vars, callVars, connVars, worldVars, historyVars
<1>19. ASSUME NEW c \in Conns, PeerStalls(c)
       PROVE  TypeOK'
  BY <1>19, Working DEF PeerStalls, PeerDoes, TypeOK, FlowInv, CallInv,
       CallOK, Pcs, Writing, vars, callVars, connVars, worldVars, historyVars
<1>20. ASSUME NEW c \in Conns, PeerCloses(c)
       PROVE  TypeOK'
  BY <1>20, Working DEF PeerCloses, PeerDoes, TypeOK, FlowInv, CallInv,
       CallOK, Pcs, Writing, vars, callVars, connVars, worldVars, historyVars
<1>21. ASSUME SessionJoin PROVE TypeOK'
  BY <1>21, Working DEF SessionJoin, Return, Goto, TypeOK, FlowInv, CallInv,
       CallOK, Pcs, Writing, vars, callVars, connVars, worldVars, historyVars
<1>22. CASE UNCHANGED vars
  BY <1>22, Working DEF TypeOK, FlowInv, CallInv, CallOK, Pcs, Writing, vars,
       callVars, connVars, worldVars, historyVars
<1> QED
  BY <1>1, <1>2, <1>3, <1>4, <1>5, <1>6, <1>7, <1>8, <1>9, <1>10, <1>11,
       <1>12, <1>13, <1>14, <1>15, <1>16, <1>17, <1>18, <1>19, <1>20, <1>21,
       <1>22 DEF Next, ThreadStep, RecvStep

\* Threads go on where send() and close() return, and stay with live
\* connections.
LEMMA FlowStep ==
  ASSUME TypeOK, FlowInv, [Next]_vars
  PROVE  FlowInv'
<1> USE SocketAssumption DEF Threads, On
<1>1. ASSUME NEW t \in Threads, SendTest(t)
      PROVE  FlowInv'
  BY <1>1 DEF SendTest, Goto, Return, TypeOK, FlowInv, Sending, Closing, vars,
       callVars, connVars, worldVars, historyVars
<1>2. ASSUME NEW t \in Threads, SendLock(t)
      PROVE  FlowInv'
  BY <1>2 DEF SendLock, Goto, Return, TypeOK, FlowInv, Sending, Closing, vars,
       callVars, connVars, worldVars, historyVars
<1>3. ASSUME NEW t \in Threads, SendFails(t)
      PROVE  FlowInv'
  BY <1>3 DEF SendFails, FailUnlock, Unlock, Return, Goto, Named, TypeOK,
       FlowInv, Sending, Closing, vars, callVars, connVars, worldVars,
       historyVars
<1>4. ASSUME NEW t \in Threads, SendEnter(t)
      PROVE  FlowInv'
  BY <1>4 DEF SendEnter, Enter, Goto, Named, TypeOK, FlowInv, Sending,
       Closing, vars, callVars, connVars, worldVars, historyVars
<1>5. ASSUME NEW t \in Threads, SendWrite(t)
      PROVE  FlowInv'
  BY <1>5 DEF SendWrite, Return, Goto, Unlock, TypeOK, FlowInv, Sending,
       Closing, vars, callVars, connVars, worldVars, historyVars
<1>6. ASSUME NEW t \in Threads, DiscTest(t)
      PROVE  FlowInv'
  BY <1>6 DEF DiscTest, Return, Goto, Home, TypeOK, FlowInv, Sending, Closing,
       vars, callVars, connVars, worldVars, historyVars
<1>7. ASSUME NEW t \in Threads, DiscFlag(t)
      PROVE  FlowInv'
  BY <1>7 DEF DiscFlag, CloseBegin, IsOpen, Goto, TypeOK, FlowInv, Sending,
       Closing, vars, callVars, connVars, worldVars, historyVars
<1>8. ASSUME NEW t \in Threads, Close(t)
      PROVE  FlowInv'
  BY <1>8 DEF Close, Goto, TypeOK, FlowInv, Sending, Closing, vars, callVars,
       connVars, worldVars, historyVars
<1>9. ASSUME NEW t \in Threads, Clear(t)
      PROVE  FlowInv'
  BY <1>9 DEF Clear, Cleared, Return, Goto, TypeOK, FlowInv, Sending, Closing,
       vars, callVars, connVars, worldVars, historyVars
<1>10. ASSUME NEW t \in Threads, DiscDone(t)
       PROVE  FlowInv'
  BY <1>10 DEF DiscDone, Return, Goto, Home, TypeOK, FlowInv, Sending,
       Closing, vars, callVars, connVars, worldVars, historyVars
<1>11. ASSUME NEW c \in Conns, RecvFails(c)
       PROVE  FlowInv'
  BY <1>11 DEF RecvFails, Return, Goto, Named, TypeOK, FlowInv, Sending,
       Closing, vars, callVars, connVars, worldVars, historyVars
<1>12. ASSUME NEW c \in Conns, RecvLoop(c)
       PROVE  FlowInv'
  BY <1>12 DEF RecvLoop, Return, Goto, TypeOK, FlowInv, Sending, Closing,
       vars, callVars, connVars, worldVars, historyVars
<1>13. ASSUME NEW c \in Conns, RecvEnter(c)
       PROVE  FlowInv'
  BY <1>13 DEF RecvEnter, Enter, Goto, Named, TypeOK, FlowInv, Sending,
       Closing, vars, callVars, connVars, worldVars, historyVars
<1>14. ASSUME NEW c \in Conns, RecvData(c)
       PROVE  FlowInv'
  BY <1>14 DEF RecvData, Return, Goto, TypeOK, FlowInv, Sending, Closing,
       vars, callVars, connVars, worldVars, historyVars
<1>15. ASSUME NEW c \in Conns, SessionSend(c)
       PROVE  FlowInv'
  BY <1>15 DEF SessionSend, Call, Pick, Goto, TypeOK, FlowInv, Sending,
       Closing, vars, callVars, connVars, worldVars, historyVars
<1>16. ASSUME NEW c \in Conns, SessionDisconnect(c)
       PROVE  FlowInv'
  BY <1>16 DEF SessionDisconnect, Call, Pick, Goto, TypeOK, FlowInv, Sending,
       Closing, vars, callVars, connVars, worldVars, historyVars
<1>17. ASSUME NEW c \in Conns, SessionDestroy(c)
       PROVE  FlowInv'
  BY <1>17 DEF SessionDestroy, Pick, CloseBegin, IsOpen, Goto, TypeOK,
       FlowInv, Sending, Closing, vars, callVars, connVars, worldVars,
       historyVars
<1>18. ASSUME NEW c \in Conns, Accept(c)
       PROVE  FlowInv'
  BY <1>18 DEF Accept, Goto, TypeOK, FlowInv, Sending, Closing, vars,
       callVars, connVars, worldVars, historyVars
<1>19. ASSUME NEW c \in Conns, PeerStalls(c)
       PROVE  FlowInv'
  BY <1>19 DEF PeerStalls, PeerDoes, TypeOK, FlowInv, Sending, Closing, vars,
       callVars, connVars, worldVars, historyVars
<1>20. ASSUME NEW c \in Conns, PeerCloses(c)
       PROVE  FlowInv'
  BY <1>20 DEF PeerCloses, PeerDoes, TypeOK, FlowInv, Sending, Closing, vars,
       callVars, connVars, worldVars, historyVars
<1>21. ASSUME SessionJoin PROVE FlowInv'
  BY <1>21 DEF SessionJoin, Return, Goto, TypeOK, FlowInv, Sending, Closing,
       vars, callVars, connVars, worldVars, historyVars
<1>22. CASE UNCHANGED vars
  BY <1>22 DEF TypeOK, FlowInv, Sending, Closing, vars, callVars, connVars,
       worldVars, historyVars
<1> QED
  BY <1>1, <1>2, <1>3, <1>4, <1>5, <1>6, <1>7, <1>8, <1>9, <1>10, <1>11,
       <1>12, <1>13, <1>14, <1>15, <1>16, <1>17, <1>18, <1>19, <1>20, <1>21,
       <1>22 DEF Next, ThreadStep, RecvStep

\* accept() gives a new connection a free descriptor.
LEMMA AcceptTakes ==
  ASSUME NEW c \in Conns, Accept(c)
  PROVE  \E n \in Fds : /\ table[n] = Nobody
                        /\ table' = [table EXCEPT ![n] = c]
                        /\ handle' = [handle EXCEPT ![c] = n]
<1> DEFINE n == Min({f \in Fds : table[f] = Nobody})
<1>1. n \in Fds /\ table[n] = Nobody
  BY SocketAssumption, LeastOfSome DEF Accept
<1>2. table' = [table EXCEPT ![n] = c] /\ handle' = [handle EXCEPT ![c] = n]
  BY DEF Accept
<1> HIDE DEF n
<1> QED  BY <1>1, <1>2

\* A descriptor that names a connection stays the one in its handle_.
LEMMA HandleStep ==
  ASSUME TypeOK, FlowInv, CallInv, HandleInv, NumberInv, [Next]_vars
  PROVE  HandleInv'
<1> USE SocketAssumption DEF Threads, On
<1>1. ASSUME NEW t \in Threads, SendTest(t)
      PROVE  HandleInv'
  BY <1>1 DEF SendTest, Goto, Return, HandleInv, vars, callVars, connVars,
       worldVars, historyVars
<1>2. ASSUME NEW t \in Threads, SendLock(t)
      PROVE  HandleInv'
  BY <1>2 DEF SendLock, Goto, Return, HandleInv, vars, callVars, connVars,
       worldVars, historyVars
<1>3. ASSUME NEW t \in Threads, SendFails(t)
      PROVE  HandleInv'
  BY <1>3 DEF SendFails, FailUnlock, Unlock, Return, Goto, Named, HandleInv,
       vars, callVars, connVars, worldVars, historyVars
<1>4. ASSUME NEW t \in Threads, SendEnter(t)
      PROVE  HandleInv'
  BY <1>4 DEF SendEnter, Enter, Goto, Named, HandleInv, vars, callVars,
       connVars, worldVars, historyVars
<1>5. ASSUME NEW t \in Threads, SendWrite(t)
      PROVE  HandleInv'
  BY <1>5 DEF SendWrite, Return, Goto, Unlock, HandleInv, vars, callVars,
       connVars, worldVars, historyVars
<1>6. ASSUME NEW t \in Threads, DiscTest(t)
      PROVE  HandleInv'
  BY <1>6 DEF DiscTest, Return, Goto, Home, HandleInv, vars, callVars,
       connVars, worldVars, historyVars
<1>7. ASSUME NEW t \in Threads, DiscFlag(t)
      PROVE  HandleInv'
  BY <1>7 DEF DiscFlag, CloseBegin, IsOpen, Goto, HandleInv, vars, callVars,
       connVars, worldVars, historyVars
<1>8. ASSUME NEW t \in Threads, Close(t)
      PROVE  HandleInv'
  <2>1. On(t) \in Conns /\ via[t] \in Fds
    BY <1>8, Working DEF Close, CallInv, CallOK
  <2> QED  BY <1>8, <2>1 DEF Close, TypeOK, HandleInv, vars, callVars,
       connVars, worldVars, historyVars
<1>9. ASSUME NEW t \in Threads, Clear(t)
      PROVE  HandleInv'
  <2>1. On(t) \in Conns /\ Closed(On(t))
    BY <1>9, Working DEF Clear, NumberInv, NumberOK
  <2>2. handle' = [handle EXCEPT ![On(t)] = NoFd]
    BY <1>9 DEF Clear, Cleared
  <2>3. table' = table /\ stage' = stage
    BY <1>9 DEF Clear, worldVars
  <2>4. ASSUME NEW d \in Conns, NEW f \in Fds, table'[f] = d
        PROVE  handle'[d] = f /\ stage'[d] = "live"
    <3>1. d # On(t)  BY <2>1, <2>3, <2>4 DEF Closed
    <3>2. handle'[d] = handle[d]  BY <2>2, <3>1 DEF TypeOK
    <3> QED  BY <2>3, <2>4, <3>2 DEF HandleInv
  <2> QED  BY <2>4 DEF HandleInv
<1>10. ASSUME NEW t \in Threads, DiscDone(t)
       PROVE  HandleInv'
  BY <1>10 DEF DiscDone, Return, Goto, Home, HandleInv, vars, callVars,
       connVars, worldVars, historyVars
<1>11. ASSUME NEW c \in Conns, RecvFails(c)
       PROVE  HandleInv'
  BY <1>11 DEF RecvFails, Return, Goto, Named, HandleInv, vars, callVars,
       connVars, worldVars, historyVars
<1>12. ASSUME NEW c \in Conns, RecvLoop(c)
       PROVE  HandleInv'
  BY <1>12 DEF RecvLoop, Return, Goto, HandleInv, vars, callVars, connVars,
       worldVars, historyVars
<1>13. ASSUME NEW c \in Conns, RecvEnter(c)
       PROVE  HandleInv'
  BY <1>13 DEF RecvEnter, Enter, Goto, Named, HandleInv, vars, callVars,
       connVars, worldVars, historyVars
<1>14. ASSUME NEW c \in Conns, RecvData(c)
       PROVE  HandleInv'
  BY <1>14 DEF RecvData, Return, Goto, HandleInv, vars, callVars, connVars,
       worldVars, historyVars
<1>15. ASSUME NEW c \in Conns, SessionSend(c)
       PROVE  HandleInv'
  BY <1>15 DEF SessionSend, Call, Pick, Goto, HandleInv, vars, callVars,
       connVars, worldVars, historyVars
<1>16. ASSUME NEW c \in Conns, SessionDisconnect(c)
       PROVE  HandleInv'
  BY <1>16 DEF SessionDisconnect, Call, Pick, Goto, HandleInv, vars, callVars,
       connVars, worldVars, historyVars
<1>17. ASSUME NEW c \in Conns, SessionDestroy(c)
       PROVE  HandleInv'
  BY <1>17 DEF SessionDestroy, Pick, CloseBegin, IsOpen, Goto, HandleInv,
       vars, callVars, connVars, worldVars, historyVars
<1>18. ASSUME NEW c \in Conns, Accept(c)
       PROVE  HandleInv'
  <2>1. PICK n \in Fds : /\ table[n] = Nobody
                         /\ table' = [table EXCEPT ![n] = c]
                         /\ handle' = [handle EXCEPT ![c] = n]
    BY <1>18, AcceptTakes
  <2>2. stage[c] = "new" /\ stage' = [stage EXCEPT ![c] = "live"]
    BY <1>18 DEF Accept
  <2> QED  BY <2>1, <2>2 DEF TypeOK, HandleInv
<1>19. ASSUME NEW c \in Conns, PeerStalls(c)
       PROVE  HandleInv'
  BY <1>19 DEF PeerStalls, PeerDoes, HandleInv, vars, callVars, connVars,
       worldVars, historyVars
<1>20. ASSUME NEW c \in Conns, PeerCloses(c)
       PROVE  HandleInv'
  BY <1>20 DEF PeerCloses, PeerDoes, HandleInv, vars, callVars, connVars,
       worldVars, historyVars
<1>21. ASSUME SessionJoin PROVE HandleInv'
  <2>1. target \in Conns /\ Closed(target)
    BY <1>21, Working DEF SessionJoin, NumberInv, NumberOK
  <2> QED  BY <1>21, <2>1 DEF SessionJoin, TypeOK, HandleInv, Closed, vars,
       callVars, connVars, worldVars, historyVars
<1>22. CASE UNCHANGED vars
  BY <1>22 DEF HandleInv, vars, callVars, connVars, worldVars, historyVars
<1> QED
  BY <1>1, <1>2, <1>3, <1>4, <1>5, <1>6, <1>7, <1>8, <1>9, <1>10, <1>11,
       <1>12, <1>13, <1>14, <1>15, <1>16, <1>17, <1>18, <1>19, <1>20, <1>21,
       <1>22 DEF Next, ThreadStep, RecvStep

\* A thread that is left alone keeps the only number of its connection when no
\* other number comes to name that connection.
LEMMA NumberKept ==
  ASSUME NEW u \in Threads, Keeps(u), NumberOK(u),
         pc[u] \notin {"none", "idle", "exited"}
           => \A f \in Fds : table'[f] = On(u) => table[f] = On(u)
  PROVE  NumberOK(u)'
  BY DEF Keeps, NumberOK, Reaching, Closed

\* What a thread has read from handle_ stays the only number that can name its
\* connection.
LEMMA NumberStep ==
  ASSUME TypeOK, FlowInv, CallInv, HandleInv, NumberInv, [Next]_vars
  PROVE  NumberInv'
<1> USE SocketAssumption DEF Threads, On
<1>1. ASSUME NEW t \in Threads, SendTest(t)
      PROVE  NumberInv'
  <2>1. \A u \in Threads \ {t} : Keeps(u)
    BY <1>1, OthersKeep DEF ThreadStep
  <2>2. NumberOK(t)'
    <3>1. CASE running[On(t)]  BY <1>1, Working, <3>1 DEF SendTest, Goto,
         Return, TypeOK, FlowInv, HandleInv, NumberInv, NumberOK, Reaching,
         Closed, Sending, Closing, vars, callVars, connVars, worldVars,
         historyVars
    <3>2. CASE ~ (running[On(t)])  BY <1>1, Working, <3>2 DEF SendTest, Goto,
         Return, TypeOK, FlowInv, HandleInv, NumberInv, NumberOK, Reaching,
         Closed, Sending, Closing, vars, callVars, connVars, worldVars,
         historyVars
    <3> QED  BY <3>1, <3>2
  <2>3. ASSUME NEW u \in Threads \ {t} PROVE NumberOK(u)'
    <3>1. table' = table  BY <1>1 DEF SendTest
    <3> QED  BY <2>1, <3>1, NumberKept DEF NumberInv
  <2> QED  BY <2>2, <2>3 DEF NumberInv
<1>2. ASSUME NEW t \in Threads, SendLock(t)
      PROVE  NumberInv'
  <2>1. \A u \in Threads \ {t} : Keeps(u)
    BY <1>2, OthersKeep DEF ThreadStep
  <2>2. NumberOK(t)'
    <3>1. CASE handle[On(t)] = NoFd  BY <1>2, Working, <3>1 DEF SendLock,
         Goto, Return, TypeOK, FlowInv, HandleInv, NumberInv, NumberOK,
         Reaching, Closed, Sending, Closing, vars, callVars, connVars,
         worldVars, historyVars
    <3>2. CASE ~ (handle[On(t)] = NoFd)  BY <1>2, Working, <3>2 DEF SendLock,
         Goto, Return, TypeOK, FlowInv, HandleInv, NumberInv, NumberOK,
         Reaching, Closed, Sending, Closing, vars, callVars, connVars,
         worldVars, historyVars
    <3> QED  BY <3>1, <3>2
  <2>3. ASSUME NEW u \in Threads \ {t} PROVE NumberOK(u)'
    <3>1. table' = table  BY <1>2 DEF SendLock
    <3> QED  BY <2>1, <3>1, NumberKept DEF NumberInv
  <2> QED  BY <2>2, <2>3 DEF NumberInv
<1>3. ASSUME NEW t \in Threads, SendFails(t)
      PROVE  NumberInv'
  <2>1. \A u \in Threads \ {t} : Keeps(u)
    BY <1>3, OthersKeep DEF ThreadStep
  <2>2. NumberOK(t)'
    <3>1. CASE pc[t] = "enter"  BY <1>3, Working, <3>1 DEF SendFails,
         FailUnlock, Unlock, Return, Goto, Named, TypeOK, FlowInv, HandleInv,
         NumberInv, NumberOK, Reaching, Closed, Sending, Closing, vars,
         callVars, connVars, worldVars, historyVars
    <3>2. CASE ~ (pc[t] = "enter")  BY <1>3, Working, <3>2 DEF SendFails,
         FailUnlock, Unlock, Return, Goto, Named, TypeOK, FlowInv, HandleInv,
         NumberInv, NumberOK, Reaching, Closed, Sending, Closing, vars,
         callVars, connVars, worldVars, historyVars
    <3> QED  BY <3>1, <3>2
  <2>3. ASSUME NEW u \in Threads \ {t} PROVE NumberOK(u)'
    <3>1. table' = table  BY <1>3 DEF SendFails
    <3> QED  BY <2>1, <3>1, NumberKept DEF NumberInv
  <2> QED  BY <2>2, <2>3 DEF NumberInv
<1>4. ASSUME NEW t \in Threads, SendEnter(t)
      PROVE  NumberInv'
  <2>1. \A u \in Threads \ {t} : Keeps(u)
    BY <1>4, OthersKeep DEF ThreadStep
  <2>2. NumberOK(t)'
    BY <1>4, Working DEF SendEnter, Enter, Goto, Named, TypeOK, FlowInv,
         HandleInv, NumberInv, NumberOK, Reaching, Closed, Sending, Closing,
         vars, callVars, connVars, worldVars, historyVars
  <2>3. ASSUME NEW u \in Threads \ {t} PROVE NumberOK(u)'
    <3>1. table' = table  BY <1>4 DEF SendEnter, Enter
    <3> QED  BY <2>1, <3>1, NumberKept DEF NumberInv
  <2> QED  BY <2>2, <2>3 DEF NumberInv
<1>5. ASSUME NEW t \in Threads, SendWrite(t)
      PROVE  NumberInv'
  <2>1. \A u \in Threads \ {t} : Keeps(u)
    BY <1>5, OthersKeep DEF ThreadStep
  <2>2. NumberOK(t)'
    <3>1. CASE FrameLen + 1 - left[t] = FrameLen  BY <1>5, Working, <3>1 DEF
         SendWrite, Return, Goto, Unlock, TypeOK, FlowInv, HandleInv,
         NumberInv, NumberOK, Reaching, Closed, Sending, Closing, vars,
         callVars, connVars, worldVars, historyVars
    <3>2. CASE ~ (FrameLen + 1 - left[t] = FrameLen)  BY <1>5, Working, <3>2
         DEF SendWrite, Return, Goto, Unlock, TypeOK, FlowInv, HandleInv,
         NumberInv, NumberOK, Reaching, Closed, Sending, Closing, vars,
         callVars, connVars, worldVars, historyVars
    <3> QED  BY <3>1, <3>2
  <2>3. ASSUME NEW u \in Threads \ {t} PROVE NumberOK(u)'
    <3>1. table' = table  BY <1>5 DEF SendWrite
    <3> QED  BY <2>1, <3>1, NumberKept DEF NumberInv
  <2> QED  BY <2>2, <2>3 DEF NumberInv
<1>6. ASSUME NEW t \in Threads, DiscTest(t)
      PROVE  NumberInv'
  <2>1. \A u \in Threads \ {t} : Keeps(u)
    BY <1>6, OthersKeep DEF ThreadStep
  <2>2. NumberOK(t)'
    <3>1. CASE gone[On(t)]  BY <1>6, Working, <3>1 DEF DiscTest, Return, Goto,
         Home, TypeOK, FlowInv, HandleInv, NumberInv, NumberOK, Reaching,
         Closed, Sending, Closing, vars, callVars, connVars, worldVars,
         historyVars
    <3>2. CASE ~ (gone[On(t)])  BY <1>6, Working, <3>2 DEF DiscTest, Return,
         Goto, Home, TypeOK, FlowInv, HandleInv, NumberInv, NumberOK,
         Reaching, Closed, Sending, Closing, vars, callVars, connVars,
         worldVars, historyVars
    <3> QED  BY <3>1, <3>2
  <2>3. ASSUME NEW u \in Threads \ {t} PROVE NumberOK(u)'
    <3>1. table' = table  BY <1>6 DEF DiscTest
    <3> QED  BY <2>1, <3>1, NumberKept DEF NumberInv
  <2> QED  BY <2>2, <2>3 DEF NumberInv
<1>7. ASSUME NEW t \in Threads, DiscFlag(t)
      PROVE  NumberInv'
  <2>1. \A u \in Threads \ {t} : Keeps(u)
    BY <1>7, OthersKeep DEF ThreadStep
  <2>2. NumberOK(t)'
    <3>1. CASE IsOpen(On(t))  BY <1>7, Working, <3>1 DEF DiscFlag, CloseBegin,
         IsOpen, Goto, TypeOK, FlowInv, HandleInv, NumberInv, NumberOK,
         Reaching, Closed, Sending, Closing, vars, callVars, connVars,
         worldVars, historyVars
    <3>2. CASE ~ (IsOpen(On(t)))  BY <1>7, Working, <3>2 DEF DiscFlag,
         CloseBegin, IsOpen, Goto, TypeOK, FlowInv, HandleInv, NumberInv,
         NumberOK, Reaching, Closed, Sending, Closing, vars, callVars,
         connVars, worldVars, historyVars
    <3> QED  BY <3>1, <3>2
  <2>3. ASSUME NEW u \in Threads \ {t} PROVE NumberOK(u)'
    <3>1. table' = table  BY <1>7 DEF DiscFlag, CloseBegin
    <3> QED  BY <2>1, <3>1, NumberKept DEF NumberInv
  <2> QED  BY <2>2, <2>3 DEF NumberInv
<1>8. ASSUME NEW t \in Threads, Close(t)
      PROVE  NumberInv'
  <2>1. \A u \in Threads \ {t} : Keeps(u)
    BY <1>8, OthersKeep DEF ThreadStep
  <2>2. NumberOK(t)'
    BY <1>8, Working DEF Close, Goto, TypeOK, FlowInv, HandleInv, NumberInv,
         NumberOK, Reaching, Closed, Sending, Closing, vars, callVars,
         connVars, worldVars, historyVars
  <2>3. ASSUME NEW u \in Threads \ {t} PROVE NumberOK(u)'
    <3>1. \A f \in Fds : table'[f] \in {table[f], Nobody}
      BY <1>8 DEF Close, TypeOK, CallInv, CallOK
    <3>2. pc[u] \notin {"none", "idle", "exited"} => On(u) # Nobody
      BY Working
    <3> QED  BY <2>1, <3>1, <3>2, NumberKept DEF NumberInv
  <2> QED  BY <2>2, <2>3 DEF NumberInv
<1>9. ASSUME NEW t \in Threads, Clear(t)
      PROVE  NumberInv'
  <2>1. \A u \in Threads \ {t} : Keeps(u)
    BY <1>9, OthersKeep DEF ThreadStep
  <2>2. NumberOK(t)'
    BY <1>9, Working DEF Clear, Cleared, Return, Goto, TypeOK, FlowInv,
         HandleInv, NumberInv, NumberOK, Reaching, Closed, Sending, Closing,
         vars, callVars, connVars, worldVars, historyVars
  <2>3. ASSUME NEW u \in Threads \ {t} PROVE NumberOK(u)'
    <3>1. table' = table  BY <1>9 DEF Clear
    <3> QED  BY <2>1, <3>1, NumberKept DEF NumberInv
  <2> QED  BY <2>2, <2>3 DEF NumberInv
<1>10. ASSUME NEW t \in Threads, DiscDone(t)
       PROVE  NumberInv'
  <2>1. \A u \in Threads \ {t} : Keeps(u)
    BY <1>10, OthersKeep DEF ThreadStep
  <2>2. NumberOK(t)'
    BY <1>10, Working DEF DiscDone, Return, Goto, Home, TypeOK, FlowInv,
         HandleInv, NumberInv, NumberOK, Reaching, Closed, Sending, Closing,
         vars, callVars, connVars, worldVars, historyVars
  <2>3. ASSUME NEW u \in Threads \ {t} PROVE NumberOK(u)'
    <3>1. table' = table  BY <1>10 DEF DiscDone
    <3> QED  BY <2>1, <3>1, NumberKept DEF NumberInv
  <2> QED  BY <2>2, <2>3 DEF NumberInv
<1>11. ASSUME NEW c \in Conns, RecvFails(c)
       PROVE  NumberInv'
  <2>1. \A u \in Threads \ {c} : Keeps(u)
    BY <1>11, OthersKeep DEF ConnStep, RecvStep
  <2>2. NumberOK(c)'
    BY <1>11, Working DEF RecvFails, Return, Goto, Named, TypeOK, FlowInv,
         HandleInv, NumberInv, NumberOK, Reaching, Closed, Sending, Closing,
         vars, callVars, connVars, worldVars, historyVars
  <2>3. ASSUME NEW u \in Threads \ {c} PROVE NumberOK(u)'
    <3>1. table' = table  BY <1>11 DEF RecvFails
    <3> QED  BY <2>1, <3>1, NumberKept DEF NumberInv
  <2> QED  BY <2>2, <2>3 DEF NumberInv
<1>12. ASSUME NEW c \in Conns, RecvLoop(c)
       PROVE  NumberInv'
  <2>1. \A u \in Threads \ {c} : Keeps(u)
    BY <1>12, OthersKeep DEF ConnStep, RecvStep
  <2>2. NumberOK(c)'
    <3>1. CASE running[c]  BY <1>12, Working, <3>1 DEF RecvLoop, Return, Goto,
         TypeOK, FlowInv, HandleInv, NumberInv, NumberOK, Reaching, Closed,
         Sending, Closing, vars, callVars, connVars, worldVars, historyVars
    <3>2. CASE ~ (running[c])  BY <1>12, Working, <3>2 DEF RecvLoop, Return,
         Goto, TypeOK, FlowInv, HandleInv, NumberInv, NumberOK, Reaching,
         Closed, Sending, Closing, vars, callVars, connVars, worldVars,
         historyVars
    <3> QED  BY <3>1, <3>2
  <2>3. ASSUME NEW u \in Threads \ {c} PROVE NumberOK(u)'
    <3>1. table' = table  BY <1>12 DEF RecvLoop
    <3> QED  BY <2>1, <3>1, NumberKept DEF NumberInv
  <2> QED  BY <2>2, <2>3 DEF NumberInv
<1>13. ASSUME NEW c \in Conns, RecvEnter(c)
       PROVE  NumberInv'
  <2>1. \A u \in Threads \ {c} : Keeps(u)
    BY <1>13, OthersKeep DEF ConnStep, RecvStep
  <2>2. NumberOK(c)'
    BY <1>13, Working DEF RecvEnter, Enter, Goto, Named, TypeOK, FlowInv,
         HandleInv, NumberInv, NumberOK, Reaching, Closed, Sending, Closing,
         vars, callVars, connVars, worldVars, historyVars
  <2>3. ASSUME NEW u \in Threads \ {c} PROVE NumberOK(u)'
    <3>1. table' = table  BY <1>13 DEF RecvEnter, Enter
    <3> QED  BY <2>1, <3>1, NumberKept DEF NumberInv
  <2> QED  BY <2>2, <2>3 DEF NumberInv
<1>14. ASSUME NEW c \in Conns, RecvData(c)
       PROVE  NumberInv'
  <2>1. \A u \in Threads \ {c} : Keeps(u)
    BY <1>14, OthersKeep DEF ConnStep, RecvStep
  <2>2. NumberOK(c)'
    BY <1>14, Working DEF RecvData, Return, Goto, TypeOK, FlowInv, HandleInv,
         NumberInv, NumberOK, Reaching, Closed, Sending, Closing, vars,
         callVars, connVars, worldVars, historyVars
  <2>3. ASSUME NEW u \in Threads \ {c} PROVE NumberOK(u)'
    <3>1. table' = table  BY <1>14 DEF RecvData
    <3> QED  BY <2>1, <3>1, NumberKept DEF NumberInv
  <2> QED  BY <2>2, <2>3 DEF NumberInv
<1>15. ASSUME NEW c \in Conns, SessionSend(c)
       PROVE  NumberInv'
  <2>1. \A u \in Conns : Keeps(u)
    BY <1>15, OthersKeep DEF SessionCall
  <2>2. NumberOK(Session)'
    BY <1>15, Working DEF SessionSend, Call, Pick, Goto, TypeOK, FlowInv,
         HandleInv, NumberInv, NumberOK, Reaching, Closed, Sending, Closing,
         vars, callVars, connVars, worldVars, historyVars
  <2>3. ASSUME NEW u \in Conns PROVE NumberOK(u)'
    <3>1. table' = table  BY <1>15 DEF SessionSend, Call
    <3> QED  BY <2>1, <3>1, NumberKept DEF NumberInv
  <2> QED  BY <2>2, <2>3 DEF NumberInv
<1>16. ASSUME NEW c \in Conns, SessionDisconnect(c)
       PROVE  NumberInv'
  <2>1. \A u \in Conns : Keeps(u)
    BY <1>16, OthersKeep DEF SessionCall
  <2>2. NumberOK(Session)'
    BY <1>16, Working DEF SessionDisconnect, Call, Pick, Goto, TypeOK,
         FlowInv, HandleInv, NumberInv, NumberOK, Reaching, Closed, Sending,
         Closing, vars, callVars, connVars, worldVars, historyVars
  <2>3. ASSUME NEW u \in Conns PROVE NumberOK(u)'
    <3>1. table' = table  BY <1>16 DEF SessionDisconnect, Call
    <3> QED  BY <2>1, <3>1, NumberKept DEF NumberInv
  <2> QED  BY <2>2, <2>3 DEF NumberInv
<1>17. ASSUME NEW c \in Conns, SessionDestroy(c)
       PROVE  NumberInv'
  <2>1. \A u \in Conns : Keeps(u)
    BY <1>17, OthersKeep DEF SessionCall
  <2>2. NumberOK(Session)'
    <3>1. CASE IsOpen(c)  BY <1>17, Working, <3>1 DEF SessionDestroy, Pick,
         CloseBegin, IsOpen, Goto, TypeOK, FlowInv, HandleInv, NumberInv,
         NumberOK, Reaching, Closed, Sending, Closing, vars, callVars,
         connVars, worldVars, historyVars
    <3>2. CASE ~ (IsOpen(c))  BY <1>17, Working, <3>2 DEF SessionDestroy,
         Pick, CloseBegin, IsOpen, Goto, TypeOK, FlowInv, HandleInv,
         NumberInv, NumberOK, Reaching, Closed, Sending, Closing, vars,
         callVars, connVars, worldVars, historyVars
    <3> QED  BY <3>1, <3>2
  <2>3. ASSUME NEW u \in Conns PROVE NumberOK(u)'
    <3>1. table' = table  BY <1>17 DEF SessionDestroy, CloseBegin
    <3> QED  BY <2>1, <3>1, NumberKept DEF NumberInv
  <2> QED  BY <2>2, <2>3 DEF NumberInv
<1>18. ASSUME NEW c \in Conns, Accept(c)
       PROVE  NumberInv'
  <2>1. \A u \in Threads \ {c} : Keeps(u)
    BY <1>18, OthersKeep DEF ConnStep, RecvStep
  <2>2. NumberOK(c)'
    BY <1>18, Working DEF Accept, Goto, TypeOK, FlowInv, HandleInv, NumberInv,
         NumberOK, Reaching, Closed, Sending, Closing, vars, callVars,
         connVars, worldVars, historyVars
  <2>3. ASSUME NEW u \in Threads \ {c} PROVE NumberOK(u)'
    <3>1. PICK n \in Fds : /\ table[n] = Nobody
                           /\ table' = [table EXCEPT ![n] = c]
                           /\ handle' = [handle EXCEPT ![c] = n]
      BY <1>18, AcceptTakes
    <3>2. stage[c] = "new" /\ stage' = [stage EXCEPT ![c] = "live"]
      BY <1>18 DEF Accept
    <3>4. pc[u] \notin {"none", "idle", "exited"} => On(u) # c
      BY <3>2, Working
    <3>5. pc[u] \notin {"none", "idle", "exited"}
            => \A f \in Fds : table'[f] = On(u) => table[f] = On(u)
      BY <3>1, <3>2, <3>4 DEF TypeOK
    <3> QED  BY <2>1, <3>5, NumberKept DEF NumberInv
  <2> QED  BY <2>2, <2>3 DEF NumberInv
<1>19. ASSUME NEW c \in Conns, PeerStalls(c)
       PROVE  NumberInv'
  <2>1. \A u \in Threads \ {c} : Keeps(u)
    BY <1>19, OthersKeep DEF ConnStep, RecvStep
  <2>2. NumberOK(c)'
    BY <1>19 DEF PeerStalls, PeerCloses, PeerDoes, NumberInv, NumberOK,
         Reaching, Closed, callVars
  <2>3. ASSUME NEW u \in Threads \ {c} PROVE NumberOK(u)'
    <3>1. table' = table  BY <1>19 DEF PeerStalls, PeerDoes
    <3> QED  BY <2>1, <3>1, NumberKept DEF NumberInv
  <2> QED  BY <2>2, <2>3 DEF NumberInv
<1>20. ASSUME NEW c \in Conns, PeerCloses(c)
       PROVE  NumberInv'
  <2>1. \A u \in Threads \ {c} : Keeps(u)
    BY <1>20, OthersKeep DEF ConnStep, RecvStep
  <2>2. NumberOK(c)'
    BY <1>20 DEF PeerStalls, PeerCloses, PeerDoes, NumberInv, NumberOK,
         Reaching, Closed, callVars
  <2>3. ASSUME NEW u \in Threads \ {c} PROVE NumberOK(u)'
    <3>1. table' = table  BY <1>20 DEF PeerCloses, PeerDoes
    <3> QED  BY <2>1, <3>1, NumberKept DEF NumberInv
  <2> QED  BY <2>2, <2>3 DEF NumberInv
<1>21. ASSUME SessionJoin PROVE NumberInv'
  <2>1. \A u \in Conns : Keeps(u)
    BY <1>21, OthersKeep
  <2>2. NumberOK(Session)'
    BY <1>21, Working DEF SessionJoin, Return, Goto, TypeOK, FlowInv,
         HandleInv, NumberInv, NumberOK, Reaching, Closed, Sending, Closing,
         vars, callVars, connVars, worldVars, historyVars
  <2>3. ASSUME NEW u \in Conns PROVE NumberOK(u)'
    <3>1. table' = table  BY <1>21 DEF SessionJoin
    <3> QED  BY <2>1, <3>1, NumberKept DEF NumberInv
  <2> QED  BY <2>2, <2>3 DEF NumberInv
<1>22. CASE UNCHANGED vars
  BY <1>22, Working DEF TypeOK, FlowInv, HandleInv, NumberInv, NumberOK,
       Reaching, Closed, vars, callVars, connVars, worldVars, historyVars
<1> QED
  BY <1>1, <1>2, <1>3, <1>4, <1>5, <1>6, <1>7, <1>8, <1>9, <1>10, <1>11,
       <1>12, <1>13, <1>14, <1>15, <1>16, <1>17, <1>18, <1>19, <1>20, <1>21,
       <1>22 DEF Next, ThreadStep, RecvStep

\* A lost handle_ stays accounted for when its connection and the threads that
\* are about to clear it are left alone.
LEMMA LostKept ==
  ASSUME NEW c \in Conns, LostOK(c),
         \A f \in Fds : table'[f] = c <=> table[f] = c,
         c \in robbed => c \in robbed',
         handle'[c] = handle[c], stage'[c] = stage[c],
         closers[c] \subseteq closers'[c],
         \A u \in closers[c] :
           pc[u] = "clear" /\ On(u) = c => pc'[u] = "clear" /\ On(u)' = c
  PROVE  LostOK(c)'
  BY DEF LostOK

\* A thread that is left alone keeps its rival.
LEMMA RivalKept ==
  ASSUME NEW u \in Threads, Keeps(u), RivalOK(u),
         table' = table, robbed \subseteq robbed',
         closers[On(u)] \subseteq closers'[On(u)]
  PROVE  RivalOK(u)'
  BY DEF RivalOK, Keeps, Reaching

\* A thread that reads a lost handle_ has a rival: the one that closed it and
\* has not cleared it yet.
LEMMA RivalRead ==
  ASSUME NEW t \in Threads, NEW d \in Conns, On(t)' = d,
         stage[d] = "live", via'[t] = handle[d], pc[t] # "clear", LostOK(d),
         table' = table, robbed' = robbed, closers' = closers
  PROVE  RivalOK(t)'
  BY DEF RivalOK, LostOK

\* Only a robber, or a thread that is about to clear it, leaves a handle_ lost.
LEMMA LostStep ==
  ASSUME TypeOK, FlowInv, CallInv, LostInv, [Next]_vars
  PROVE  LostInv'
<1> USE SocketAssumption DEF Threads, On
<1>1. ASSUME NEW t \in Threads, SendTest(t)
      PROVE  LostInv'
  <2>1. \A u \in Threads \ {t} : Keeps(u)
    BY <1>1, OthersKeep DEF ThreadStep
  <2>2. pc[t] = "clear" => pc'[t] = "clear" /\ On(t)' = On(t)
    BY <1>1 DEF SendTest
  <2>3. UNCHANGED <<table, handle, stage, robbed, closers>>
    BY <1>1 DEF SendTest, connVars, worldVars, historyVars
  <2>4. ASSUME NEW d \in Conns PROVE LostOK(d)'
    BY <2>1, <2>2, <2>3, LostKept DEF LostInv, Keeps, TypeOK
  <2> QED  BY <2>4 DEF LostInv
<1>2. ASSUME NEW t \in Threads, SendLock(t)
      PROVE  LostInv'
  <2>1. \A u \in Threads \ {t} : Keeps(u)
    BY <1>2, OthersKeep DEF ThreadStep
  <2>2. pc[t] = "clear" => pc'[t] = "clear" /\ On(t)' = On(t)
    BY <1>2 DEF SendLock
  <2>3. UNCHANGED <<table, handle, stage, robbed, closers>>
    BY <1>2 DEF SendLock, connVars, worldVars, historyVars
  <2>4. ASSUME NEW d \in Conns PROVE LostOK(d)'
    BY <2>1, <2>2, <2>3, LostKept DEF LostInv, Keeps, TypeOK
  <2> QED  BY <2>4 DEF LostInv
<1>3. ASSUME NEW t \in Threads, SendFails(t)
      PROVE  LostInv'
  <2>1. \A u \in Threads \ {t} : Keeps(u)
    BY <1>3, OthersKeep DEF ThreadStep
  <2>2. pc[t] = "clear" => pc'[t] = "clear" /\ On(t)' = On(t)
    BY <1>3 DEF SendFails
  <2>3. UNCHANGED <<table, handle, stage, robbed, closers>>
    BY <1>3 DEF SendFails, connVars, worldVars, historyVars
  <2>4. ASSUME NEW d \in Conns PROVE LostOK(d)'
    BY <2>1, <2>2, <2>3, LostKept DEF LostInv, Keeps, TypeOK
  <2> QED  BY <2>4 DEF LostInv
<1>4. ASSUME NEW t \in Threads, SendEnter(t)
      PROVE  LostInv'
  <2>1. \A u \in Threads \ {t} : Keeps(u)
    BY <1>4, OthersKeep DEF ThreadStep
  <2>2. pc[t] = "clear" => pc'[t] = "clear" /\ On(t)' = On(t)
    BY <1>4 DEF SendEnter, Enter
  <2>3. UNCHANGED <<table, handle, stage, robbed, closers>>
    BY <1>4 DEF SendEnter, Enter, connVars, worldVars, historyVars
  <2>4. ASSUME NEW d \in Conns PROVE LostOK(d)'
    BY <2>1, <2>2, <2>3, LostKept DEF LostInv, Keeps, TypeOK
  <2> QED  BY <2>4 DEF LostInv
<1>5. ASSUME NEW t \in Threads, SendWrite(t)
      PROVE  LostInv'
  <2>1. \A u \in Threads \ {t} : Keeps(u)
    BY <1>5, OthersKeep DEF ThreadStep
  <2>2. pc[t] = "clear" => pc'[t] = "clear" /\ On(t)' = On(t)
    BY <1>5 DEF SendWrite
  <2>3. UNCHANGED <<table, handle, stage, robbed, closers>>
    BY <1>5 DEF SendWrite, connVars, worldVars, historyVars
  <2>4. ASSUME NEW d \in Conns PROVE LostOK(d)'
    BY <2>1, <2>2, <2>3, LostKept DEF LostInv, Keeps, TypeOK
  <2> QED  BY <2>4 DEF LostInv
<1>6. ASSUME NEW t \in Threads, DiscTest(t)
      PROVE  LostInv'
  <2>1. \A u \in Threads \ {t} : Keeps(u)
    BY <1>6, OthersKeep DEF ThreadStep
  <2>2. pc[t] = "clear" => pc'[t] = "clear" /\ On(t)' = On(t)
    BY <1>6 DEF DiscTest
  <2>3. UNCHANGED <<table, handle, stage, robbed, closers>>
    BY <1>6 DEF DiscTest, connVars, worldVars, historyVars
  <2>4. ASSUME NEW d \in Conns PROVE LostOK(d)'
    BY <2>1, <2>2, <2>3, LostKept DEF LostInv, Keeps, TypeOK
  <2> QED  BY <2>4 DEF LostInv
<1>7. ASSUME NEW t \in Threads, DiscFlag(t)
      PROVE  LostInv'
  <2>1. \A u \in Threads \ {t} : Keeps(u)
    BY <1>7, OthersKeep DEF ThreadStep
  <2>2. pc[t] = "clear" => pc'[t] = "clear" /\ On(t)' = On(t)
    BY <1>7 DEF DiscFlag, CloseBegin
  <2>3. UNCHANGED <<table, handle, stage, robbed, closers>>
    BY <1>7 DEF DiscFlag, CloseBegin, connVars, worldVars, historyVars
  <2>4. ASSUME NEW d \in Conns PROVE LostOK(d)'
    BY <2>1, <2>2, <2>3, LostKept DEF LostInv, Keeps, TypeOK
  <2> QED  BY <2>4 DEF LostInv
<1>8. ASSUME NEW t \in Threads, Close(t)
      PROVE  LostInv'
  <2>1. \A u \in Threads \ {t} : Keeps(u)
    BY <1>8, OthersKeep DEF ThreadStep
  <2>2. On(t) \in Conns /\ via[t] \in Fds
    BY <1>8, Working DEF Close, CallInv, CallOK
  <2>3. /\ pc'[t] = "clear" /\ On(t)' = On(t)
        /\ table' = [table EXCEPT ![via[t]] = Nobody]
        /\ closers' = [closers EXCEPT ![On(t)] = @ \cup {t}]
        /\ robbed' = robbed \cup ({table[via[t]]} \ {On(t), Nobody})
        /\ handle' = handle /\ stage' = stage
    BY <1>8 DEF Close, Goto, TypeOK, connVars, worldVars
  <2>4. ASSUME NEW d \in Conns PROVE LostOK(d)'
    <3>1. t \in closers'[On(t)] /\ closers[d] \subseteq closers'[d]
      BY <2>2, <2>3 DEF TypeOK
    <3>2. CASE d = On(t)
      BY <2>3, <3>1, <3>2 DEF LostOK
    <3>3. CASE d # On(t) /\ table[via[t]] = d
      BY <2>3, <3>3 DEF LostOK
    <3>4. CASE d # On(t) /\ table[via[t]] # d
      <4>1. \A f \in Fds : table'[f] = d <=> table[f] = d
        BY <2>2, <2>3, <3>4 DEF TypeOK
      <4>2. \A u \in closers[d] :
              pc[u] = "clear" => pc'[u] = "clear" /\ On(u)' = On(u)
        BY <2>1, <2>3 DEF Keeps, TypeOK
      <4>3. LostOK(d)  BY DEF LostInv
      <4> QED  BY <2>3, <3>1, <4>1, <4>2, <4>3 DEF LostOK
    <3> QED  BY <3>2, <3>3, <3>4
  <2> QED  BY <2>4 DEF LostInv
<1>9. ASSUME NEW t \in Threads, Clear(t)
      PROVE  LostInv'
  <2>1. \A u \in Threads \ {t} : Keeps(u)
    BY <1>9, OthersKeep DEF ThreadStep
  <2>2. On(t) \in Conns  BY <1>9, Working DEF Clear
  <2>3. /\ handle' = [handle EXCEPT ![On(t)] = NoFd]
        /\ table' = table /\ stage' = stage
        /\ robbed' = robbed /\ closers' = closers
    BY <1>9 DEF Clear, Cleared, worldVars, historyVars
  <2>4. ASSUME NEW d \in Conns PROVE LostOK(d)'
    <3>1. CASE d = On(t)
      BY <2>3, <3>1 DEF LostOK, TypeOK
    <3>2. CASE d # On(t)
      <4>1. \A f \in Fds : table'[f] = d <=> table[f] = d
        BY <2>3, <3>2 DEF TypeOK
      <4>3. LostOK(d)  BY DEF LostInv
      <4>4. closers'[d] = closers[d] /\ handle'[d] = handle[d] /\ stage'[d] =
           stage[d]
        BY <2>3, <3>2 DEF TypeOK
      <4>5. \A u \in closers[d] :
              pc[u] = "clear" /\ On(u) = d => pc'[u] = "clear" /\ On(u)' = d
        BY <2>1, <3>2 DEF Keeps, TypeOK
      <4> QED  BY <2>3, <4>1, <4>3, <4>4, <4>5, LostKept
    <3> QED  BY <3>1, <3>2
  <2> QED  BY <2>4 DEF LostInv
<1>10. ASSUME NEW t \in Threads, DiscDone(t)
       PROVE  LostInv'
  <2>1. \A u \in Threads \ {t} : Keeps(u)
    BY <1>10, OthersKeep DEF ThreadStep
  <2>2. pc[t] = "clear" => pc'[t] = "clear" /\ On(t)' = On(t)
    BY <1>10 DEF DiscDone
  <2>3. UNCHANGED <<table, handle, stage, robbed, closers>>
    BY <1>10 DEF DiscDone, connVars, worldVars, historyVars
  <2>4. ASSUME NEW d \in Conns PROVE LostOK(d)'
    BY <2>1, <2>2, <2>3, LostKept DEF LostInv, Keeps, TypeOK
  <2> QED  BY <2>4 DEF LostInv
<1>11. ASSUME NEW c \in Conns, RecvFails(c)
       PROVE  LostInv'
  <2>1. \A u \in Threads \ {c} : Keeps(u)
    BY <1>11, OthersKeep DEF ConnStep, RecvStep
  <2>2. pc[c] = "clear" => pc'[c] = "clear" /\ On(c)' = On(c)
    BY <1>11 DEF RecvFails
  <2>3. UNCHANGED <<table, handle, stage, robbed, closers>>
    BY <1>11 DEF RecvFails, connVars, worldVars, historyVars
  <2>4. ASSUME NEW d \in Conns PROVE LostOK(d)'
    BY <2>1, <2>2, <2>3, LostKept DEF LostInv, Keeps, TypeOK
  <2> QED  BY <2>4 DEF LostInv
<1>12. ASSUME NEW c \in Conns, RecvLoop(c)
       PROVE  LostInv'
  <2>1. \A u \in Threads \ {c} : Keeps(u)
    BY <1>12, OthersKeep DEF ConnStep, RecvStep
  <2>2. pc[c] = "clear" => pc'[c] = "clear" /\ On(c)' = On(c)
    BY <1>12 DEF RecvLoop
  <2>3. UNCHANGED <<table, handle, stage, robbed, closers>>
    BY <1>12 DEF RecvLoop, connVars, worldVars, historyVars
  <2>4. ASSUME NEW d \in Conns PROVE LostOK(d)'
    BY <2>1, <2>2, <2>3, LostKept DEF LostInv, Keeps, TypeOK
  <2> QED  BY <2>4 DEF LostInv
<1>13. ASSUME NEW c \in Conns, RecvEnter(c)
       PROVE  LostInv'
  <2>1. \A u \in Threads \ {c} : Keeps(u)
    BY <1>13, OthersKeep DEF ConnStep, RecvStep
  <2>2. pc[c] = "clear" => pc'[c] = "clear" /\ On(c)' = On(c)
    BY <1>13 DEF RecvEnter, Enter
  <2>3. UNCHANGED <<table, handle, stage, robbed, closers>>
    BY <1>13 DEF RecvEnter, Enter, connVars, worldVars, historyVars
  <2>4. ASSUME NEW d \in Conns PROVE LostOK(d)'
    BY <2>1, <2>2, <2>3, LostKept DEF LostInv, Keeps, TypeOK
  <2> QED  BY <2>4 DEF LostInv
<1>14. ASSUME NEW c \in Conns, RecvData(c)
       PROVE  LostInv'
  <2>1. \A u \in Threads \ {c} : Keeps(u)
    BY <1>14, OthersKeep DEF ConnStep, RecvStep
  <2>2. pc[c] = "clear" => pc'[c] = "clear" /\ On(c)' = On(c)
    BY <1>14 DEF RecvData
  <2>3. UNCHANGED <<table, handle, stage, robbed, closers>>
    BY <1>14 DEF RecvData, connVars, worldVars, historyVars
  <2>4. ASSUME NEW d \in Conns PROVE LostOK(d)'
    BY <2>1, <2>2, <2>3, LostKept DEF LostInv, Keeps, TypeOK
  <2> QED  BY <2>4 DEF LostInv
<1>15. ASSUME NEW c \in Conns, SessionSend(c)
       PROVE  LostInv'
  <2>1. \A u \in Conns : Keeps(u)
    BY <1>15, OthersKeep DEF SessionCall
  <2>2. pc[Session] = "clear" => pc'[Session] = "clear" /\ On(Session)' =
       On(Session)
    BY <1>15 DEF SessionSend, Call, Pick
  <2>3. UNCHANGED <<table, handle, stage, robbed, closers>>
    BY <1>15 DEF SessionSend, Call, connVars, worldVars, historyVars
  <2>4. ASSUME NEW d \in Conns PROVE LostOK(d)'
    BY <2>1, <2>2, <2>3, LostKept DEF LostInv, Keeps, TypeOK
  <2> QED  BY <2>4 DEF LostInv
<1>16. ASSUME NEW c \in Conns, SessionDisconnect(c)
       PROVE  LostInv'
  <2>1. \A u \in Conns : Keeps(u)
    BY <1>16, OthersKeep DEF SessionCall
  <2>2. pc[Session] = "clear" => pc'[Session] = "clear" /\ On(Session)' =
       On(Session)
    BY <1>16 DEF SessionDisconnect, Call, Pick
  <2>3. UNCHANGED <<table, handle, stage, robbed, closers>>
    BY <1>16 DEF SessionDisconnect, Call, connVars, worldVars, historyVars
  <2>4. ASSUME NEW d \in Conns PROVE LostOK(d)'
    BY <2>1, <2>2, <2>3, LostKept DEF LostInv, Keeps, TypeOK
  <2> QED  BY <2>4 DEF LostInv
<1>17. ASSUME NEW c \in Conns, SessionDestroy(c)
       PROVE  LostInv'
  <2>1. \A u \in Conns : Keeps(u)
    BY <1>17, OthersKeep DEF SessionCall
  <2>2. pc[Session] = "clear" => pc'[Session] = "clear" /\ On(Session)' =
       On(Session)
    BY <1>17 DEF SessionDestroy, CloseBegin, Pick
  <2>3. UNCHANGED <<table, handle, stage, robbed, closers>>
    BY <1>17 DEF SessionDestroy, CloseBegin, connVars, worldVars, historyVars
  <2>4. ASSUME NEW d \in Conns PROVE LostOK(d)'
    BY <2>1, <2>2, <2>3, LostKept DEF LostInv, Keeps, TypeOK
  <2> QED  BY <2>4 DEF LostInv
<1>18. ASSUME NEW c \in Conns, Accept(c)
       PROVE  LostInv'
  <2>1. \A u \in Threads \ {c} : Keeps(u)
    BY <1>18, OthersKeep DEF ConnStep
  <2>2. PICK n \in Fds : /\ table[n] = Nobody
                         /\ table' = [table EXCEPT ![n] = c]
                         /\ handle' = [handle EXCEPT ![c] = n]
    BY <1>18, AcceptTakes
  <2>3. /\ stage[c] = "new" /\ stage' = [stage EXCEPT ![c] = "live"]
        /\ robbed' = robbed /\ closers' = closers
    BY <1>18 DEF Accept, historyVars
  <2>4. pc[c] # "clear"
    BY <2>3 DEF FlowInv
  <2>5. ASSUME NEW d \in Conns PROVE LostOK(d)'
    <3>1. CASE d = c
      BY <2>2, <3>1 DEF LostOK, TypeOK
    <3>2. CASE d # c
      <4>1. \A f \in Fds : table'[f] = d <=> table[f] = d
        BY <2>2, <2>3, <3>2 DEF TypeOK
      <4>2. \A u \in closers[d] :
              pc[u] = "clear" => pc'[u] = "clear" /\ On(u)' = On(u)
        BY <2>1, <2>4 DEF Keeps, TypeOK
      <4>3. LostOK(d)  BY DEF LostInv
      <4>4. closers'[d] = closers[d] /\ handle'[d] = handle[d] /\ stage'[d] =
           stage[d]
        BY <2>2, <2>3, <3>2 DEF TypeOK
      <4> QED  BY <2>2, <2>3, <3>2, <4>1, <4>2, <4>3, <4>4, LostKept
    <3> QED  BY <3>1, <3>2
  <2> QED  BY <2>5 DEF LostInv
<1>19. ASSUME NEW c \in Conns, PeerStalls(c)
       PROVE  LostInv'
  <2>1. \A u \in Threads \ {c} : Keeps(u)
    BY <1>19, OthersKeep DEF ConnStep, RecvStep
  <2>2. pc[c] = "clear" => pc'[c] = "clear" /\ On(c)' = On(c)
    BY <1>19 DEF PeerStalls, PeerDoes
  <2>3. UNCHANGED <<table, handle, stage, robbed, closers>>
    BY <1>19 DEF PeerStalls, PeerDoes, connVars, worldVars, historyVars
  <2>4. ASSUME NEW d \in Conns PROVE LostOK(d)'
    BY <2>1, <2>2, <2>3, LostKept DEF LostInv, Keeps, TypeOK
  <2> QED  BY <2>4 DEF LostInv
<1>20. ASSUME NEW c \in Conns, PeerCloses(c)
       PROVE  LostInv'
  <2>1. \A u \in Threads \ {c} : Keeps(u)
    BY <1>20, OthersKeep DEF ConnStep, RecvStep
  <2>2. pc[c] = "clear" => pc'[c] = "clear" /\ On(c)' = On(c)
    BY <1>20 DEF PeerCloses, PeerDoes
  <2>3. UNCHANGED <<table, handle, stage, robbed, closers>>
    BY <1>20 DEF PeerCloses, PeerDoes, connVars, worldVars, historyVars
  <2>4. ASSUME NEW d \in Conns PROVE LostOK(d)'
    BY <2>1, <2>2, <2>3, LostKept DEF LostInv, Keeps, TypeOK
  <2> QED  BY <2>4 DEF LostInv
<1>21. ASSUME SessionJoin PROVE LostInv'
  <2>1. \A u \in Conns : Keeps(u)
    BY <1>21, OthersKeep
  <2>2. target \in Conns /\ pc[Session] # "clear"
    BY <1>21, Working DEF SessionJoin
  <2>3. /\ stage' = [stage EXCEPT ![target] = "destroyed"]
        /\ closers' = [closers EXCEPT ![target] = {}]
        /\ robbed' = robbed \ {target}
        /\ table' = table /\ handle' = handle
    BY <1>21 DEF SessionJoin, connVars
  <2>4. ASSUME NEW d \in Conns PROVE LostOK(d)'
    <3>1. CASE d = target
      BY <2>2, <2>3, <3>1 DEF LostOK, TypeOK
    <3>2. CASE d # target
      <4>1. \A f \in Fds : table'[f] = d <=> table[f] = d
        BY <2>3, <3>2 DEF TypeOK
      <4>2. \A u \in closers[d] :
              pc[u] = "clear" => pc'[u] = "clear" /\ On(u)' = On(u)
        BY <2>1, <2>2, <3>2 DEF Keeps, TypeOK
      <4>3. LostOK(d)  BY DEF LostInv
      <4>4. closers'[d] = closers[d] /\ handle'[d] = handle[d] /\ stage'[d] =
           stage[d]
        BY <2>3, <3>2 DEF TypeOK
      <4> QED  BY <2>3, <3>2, <4>1, <4>2, <4>3, <4>4, LostKept
    <3> QED  BY <3>1, <3>2
  <2> QED  BY <2>4 DEF LostInv
<1>22. CASE UNCHANGED vars
  BY <1>22 DEF LostInv, LostOK, vars, callVars, connVars, worldVars,
       historyVars
<1> QED
  BY <1>1, <1>2, <1>3, <1>4, <1>5, <1>6, <1>7, <1>8, <1>9, <1>10, <1>11,
       <1>12, <1>13, <1>14, <1>15, <1>16, <1>17, <1>18, <1>19, <1>20, <1>21,
       <1>22 DEF Next, ThreadStep, RecvStep

\* A number that names nothing of its own keeps its rival or its robber.
LEMMA RivalStep ==
  ASSUME TypeOK, FlowInv, CallInv, LostInv, RivalInv, [Next]_vars
  PROVE  RivalInv'
<1> USE SocketAssumption DEF Threads, On
<1>1. ASSUME NEW t \in Threads, SendTest(t)
      PROVE  RivalInv'
  <2>1. \A u \in Threads \ {t} : Keeps(u)
    BY <1>1, OthersKeep DEF ThreadStep
  <2>2. UNCHANGED <<table, robbed, closers>>
    BY <1>1 DEF SendTest, historyVars
  <2>3. RivalOK(t)'
    <3>1. pc'[t] \notin {"enter", "recvEnter", "close"}
      BY <1>1 DEF SendTest, Goto, Return, TypeOK, FlowInv, Sending, Closing
    <3> QED  BY <3>1 DEF RivalOK, Reaching
  <2>4. ASSUME NEW u \in Threads \ {t} PROVE RivalOK(u)'
    BY <2>1, <2>2, RivalKept DEF RivalInv
  <2> QED  BY <2>3, <2>4 DEF RivalInv
<1>2. ASSUME NEW t \in Threads, SendLock(t)
      PROVE  RivalInv'
  <2>1. \A u \in Threads \ {t} : Keeps(u)
    BY <1>2, OthersKeep DEF ThreadStep
  <2>2. UNCHANGED <<table, robbed, closers>>
    BY <1>2 DEF SendLock, historyVars
  <2>3. RivalOK(t)'
    <3>1. On(t) \in Conns /\ stage[On(t)] = "live" /\ pc[t] # "clear"
      BY <1>2, Working DEF SendLock
    <3>2. CASE handle[On(t)] # NoFd
      <4>1. via'[t] = handle[On(t)] /\ On(t)' = On(t)
        BY <1>2, <3>2 DEF SendLock, TypeOK
      <4> QED  BY <2>2, <3>1, <4>1, RivalRead DEF LostInv
    <3>3. CASE ~ (handle[On(t)] # NoFd)
      <4>1. pc'[t] \notin {"enter", "recvEnter", "close"}
        BY <1>2, <3>3 DEF SendLock, Return, Goto, TypeOK, FlowInv, Sending
      <4> QED  BY <4>1 DEF RivalOK, Reaching
    <3> QED  BY <3>2, <3>3
  <2>4. ASSUME NEW u \in Threads \ {t} PROVE RivalOK(u)'
    BY <2>1, <2>2, RivalKept DEF RivalInv
  <2> QED  BY <2>3, <2>4 DEF RivalInv
<1>3. ASSUME NEW t \in Threads, SendFails(t)
      PROVE  RivalInv'
  <2>1. \A u \in Threads \ {t} : Keeps(u)
    BY <1>3, OthersKeep DEF ThreadStep
  <2>2. UNCHANGED <<table, robbed, closers>>
    BY <1>3 DEF SendFails, historyVars
  <2>3. RivalOK(t)'
    <3>1. pc'[t] \notin {"enter", "recvEnter", "close"}
      BY <1>3 DEF SendFails, FailUnlock, Unlock, Return, Goto, Named, TypeOK,
           FlowInv, Sending, Closing
    <3> QED  BY <3>1 DEF RivalOK, Reaching
  <2>4. ASSUME NEW u \in Threads \ {t} PROVE RivalOK(u)'
    BY <2>1, <2>2, RivalKept DEF RivalInv
  <2> QED  BY <2>3, <2>4 DEF RivalInv
<1>4. ASSUME NEW t \in Threads, SendEnter(t)
      PROVE  RivalInv'
  <2>1. \A u \in Threads \ {t} : Keeps(u)
    BY <1>4, OthersKeep DEF ThreadStep
  <2>2. UNCHANGED <<table, robbed, closers>>
    BY <1>4 DEF SendEnter, Enter, historyVars
  <2>3. RivalOK(t)'
    <3>1. pc'[t] \notin {"enter", "recvEnter", "close"}
      BY <1>4 DEF SendEnter, Enter, Goto, Named, TypeOK, FlowInv, Sending,
           Closing
    <3> QED  BY <3>1 DEF RivalOK, Reaching
  <2>4. ASSUME NEW u \in Threads \ {t} PROVE RivalOK(u)'
    BY <2>1, <2>2, RivalKept DEF RivalInv
  <2> QED  BY <2>3, <2>4 DEF RivalInv
<1>5. ASSUME NEW t \in Threads, SendWrite(t)
      PROVE  RivalInv'
  <2>1. \A u \in Threads \ {t} : Keeps(u)
    BY <1>5, OthersKeep DEF ThreadStep
  <2>2. UNCHANGED <<table, robbed, closers>>
    BY <1>5 DEF SendWrite, historyVars
  <2>3. RivalOK(t)'
    <3>1. On(t) \in Conns /\ stage[On(t)] = "live" /\ pc[t] # "clear"
      BY <1>5, Working DEF SendWrite
    <3>2. CASE FrameLen + 1 - left[t] # FrameLen
      <4>1. via'[t] = handle[On(t)] /\ On(t)' = On(t)
        BY <1>5, <3>2 DEF SendWrite, TypeOK
      <4> QED  BY <2>2, <3>1, <4>1, RivalRead DEF LostInv
    <3>3. CASE ~ (FrameLen + 1 - left[t] # FrameLen)
      <4>1. pc'[t] \notin {"enter", "recvEnter", "close"}
        BY <1>5, <3>3 DEF SendWrite, Return, Goto, TypeOK, FlowInv, Sending
      <4> QED  BY <4>1 DEF RivalOK, Reaching
    <3> QED  BY <3>2, <3>3
  <2>4. ASSUME NEW u \in Threads \ {t} PROVE RivalOK(u)'
    BY <2>1, <2>2, RivalKept DEF RivalInv
  <2> QED  BY <2>3, <2>4 DEF RivalInv
<1>6. ASSUME NEW t \in Threads, DiscTest(t)
      PROVE  RivalInv'
  <2>1. \A u \in Threads \ {t} : Keeps(u)
    BY <1>6, OthersKeep DEF ThreadStep
  <2>2. UNCHANGED <<table, robbed, closers>>
    BY <1>6 DEF DiscTest, historyVars
  <2>3. RivalOK(t)'
    <3>1. pc'[t] \notin {"enter", "recvEnter", "close"}
      BY <1>6 DEF DiscTest, Return, Goto, Home, TypeOK, FlowInv, Sending,
           Closing
    <3> QED  BY <3>1 DEF RivalOK, Reaching
  <2>4. ASSUME NEW u \in Threads \ {t} PROVE RivalOK(u)'
    BY <2>1, <2>2, RivalKept DEF RivalInv
  <2> QED  BY <2>3, <2>4 DEF RivalInv
<1>7. ASSUME NEW t \in Threads, DiscFlag(t)
      PROVE  RivalInv'
  <2>1. \A u \in Threads \ {t} : Keeps(u)
    BY <1>7, OthersKeep DEF ThreadStep
  <2>2. UNCHANGED <<table, robbed, closers>>
    BY <1>7 DEF DiscFlag, CloseBegin, historyVars
  <2>3. RivalOK(t)'
    <3>1. On(t) \in Conns /\ stage[On(t)] = "live" /\ pc[t] # "clear"
      BY <1>7, Working DEF DiscFlag, Pick
    <3>2. via'[t] = handle[On(t)] /\ On(t)' = On(t)
      BY <1>7 DEF DiscFlag, Pick, CloseBegin, TypeOK
    <3> QED  BY <2>2, <3>1, <3>2, RivalRead DEF LostInv
  <2>4. ASSUME NEW u \in Threads \ {t} PROVE RivalOK(u)'
    BY <2>1, <2>2, RivalKept DEF RivalInv
  <2> QED  BY <2>3, <2>4 DEF RivalInv
<1>8. ASSUME NEW t \in Threads, Close(t)
      PROVE  RivalInv'
  <2>1. \A u \in Threads \ {t} : Keeps(u)
    BY <1>8, OthersKeep DEF ThreadStep
  <2>2. /\ On(t) \in Conns /\ via[t] \in Fds
        /\ table' = [table EXCEPT ![via[t]] = Nobody]
        /\ closers' = [closers EXCEPT ![On(t)] = @ \cup {t}]
        /\ robbed' = robbed \cup ({table[via[t]]} \ {On(t), Nobody})
    BY <1>8, Working DEF Close, CallInv, CallOK
  <2>3. RivalOK(t)'
    <3>1. pc'[t] \notin {"enter", "recvEnter", "close"}
      BY <1>8 DEF Close, Goto, TypeOK, FlowInv, Sending, Closing
    <3> QED  BY <3>1 DEF RivalOK, Reaching
  <2>4. ASSUME NEW u \in Threads \ {t} PROVE RivalOK(u)'
    <3>1. CASE ~ Reaching(u)
      BY <2>1, <3>1 DEF RivalOK, Reaching, Keeps
    <3>2. CASE Reaching(u) /\ On(u) = On(t)
      <4>1. t \in closers'[On(t)]  BY <2>2 DEF TypeOK
      <4> QED  BY <2>1, <3>2, <4>1 DEF RivalOK, Keeps
    <3>3. CASE Reaching(u) /\ On(u) # On(t)
      <4>1. On(u) \in Conns  BY <3>3, Working DEF Reaching
      <4>2. closers'[On(u)] = closers[On(u)]
        BY <2>2, <3>3, <4>1 DEF TypeOK
      <4>3. table[via[t]] = On(u) => On(u) \in robbed'
        BY <2>2, <3>3, <4>1
      <4>4. \A f \in Fds : f # via[t] => table'[f] = table[f]
        BY <2>2 DEF TypeOK
      <4>5. RivalOK(u)  BY DEF RivalInv
      <4> HIDE DEF On
      <4>6. Keeps(u) /\ robbed \subseteq robbed'  BY <2>1, <2>2
      <4> QED  BY <4>2, <4>3, <4>4, <4>5, <4>6 DEF RivalOK, Keeps, Reaching
    <3> QED  BY <3>1, <3>2, <3>3
  <2> QED  BY <2>3, <2>4 DEF RivalInv
<1>9. ASSUME NEW t \in Threads, Clear(t)
      PROVE  RivalInv'
  <2>1. \A u \in Threads \ {t} : Keeps(u)
    BY <1>9, OthersKeep DEF ThreadStep
  <2>2. UNCHANGED <<table, robbed, closers>>
    BY <1>9 DEF Clear, historyVars
  <2>3. RivalOK(t)'
    <3>1. pc'[t] \notin {"enter", "recvEnter", "close"}
      BY <1>9 DEF Clear, Cleared, Return, Goto, TypeOK, FlowInv, Sending,
           Closing
    <3> QED  BY <3>1 DEF RivalOK, Reaching
  <2>4. ASSUME NEW u \in Threads \ {t} PROVE RivalOK(u)'
    BY <2>1, <2>2, RivalKept DEF RivalInv
  <2> QED  BY <2>3, <2>4 DEF RivalInv
<1>10. ASSUME NEW t \in Threads, DiscDone(t)
       PROVE  RivalInv'
  <2>1. \A u \in Threads \ {t} : Keeps(u)
    BY <1>10, OthersKeep DEF ThreadStep
  <2>2. UNCHANGED <<table, robbed, closers>>
    BY <1>10 DEF DiscDone, historyVars
  <2>3. RivalOK(t)'
    <3>1. pc'[t] \notin {"enter", "recvEnter", "close"}
      BY <1>10 DEF DiscDone, Return, Goto, Home, TypeOK, FlowInv, Sending,
           Closing
    <3> QED  BY <3>1 DEF RivalOK, Reaching
  <2>4. ASSUME NEW u \in Threads \ {t} PROVE RivalOK(u)'
    BY <2>1, <2>2, RivalKept DEF RivalInv
  <2> QED  BY <2>3, <2>4 DEF RivalInv
<1>11. ASSUME NEW c \in Conns, RecvFails(c)
       PROVE  RivalInv'
  <2>1. \A u \in Threads \ {c} : Keeps(u)
    BY <1>11, OthersKeep DEF ConnStep, RecvStep
  <2>2. UNCHANGED <<table, robbed, closers>>
    BY <1>11 DEF RecvFails, historyVars
  <2>3. RivalOK(c)'
    <3>1. pc'[c] \notin {"enter", "recvEnter", "close"}
      BY <1>11 DEF RecvFails, Return, Goto, Named, TypeOK, FlowInv, Sending,
           Closing
    <3> QED  BY <3>1 DEF RivalOK, Reaching
  <2>4. ASSUME NEW u \in Threads \ {c} PROVE RivalOK(u)'
    BY <2>1, <2>2, RivalKept DEF RivalInv
  <2> QED  BY <2>3, <2>4 DEF RivalInv
<1>12. ASSUME NEW c \in Conns, RecvLoop(c)
       PROVE  RivalInv'
  <2>1. \A u \in Threads \ {c} : Keeps(u)
    BY <1>12, OthersKeep DEF ConnStep, RecvStep
  <2>2. UNCHANGED <<table, robbed, closers>>
    BY <1>12 DEF RecvLoop, historyVars
  <2>3. RivalOK(c)'
    <3>1. c \in Conns /\ stage[c] = "live" /\ pc[c] # "clear"
      BY <1>12, Working DEF RecvLoop
    <3>2. CASE running[c]
      <4>1. via'[c] = handle[c] /\ On(c)' = c
        BY <1>12, <3>2 DEF RecvLoop, TypeOK
      <4> QED  BY <2>2, <3>1, <4>1, RivalRead DEF LostInv
    <3>3. CASE ~ (running[c])
      <4>1. pc'[c] \notin {"enter", "recvEnter", "close"}
        BY <1>12, <3>3 DEF RecvLoop, Return, Goto, TypeOK, FlowInv, Sending
      <4> QED  BY <4>1 DEF RivalOK, Reaching
    <3> QED  BY <3>2, <3>3
  <2>4. ASSUME NEW u \in Threads \ {c} PROVE RivalOK(u)'
    BY <2>1, <2>2, RivalKept DEF RivalInv
  <2> QED  BY <2>3, <2>4 DEF RivalInv
<1>13. ASSUME NEW c \in Conns, RecvEnter(c)
       PROVE  RivalInv'
  <2>1. \A u \in Threads \ {c} : Keeps(u)
    BY <1>13, OthersKeep DEF ConnStep, RecvStep
  <2>2. UNCHANGED <<table, robbed, closers>>
    BY <1>13 DEF RecvEnter, Enter, historyVars
  <2>3. RivalOK(c)'
    <3>1. pc'[c] \notin {"enter", "recvEnter", "close"}
      BY <1>13 DEF RecvEnter, Enter, Goto, Named, TypeOK, FlowInv, Sending,
           Closing
    <3> QED  BY <3>1 DEF RivalOK, Reaching
  <2>4. ASSUME NEW u \in Threads \ {c} PROVE RivalOK(u)'
    BY <2>1, <2>2, RivalKept DEF RivalInv
  <2> QED  BY <2>3, <2>4 DEF RivalInv
<1>14. ASSUME NEW c \in Conns, RecvData(c)
       PROVE  RivalInv'
  <2>1. \A u \in Threads \ {c} : Keeps(u)
    BY <1>14, OthersKeep DEF ConnStep, RecvStep
  <2>2. UNCHANGED <<table, robbed, closers>>
    BY <1>14 DEF RecvData, historyVars
  <2>3. RivalOK(c)'
    <3>1. pc'[c] \notin {"enter", "recvEnter", "close"}
      BY <1>14 DEF RecvData, Return, Goto, TypeOK, FlowInv, Sending, Closing
    <3> QED  BY <3>1 DEF RivalOK, Reaching
  <2>4. ASSUME NEW u \in Threads \ {c} PROVE RivalOK(u)'
    BY <2>1, <2>2, RivalKept DEF RivalInv
  <2> QED  BY <2>3, <2>4 DEF RivalInv
<1>15. ASSUME NEW c \in Conns, SessionSend(c)
       PROVE  RivalInv'
  <2>1. \A u \in Conns : Keeps(u)
    BY <1>15, OthersKeep DEF SessionCall
  <2>2. UNCHANGED <<table, robbed, closers>>
    BY <1>15 DEF SessionSend, Call, historyVars
  <2>3. RivalOK(Session)'
    <3>1. pc'[Session] \notin {"enter", "recvEnter", "close"}
      BY <1>15 DEF SessionSend, Call, Pick, Goto, TypeOK, FlowInv, Sending,
           Closing
    <3> QED  BY <3>1 DEF RivalOK, Reaching
  <2>4. ASSUME NEW u \in Conns PROVE RivalOK(u)'
    BY <2>1, <2>2, RivalKept DEF RivalInv
  <2> QED  BY <2>3, <2>4 DEF RivalInv
<1>16. ASSUME NEW c \in Conns, SessionDisconnect(c)
       PROVE  RivalInv'
  <2>1. \A u \in Conns : Keeps(u)
    BY <1>16, OthersKeep DEF SessionCall
  <2>2. UNCHANGED <<table, robbed, closers>>
    BY <1>16 DEF SessionDisconnect, Call, historyVars
  <2>3. RivalOK(Session)'
    <3>1. pc'[Session] \notin {"enter", "recvEnter", "close"}
      BY <1>16 DEF SessionDisconnect, Call, Pick, Goto, TypeOK, FlowInv,
           Sending, Closing
    <3> QED  BY <3>1 DEF RivalOK, Reaching
  <2>4. ASSUME NEW u \in Conns PROVE RivalOK(u)'
    BY <2>1, <2>2, RivalKept DEF RivalInv
  <2> QED  BY <2>3, <2>4 DEF RivalInv
<1>17. ASSUME NEW c \in Conns, SessionDestroy(c)
       PROVE  RivalInv'
  <2>1. \A u \in Conns : Keeps(u)
    BY <1>17, OthersKeep DEF SessionCall
  <2>2. UNCHANGED <<table, robbed, closers>>
    BY <1>17 DEF SessionDestroy, CloseBegin, historyVars
  <2>3. RivalOK(Session)'
    <3>1. c \in Conns /\ stage[c] = "live" /\ pc[Session] # "clear"
      BY <1>17, Working DEF SessionDestroy, Pick
    <3>2. via'[Session] = handle[c] /\ On(Session)' = c
      BY <1>17 DEF SessionDestroy, Pick, CloseBegin, TypeOK
    <3> QED  BY <2>2, <3>1, <3>2, RivalRead DEF LostInv
  <2>4. ASSUME NEW u \in Conns PROVE RivalOK(u)'
    BY <2>1, <2>2, RivalKept DEF RivalInv
  <2> QED  BY <2>3, <2>4 DEF RivalInv
<1>18. ASSUME NEW c \in Conns, Accept(c)
       PROVE  RivalInv'
  <2>1. \A u \in Threads \ {c} : Keeps(u)
    BY <1>18, OthersKeep DEF ConnStep, RecvStep
  <2>2. PICK n \in Fds : table[n] = Nobody /\ table' = [table EXCEPT ![n] = c]
    BY <1>18, AcceptTakes
  <2>5. robbed' = robbed /\ closers' = closers
    BY <1>18 DEF Accept, historyVars
  <2>3. RivalOK(c)'
    <3>1. pc'[c] \notin {"enter", "recvEnter", "close"}
      BY <1>18 DEF Accept, Goto, TypeOK, FlowInv, Sending, Closing
    <3> QED  BY <3>1 DEF RivalOK, Reaching
  <2>4. ASSUME NEW u \in Threads \ {c} PROVE RivalOK(u)'
    <3>1. CASE ~ Reaching(u)
      BY <2>1, <3>1 DEF RivalOK, Reaching, Keeps
    <3>2. CASE Reaching(u)
      <4>1. On(u) \in Conns  BY <3>2, Working DEF Reaching
      <4>2. \A f \in Fds : table'[f] # On(u) => table[f] # On(u)
        BY <2>2, <4>1 DEF TypeOK
      <4>3. RivalOK(u) /\ Keeps(u)  BY <2>1 DEF RivalInv
      <4> HIDE DEF On
      <4> QED  BY <2>5, <4>2, <4>3 DEF RivalOK, Keeps, Reaching
    <3> QED  BY <3>1, <3>2
  <2> QED  BY <2>3, <2>4 DEF RivalInv
<1>19. ASSUME NEW c \in Conns, PeerStalls(c)
       PROVE  RivalInv'
  <2>1. \A u \in Threads \ {c} : Keeps(u)
    BY <1>19, OthersKeep DEF ConnStep, RecvStep
  <2>2. UNCHANGED <<table, robbed, closers>>
    BY <1>19 DEF PeerStalls, PeerDoes, historyVars
  <2>3. RivalOK(c)'
    BY <1>19, <2>2 DEF PeerStalls, PeerDoes, callVars, RivalInv, RivalOK,
         Reaching
  <2>4. ASSUME NEW u \in Threads \ {c} PROVE RivalOK(u)'
    BY <2>1, <2>2, RivalKept DEF RivalInv
  <2> QED  BY <2>3, <2>4 DEF RivalInv
<1>20. ASSUME NEW c \in Conns, PeerCloses(c)
       PROVE  RivalInv'
  <2>1. \A u \in Threads \ {c} : Keeps(u)
    BY <1>20, OthersKeep DEF ConnStep, RecvStep
  <2>2. UNCHANGED <<table, robbed, closers>>
    BY <1>20 DEF PeerCloses, PeerDoes, historyVars
  <2>3. RivalOK(c)'
    BY <1>20, <2>2 DEF PeerCloses, PeerDoes, callVars, RivalInv, RivalOK,
         Reaching
  <2>4. ASSUME NEW u \in Threads \ {c} PROVE RivalOK(u)'
    BY <2>1, <2>2, RivalKept DEF RivalInv
  <2> QED  BY <2>3, <2>4 DEF RivalInv
<1>21. ASSUME SessionJoin PROVE RivalInv'
  <2>1. \A u \in Conns : Keeps(u)
    BY <1>21, OthersKeep
  <2>2. /\ pc[Session] = "join" /\ pc[target] = "exited"
        /\ closers' = [closers EXCEPT ![target] = {}]
        /\ robbed' = robbed \ {target}
        /\ table' = table
    BY <1>21 DEF SessionJoin
  <2>3. RivalOK(Session)'
    <3>1. pc'[Session] \notin {"enter", "recvEnter", "close"}
      BY <1>21 DEF SessionJoin, Return, Goto, TypeOK, FlowInv, Sending,
           Closing
    <3> QED  BY <3>1 DEF RivalOK, Reaching
  <2>4. ASSUME NEW u \in Conns PROVE RivalOK(u)'
    <3>1. CASE ~ Reaching(u)
      BY <2>1, <3>1 DEF RivalOK, Reaching, Keeps
    <3>2. CASE Reaching(u)
      <4>1. u # target  BY <2>2, <3>2 DEF Reaching
      <4>2. closers'[u] = closers[u]  BY <2>2, <4>1 DEF TypeOK
      <4>3. RivalOK(u) /\ Keeps(u)  BY <2>1 DEF RivalInv
      <4> QED  BY <2>2, <4>1, <4>2, <4>3 DEF RivalOK, Keeps, Reaching
    <3> QED  BY <3>1, <3>2
  <2> QED  BY <2>3, <2>4 DEF RivalInv
<1>22. CASE UNCHANGED vars
  BY <1>22 DEF RivalInv, RivalOK, Reaching, vars, callVars, connVars,
       worldVars, historyVars
<1> QED
  BY <1>1, <1>2, <1>3, <1>4, <1>5, <1>6, <1>7, <1>8, <1>9, <1>10, <1>11,
       <1>12, <1>13, <1>14, <1>15, <1>16, <1>17, <1>18, <1>19, <1>20, <1>21,
       <1>22 DEF Next, ThreadStep, RecvStep

\* Two threads never write to one connection at a time: sendMutex_.
LEMMA OneWriter ==
  ASSUME CallInv, NEW t \in Threads, NEW u \in Threads,
         Writing(t), Writing(u), On(t) = On(u)
  PROVE  t = u
  BY DEF CallInv, CallOK

\* A connection is still cut when no number comes to name it, its peer does not
\* come back and no thread enters a write to it.
LEMMA CutKept ==
  ASSUME NEW c \in Conns, Cut(c),
         stage[c] # "new" => stage'[c] # "new",
         peer[c] = "closed" => peer'[c] = "closed",
         \A f \in Fds : table'[f] = c => table[f] = c,
         \A u \in Threads :
           On(u)' = c /\ pc'[u] = "write" /\ via'[u] = c /\ Closed(c)
             => On(u) = c /\ pc[u] = "write" /\ via[u] = c
  PROVE  Cut(c)'
  BY DEF Cut, Closed

\* A connection that is cut stays so.
LEMMA CutStep ==
  ASSUME TypeOK, FlowInv, CallInv, NEW d \in Conns, Cut(d), [Next]_vars
  PROVE  Cut(d)'
<1> USE SocketAssumption DEF Threads, On
<1>1. ASSUME NEW t \in Threads, SendTest(t)
      PROVE  Cut(d)'
  <2>1. \A u \in Threads \ {t} : Keeps(u)
    BY <1>1, OthersKeep DEF ThreadStep
  <2>2. table' = table
    BY <1>1 DEF SendTest
  <2>3. /\ stage[d] # "new" => stage'[d] # "new"
        /\ peer[d] = "closed" => peer'[d] = "closed"
    BY <1>1 DEF SendTest, TypeOK, worldVars
  <2>4. pc'[t] # "write"
    BY <1>1 DEF SendTest, Goto, Return, TypeOK, FlowInv, Sending, Closing
  <2> QED  BY <2>1, <2>2, <2>3, <2>4, CutKept DEF Keeps
<1>2. ASSUME NEW t \in Threads, SendLock(t)
      PROVE  Cut(d)'
  <2>1. \A u \in Threads \ {t} : Keeps(u)
    BY <1>2, OthersKeep DEF ThreadStep
  <2>2. table' = table
    BY <1>2 DEF SendLock
  <2>3. /\ stage[d] # "new" => stage'[d] # "new"
        /\ peer[d] = "closed" => peer'[d] = "closed"
    BY <1>2 DEF SendLock, TypeOK, worldVars
  <2>4. pc'[t] # "write"
    BY <1>2 DEF SendLock, Goto, Return, TypeOK, FlowInv, Sending, Closing
  <2> QED  BY <2>1, <2>2, <2>3, <2>4, CutKept DEF Keeps
<1>3. ASSUME NEW t \in Threads, SendFails(t)
      PROVE  Cut(d)'
  <2>1. \A u \in Threads \ {t} : Keeps(u)
    BY <1>3, OthersKeep DEF ThreadStep
  <2>2. table' = table
    BY <1>3 DEF SendFails
  <2>3. /\ stage[d] # "new" => stage'[d] # "new"
        /\ peer[d] = "closed" => peer'[d] = "closed"
    BY <1>3 DEF SendFails, TypeOK, worldVars
  <2>4. pc'[t] # "write"
    BY <1>3 DEF SendFails, FailUnlock, Unlock, Return, Goto, Named, TypeOK,
         FlowInv, Sending, Closing
  <2> QED  BY <2>1, <2>2, <2>3, <2>4, CutKept DEF Keeps
<1>4. ASSUME NEW t \in Threads, SendEnter(t)
      PROVE  Cut(d)'
  <2>1. \A u \in Threads \ {t} : Keeps(u)
    BY <1>4, OthersKeep DEF ThreadStep
  <2>2. table' = table
    BY <1>4 DEF SendEnter, Enter
  <2>3. /\ stage[d] # "new" => stage'[d] # "new"
        /\ peer[d] = "closed" => peer'[d] = "closed"
    BY <1>4 DEF SendEnter, Enter, TypeOK, worldVars
  <2>4. via'[t] = d => ~ Closed(d)
    BY <1>4 DEF SendEnter, Enter, Named, Closed, TypeOK
  <2> QED  BY <2>1, <2>2, <2>3, <2>4, CutKept DEF Keeps
<1>5. ASSUME NEW t \in Threads, SendWrite(t)
      PROVE  Cut(d)'
  <2>1. \A u \in Threads \ {t} : Keeps(u)
    BY <1>5, OthersKeep DEF ThreadStep
  <2>2. table' = table
    BY <1>5 DEF SendWrite
  <2>3. /\ stage[d] # "new" => stage'[d] # "new"
        /\ peer[d] = "closed" => peer'[d] = "closed"
    BY <1>5 DEF SendWrite, TypeOK, worldVars
  <2>4. pc'[t] # "write"
    BY <1>5 DEF SendWrite, Return, Goto, Unlock, TypeOK, FlowInv, Sending,
         Closing
  <2> QED  BY <2>1, <2>2, <2>3, <2>4, CutKept DEF Keeps
<1>6. ASSUME NEW t \in Threads, DiscTest(t)
      PROVE  Cut(d)'
  <2>1. \A u \in Threads \ {t} : Keeps(u)
    BY <1>6, OthersKeep DEF ThreadStep
  <2>2. table' = table
    BY <1>6 DEF DiscTest
  <2>3. /\ stage[d] # "new" => stage'[d] # "new"
        /\ peer[d] = "closed" => peer'[d] = "closed"
    BY <1>6 DEF DiscTest, TypeOK, worldVars
  <2>4. pc'[t] # "write"
    BY <1>6 DEF DiscTest, Return, Goto, Home, TypeOK, FlowInv, Sending,
         Closing
  <2> QED  BY <2>1, <2>2, <2>3, <2>4, CutKept DEF Keeps
<1>7. ASSUME NEW t \in Threads, DiscFlag(t)
      PROVE  Cut(d)'
  <2>1. \A u \in Threads \ {t} : Keeps(u)
    BY <1>7, OthersKeep DEF ThreadStep
  <2>2. table' = table
    BY <1>7 DEF DiscFlag, CloseBegin
  <2>3. /\ stage[d] # "new" => stage'[d] # "new"
        /\ peer[d] = "closed" => peer'[d] = "closed"
    BY <1>7 DEF DiscFlag, CloseBegin, TypeOK, worldVars
  <2>4. pc'[t] # "write"
    BY <1>7 DEF DiscFlag, CloseBegin, IsOpen, Goto, TypeOK, FlowInv, Sending,
         Closing
  <2> QED  BY <2>1, <2>2, <2>3, <2>4, CutKept DEF Keeps
<1>8. ASSUME NEW t \in Threads, Close(t)
      PROVE  Cut(d)'
  <2>1. \A u \in Threads \ {t} : Keeps(u)
    BY <1>8, OthersKeep DEF ThreadStep
  <2>2. \A f \in Fds : table'[f] \in {table[f], Nobody}
    BY <1>8 DEF Close, TypeOK, CallInv, CallOK
  <2>3. /\ stage[d] # "new" => stage'[d] # "new"
        /\ peer[d] = "closed" => peer'[d] = "closed"
    BY <1>8 DEF Close, TypeOK, worldVars
  <2>4. pc'[t] # "write"
    BY <1>8 DEF Close, Goto, TypeOK, FlowInv, Sending, Closing
  <2> QED  BY <2>1, <2>2, <2>3, <2>4, CutKept DEF Keeps
<1>9. ASSUME NEW t \in Threads, Clear(t)
      PROVE  Cut(d)'
  <2>1. \A u \in Threads \ {t} : Keeps(u)
    BY <1>9, OthersKeep DEF ThreadStep
  <2>2. table' = table
    BY <1>9 DEF Clear
  <2>3. /\ stage[d] # "new" => stage'[d] # "new"
        /\ peer[d] = "closed" => peer'[d] = "closed"
    BY <1>9 DEF Clear, TypeOK, worldVars
  <2>4. pc'[t] # "write"
    BY <1>9 DEF Clear, Cleared, Return, Goto, TypeOK, FlowInv, Sending,
         Closing
  <2> QED  BY <2>1, <2>2, <2>3, <2>4, CutKept DEF Keeps
<1>10. ASSUME NEW t \in Threads, DiscDone(t)
       PROVE  Cut(d)'
  <2>1. \A u \in Threads \ {t} : Keeps(u)
    BY <1>10, OthersKeep DEF ThreadStep
  <2>2. table' = table
    BY <1>10 DEF DiscDone
  <2>3. /\ stage[d] # "new" => stage'[d] # "new"
        /\ peer[d] = "closed" => peer'[d] = "closed"
    BY <1>10 DEF DiscDone, TypeOK, worldVars
  <2>4. pc'[t] # "write"
    BY <1>10 DEF DiscDone, Return, Goto, Home, TypeOK, FlowInv, Sending,
         Closing
  <2> QED  BY <2>1, <2>2, <2>3, <2>4, CutKept DEF Keeps
<1>11. ASSUME NEW c \in Conns, RecvFails(c)
       PROVE  Cut(d)'
  <2>1. \A u \in Threads \ {c} : Keeps(u)
    BY <1>11, OthersKeep DEF ConnStep, RecvStep
  <2>2. table' = table
    BY <1>11 DEF RecvFails
  <2>3. /\ stage[d] # "new" => stage'[d] # "new"
        /\ peer[d] = "closed" => peer'[d] = "closed"
    BY <1>11 DEF RecvFails, TypeOK, worldVars
  <2>4. pc'[c] # "write"
    BY <1>11 DEF RecvFails, Return, Goto, Named, TypeOK, FlowInv, Sending,
         Closing
  <2> QED  BY <2>1, <2>2, <2>3, <2>4, CutKept DEF Keeps
<1>12. ASSUME NEW c \in Conns, RecvLoop(c)
       PROVE  Cut(d)'
  <2>1. \A u \in Threads \ {c} : Keeps(u)
    BY <1>12, OthersKeep DEF ConnStep, RecvStep
  <2>2. table' = table
    BY <1>12 DEF RecvLoop
  <2>3. /\ stage[d] # "new" => stage'[d] # "new"
        /\ peer[d] = "closed" => peer'[d] = "closed"
    BY <1>12 DEF RecvLoop, TypeOK, worldVars
  <2>4. pc'[c] # "write"
    BY <1>12 DEF RecvLoop, Return, Goto, TypeOK, FlowInv, Sending, Closing
  <2> QED  BY <2>1, <2>2, <2>3, <2>4, CutKept DEF Keeps
<1>13. ASSUME NEW c \in Conns, RecvEnter(c)
       PROVE  Cut(d)'
  <2>1. \A u \in Threads \ {c} : Keeps(u)
    BY <1>13, OthersKeep DEF ConnStep, RecvStep
  <2>2. table' = table
    BY <1>13 DEF RecvEnter, Enter
  <2>3. /\ stage[d] # "new" => stage'[d] # "new"
        /\ peer[d] = "closed" => peer'[d] = "closed"
    BY <1>13 DEF RecvEnter, Enter, TypeOK, worldVars
  <2>4. pc'[c] # "write"
    BY <1>13 DEF RecvEnter, Enter, Goto, Named, TypeOK, FlowInv, Sending,
         Closing
  <2> QED  BY <2>1, <2>2, <2>3, <2>4, CutKept DEF Keeps
<1>14. ASSUME NEW c \in Conns, RecvData(c)
       PROVE  Cut(d)'
  <2>1. \A u \in Threads \ {c} : Keeps(u)
    BY <1>14, OthersKeep DEF ConnStep, RecvStep
  <2>2. table' = table
    BY <1>14 DEF RecvData
  <2>3. /\ stage[d] # "new" => stage'[d] # "new"
        /\ peer[d] = "closed" => peer'[d] = "closed"
    BY <1>14 DEF RecvData, TypeOK, worldVars
  <2>4. pc'[c] # "write"
    BY <1>14 DEF RecvData, Return, Goto, TypeOK, FlowInv, Sending, Closing
  <2> QED  BY <2>1, <2>2, <2>3, <2>4, CutKept DEF Keeps
<1>15. ASSUME NEW c \in Conns, SessionSend(c)
       PROVE  Cut(d)'
  <2>1. \A u \in Conns : Keeps(u)
    BY <1>15, OthersKeep DEF SessionCall
  <2>2. table' = table
    BY <1>15 DEF SessionSend, Call
  <2>3. /\ stage[d] # "new" => stage'[d] # "new"
        /\ peer[d] = "closed" => peer'[d] = "closed"
    BY <1>15 DEF SessionSend, Call, TypeOK, worldVars
  <2>4. pc'[Session] # "write"
    BY <1>15 DEF SessionSend, Call, Pick, Goto, TypeOK, FlowInv, Sending,
         Closing
  <2> QED  BY <2>1, <2>2, <2>3, <2>4, CutKept DEF Keeps
<1>16. ASSUME NEW c \in Conns, SessionDisconnect(c)
       PROVE  Cut(d)'
  <2>1. \A u \in Conns : Keeps(u)
    BY <1>16, OthersKeep DEF SessionCall
  <2>2. table' = table
    BY <1>16 DEF SessionDisconnect, Call
  <2>3. /\ stage[d] # "new" => stage'[d] # "new"
        /\ peer[d] = "closed" => peer'[d] = "closed"
    BY <1>16 DEF SessionDisconnect, Call, TypeOK, worldVars
  <2>4. pc'[Session] # "write"
    BY <1>16 DEF SessionDisconnect, Call, Pick, Goto, TypeOK, FlowInv,
         Sending, Closing
  <2> QED  BY <2>1, <2>2, <2>3, <2>4, CutKept DEF Keeps
<1>17. ASSUME NEW c \in Conns, SessionDestroy(c)
       PROVE  Cut(d)'
  <2>1. \A u \in Conns : Keeps(u)
    BY <1>17, OthersKeep DEF SessionCall
  <2>2. table' = table
    BY <1>17 DEF SessionDestroy, CloseBegin
  <2>3. /\ stage[d] # "new" => stage'[d] # "new"
        /\ peer[d] = "closed" => peer'[d] = "closed"
    BY <1>17 DEF SessionDestroy, CloseBegin, TypeOK, worldVars
  <2>4. pc'[Session] # "write"
    BY <1>17 DEF SessionDestroy, Pick, CloseBegin, IsOpen, Goto, TypeOK,
         FlowInv, Sending, Closing
  <2> QED  BY <2>1, <2>2, <2>3, <2>4, CutKept DEF Keeps
<1>18. ASSUME NEW c \in Conns, Accept(c)
       PROVE  Cut(d)'
  <2>1. \A u \in Threads \ {c} : Keeps(u)
    BY <1>18, OthersKeep DEF ConnStep, RecvStep
  <2>6. PICK n \in Fds : table' = [table EXCEPT ![n] = c]
    BY <1>18, AcceptTakes
  <2>7. d # c
    BY <1>18 DEF Accept, Cut
  <2>2. \A f \in Fds : table'[f] = d => table[f] = d
    BY <2>6, <2>7 DEF TypeOK
  <2>3. /\ stage[d] # "new" => stage'[d] # "new"
        /\ peer[d] = "closed" => peer'[d] = "closed"
    BY <1>18 DEF Accept, TypeOK, worldVars
  <2>4. pc'[c] # "write"
    BY <1>18 DEF Accept, Goto, TypeOK, FlowInv, Sending, Closing
  <2> QED  BY <2>1, <2>2, <2>3, <2>4, CutKept DEF Keeps
<1>19. ASSUME NEW c \in Conns, PeerStalls(c)
       PROVE  Cut(d)'
  <2>1. \A u \in Threads \ {c} : Keeps(u)
    BY <1>19, OthersKeep DEF ConnStep, RecvStep
  <2>2. table' = table
    BY <1>19 DEF PeerStalls, PeerDoes
  <2>3. /\ stage[d] # "new" => stage'[d] # "new"
        /\ peer[d] = "closed" => peer'[d] = "closed"
    BY <1>19 DEF PeerStalls, PeerDoes, TypeOK, worldVars
  <2>4. UNCHANGED <<pc, via, target>>
    BY <1>19 DEF PeerStalls, PeerDoes, callVars
  <2> QED  BY <2>2, <2>3, <2>4, CutKept
<1>20. ASSUME NEW c \in Conns, PeerCloses(c)
       PROVE  Cut(d)'
  <2>1. \A u \in Threads \ {c} : Keeps(u)
    BY <1>20, OthersKeep DEF ConnStep, RecvStep
  <2>2. table' = table
    BY <1>20 DEF PeerCloses, PeerDoes
  <2>3. /\ stage[d] # "new" => stage'[d] # "new"
        /\ peer[d] = "closed" => peer'[d] = "closed"
    BY <1>20 DEF PeerCloses, PeerDoes, TypeOK, worldVars
  <2>4. UNCHANGED <<pc, via, target>>
    BY <1>20 DEF PeerCloses, PeerDoes, callVars
  <2> QED  BY <2>2, <2>3, <2>4, CutKept
<1>21. ASSUME SessionJoin PROVE Cut(d)'
  <2>1. \A u \in Conns : Keeps(u)
    BY <1>21, OthersKeep
  <2>2. table' = table
    BY <1>21 DEF SessionJoin
  <2>3. /\ stage[d] # "new" => stage'[d] # "new"
        /\ peer[d] = "closed" => peer'[d] = "closed"
    BY <1>21 DEF SessionJoin, TypeOK, worldVars
  <2>4. pc'[Session] # "write"
    BY <1>21 DEF SessionJoin, Return, Goto, TypeOK, FlowInv, Sending, Closing
  <2> QED  BY <2>1, <2>2, <2>3, <2>4, CutKept DEF Keeps
<1>22. CASE UNCHANGED vars
  BY <1>22 DEF Cut, Closed, vars, callVars, connVars, worldVars, historyVars
<1> QED
  BY <1>1, <1>2, <1>3, <1>4, <1>5, <1>6, <1>7, <1>8, <1>9, <1>10, <1>11,
       <1>12, <1>13, <1>14, <1>15, <1>16, <1>17, <1>18, <1>19, <1>20, <1>21,
       <1>22 DEF Next, ThreadStep, RecvStep

\* The wire of a connection stays in order when nobody writes to it, begins to
\* or stops.
LEMMA WireKept ==
  ASSUME NEW d \in Conns, Resting(d) \/ Begun(d) \/ Ended(d),
         wire'[d] = wire[d], Cut(d) => Cut(d)',
         \A u \in Threads :
           (Writing(u)' /\ On(u)' = d) <=> (Writing(u) /\ On(u) = d),
         \A u \in Threads : Writing(u) /\ On(u) = d => left'[u] = left[u]
  PROVE  (Resting(d) \/ Begun(d) \/ Ended(d))'
<1>1. CASE Resting(d)  BY <1>1 DEF Resting
<1>2. CASE Begun(d)  BY <1>2 DEF Begun, Run
<1>3. CASE Ended(d)  BY <1>3 DEF Ended, Run
<1> QED  BY <1>1, <1>2, <1>3

\* A connection that was hit stays so.
LEMMA HitGrows ==
  ASSUME [Next]_vars
  PROVE  hit \subseteq hit'
<1>1. ASSUME NEW t \in Threads, SendTest(t)
      PROVE  hit \subseteq hit'
  BY <1>1 DEF SendTest, historyVars
<1>2. ASSUME NEW t \in Threads, SendLock(t)
      PROVE  hit \subseteq hit'
  BY <1>2 DEF SendLock, historyVars
<1>3. ASSUME NEW t \in Threads, SendFails(t)
      PROVE  hit \subseteq hit'
  BY <1>3 DEF SendFails, historyVars
<1>4. ASSUME NEW t \in Threads, SendEnter(t)
      PROVE  hit \subseteq hit'
  BY <1>4 DEF SendEnter, Enter, historyVars
<1>5. ASSUME NEW t \in Threads, SendWrite(t)
      PROVE  hit \subseteq hit'
  BY <1>5 DEF SendWrite, historyVars
<1>6. ASSUME NEW t \in Threads, DiscTest(t)
      PROVE  hit \subseteq hit'
  BY <1>6 DEF DiscTest, historyVars
<1>7. ASSUME NEW t \in Threads, DiscFlag(t)
      PROVE  hit \subseteq hit'
  BY <1>7 DEF DiscFlag, CloseBegin, historyVars
<1>8. ASSUME NEW t \in Threads, Close(t)
      PROVE  hit \subseteq hit'
  BY <1>8 DEF Close, historyVars
<1>9. ASSUME NEW t \in Threads, Clear(t)
      PROVE  hit \subseteq hit'
  BY <1>9 DEF Clear, historyVars
<1>10. ASSUME NEW t \in Threads, DiscDone(t)
       PROVE  hit \subseteq hit'
  BY <1>10 DEF DiscDone, historyVars
<1>11. ASSUME NEW c \in Conns, RecvFails(c)
       PROVE  hit \subseteq hit'
  BY <1>11 DEF RecvFails, historyVars
<1>12. ASSUME NEW c \in Conns, RecvLoop(c)
       PROVE  hit \subseteq hit'
  BY <1>12 DEF RecvLoop, historyVars
<1>13. ASSUME NEW c \in Conns, RecvEnter(c)
       PROVE  hit \subseteq hit'
  BY <1>13 DEF RecvEnter, Enter, historyVars
<1>14. ASSUME NEW c \in Conns, RecvData(c)
       PROVE  hit \subseteq hit'
  BY <1>14 DEF RecvData, historyVars
<1>15. ASSUME NEW c \in Conns, SessionSend(c)
       PROVE  hit \subseteq hit'
  BY <1>15 DEF SessionSend, Call, historyVars
<1>16. ASSUME NEW c \in Conns, SessionDisconnect(c)
       PROVE  hit \subseteq hit'
  BY <1>16 DEF SessionDisconnect, Call, historyVars
<1>17. ASSUME NEW c \in Conns, SessionDestroy(c)
       PROVE  hit \subseteq hit'
  BY <1>17 DEF SessionDestroy, CloseBegin, historyVars
<1>18. ASSUME NEW c \in Conns, Accept(c)
       PROVE  hit \subseteq hit'
  BY <1>18 DEF Accept, historyVars
<1>19. ASSUME NEW c \in Conns, PeerStalls(c)
       PROVE  hit \subseteq hit'
  BY <1>19 DEF PeerStalls, PeerDoes, historyVars
<1>20. ASSUME NEW c \in Conns, PeerCloses(c)
       PROVE  hit \subseteq hit'
  BY <1>20 DEF PeerCloses, PeerDoes, historyVars
<1>21. ASSUME SessionJoin PROVE hit \subseteq hit'
  BY <1>21 DEF SessionJoin, historyVars
<1>22. CASE UNCHANGED vars
  BY <1>22 DEF vars, historyVars
<1> QED
  BY <1>1, <1>2, <1>3, <1>4, <1>5, <1>6, <1>7, <1>8, <1>9, <1>10, <1>11,
       <1>12, <1>13, <1>14, <1>15, <1>16, <1>17, <1>18, <1>19, <1>20, <1>21,
       <1>22 DEF Next, ThreadStep, RecvStep

\* The wire of a connection stays in order, whatever its threads do.
LEMMA WireStep ==
  ASSUME TypeOK, FlowInv, CallInv, NumberInv, WireInv, [Next]_vars
  PROVE  WireInv'
<1> USE SocketAssumption DEF Threads, On
<1> SUFFICES ASSUME NEW d \in Conns, d \notin hit'
             PROVE  (Resting(d) \/ Begun(d) \/ Ended(d))'
  BY DEF WireInv
<1>0. Resting(d) \/ Begun(d) \/ Ended(d)
  BY HitGrows DEF WireInv
<1> HIDE DEF On
<1>1. ASSUME NEW t \in Threads, SendTest(t)
      PROVE  (Resting(d) \/ Begun(d) \/ Ended(d))'
  <2>1. \A u \in Threads \ {t} : Keeps(u)
    BY <1>1, OthersKeep DEF ThreadStep
  <2>2. ~ Writing(t) /\ ~ Writing(t)' /\ wire' = wire
    BY <1>1 DEF SendTest, Goto, Return, TypeOK, FlowInv, Sending, Closing,
         Writing, historyVars
  <2> QED  BY <2>1, <2>2, <1>0, CutStep, WireKept DEF Keeps, Writing
<1>2. ASSUME NEW t \in Threads, SendLock(t)
      PROVE  (Resting(d) \/ Begun(d) \/ Ended(d))'
  <2>1. \A u \in Threads \ {t} : Keeps(u)
    BY <1>2, OthersKeep DEF ThreadStep
  <2>2. /\ pc[t] = "lock" /\ sendMutex[On(t)] = Nobody
        /\ wire' = wire /\ On(t) \in Conns
    BY <1>2, Working DEF SendLock, LockFree, historyVars
  <2>3. \A u \in Threads : Writing(u) => On(u) # On(t)
    BY <2>2 DEF CallInv, CallOK, Threads
  <2>4. CASE handle[On(t)] = NoFd
    <3>1. ~ Writing(t) /\ ~ Writing(t)'
      BY <1>2, <2>4 DEF SendLock, Return, Goto, TypeOK, FlowInv, Sending,
           Writing, Threads
    <3> QED  BY <2>1, <2>2, <3>1, <1>0, CutStep, WireKept DEF Keeps, Writing
  <2>5. CASE handle[On(t)] # NoFd
    <3>1. /\ Writing(t)' /\ On(t)' = On(t) /\ left'[t] = FrameLen
      BY <1>2, <2>5 DEF SendLock, Goto, TypeOK, Writing, On
    <3>2. CASE d # On(t)
      <4>1. \A u \in Threads \ {t} : On(u)' = On(u) /\ Writing(u)' =
           Writing(u) /\ left'[u] = left[u]
        BY <2>1 DEF Keeps, Writing
      <4> QED  BY <2>2, <3>1, <3>2, <4>1, <1>0, CutStep, WireKept
    <3>3. CASE d = On(t)
      <4>1. ~ Begun(d)  BY <2>3, <3>3 DEF Begun
      <4>2. CASE Resting(d)
        <5>1. FrameLen - left'[t] = 0 /\ Run(t, 0) = <<>>
          BY <3>1, RunAppend
        <5>2. wire'[d] = Run(t, FrameLen - left[t])'
          BY <2>2, <4>2, <5>1 DEF Resting, Run
        <5> QED  BY <3>1, <3>3, <5>2 DEF Begun
      <4>3. CASE Ended(d)
        BY <2>2, <4>3, CutStep DEF Ended, Run
      <4> QED  BY <1>0, <4>1, <4>2, <4>3
    <3> QED  BY <3>2, <3>3
  <2> QED  BY <2>4, <2>5
<1>3. ASSUME NEW t \in Threads, SendFails(t)
      PROVE  (Resting(d) \/ Begun(d) \/ Ended(d))'
  <2>1. \A u \in Threads \ {t} : Keeps(u)
    BY <1>3, OthersKeep DEF ThreadStep
  <2>2. /\ Writing(t) /\ ~ Writing(t)' /\ On(t) \in Conns
        /\ UNCHANGED <<wire, table, stage, peer>>
    BY <1>3, Working DEF SendFails, Return, Goto, TypeOK, FlowInv, Sending,
         Writing, worldVars,
          historyVars, Threads
  <2>3. CASE d # On(t)
    BY <2>1, <2>2, <2>3, <1>0, CutStep, WireKept DEF Keeps, Writing
  <2>4. CASE d = On(t) /\ Ended(d)
    BY <2>2, <2>4, CutStep DEF Ended, Run
  <2>5. CASE d = On(t) /\ Begun(d)
    <3>1. wire[d] = Run(t, FrameLen - left[t])
      BY <2>2, <2>5, OneWriter DEF Begun
    <3>2. FrameLen - left[t] \in Nat
      BY <2>2 DEF CallInv, CallOK
    <3>3. peer[d] = "closed" \/ Closed(d)
      <4>1. CASE pc[t] = "enter"
        BY <1>3, <2>5, <4>1 DEF SendFails, Named, NumberInv, NumberOK,
             Reaching, Closed, CallInv, CallOK
      <4>2. CASE pc[t] = "write"
        BY <1>3, <2>5, <4>2 DEF SendFails, NumberInv, NumberOK
      <4> QED  BY <2>2, <4>1, <4>2 DEF Writing
    <3>4. \A u \in Threads : On(u)' = d => pc'[u] # "write"
      BY <2>1, <2>2, <2>5, OneWriter DEF Keeps, Writing
    <3>5. stage[d] # "new"
      BY <2>2, <2>5, Working DEF Writing
    <3>6. Cut(d)'
      BY <2>2, <3>3, <3>4, <3>5 DEF Cut, Closed
    <3>7. wire'[d] = Run(t, FrameLen - left[t])
      BY <2>2, <3>1
    <3> QED  BY <3>2, <3>6, <3>7 DEF Ended, Run
  <2>6. CASE d = On(t) /\ Resting(d)
    BY <2>2, <2>6 DEF Resting
  <2> QED  BY <1>0, <2>3, <2>4, <2>5, <2>6
<1>4. ASSUME NEW t \in Threads, SendEnter(t)
      PROVE  (Resting(d) \/ Begun(d) \/ Ended(d))'
  <2>1. \A u \in Threads \ {t} : Keeps(u)
    BY <1>4, OthersKeep DEF ThreadStep
  <2>2. /\ Writing(t) /\ Writing(t)' /\ On(t)' = On(t)
        /\ UNCHANGED <<wire, left>>
    BY <1>4 DEF SendEnter, Enter, Goto, Writing, TypeOK, historyVars, On
  <2> QED  BY <2>1, <2>2, <1>0, CutStep, WireKept DEF Keeps, Writing
<1>5. ASSUME NEW t \in Threads, SendWrite(t)
      PROVE  (Resting(d) \/ Begun(d) \/ Ended(d))'
  <2>1. \A u \in Threads \ {t} : Keeps(u)
    BY <1>5, OthersKeep DEF ThreadStep
  <2> DEFINE k == via[t]
             i == FrameLen + 1 - left[t]
  <2>2. /\ pc[t] = "write" /\ Writing(t)
        /\ On(t) \in Conns /\ stage[On(t)] = "live"
        /\ k \in Conns /\ left[t] \in 1 .. FrameLen
        /\ peer[k] = "reads" /\ UNCHANGED <<table, stage, peer>>
    BY <1>5, Working DEF SendWrite, Writing, CallInv, CallOK, worldVars
  <2>3. /\ wire' = [wire EXCEPT ![k] =
                      IF i = FrameLen THEN <<>>
                                      ELSE Append(@, <<t, i>>)]
        /\ hit' = hit \cup ({k} \ {On(t)})
    BY <1>5 DEF SendWrite
  <2>4. pc'[t] # "write"
    BY <1>5 DEF SendWrite, Return, Goto, TypeOK, FlowInv, Sending, Threads
  <2>5. \A u \in Threads \ {t} :
          /\ On(u)' = On(u) /\ (Writing(u)' <=> Writing(u))
          /\ left'[u] = left[u]
    BY <2>1 DEF Keeps, Writing
  <2>6. d = k => d = On(t)
    BY <2>3
  <2>7. CASE d # On(t)
    <3>1. wire'[d] = wire[d]
      BY <2>3, <2>6, <2>7 DEF TypeOK
    <3>2. Writing(t)' => On(t)' # d
      <4>1. CASE i = FrameLen
        BY <1>5, <4>1 DEF SendWrite, Return, Goto, TypeOK, FlowInv, Sending,
             Writing, Threads
      <4>2. CASE i # FrameLen
        BY <1>5, <2>7, <4>2 DEF SendWrite, On
      <4> QED  BY <4>1, <4>2
    <3> QED  BY <2>5, <2>7, <3>1, <3>2, <1>0, CutStep, WireKept
  <2>8. CASE d = On(t) /\ d # k
    <3>1. wire'[d] = wire[d]
      BY <2>3, <2>8 DEF TypeOK
    <3>2. ~ Resting(d)
      BY <2>2, <2>8 DEF Resting
    <3>3. CASE Ended(d)
      BY <3>1, <3>3, CutStep DEF Ended, Run
    <3>4. CASE Begun(d)
      <4>1. wire[d] = Run(t, FrameLen - left[t])
        BY <2>2, <2>8, <3>4, OneWriter DEF Begun
      <4>2. FrameLen - left[t] \in Nat
        BY <2>2
      <4>3. Closed(d)
        BY <2>2, <2>8 DEF NumberInv, NumberOK
      <4>4. \A u \in Threads : On(u)' = d => pc'[u] # "write"
        BY <2>1, <2>2, <2>4, <2>8, OneWriter DEF Keeps, Writing
      <4>5. Cut(d)'
        BY <2>2, <2>8, <4>3, <4>4 DEF Cut, Closed
      <4>6. wire'[d] = Run(t, FrameLen - left[t])
        BY <3>1, <4>1
      <4> QED  BY <4>2, <4>5, <4>6 DEF Ended, Run
    <3> QED  BY <1>0, <3>2, <3>3, <3>4
  <2>9. CASE d = On(t) /\ d = k
    <3>1. ~ Resting(d) /\ ~ Ended(d)
      BY <2>2, <2>9 DEF Resting, Ended, Cut
    <3>2. wire[d] = Run(t, FrameLen - left[t])
      BY <1>0, <2>2, <2>9, <3>1, OneWriter DEF Begun
    <3>3. \A u \in Threads \ {t} : Writing(u)' => On(u)' # d
      <4>1. \A u \in Threads \ {t} : Writing(u) => On(u) # d
        BY <2>2, <2>9, OneWriter
      <4> QED  BY <2>5, <4>1
    <3>4. CASE i = FrameLen
      <4>1. ~ Writing(t)'
        BY <1>5, <3>4 DEF SendWrite, Return, Goto, TypeOK, FlowInv, Sending,
             Writing, Threads
      <4>2. wire'[d] = <<>>
        BY <2>3, <2>9, <3>4 DEF TypeOK
      <4> QED  BY <3>3, <4>1, <4>2 DEF Resting
    <3>5. CASE i # FrameLen
      <4>1. /\ pc'[t] = "enter" /\ On(t)' = On(t)
            /\ left'[t] = left[t] - 1
        BY <1>5, <3>5 DEF SendWrite, Goto, TypeOK, On
      <4>2. wire'[d] = Append(wire[d], <<t, i>>)
        BY <2>3, <2>9, <3>5 DEF TypeOK
      <4>3. FrameLen - left[t] \in Nat /\ i = (FrameLen - left[t]) + 1
        BY <2>2
      <4>4. wire'[d] = Run(t, i)
        BY <3>2, <4>2, <4>3, RunAppend
      <4>5. i = FrameLen - left'[t]
        BY <2>2, <4>1
      <4>6. wire'[d] = Run(t, FrameLen - left[t])'
        BY <4>4, <4>5 DEF Run
      <4> QED  BY <2>9, <4>1, <4>6 DEF Begun, Writing
    <3> QED  BY <3>4, <3>5
  <2> QED  BY <2>7, <2>8, <2>9
<1>6. ASSUME NEW t \in Threads, DiscTest(t)
      PROVE  (Resting(d) \/ Begun(d) \/ Ended(d))'
  <2>1. \A u \in Threads \ {t} : Keeps(u)
    BY <1>6, OthersKeep DEF ThreadStep
  <2>2. ~ Writing(t) /\ ~ Writing(t)' /\ wire' = wire
    BY <1>6 DEF DiscTest, Return, Goto, Home, TypeOK, FlowInv, Sending,
         Closing, Writing, historyVars
  <2> QED  BY <2>1, <2>2, <1>0, CutStep, WireKept DEF Keeps, Writing
<1>7. ASSUME NEW t \in Threads, DiscFlag(t)
      PROVE  (Resting(d) \/ Begun(d) \/ Ended(d))'
  <2>1. \A u \in Threads \ {t} : Keeps(u)
    BY <1>7, OthersKeep DEF ThreadStep
  <2>2. ~ Writing(t) /\ ~ Writing(t)' /\ wire' = wire
    BY <1>7 DEF DiscFlag, CloseBegin, IsOpen, Goto, TypeOK, FlowInv, Sending,
         Closing, Writing, historyVars
  <2> QED  BY <2>1, <2>2, <1>0, CutStep, WireKept DEF Keeps, Writing
<1>8. ASSUME NEW t \in Threads, Close(t)
      PROVE  (Resting(d) \/ Begun(d) \/ Ended(d))'
  <2>1. \A u \in Threads \ {t} : Keeps(u)
    BY <1>8, OthersKeep DEF ThreadStep
  <2>2. ~ Writing(t) /\ ~ Writing(t)' /\ wire' = wire
    BY <1>8 DEF Close, Goto, TypeOK, FlowInv, Sending, Closing, Writing,
         historyVars
  <2> QED  BY <2>1, <2>2, <1>0, CutStep, WireKept DEF Keeps, Writing
<1>9. ASSUME NEW t \in Threads, Clear(t)
      PROVE  (Resting(d) \/ Begun(d) \/ Ended(d))'
  <2>1. \A u \in Threads \ {t} : Keeps(u)
    BY <1>9, OthersKeep DEF ThreadStep
  <2>2. ~ Writing(t) /\ ~ Writing(t)' /\ wire' = wire
    BY <1>9 DEF Clear, Cleared, Return, Goto, TypeOK, FlowInv, Sending,
         Closing, Writing, historyVars
  <2> QED  BY <2>1, <2>2, <1>0, CutStep, WireKept DEF Keeps, Writing
<1>10. ASSUME NEW t \in Threads, DiscDone(t)
       PROVE  (Resting(d) \/ Begun(d) \/ Ended(d))'
  <2>1. \A u \in Threads \ {t} : Keeps(u)
    BY <1>10, OthersKeep DEF ThreadStep
  <2>2. ~ Writing(t) /\ ~ Writing(t)' /\ wire' = wire
    BY <1>10 DEF DiscDone, Return, Goto, Home, TypeOK, FlowInv, Sending,
         Closing, Writing, historyVars
  <2> QED  BY <2>1, <2>2, <1>0, CutStep, WireKept DEF Keeps, Writing
<1>11. ASSUME NEW c \in Conns, RecvFails(c)
       PROVE  (Resting(d) \/ Begun(d) \/ Ended(d))'
  <2>1. \A u \in Threads \ {c} : Keeps(u)
    BY <1>11, OthersKeep DEF ConnStep, RecvStep
  <2>2. ~ Writing(c) /\ ~ Writing(c)' /\ wire' = wire
    BY <1>11 DEF RecvFails, Return, Goto, Named, TypeOK, FlowInv, Sending,
         Closing, Writing, historyVars
  <2> QED  BY <2>1, <2>2, <1>0, CutStep, WireKept DEF Keeps, Writing
<1>12. ASSUME NEW c \in Conns, RecvLoop(c)
       PROVE  (Resting(d) \/ Begun(d) \/ Ended(d))'
  <2>1. \A u \in Threads \ {c} : Keeps(u)
    BY <1>12, OthersKeep DEF ConnStep, RecvStep
  <2>2. ~ Writing(c) /\ ~ Writing(c)' /\ wire' = wire
    BY <1>12 DEF RecvLoop, Return, Goto, TypeOK, FlowInv, Sending, Closing,
         Writing, historyVars
  <2> QED  BY <2>1, <2>2, <1>0, CutStep, WireKept DEF Keeps, Writing
<1>13. ASSUME NEW c \in Conns, RecvEnter(c)
       PROVE  (Resting(d) \/ Begun(d) \/ Ended(d))'
  <2>1. \A u \in Threads \ {c} : Keeps(u)
    BY <1>13, OthersKeep DEF ConnStep, RecvStep
  <2>2. ~ Writing(c) /\ ~ Writing(c)' /\ wire' = wire
    BY <1>13 DEF RecvEnter, Enter, Goto, Named, TypeOK, FlowInv, Sending,
         Closing, Writing, historyVars
  <2> QED  BY <2>1, <2>2, <1>0, CutStep, WireKept DEF Keeps, Writing
<1>14. ASSUME NEW c \in Conns, RecvData(c)
       PROVE  (Resting(d) \/ Begun(d) \/ Ended(d))'
  <2>1. \A u \in Threads \ {c} : Keeps(u)
    BY <1>14, OthersKeep DEF ConnStep, RecvStep
  <2>2. ~ Writing(c) /\ ~ Writing(c)' /\ wire' = wire
    BY <1>14 DEF RecvData, Return, Goto, TypeOK, FlowInv, Sending, Closing,
         Writing, historyVars
  <2> QED  BY <2>1, <2>2, <1>0, CutStep, WireKept DEF Keeps, Writing
<1>15. ASSUME NEW c \in Conns, SessionSend(c)
       PROVE  (Resting(d) \/ Begun(d) \/ Ended(d))'
  <2>1. \A u \in Conns : Keeps(u)
    BY <1>15, OthersKeep DEF SessionCall
  <2>2. ~ Writing(Session) /\ ~ Writing(Session)' /\ wire' = wire
    BY <1>15 DEF SessionSend, Call, Pick, Goto, TypeOK, FlowInv, Sending,
         Closing, Writing, historyVars
  <2> QED  BY <2>1, <2>2, <1>0, CutStep, WireKept DEF Keeps, Writing
<1>16. ASSUME NEW c \in Conns, SessionDisconnect(c)
       PROVE  (Resting(d) \/ Begun(d) \/ Ended(d))'
  <2>1. \A u \in Conns : Keeps(u)
    BY <1>16, OthersKeep DEF SessionCall
  <2>2. ~ Writing(Session) /\ ~ Writing(Session)' /\ wire' = wire
    BY <1>16 DEF SessionDisconnect, Call, Pick, Goto, TypeOK, FlowInv,
         Sending, Closing, Writing, historyVars
  <2> QED  BY <2>1, <2>2, <1>0, CutStep, WireKept DEF Keeps, Writing
<1>17. ASSUME NEW c \in Conns, SessionDestroy(c)
       PROVE  (Resting(d) \/ Begun(d) \/ Ended(d))'
  <2>1. \A u \in Conns : Keeps(u)
    BY <1>17, OthersKeep DEF SessionCall
  <2>2. ~ Writing(Session) /\ ~ Writing(Session)' /\ wire' = wire
    BY <1>17 DEF SessionDestroy, Pick, CloseBegin, IsOpen, Goto, TypeOK,
         FlowInv, Sending, Closing, Writing, historyVars
  <2> QED  BY <2>1, <2>2, <1>0, CutStep, WireKept DEF Keeps, Writing
<1>18. ASSUME NEW c \in Conns, Accept(c)
       PROVE  (Resting(d) \/ Begun(d) \/ Ended(d))'
  <2>1. \A u \in Threads \ {c} : Keeps(u)
    BY <1>18, OthersKeep DEF ConnStep, RecvStep
  <2>2. ~ Writing(c) /\ ~ Writing(c)' /\ wire' = wire
    BY <1>18 DEF Accept, Goto, TypeOK, FlowInv, Sending, Closing, Writing,
         historyVars
  <2> QED  BY <2>1, <2>2, <1>0, CutStep, WireKept DEF Keeps, Writing
<1>19. ASSUME NEW c \in Conns, PeerStalls(c)
       PROVE  (Resting(d) \/ Begun(d) \/ Ended(d))'
  <2>1. UNCHANGED <<wire, pc, target, left>>
    BY <1>19 DEF PeerStalls, PeerDoes, callVars, historyVars
  <2>2. \A u \in Threads : On(u)' = On(u) /\ (Writing(u)' <=> Writing(u))
    BY <2>1 DEF On, Writing
  <2> QED  BY <2>1, <2>2, <1>0, CutStep, WireKept
<1>20. ASSUME NEW c \in Conns, PeerCloses(c)
       PROVE  (Resting(d) \/ Begun(d) \/ Ended(d))'
  <2>1. UNCHANGED <<wire, pc, target, left>>
    BY <1>20 DEF PeerCloses, PeerDoes, callVars, historyVars
  <2>2. \A u \in Threads : On(u)' = On(u) /\ (Writing(u)' <=> Writing(u))
    BY <2>1 DEF On, Writing
  <2> QED  BY <2>1, <2>2, <1>0, CutStep, WireKept
<1>21. ASSUME SessionJoin PROVE (Resting(d) \/ Begun(d) \/ Ended(d))'
  <2>1. \A u \in Conns : Keeps(u)
    BY <1>21, OthersKeep
  <2>2. /\ pc[Session] = "join" /\ pc[target] = "exited" /\ target \in Conns
        /\ pc'[Session] = "idle"
    BY <1>21, Working DEF SessionJoin, Return, Goto, TypeOK, On, Threads
  <2>3. wire' = [wire EXCEPT ![target] = <<>>]
    BY <1>21 DEF SessionJoin
  <2>4. CASE d = target
    <3>1. \A u \in Threads : Writing(u)' => On(u)' # d
      BY <2>1, <2>2, <2>4 DEF Writing, Keeps, On, Threads
    <3>2. wire'[d] = <<>>  BY <2>3, <2>4 DEF TypeOK
    <3> QED  BY <3>1, <3>2 DEF Resting
  <2>5. CASE d # target
    <3>1. wire'[d] = wire[d]  BY <2>3, <2>5 DEF TypeOK
    <3> QED  BY <2>1, <2>2, <3>1, <1>0, CutStep, WireKept DEF Writing, Keeps
  <2> QED  BY <2>4, <2>5
<1>22. CASE UNCHANGED vars
  <2>1. UNCHANGED <<wire, pc, target, left, On(Session)>> /\ (Cut(d) => Cut(d)')
    BY <1>22, CutStep DEF vars, callVars, historyVars, On
  <2> QED  BY <1>0, <1>22, <2>1, WireKept DEF Writing, On, vars
<1> QED
  BY <1>1, <1>2, <1>3, <1>4, <1>5, <1>6, <1>7, <1>8, <1>9, <1>10, <1>11,
       <1>12, <1>13, <1>14, <1>15, <1>16, <1>17, <1>18, <1>19, <1>20, <1>21,
       <1>22 DEF Next, ThreadStep, RecvStep

-----------------------------------------------------------------------------
(* The theorems.                                                           *)

\* The initial state satisfies the invariant.
LEMMA InitInv == Init => IInv
<1> SUFFICES ASSUME Init PROVE IInv
  OBVIOUS
<1> USE SocketAssumption DEF Threads
<1>1. TypeOK
  <2>1. 0 \in 0 .. FrameLen /\ 0 \in 0 .. MaxSends
    OBVIOUS
  <2>2. <<>> \in Seq(Threads \X (1 .. FrameLen))
    OBVIOUS
  <2>3. wire \in [Conns -> Seq(Threads \X (1 .. FrameLen))]
    BY <2>2 DEF Init
  <2>4. pc \in [Threads -> Pcs] /\ after \in [Threads -> Pcs]
    BY DEF Init, Pcs
  <2>5. running \in [Conns -> BOOLEAN] /\ gone \in [Conns -> BOOLEAN]
    BY DEF Init
  <2> QED  BY <2>1, <2>3, <2>4, <2>5 DEF Init, TypeOK
<1>2. FlowInv  BY DEF Init, FlowInv, Sending, Closing
<1>3. \A t \in Threads : pc[t] \in {"idle", "none"}
  BY DEF Init
<1>4. CallInv  BY <1>3 DEF CallInv, CallOK, Writing
<1>5. HandleInv  BY DEF Init, HandleInv
<1>6. NumberInv  BY <1>3 DEF NumberInv, NumberOK, Reaching
<1>7. LostInv  BY DEF Init, LostInv, LostOK
<1>8. RivalInv  BY <1>3 DEF RivalInv, RivalOK, Reaching
<1>9. WireInv  BY <1>3 DEF Init, WireInv, Resting, Writing
<1> QED
  BY <1>1, <1>2, <1>4, <1>5, <1>6, <1>7, <1>8, <1>9 DEF IInv

\* IInv is an invariant of the connections and their sockets.
THEOREM Invariance == Spec => []IInv
<1>1. IInv /\ [Next]_vars => IInv'
  BY TypeStep, FlowStep, CallStep, HandleStep, NumberStep, LostStep, RivalStep,
     WireStep DEF IInv
<1> QED  BY <1>1, InitInv, PTL DEF Spec

\* Every variable of the connections and their sockets keeps its type.
THEOREM TypeCorrect == Spec => []TypeOK
<1>1. IInv => TypeOK  BY DEF IInv
<1> QED  BY <1>1, Invariance, PTL

\* The invariant says what is on the wire: whole frames and, at the end, the
\* beginning of one.
LEMMA WireIsRun == IInv => FramesWhole
<1> SUFFICES ASSUME IInv, NEW c \in Conns \ hit
             PROVE  \E t \in Threads :
                      wire[c] = [i \in 1 .. Len(wire[c]) |-> <<t, i>>]
  BY DEF FramesWhole
<1> SUFFICES \E t \in Threads, n \in Nat : wire[c] = Run(t, n)
  BY RunAppend DEF Run
<1>1. CASE Resting(c)
  <2>1. wire[c] = Run(Session, 0)  BY <1>1, RunAppend DEF Resting
  <2> QED  BY <2>1 DEF Threads
<1>2. CASE Begun(c)
  <2>1. PICK t \in Threads :
          Writing(t) /\ wire[c] = Run(t, FrameLen - left[t])
    BY <1>2 DEF Begun
  <2>2. FrameLen - left[t] \in Nat
    BY <2>1, SocketAssumption DEF IInv, CallInv, CallOK
  <2> QED  BY <2>1, <2>2
<1>3. CASE Ended(c)  BY <1>3 DEF Ended
<1> QED  BY <1>1, <1>2, <1>3 DEF IInv, WireInv

\* The writes of two frames never mix on a connection: sendMutex_ is held over
\* all of sendAll(), and a connection whose frame was cut short is written to
\* no more.
THEOREM FramesStayWhole == Spec => []FramesWhole
  BY Invariance, WireIsRun, PTL

\* No descriptor leaks with a connection, and a thread uses the descriptor of
\* another connection only when a second thread has closed its own, or a stray
\* one has robbed it.
THEOREM DescriptorsStayInOrder == Spec => []DescriptorsInOrder
<1>1. IInv => StrayNeedsRival
  BY Working, SocketAssumption
     DEF IInv, StrayNeedsRival, Named, RivalInv, RivalOK, Reaching
<1>2. IInv => NoDescriptorLeaks
  BY DEF IInv, HandleInv, NoDescriptorLeaks
<1>3. IInv => DescriptorsInOrder
  BY <1>1, <1>2 DEF DescriptorsInOrder
<1> QED  BY <1>3, Invariance, PTL

=============================================================================
