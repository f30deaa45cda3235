------------------------------ MODULE TcpSocket ------------------------------
(***************************************************************************)
(* Connection::send, disconnect, ~Connection and recvLoop                  *)
(* (src/network/connection.cpp) over TcpSocket (src/network/tcp_socket.cpp) *)
(* step by step, where module Connection takes each of them as one step:   *)
(* the lock of send(), the partial writes of sendAll(), the window between *)
(* reading handle_ and the system call, and that between ::close() and     *)
(* clearing handle_.                                                       *)
(*                                                                         *)
(* Two kinds of threads use a connection: its receive thread, and whoever  *)
(* holds connMutex_ of the session, here one thread, Session.  handle_ is  *)
(* neither atomic nor locked.  The descriptor numbers are those of the     *)
(* process: accept() takes the lowest free one, so that a number that was  *)
(* closed soon names another connection.  As on Linux, a blocked call      *)
(* keeps its socket when the descriptor is closed under it.                *)
(***************************************************************************)
EXTENDS Naturals, Sequences, FiniteSetsExt

CONSTANTS
  Conns,      \* the connections
  Fds,        \* the descriptor numbers
  NoFd,       \* kInvalidSocket
  Nobody,     \* no thread, no connection
  Rude,       \* bound: the connections whose peer may stop reading, break
              \* the protocol or exceed the rate limit
  Session,    \* the thread that holds connMutex_
  FrameLen,   \* the number of writes that a frame takes
  MaxSends    \* bound: how many frames Session sends

ASSUME SocketAssumption ==
  /\ Fds \subseteq Nat /\ NoFd \notin Fds
  /\ Session \notin Conns
  /\ Nobody \notin Conns \cup {Session}
  /\ FrameLen \in Nat \ {0}
  /\ MaxSends \in Nat

VARIABLES
  table,     \* the kernel's descriptor table: number -> connection
  handle,    \* TcpSocket::handle_
  running,   \* Connection::running_
  gone,      \* whether Connection::state_ is DISCONNECTED
  sendMutex, \* who holds Connection::sendMutex_
  pc,        \* where a thread is
  target,    \* the connection that Session works on
  via,       \* what a thread has read from handle_, and, in a blocked call,
             \* the connection whose socket that was
  left,      \* how many writes of its frame are left
  after,     \* where it goes on after send() or close()
  stage,     \* a connection: "new", "live" or "destroyed"
  peer,      \* what the peer does
  sends,     \* how many frames Session has sent
  wire,      \* the writes of the frame that the peer has not got whole
  closers,   \* history: who called ::close() for a connection
  robbed,    \* history: the connections whose descriptor a thread of another
             \* connection closed
  hit        \* history: the connections that others wrote to or read from

callVars == <<via, left, after>>
connVars == <<handle, running, gone>>
worldVars == <<stage, peer, sends>>
historyVars == <<wire, closers, robbed, hit>>
vars == <<table, connVars, sendMutex, pc, target, callVars, worldVars,
          historyVars>>

Threads == Conns \cup {Session}

\* The connection that a thread works on.
On(t) == IF t = Session THEN target ELSE t

Pcs == {"none", "idle", "loop", "recvEnter", "recv", "send", "lock", "enter",
        "write", "disconnect", "flag", "close", "clear", "done", "join",
        "exited"}

\* Type invariant.
TypeOK ==
  /\ table \in [Fds -> Conns \cup {Nobody}]
  /\ handle \in [Conns -> Fds \cup {NoFd}]
  /\ running \in [Conns -> BOOLEAN]
  /\ gone \in [Conns -> BOOLEAN]
  /\ sendMutex \in [Conns -> Threads \cup {Nobody}]
  /\ pc \in [Threads -> Pcs]
  /\ target \in Conns \cup {Nobody}
  /\ via \in [Threads -> Fds \cup Conns \cup {NoFd}]
  /\ left \in [Threads -> 0 .. FrameLen]
  /\ after \in [Threads -> Pcs]
  /\ stage \in [Conns -> {"new", "live", "destroyed"}]
  /\ peer \in [Conns -> {"reads", "stalled", "closed"}]
  /\ sends \in 0 .. MaxSends
  /\ wire \in [Conns -> Seq(Threads \X (1 .. FrameLen))]
  /\ closers \in [Conns -> SUBSET Threads]
  /\ robbed \subseteq Conns
  /\ hit \subseteq Conns

Init ==
  /\ table = [f \in Fds |-> Nobody]
  /\ handle = [c \in Conns |-> NoFd]
  /\ running = [c \in Conns |-> FALSE]
  /\ gone = [c \in Conns |-> FALSE]
  /\ sendMutex = [c \in Conns |-> Nobody]
  /\ pc = [t \in Threads |-> IF t = Session THEN "idle" ELSE "none"]
  /\ target = Nobody
  /\ via = [t \in Threads |-> NoFd]
  /\ left = [t \in Threads |-> 0]
  /\ after = [t \in Threads |-> "none"]
  /\ stage = [c \in Conns |-> "new"]
  /\ peer = [c \in Conns |-> "reads"]
  /\ sends = 0
  /\ wire = [c \in Conns |-> <<>>]
  /\ closers = [c \in Conns |-> {}]
  /\ robbed = {}
  /\ hit = {}

-----------------------------------------------------------------------------
(* Connection::send and TcpSocket::sendAll.                                *)

Goto(t, label) == pc' = [pc EXCEPT ![t] = label]

\* The call of thread t is over, and it goes on.
Return(t, label) ==
  /\ Goto(t, label)
  /\ via' = [via EXCEPT ![t] = NoFd]
  /\ left' = [left EXCEPT ![t] = 0]
  /\ after' = [after EXCEPT ![t] = "none"]
  /\ target' = IF t = Session /\ label = "idle" THEN Nobody ELSE target

\* Where a thread goes from disconnect().
Home(t) == IF t = Session THEN "idle" ELSE "exited"

\* What a descriptor names: nothing when it is invalid or free (EBADF).
Named(f) == IF f \in Fds THEN table[f] ELSE Nobody

\* running_ is looked at before the lock is taken.
SendTest(t) ==
  /\ pc[t] = "send"
  /\ IF running[On(t)] THEN Goto(t, "lock") /\ UNCHANGED <<target, callVars>>
                       ELSE Return(t, after[t])
  /\ UNCHANGED <<table, connVars, sendMutex, worldVars, historyVars>>

\* Mutant of LockFree: send() takes no lock.
NoLock(c) == TRUE

\* sendMutex_ can be taken.
LockFree(c) == sendMutex[c] = Nobody

\* sendMutex_ is taken and handle_ is read: isValid.
SendLock(t) ==
  /\ pc[t] = "lock"
  /\ LockFree(On(t))
  /\ IF handle[On(t)] = NoFd
       THEN Return(t, after[t]) /\ UNCHANGED sendMutex
       ELSE /\ Goto(t, "enter")
            /\ sendMutex' = [sendMutex EXCEPT ![On(t)] = t]
            /\ via' = [via EXCEPT ![t] = handle[On(t)]]
            /\ left' = [left EXCEPT ![t] = FrameLen]
            /\ UNCHANGED <<target, after>>
  /\ UNCHANGED <<table, connVars, worldVars, historyVars>>

Unlock(t) == sendMutex' = [sendMutex EXCEPT ![On(t)] = Nobody]

\* Mutant of FailUnlock: a failed write keeps the lock.
KeepLock(t) == UNCHANGED sendMutex

\* The lock_guard goes out of scope on the error path too.
FailUnlock(t) == Unlock(t)

\* ::send on nothing, or to a peer that is gone: false.
SendFails(t) ==
  /\ \/ pc[t] = "enter" /\ Named(via[t]) = Nobody
     \/ pc[t] = "write" /\ peer[via[t]] = "closed"
  /\ FailUnlock(t)
  /\ Return(t, after[t])
  /\ UNCHANGED <<table, connVars, worldVars, historyVars>>

\* A system call finds its socket.
Enter(t, from, to) ==
  /\ pc[t] = from
  /\ Named(via[t]) # Nobody
  /\ via' = [via EXCEPT ![t] = Named(via[t])]
  /\ Goto(t, to)
  /\ UNCHANGED <<table, connVars, sendMutex, target, left, after, worldVars,
                 historyVars>>

SendEnter(t) == Enter(t, "enter", "write")

\* ::send writes a part of the frame when the window of the peer is open.
\* For the next part handle_ is read again.
SendWrite(t) ==
  LET k == via[t]
      i == FrameLen + 1 - left[t]
  IN  /\ pc[t] = "write"
      /\ peer[k] = "reads"
      /\ wire' = [wire EXCEPT ![k] =
                    IF i = FrameLen THEN <<>> ELSE Append(@, <<t, i>>)]
      /\ hit' = hit \cup ({k} \ {On(t)})
      /\ IF i = FrameLen
           THEN Return(t, after[t]) /\ Unlock(t)
           ELSE /\ Goto(t, "enter")
                /\ via' = [via EXCEPT ![t] = handle[On(t)]]
                /\ left' = [left EXCEPT ![t] = @ - 1]
                /\ UNCHANGED <<target, after, sendMutex>>
      /\ UNCHANGED <<table, connVars, worldVars, closers,
                     robbed>>

-----------------------------------------------------------------------------
(* Connection::disconnect and TcpSocket::close.                            *)

\* It does nothing on a connection that is DISCONNECTED.
DiscTest(t) ==
  /\ pc[t] = "disconnect"
  /\ IF gone[On(t)]
       THEN Return(t, Home(t))
       ELSE /\ Goto(t, "send")
            /\ after' = [after EXCEPT ![t] = "flag"]
            /\ UNCHANGED <<target, via, left>>
  /\ UNCHANGED <<table, connVars, sendMutex, worldVars, historyVars>>

\* isValid, in close().
IsOpen(c) == handle[c] # NoFd

\* running_ is cleared and close() reads handle_.
CloseBegin(t, c, next) ==
  /\ running' = [running EXCEPT ![c] = FALSE]
  /\ via' = [via EXCEPT ![t] = handle[c]]
  /\ after' = [after EXCEPT ![t] = next]
  /\ Goto(t, IF IsOpen(c) THEN "close" ELSE next)
  /\ UNCHANGED <<table, handle, gone, sendMutex, left, worldVars, historyVars>>

DiscFlag(t) ==
  /\ pc[t] = "flag"
  /\ CloseBegin(t, On(t), "done")
  /\ UNCHANGED target

\* ::close frees the descriptor, whatever it names by now.
Close(t) ==
  /\ pc[t] = "close"
  /\ table' = [table EXCEPT ![via[t]] = Nobody]
  /\ closers' = [closers EXCEPT ![On(t)] = @ \cup {t}]
  /\ robbed' = robbed \cup ({table[via[t]]} \ {On(t), Nobody})
  /\ Goto(t, "clear")
  /\ UNCHANGED <<connVars, sendMutex, target, callVars, worldVars, wire, hit>>

\* Mutants of Cleared: handle_ keeps the number, or becomes zero.
NotCleared(c) == handle[c]
ClearedToZero(c) == 0

\* handle_ = kInvalidSocket
Cleared(c) == NoFd

Clear(t) ==
  /\ pc[t] = "clear"
  /\ handle' = [handle EXCEPT ![On(t)] = Cleared(On(t))]
  /\ Return(t, after[t])
  /\ UNCHANGED <<table, running, gone, sendMutex, worldVars, historyVars>>

DiscDone(t) ==
  /\ pc[t] = "done"
  /\ gone' = [gone EXCEPT ![On(t)] = TRUE]
  /\ Return(t, Home(t))
  /\ UNCHANGED <<table, handle, running, sendMutex, worldVars, historyVars>>

-----------------------------------------------------------------------------
(* The receive thread: Connection::recvLoop.                               *)

\* recv() returns 0 or -1, on an invalid handle or a free descriptor, or
\* after the peer closed: the connection is over.
RecvFails(c) ==
  /\ \/ pc[c] = "loop" /\ running[c] /\ handle[c] = NoFd
     \/ pc[c] = "recvEnter" /\ Named(via[c]) = Nobody
     \/ pc[c] = "recv" /\ peer[via[c]] = "closed"
  /\ running' = [running EXCEPT ![c] = FALSE]
  /\ gone' = [gone EXCEPT ![c] = gone[c] \/ running[c]]
  /\ Return(c, "exited")
  /\ UNCHANGED <<table, handle, sendMutex, worldVars, historyVars>>

RecvLoop(c) ==
  /\ pc[c] = "loop"
  /\ IF running[c]
       THEN /\ handle[c] # NoFd
            /\ Goto(c, "recvEnter")
            /\ via' = [via EXCEPT ![c] = handle[c]]
            /\ UNCHANGED <<target, left, after>>
       ELSE Return(c, "exited")
  /\ UNCHANGED <<table, connVars, sendMutex, worldVars, historyVars>>

RecvEnter(c) == Enter(c, "recvEnter", "recv")

\* Bytes come: their frames are handled, or they break the protocol or the
\* rate limit and the thread disconnects its connection.
RecvData(c) ==
  /\ pc[c] = "recv"
  /\ peer[via[c]] # "closed"
  /\ hit' = hit \cup ({via[c]} \ {c})
  /\ \/ Return(c, "loop")
     \/ c \in Rude /\ Return(c, "disconnect")
  /\ UNCHANGED <<table, connVars, sendMutex, worldVars, wire, closers, robbed>>

-----------------------------------------------------------------------------
(* The session, and the world.                                             *)

Pick(c) ==
  /\ pc[Session] = "idle"
  /\ stage[c] = "live"
  /\ target' = c

\* A call of the session on a connection.
Call(c, label) ==
  /\ Pick(c)
  /\ Goto(Session, label)
  /\ after' = [after EXCEPT ![Session] = "idle"]
  /\ UNCHANGED <<table, connVars, sendMutex, via, left, stage, peer,
                 historyVars>>

SessionSend(c) ==
  /\ sends < MaxSends
  /\ sends' = sends + 1
  /\ Call(c, "send")

SessionDisconnect(c) == Call(c, "disconnect") /\ UNCHANGED sends

\* ~Connection: the connection leaves the map of the session.
SessionDestroy(c) ==
  /\ Pick(c)
  /\ CloseBegin(Session, c, "join")

\* The receive thread is joined; the history of a destroyed connection is
\* dropped.
SessionJoin ==
  /\ pc[Session] = "join"
  /\ pc[target] = "exited"
  /\ stage' = [stage EXCEPT ![target] = "destroyed"]
  /\ closers' = [closers EXCEPT ![target] = {}]
  /\ robbed' = robbed \ {target}
  /\ wire' = [wire EXCEPT ![target] = <<>>]
  /\ Return(Session, "idle")
  /\ UNCHANGED <<table, connVars, sendMutex, peer, sends, hit>>

\* accept() takes the lowest free descriptor, and the connection is started.
Accept(c) ==
  LET free == {f \in Fds : table[f] = Nobody}
  IN  /\ stage[c] = "new"
      /\ free # {}
      /\ table' = [table EXCEPT ![Min(free)] = c]
      /\ handle' = [handle EXCEPT ![c] = Min(free)]
      /\ running' = [running EXCEPT ![c] = TRUE]
      /\ stage' = [stage EXCEPT ![c] = "live"]
      /\ Goto(c, "loop")
      /\ UNCHANGED <<gone, sendMutex, target, callVars, peer, sends, historyVars>>

\* The peer stops reading, so that its window fills, or goes.
PeerDoes(c, from, to) ==
  /\ stage[c] # "new"
  /\ peer[c] \in from
  /\ peer' = [peer EXCEPT ![c] = to]
  /\ UNCHANGED <<table, connVars, sendMutex, pc, target, callVars, stage, sends,
                 historyVars>>

PeerStalls(c) == c \in Rude /\ PeerDoes(c, {"reads"}, "stalled")
PeerCloses(c) == PeerDoes(c, {"reads", "stalled"}, "closed")

-----------------------------------------------------------------------------
ThreadStep(t) ==
  \/ SendTest(t) \/ SendLock(t) \/ SendFails(t) \/ SendEnter(t) \/ SendWrite(t)
  \/ DiscTest(t) \/ DiscFlag(t) \/ Close(t) \/ Clear(t) \/ DiscDone(t)

RecvStep(c) == RecvFails(c) \/ RecvLoop(c) \/ RecvEnter(c)

Next ==
  \/ \E t \in Threads : ThreadStep(t)
  \/ \E c \in Conns :
       \/ RecvStep(c) \/ RecvData(c)
       \/ SessionSend(c) \/ SessionDisconnect(c) \/ SessionDestroy(c)
       \/ Accept(c)
       \/ PeerStalls(c) \/ PeerCloses(c)
  \/ SessionJoin

Spec == Init /\ [][Next]_vars

\* Threads are scheduled; peers need not send, read or close.
FairSpec ==
  /\ Spec
  /\ \A t \in Threads : WF_vars(ThreadStep(t))
  /\ \A c \in Conns : WF_vars(RecvStep(c))
  /\ WF_vars(SessionJoin)

-----------------------------------------------------------------------------
(* Properties.                                                             *)

\* The writes of two frames never mix on one connection, also when the
\* receive thread says DISCONNECT while the session sends; a frame that is
\* cut short is the last one.  Only a thread of another connection, with a
\* descriptor that was reused under it, can write in between.
FramesWhole ==
  \A c \in Conns \ hit :
    \E t \in Threads :
      wire[c] = [i \in 1 .. Len(wire[c]) |-> <<t, i>>]

\* A thread is about to use a descriptor that names another connection only
\* if a second thread has closed its own connection, or a stray thread of a
\* third one has robbed it: no thread goes on with a descriptor that it has
\* closed itself.
StrayNeedsRival ==
  \A t \in Threads :
    /\ pc[t] \in {"enter", "recvEnter", "close"}
    /\ Named(via[t]) \notin {On(t), Nobody}
    => closers[On(t)] \ {t} # {} \/ On(t) \in robbed

\* A destroyed connection has given back its descriptor.
NoDescriptorLeaks ==
  \A c \in Conns : stage[c] = "destroyed" => \A f \in Fds : table[f] # c

\* No descriptor is lost, and the first stray one takes two threads that close
\* the same connection (TcpSocket::close, which takes no lock).
DescriptorsInOrder == StrayNeedsRival /\ NoDescriptorLeaks

\* Someone waits for a peer: to read, or to send what ends a receive thread
\* that is joined.
WaitsForPeer ==
  \/ \E t \in Threads : pc[t] = "write" /\ peer[via[t]] = "stalled"
  \/ pc[Session] = "join" /\ pc[target] = "recv" /\ peer[via[target]] # "closed"

\* Whoever holds connMutex_ gets through, unless it waits for a peer for ever:
\* a write that fails never keeps the lock of a connection.
SessionGetsThrough ==
  pc[Session] # "idle" ~> (pc[Session] = "idle" \/ []WaitsForPeer)

=============================================================================
