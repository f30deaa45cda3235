----------------------------- MODULE Connection -----------------------------
(***************************************************************************)
(* One end of a TCP connection between two LanTalk nodes: class Connection *)
(* (src/network/connection.cpp) over class TcpSocket, with the receive     *)
(* thread that every started connection owns.                              *)
(*                                                                         *)
(* The module declares the state of all the connections of one process and *)
(* the steps that belong to the connection itself; module ChatSession adds *)
(* the session that the frame callback runs into.                          *)
(*                                                                         *)
(* A frame is a record: its type and whether its content is acceptable to  *)
(* the handler (`ok`: a HELLO with a device_id, an AUTH_RESPONSE that      *)
(* matches, a CHAT_MESSAGE that parses).  INVALID stands for bytes on      *)
(* which FrameReader::feed throws.                                         *)
(***************************************************************************)
EXTENDS Integers, Sequences

CONSTANTS
  Conns,          \* the connections this process may ever have
  Frames,         \* the frames a peer may send
  MaxFrames,      \* bound: frames received on one connection
  MaxBatch,       \* bound: frames completed by one recv() call
  Recorded,       \* the types of frames that the history `sent` keeps
  MayStall,       \* the connections whose peer may stop reading
  Platforms       \* whether close() wakes a recv() or send() that another
                  \* thread is blocked in: FALSE on Linux, TRUE on Windows

FrameTypes ==
  {"HELLO", "AUTH_REQUEST", "AUTH_RESPONSE", "AUTH_OK", "AUTH_FAIL",
   "CHAT_MESSAGE", "PING", "PONG", "DISCONNECT", "INVALID"}

ASSUME ConnectionAssumption ==
  /\ Frames \subseteq [type : FrameTypes, ok : BOOLEAN]
  /\ Recorded \subseteq FrameTypes
  /\ MaxFrames \in Nat
  /\ MaxBatch \in Nat
  /\ MayStall \subseteq Conns
  /\ Platforms \subseteq BOOLEAN

VARIABLES
  connRunning,    \* Connection::running_
  connState,      \* Connection::state_
  socket,         \* whether socket_ still has a valid handle
  sent,           \* history: the Recorded types of frames written to the socket
  remote,         \* whether the peer still has the connection open
  stalled,        \* the connections whose peer no longer reads
  closeWakes,     \* the platform of the process, a member of Platforms
  recvPc,         \* where the receive thread is
  batch,          \* frames returned by feed() that are still to be handled
  budget          \* how many more frames the peer may send

sockVars == <<connRunning, connState, socket, sent>>
threadVars == <<recvPc, batch, budget>>
envVars == <<remote, stalled, closeWakes>>
connVars == <<sockVars, threadVars, envVars>>

ConnectionStates ==
  {"CONNECTED", "AUTHENTICATING", "AUTHENTICATED", "DISCONNECTING",
   "DISCONNECTED"}

RecvPcs ==
  {"none", "loop", "recv", "frames", "sending", "onDisconnect",
   "connectedCb", "chatCb", "disconnectedCb", "exited"}

ConnTypeOK ==
  /\ connRunning \in [Conns -> BOOLEAN]
  /\ connState \in [Conns -> ConnectionStates]
  /\ socket \in [Conns -> {"open", "closed"}]
  /\ sent \in [Conns -> SUBSET FrameTypes]
  /\ remote \in [Conns -> {"open", "closed"}]
  /\ stalled \subseteq Conns
  /\ closeWakes \in BOOLEAN
  /\ recvPc \in [Conns -> RecvPcs]
  /\ batch \in [Conns -> Seq(Frames)]
  /\ budget \in [Conns -> Nat]

ConnInit ==
  /\ connRunning = [c \in Conns |-> FALSE]
  /\ connState = [c \in Conns |-> "CONNECTED"]
  /\ socket = [c \in Conns |-> "open"]
  /\ sent = [c \in Conns |-> {}]
  /\ remote = [c \in Conns |-> "open"]
  /\ stalled = {}
  /\ closeWakes \in Platforms
  /\ recvPc = [c \in Conns |-> "none"]
  /\ batch = [c \in Conns |-> <<>>]
  /\ budget = [c \in Conns |-> MaxFrames]

-----------------------------------------------------------------------------
(* Operations that other threads call.                                     *)

\* Connection::send writes only while running_ and with a valid handle.
CanSend(c) == connRunning[c] /\ socket[c] = "open"

\* ::send would not return: the peer's window and the buffers are full.  It
\* returns, with an error, when the peer closes.
Blocks(c) == CanSend(c) /\ c \in stalled /\ remote[c] = "open"

Keep(c, types) == sent[c] \cup (types \cap Recorded)

\* One frame to every connection of S, none of which Blocks.
Send(S, type) ==
  sent' = [c \in Conns |->
             IF c \in S /\ CanSend(c) THEN Keep(c, {type}) ELSE sent[c]]

\* Connection::disconnect on every connection of S, after frames of the
\* given types were sent to it.
SendAndDisconnect(S, types) ==
  LET D == {c \in S : connState[c] # "DISCONNECTED"}
      Writes(c) == IF c \in D THEN types \cup {"DISCONNECT"} ELSE types
  IN  /\ sent' = [c \in Conns |->
                    IF c \in S /\ CanSend(c)
                      THEN Keep(c, Writes(c)) ELSE sent[c]]
      /\ connRunning' = [c \in Conns |-> connRunning[c] /\ c \notin D]
      /\ socket' = [c \in Conns |-> IF c \in D THEN "closed" ELSE socket[c]]
      /\ connState' =
           [c \in Conns |-> IF c \in D THEN "DISCONNECTED" ELSE connState[c]]

Disconnect(S) == SendAndDisconnect(S, {})

\* Connection::start.
Start(c) ==
  /\ connRunning' = [connRunning EXCEPT ![c] = TRUE]
  /\ recvPc' = [recvPc EXCEPT ![c] = "loop"]

\* Connection::~Connection up to the join of the receive thread; whoever
\* drops the last reference then waits for Joinable.
Destroy(S) ==
  /\ connRunning' = [c \in Conns |-> connRunning[c] /\ c \notin S]
  /\ socket' = [c \in Conns |-> IF c \in S THEN "closed" ELSE socket[c]]
  /\ UNCHANGED <<connState, sent>>

Joinable(c) == recvPc[c] \in {"none", "exited"}

-----------------------------------------------------------------------------
(* The receive thread, Connection::recvLoop.                               *)

Goto(c, pc) == recvPc' = [recvPc EXCEPT ![c] = pc]

\* The loop condition fails.
LoopExit(c) ==
  /\ recvPc[c] = "loop"
  /\ ~connRunning[c]
  /\ Goto(c, "exited")
  /\ UNCHANGED <<sockVars, batch, budget, envVars>>

\* recv() is entered with a valid handle and blocks.
RecvCall(c) ==
  /\ recvPc[c] = "loop"
  /\ connRunning[c]
  /\ socket[c] = "open"
  /\ Goto(c, "recv")
  /\ UNCHANGED <<sockVars, batch, budget, envVars>>

\* Mutant of RecvEnd: running_ is not cleared.
RecvEndStaysRunning(c) ==
  /\ recvPc[c] = "recv"
  /\ remote[c] = "closed"
  /\ connState' = [connState EXCEPT ![c] = "DISCONNECTED"]
  /\ Goto(c, "onDisconnect")
  /\ UNCHANGED <<connRunning, socket, sent, batch, budget, envVars>>

\* recv() returns 0 or -1: the handle was already invalid, the peer closed,
\* or (where the platform does so) the local close woke the call.
RecvEnd(c) ==
  /\ \/ recvPc[c] = "loop" /\ connRunning[c] /\ socket[c] = "closed"
     \/ recvPc[c] = "recv" /\ remote[c] = "closed"
     \/ recvPc[c] = "recv" /\ socket[c] = "closed" /\ closeWakes
  /\ IF connRunning[c]
       THEN /\ connRunning' = [connRunning EXCEPT ![c] = FALSE]
            /\ connState' = [connState EXCEPT ![c] = "DISCONNECTED"]
            /\ Goto(c, "onDisconnect")
       ELSE /\ Goto(c, "exited")
            /\ UNCHANGED <<connRunning, connState>>
  /\ UNCHANGED <<socket, sent, batch, budget, envVars>>

Batches == UNION {[1..n -> Frames] : n \in 1..MaxBatch}

IsInvalid(fs) == \E i \in DOMAIN fs : fs[i].type = "INVALID"

\* recv() returns bytes that complete the frames fs.  Data can still arrive
\* on a socket closed locally while recv() was blocked on it.
RecvFrames(c, fs) ==
  /\ recvPc[c] = "recv"
  /\ ~(socket[c] = "closed" /\ closeWakes)
  /\ Len(fs) <= budget[c]
  /\ ~IsInvalid(fs)
  /\ batch' = [batch EXCEPT ![c] = fs]
  /\ budget' = [budget EXCEPT ![c] = @ - Len(fs)]
  /\ Goto(c, "frames")
  /\ UNCHANGED <<sockVars, envVars>>

\* The receive thread disconnects its own connection and ends, without a call
\* of onDisconnect_.  It may stay in the send() of the DISCONNECT.
DisconnectSelf(c) ==
  \/ /\ ~Blocks(c)
     /\ Disconnect({c})
     /\ Goto(c, "exited")
  \/ /\ Blocks(c)
     /\ connState' = [connState EXCEPT ![c] = "DISCONNECTING"]
     /\ Goto(c, "sending")
     /\ UNCHANGED <<connRunning, socket, sent>>

\* That send() returns: the peer closed, or the local close woke it.
SendEnds(c) ==
  /\ recvPc[c] = "sending"
  /\ remote[c] = "closed" \/ (socket[c] = "closed" /\ closeWakes)
  /\ Disconnect({c})
  /\ Goto(c, "exited")
  /\ UNCHANGED <<batch, budget, envVars>>

\* feed() throws: the frames it had completed in this call are lost.
RecvInvalid(c, fs) ==
  /\ recvPc[c] = "recv"
  /\ ~(socket[c] = "closed" /\ closeWakes)
  /\ Len(fs) <= budget[c]
  /\ IsInvalid(fs)
  /\ budget' = [budget EXCEPT ![c] = @ - Len(fs)]
  /\ DisconnectSelf(c)
  /\ UNCHANGED <<batch, envVars>>

\* All frames of the call are handled and the rate limit is respected.
NextRecv(c) ==
  /\ recvPc[c] = "frames"
  /\ batch[c] = <<>>
  /\ Goto(c, "loop")
  /\ UNCHANGED <<sockVars, batch, budget, envVars>>

\* More than 100 frames were counted when the interval of a second was over.
RateLimit(c) ==
  /\ recvPc[c] = "frames"
  /\ batch[c] = <<>>
  /\ DisconnectSelf(c)
  /\ UNCHANGED <<batch, budget, envVars>>

\* The peer closes the connection or disappears.
RemoteClose(c) ==
  /\ remote[c] = "open"
  /\ remote' = [remote EXCEPT ![c] = "closed"]
  /\ UNCHANGED <<sockVars, threadVars, stalled, closeWakes>>

\* The peer stops reading, for good, and what was sent to it fills up.
PeerStalls(c) ==
  /\ c \in MayStall \ stalled
  /\ remote[c] = "open"
  /\ stalled' = stalled \cup {c}
  /\ UNCHANGED <<sockVars, threadVars, remote, closeWakes>>

=============================================================================
