------------------------------ MODULE TcpServer ------------------------------
(***************************************************************************)
(* Class TcpServer (src/network/tcp_server.cpp): the accept thread and the *)
(* thread that calls start() and stop().  The detached thread that the     *)
(* accept thread starts for every client belongs to module Application,    *)
(* which supplies the callback that it runs.                               *)
(*                                                                         *)
(* The operating system is modelled by what the code sees of it: a listen  *)
(* queue, and an accept() that blocks, returns a client, is interrupted or *)
(* fails.  On Linux close() neither wakes an accept() blocked on the same  *)
(* socket nor ends the listening before that call has returned.            *)
(***************************************************************************)
EXTENDS Naturals

CONSTANTS
  Clients,        \* the clients that may ever connect
  Platforms,      \* where the program may run
  MaxInterrupts,  \* bound: how often accept() fails with EINTR
  MaxErrors       \* bound: how often accept() fails otherwise

ASSUME ServerAssumption ==
  /\ Platforms \subseteq {"linux", "windows"}
  /\ MaxInterrupts \in Nat
  /\ MaxErrors \in Nat

VARIABLES
  platform,      \* where the program runs: never changes
  running,       \* running_
  listening,     \* whether listenSocket_ has a valid handle
  backlog,       \* the clients in the listen queue
  acceptPc,      \* where the accept thread is
  client,        \* the clients that accept() has just returned: none or one
  accepted,      \* history: all the clients that accept() has returned
  handedOver,    \* the clients for which a detached thread was started
  turnedAway,    \* the clients that acceptLoop closed
  serverPc,      \* how far start() and stop() have come
  interrupts, errors  \* how often accept() failed

ownerVars == <<running, listening, serverPc>>
clientVars == <<client, accepted, handedOver, turnedAway>>
faultVars == <<interrupts, errors>>
acceptVars == <<acceptPc, clientVars, faultVars>>
serverVars == <<platform, ownerVars, backlog, acceptVars>>

AcceptPcs == {"none", "loop", "call", "accept", "test", "spawn", "refuse",
              "exited"}
ServerPcs == {"start", "failed", "serving", "close", "join", "stopped"}

ServerTypeOK ==
  /\ platform \in Platforms
  /\ running \in BOOLEAN
  /\ listening \in BOOLEAN
  /\ backlog \subseteq Clients
  /\ acceptPc \in AcceptPcs
  /\ client \subseteq Clients
  /\ accepted \subseteq Clients
  /\ handedOver \subseteq Clients
  /\ turnedAway \subseteq Clients
  /\ serverPc \in ServerPcs
  /\ interrupts \in 0 .. MaxInterrupts
  /\ errors \in 0 .. MaxErrors

ServerInit ==
  /\ platform \in Platforms
  /\ running = FALSE
  /\ listening = FALSE
  /\ backlog = {}
  /\ acceptPc = "none"
  /\ client = {}
  /\ accepted = {}
  /\ handedOver = {}
  /\ turnedAway = {}
  /\ serverPc = "start"
  /\ interrupts = 0
  /\ errors = 0

-----------------------------------------------------------------------------
(* start() and stop().                                                     *)

\* accept() stays blocked on a socket that another thread closes.
CloseIgnored == acceptPc = "accept" /\ platform = "linux"

ServerGoto(from, to) ==
  /\ serverPc = from
  /\ serverPc' = to
  /\ UNCHANGED <<platform, clientVars, faultVars>>

\* socket, bind and listen succeed.
Start ==
  /\ ServerGoto("start", "serving")
  /\ listening' = TRUE
  /\ running' = TRUE
  /\ acceptPc' = "loop"
  /\ UNCHANGED backlog

\* One of them fails: the socket is closed again and start() returns false.
StartFails ==
  /\ ServerGoto("start", "failed")
  /\ UNCHANGED <<running, listening, backlog, acceptPc>>

StopClear ==
  /\ ServerGoto("serving", "close")
  /\ running' = FALSE
  /\ UNCHANGED <<listening, backlog, acceptPc>>

\* Mutant of StopClose: the listening socket stays open.
StopNoClose ==
  /\ ServerGoto("close", "join")
  /\ UNCHANGED <<running, listening, backlog, acceptPc>>

StopClose ==
  /\ ServerGoto("close", "join")
  /\ listening' = FALSE
  /\ backlog' = IF CloseIgnored THEN backlog ELSE {}
  /\ UNCHANGED <<running, acceptPc>>

StopJoin ==
  /\ ServerGoto("join", "stopped")
  /\ acceptPc = "exited"
  /\ UNCHANGED <<running, listening, backlog, acceptPc>>

-----------------------------------------------------------------------------
(* The accept thread: acceptLoop.                                          *)

AcceptGoto(from, to) ==
  /\ acceptPc = from
  /\ acceptPc' = to
  /\ UNCHANGED <<platform, ownerVars>>

LoopTest ==
  /\ AcceptGoto("loop", IF running THEN "call" ELSE "exited")
  /\ UNCHANGED <<backlog, clientVars, faultVars>>

\* accept() is entered and blocks, or fails at once on an invalid handle.
AcceptCall ==
  /\ AcceptGoto("call", IF listening THEN "accept" ELSE "exited")
  /\ UNCHANGED <<backlog, clientVars, faultVars>>

\* What is left of the listen queue when accept() returns.
QueueAfter(rest) == backlog' = IF listening THEN rest ELSE {}

Accepted(c) ==
  /\ c \in backlog
  /\ AcceptGoto("accept", "test")
  /\ client' = {c}
  /\ accepted' = accepted \cup {c}
  /\ QueueAfter(backlog \ {c})
  /\ UNCHANGED <<handedOver, turnedAway, faultVars>>

\* Mutant of AfterInterrupt: EINTR ends the loop.
InterruptBreaks == "exited"

\* EINTR: `continue`.
AfterInterrupt == "loop"

AcceptInterrupted ==
  /\ interrupts < MaxInterrupts
  /\ AcceptGoto("accept", AfterInterrupt)
  /\ interrupts' = interrupts + 1
  /\ QueueAfter(backlog)
  /\ UNCHANGED <<clientVars, errors>>

\* Mutant of AcceptError: kInvalidSocket is taken for a client.
ErrorUnchecked ==
  /\ errors < MaxErrors
  /\ AcceptGoto("accept", "test")
  /\ errors' = errors + 1
  /\ client' = {"kInvalidSocket"}
  /\ UNCHANGED <<backlog, accepted, handedOver, turnedAway, interrupts>>

\* Any other error ends the loop and leaves running_ as it is.
AcceptError ==
  /\ errors < MaxErrors
  /\ AcceptGoto("accept", "exited")
  /\ errors' = errors + 1
  /\ QueueAfter(backlog)
  /\ UNCHANGED <<clientVars, interrupts>>

\* The close wakes the blocked accept(), which fails.
AcceptClosed ==
  /\ ~listening /\ ~CloseIgnored
  /\ AcceptGoto("accept", "exited")
  /\ UNCHANGED <<backlog, clientVars, faultVars>>

\* Mutant of StillWanted: running_ is not looked at again.
AlwaysWanted == TRUE

\* running_ is looked at again before the client is handed over ...
StillWanted == running

SecondTest ==
  /\ AcceptGoto("test", IF StillWanted THEN "spawn" ELSE "refuse")
  /\ UNCHANGED <<backlog, clientVars, faultVars>>

\* ... to a detached thread ...
Spawn ==
  /\ AcceptGoto("spawn", "loop")
  /\ handedOver' = handedOver \cup client
  /\ client' = {}
  /\ UNCHANGED <<backlog, accepted, turnedAway, faultVars>>

\* Mutant of Refused: the socket is not closed.
RefuseLeaks == {}

\* ... or closed.
Refused == client

Refuse ==
  /\ AcceptGoto("refuse", "loop")
  /\ turnedAway' = turnedAway \cup Refused
  /\ client' = {}
  /\ UNCHANGED <<backlog, accepted, handedOver, faultVars>>

AcceptThread ==
  \/ LoopTest
  \/ AcceptCall
  \/ \E c \in Clients : Accepted(c)
  \/ AcceptClosed
  \/ SecondTest
  \/ Spawn
  \/ Refuse

-----------------------------------------------------------------------------
(* The clients.                                                            *)

\* The operating system completes connections also after close(), as long as
\* an accept() is blocked on the socket.
Connect(c) ==
  /\ listening \/ CloseIgnored
  /\ c \notin backlog \cup accepted
  /\ backlog' = backlog \cup {c}
  /\ UNCHANGED <<platform, ownerVars, acceptVars>>

\* What happens whoever owns the server.
ServerNext ==
  \/ AcceptThread
  \/ AcceptInterrupted
  \/ AcceptError
  \/ \E c \in Clients : Connect(c)

-----------------------------------------------------------------------------
(* Properties.                                                             *)

\* Every client that accept() returned is handed over or closed, never both
\* and never neither: no socket leaks, also when stop() runs between accept()
\* and the second look at running_.
NoClientLost ==
  /\ accepted = client \cup handedOver \cup turnedAway
  /\ handedOver \cap turnedAway = {}
  /\ client \cap (handedOver \cup turnedAway) = {}
  /\ serverPc = "stopped" => client = {}

\* At most the one client whose thread acceptLoop was about to start is handed
\* over after stop() has cleared running_, and none after stop() returned.
StopIsSharp ==
  [][/\ ~running /\ acceptPc # "spawn" =>
          acceptPc' # "spawn" /\ handedOver' = handedOver
     /\ serverPc = "stopped" => UNCHANGED <<handedOver, turnedAway>>]_serverVars

\* stop() returns, unless on Linux the accept thread stays blocked for ever:
\* the next client to connect frees it.
ServerStopReturns ==
  serverPc = "close" ~> (serverPc = "stopped" \/ [](CloseIgnored /\ backlog = {}))

\* A client in the listen queue is taken from it while the server runs, also
\* after an interrupted accept().  After any other error nobody is ever served
\* again, although running_ stays true.
ClientsAreServed ==
  \A c \in Clients :
    c \in backlog ~> c \notin backlog \/ ~running \/ errors > 0

=============================================================================
