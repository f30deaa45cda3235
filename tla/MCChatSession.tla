---------------------------- MODULE MCChatSession ----------------------------
(***************************************************************************)
(* Small instances of ChatSession for TLC.                                 *)
(***************************************************************************)
EXTENDS ChatSession, TLC

Frame(type) == [type |-> type, ok |-> TRUE]
BadFrame(type) == [type |-> type, ok |-> FALSE]

\* Every kind of frame that a handler tells apart.
AllFrames ==
  {Frame(t) : t \in FrameTypes \ {"AUTH_OK", "AUTH_FAIL"}}
    \cup {BadFrame(t) : t \in {"HELLO", "AUTH_RESPONSE", "CHAT_MESSAGE"}}

\* One frame for every way in which a receive thread goes on; with the empty
\* connId the other handlers do what that of DISCONNECT does.
OpenFrames ==
  {Frame(t) : t \in {"HELLO", "CHAT_MESSAGE", "DISCONNECT", "PONG", "INVALID"}}

\* The frames of an open session.
ChatFrames == {Frame("HELLO"), Frame("CHAT_MESSAGE")}

\* A frame for whose handler connMutex_ is needed.
OnlyPing == {Frame("PING")}

Symmetry == Permutations(Conns)

=============================================================================
