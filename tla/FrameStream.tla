----------------------------- MODULE FrameStream -----------------------------
(***************************************************************************)
(* What the framing layer promises to its user: the frames that the peer   *)
(* wrote come out in order, each once, as many at a time as the network    *)
(* likes, until the stream is broken off before a frame that is not        *)
(* acceptable.  Chunks, buffers and headers do not appear here.            *)
(***************************************************************************)
EXTENDS Integers

CONSTANTS Wires,          \* the streams a peer may write
          Acceptable(_, _)  \* whether frame i of a stream may be delivered

VARIABLES wire,    \* the stream
          got,     \* how many of its frames were delivered
          broken   \* whether the stream was broken off

streamVars == <<wire, got, broken>>

StreamInit ==
  /\ wire \in Wires
  /\ got = 0
  /\ broken = FALSE

\* Some frames, possibly none, come out together.
Deliver ==
  /\ ~broken
  /\ got' \in got .. wire.n
  /\ \A i \in (got + 1) .. got' : Acceptable(wire, i)
  /\ UNCHANGED <<wire, broken>>

Break ==
  /\ ~broken
  /\ \E i \in (got + 1) .. wire.n : ~Acceptable(wire, i)
  /\ broken' = TRUE
  /\ UNCHANGED <<wire, got>>

StreamNext == Deliver \/ Break

StreamSpec == StreamInit /\ [][StreamNext]_streamVars

=============================================================================
