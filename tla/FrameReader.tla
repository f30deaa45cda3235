----------------------------- MODULE FrameReader -----------------------------
(***************************************************************************)
(* Class FrameReader (src/network/protocol.cpp): decodes the byte stream   *)
(* of one TCP connection, which arrives in arbitrary chunks, into frames.  *)
(*                                                                         *)
(* A stream is a record: n frames; `good`, whether a frame's header has    *)
(* the right magic and version; `len`, its payload length; `end`, the      *)
(* position in the stream where it ends (end[0] = 0).  The bytes in        *)
(* buffer_ are those between `consumed` and `fed`, so that the buffer's    *)
(* contents need no variable of their own.  A frame that comes out is      *)
(* described by the header it carries and by the place of its payload.     *)
(***************************************************************************)
EXTENDS Integers, Sequences

CONSTANTS
  HeaderSize,    \* kFrameHeaderSize
  MaxPayload,    \* maxPayloadSize_
  MaxChunk,      \* the size of recvLoop's buffer
  Wires          \* the streams that a peer may write

\* The last conjunct follows from the one before by induction.
IsStream(w) ==
  /\ w.n \in Nat
  /\ w.good \in [1 .. w.n -> BOOLEAN]
  /\ w.len \in [1 .. w.n -> Nat]
  /\ w.end \in [0 .. w.n -> Nat]
  /\ w.end[0] = 0
  /\ \A i \in 1 .. w.n : w.end[i] = w.end[i - 1] + HeaderSize + w.len[i]
  /\ \A i, j \in 0 .. w.n : i < j => w.end[i] < w.end[j]

ASSUME ReaderAssumption ==
  /\ HeaderSize \in Nat \ {0}
  /\ MaxPayload \in Nat
  /\ MaxChunk \in Nat
  /\ \A w \in Wires : IsStream(w)

VARIABLES
  wire,            \* the stream the peer writes
  fed,             \* how many of its bytes were passed to feed()
  consumed,        \* how many of them were erased from buffer_
  state,           \* state_
  pending,         \* the frame whose header is in pendingHeader_
  completeFrames,  \* feed()'s local vector
  delivered,       \* the frames that feed() has returned so far
  pc               \* outside feed(), in its loop, or after it threw

vars == <<wire, fed, consumed, state, pending, completeFrames, delivered, pc>>

OutFrame == [header : Nat, payloadAt : Nat]

\* Type invariant.
TypeOK ==
  /\ wire \in Wires
  /\ fed \in Nat
  /\ consumed \in Nat
  /\ state \in {"READING_HEADER", "READING_PAYLOAD"}
  /\ pending \in Nat
  /\ completeFrames \in Seq(OutFrame)
  /\ delivered \in Seq(OutFrame)
  /\ pc \in {"idle", "loop", "thrown"}

Init ==
  /\ wire \in Wires
  /\ fed = 0
  /\ consumed = 0
  /\ state = "READING_HEADER"
  /\ pending = 0
  /\ completeFrames = <<>>
  /\ delivered = <<>>
  /\ pc = "idle"

-----------------------------------------------------------------------------
Buffered == fed - consumed

\* The frames whose header starts at a position; there is at most one, and
\* none if the position is not the boundary of a frame.
HeadersAt(pos) == {i \in 1 .. wire.n : wire.end[i - 1] = pos}

\* deserialize() succeeds and the payload is not too large.
Acceptable(w, i) == w.good[i] /\ w.len[i] <= MaxPayload

\* recv() returned k bytes and recvLoop passes them to feed().
Feed(k) ==
  /\ pc = "idle"
  /\ fed + k <= wire.end[wire.n]
  /\ fed' = fed + k
  /\ pc' = "loop"
  /\ UNCHANGED <<wire, consumed, state, pending, completeFrames, delivered>>

\* Mutant of ReadHeader: neither magic, version nor length is checked.
ReadHeaderUnchecked ==
  /\ pc = "loop"
  /\ state = "READING_HEADER"
  /\ Buffered >= HeaderSize
  /\ \E i \in HeadersAt(consumed) : pending' = i
  /\ consumed' = consumed + HeaderSize
  /\ state' = "READING_PAYLOAD"
  /\ UNCHANGED <<wire, fed, completeFrames, delivered, pc>>

\* Mutant of ReadHeader: the header is not erased from the buffer.
ReadHeaderKeepsBytes ==
  /\ pc = "loop"
  /\ state = "READING_HEADER"
  /\ Buffered >= HeaderSize
  /\ \E i \in HeadersAt(consumed) : Acceptable(wire, i) /\ pending' = i
  /\ state' = "READING_PAYLOAD"
  /\ UNCHANGED <<wire, fed, consumed, completeFrames, delivered, pc>>

ReadHeader ==
  /\ pc = "loop"
  /\ state = "READING_HEADER"
  /\ Buffered >= HeaderSize
  /\ \E i \in HeadersAt(consumed) : Acceptable(wire, i) /\ pending' = i
  /\ consumed' = consumed + HeaderSize
  /\ state' = "READING_PAYLOAD"
  /\ UNCHANGED <<wire, fed, completeFrames, delivered, pc>>

\* feed() throws and the vector of complete frames is lost with it; recvLoop
\* leaves its loop and the reader is not used again.
Throw ==
  /\ pc = "loop"
  /\ state = "READING_HEADER"
  /\ Buffered >= HeaderSize
  /\ \A i \in HeadersAt(consumed) : ~Acceptable(wire, i)
  /\ pc' = "thrown"
  /\ UNCHANGED <<wire, fed, consumed, state, pending, completeFrames, delivered>>

ReadPayload ==
  /\ pc = "loop"
  /\ state = "READING_PAYLOAD"
  /\ Buffered >= wire.len[pending]
  /\ completeFrames' =
       Append(completeFrames, [header |-> pending, payloadAt |-> consumed])
  /\ consumed' = consumed + wire.len[pending]
  /\ state' = "READING_HEADER"
  /\ UNCHANGED <<wire, fed, pending, delivered, pc>>

\* Mutant of Return: `<=` for `<`.
ReturnEarly ==
  /\ pc = "loop"
  /\ \/ state = "READING_HEADER" /\ Buffered < HeaderSize
     \/ state = "READING_PAYLOAD" /\ Buffered <= wire.len[pending]
  /\ delivered' = delivered \o completeFrames
  /\ completeFrames' = <<>>
  /\ pc' = "idle"
  /\ UNCHANGED <<wire, fed, consumed, state, pending>>

\* Mutant of Return: the break in READING_PAYLOAD is missing.
ReturnBeforeHeader ==
  /\ pc = "loop"
  /\ state = "READING_HEADER"
  /\ Buffered < HeaderSize
  /\ delivered' = delivered \o completeFrames
  /\ completeFrames' = <<>>
  /\ pc' = "idle"
  /\ UNCHANGED <<wire, fed, consumed, state, pending>>

\* The buffer is too short for what comes next: feed() returns.
Return ==
  /\ pc = "loop"
  /\ \/ state = "READING_HEADER" /\ Buffered < HeaderSize
     \/ state = "READING_PAYLOAD" /\ Buffered < wire.len[pending]
  /\ delivered' = delivered \o completeFrames
  /\ completeFrames' = <<>>
  /\ pc' = "idle"
  /\ UNCHANGED <<wire, fed, consumed, state, pending>>

Next ==
  \/ \E k \in 1 .. MaxChunk : Feed(k)
  \/ ReadHeader
  \/ Throw
  \/ ReadPayload
  \/ Return

Spec == Init /\ [][Next]_vars

\* The receive thread is scheduled; the peer need not send anything.
FairSpec == Spec /\ WF_vars(ReadHeader \/ Throw \/ ReadPayload \/ Return)

-----------------------------------------------------------------------------
(* Properties.                                                             *)

\* Frame i as the peer wrote it.
Written(i) ==
  [header |-> i, payloadAt |-> wire.end[i - 1] + HeaderSize]

\* feed() returns the frames that the peer wrote, in order, none twice and
\* none left out, each with its own payload, however the bytes were cut up.
DecodesExactly ==
  \A i \in 1 .. Len(delivered) : i <= wire.n /\ delivered[i] = Written(i)

\* When feed() has returned, exactly the frames that are complete in the
\* bytes passed so far were delivered: no frame waits for more bytes than its
\* own, whatever the chunks.
NothingHeldBack ==
  pc = "idle" =>
    LET d == Len(delivered)
    IN  /\ wire.end[d] <= fed
        /\ d < wire.n => fed < wire.end[d + 1]

\* feed() throws only on the header of an unacceptable frame, as soon as that
\* header is complete, and only after all frames before it were decoded.
ThrowsAtBadHeader ==
  pc = "thrown" =>
    LET b == Len(delivered \o completeFrames) + 1
    IN  /\ b <= wire.n
        /\ ~Acceptable(wire, b)
        /\ wire.end[b - 1] + HeaderSize <= fed

\* feed()'s `while (true)` ends, also on empty payloads and on an empty
\* buffer.
FeedTerminates == pc = "loop" ~> pc # "loop"

\* The framing layer implements FrameStream.
Stream == INSTANCE FrameStream WITH got <- Len(delivered),
                                    broken <- (pc = "thrown")

ImplementsStream == Stream!StreamSpec

-----------------------------------------------------------------------------
(* The inductive invariant.                                                *)

\* The frames completed so far, returned or not.
Decoded == delivered \o completeFrames

\* The position in the stream is the end of the last frame completed, or the
\* end of the header after it.
SyncInv ==
  /\ Len(Decoded) <= wire.n
  /\ \A i \in 1 .. Len(Decoded) : Decoded[i] = Written(i) /\ Acceptable(wire, i)
  /\ consumed <= fed
  /\ fed <= wire.end[wire.n]
  /\ state = "READING_HEADER" => consumed = wire.end[Len(Decoded)]
  /\ state = "READING_PAYLOAD" =>
       /\ pending = Len(Decoded) + 1
       /\ pending <= wire.n
       /\ Acceptable(wire, pending)
       /\ consumed = wire.end[Len(Decoded)] + HeaderSize
  /\ pc = "idle" => completeFrames = <<>>
  /\ NothingHeldBack
  /\ ThrowsAtBadHeader

=============================================================================
