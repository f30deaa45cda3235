-------------------------- MODULE FrameReaderProofs --------------------------
(***************************************************************************)
(* Proofs about FrameReader, for every header size, payload limit and      *)
(* chunk size and for every set of streams.                                *)
(***************************************************************************)
EXTENDS FrameReader, SequenceTheorems, TLAPS

\* The numbers that describe the stream being read.
LEMMA StreamFacts ==
  ASSUME TypeOK
  PROVE  /\ HeaderSize \in Nat /\ HeaderSize > 0
         /\ wire.n \in Nat
         /\ wire.end[0] = 0
         /\ \A i \in 0 .. wire.n : wire.end[i] \in Nat
         /\ \A i \in 1 .. wire.n : wire.len[i] \in Nat
         /\ \A i \in 1 .. wire.n :
              wire.end[i] = wire.end[i - 1] + HeaderSize + wire.len[i]
         /\ \A i, j \in 0 .. wire.n : i < j => wire.end[i] < wire.end[j]
<1>1. IsStream(wire)
  BY ReaderAssumption DEF TypeOK
<1>2. HeaderSize \in Nat /\ HeaderSize > 0
  BY ReaderAssumption
<1> QED
  BY <1>1, <1>2 DEF IsStream

\* The only header at the end of frame d is the one of frame d + 1.
LEMMA NextHeader ==
  ASSUME TypeOK, NEW d \in 0 .. wire.n, NEW i \in HeadersAt(wire.end[d])
  PROVE  i = d + 1
<1>1. i \in 1 .. wire.n /\ wire.end[i - 1] = wire.end[d]
  BY DEF HeadersAt
<1>2. i - 1 \in 0 .. wire.n
  BY <1>1, StreamFacts
<1>3. ~(i - 1 < d) /\ ~(d < i - 1)
  BY <1>1, <1>2, StreamFacts
<1> QED
  BY <1>1, <1>3, StreamFacts

-----------------------------------------------------------------------------
(* The inductive invariant.                                                *)

\* Every step keeps the types.
LEMMA TypeStep == TypeOK /\ SyncInv /\ [Next]_vars => TypeOK'
<1> SUFFICES ASSUME TypeOK, SyncInv, [Next]_vars PROVE TypeOK'
  OBVIOUS
<1> USE DEF TypeOK
<1>1. ASSUME NEW k \in 1 .. MaxChunk, Feed(k) PROVE TypeOK'
  BY <1>1, ReaderAssumption DEF Feed
<1>2. CASE ReadHeader
  <2>1. pending' \in Nat
    BY <1>2, StreamFacts DEF ReadHeader, HeadersAt
  <2> QED
    BY <1>2, <2>1, StreamFacts DEF ReadHeader
<1>3. CASE Throw
  BY <1>3 DEF Throw
<1>4. CASE ReadPayload
  <2>1. pending \in 1 .. wire.n
    BY <1>4, StreamFacts DEF ReadPayload, SyncInv, Decoded
  <2>2. completeFrames' \in Seq(OutFrame)
    BY <1>4, AppendProperties DEF ReadPayload, OutFrame
  <2> QED
    BY <1>4, <2>1, <2>2, StreamFacts DEF ReadPayload
<1>5. CASE Return
  BY <1>5 DEF Return
<1>6. CASE UNCHANGED vars
  BY <1>6 DEF vars
<1> QED
  BY <1>1, <1>2, <1>3, <1>4, <1>5, <1>6 DEF Next

\* Every step keeps the reader in step with the stream.
LEMMA SyncStep == TypeOK /\ SyncInv /\ [Next]_vars => SyncInv'
<1> SUFFICES ASSUME TypeOK, SyncInv, [Next]_vars PROVE SyncInv'
  OBVIOUS
<1> DEFINE d == Len(Decoded)
<1>1. Decoded \in Seq(OutFrame) /\ d \in 0 .. wire.n
  BY StreamFacts DEF TypeOK, Decoded, SyncInv
<1>2. ASSUME NEW k \in 1 .. MaxChunk, Feed(k) PROVE SyncInv'
  BY <1>1, <1>2, StreamFacts, ReaderAssumption
     DEF Feed, SyncInv, TypeOK, Decoded, Written, Acceptable, NothingHeldBack,
         ThrowsAtBadHeader
<1>3. CASE ReadHeader
  <2>1. pending' = d + 1 /\ pending' \in 1 .. wire.n /\ Acceptable(wire, d + 1)
    BY <1>1, <1>3, NextHeader DEF ReadHeader, SyncInv, HeadersAt
  <2>2. UNCHANGED Decoded
    BY <1>3 DEF ReadHeader, Decoded
  <2> QED
    BY <1>1, <1>3, <2>1, <2>2, StreamFacts
       DEF ReadHeader, SyncInv, TypeOK, Written, Acceptable, NothingHeldBack,
           ThrowsAtBadHeader, Buffered
<1>4. CASE Throw
  <2>1. d < wire.n
    BY <1>1, <1>4, StreamFacts DEF Throw, SyncInv, Buffered, TypeOK
  <2>2. d + 1 \in HeadersAt(consumed)
    BY <1>1, <1>4, <2>1, StreamFacts DEF Throw, SyncInv, HeadersAt
  <2>3. ~Acceptable(wire, d + 1)
    BY <1>4, <2>2 DEF Throw
  <2>4. UNCHANGED <<Decoded, wire, fed, consumed, state, pending>>
    BY <1>4 DEF Throw, Decoded
  <2>5. ThrowsAtBadHeader'
    BY <1>1, <1>4, <2>1, <2>3, <2>4, StreamFacts
       DEF Throw, SyncInv, ThrowsAtBadHeader, Decoded, Buffered, TypeOK, Acceptable
  <2> QED
    BY <1>4, <2>4, <2>5
       DEF Throw, SyncInv, Written, Acceptable, NothingHeldBack
<1>5. CASE ReadPayload
  <2>1. pending = d + 1 /\ pending \in 1 .. wire.n /\ Acceptable(wire, pending)
    BY <1>1, <1>5, StreamFacts DEF ReadPayload, SyncInv
  <2>2. Decoded' = Append(Decoded, Written(d + 1))
    <3> DEFINE f == [header |-> pending, payloadAt |-> consumed]
    <3>1. f = Written(d + 1)
      BY <1>1, <1>5, <2>1 DEF ReadPayload, SyncInv, Written
    <3>2. f \in OutFrame
      BY DEF OutFrame, TypeOK
    <3>3. Decoded' = delivered \o Append(completeFrames, f)
      BY <1>5 DEF ReadPayload, Decoded
    <3>4. delivered \o Append(completeFrames, f) = Append(Decoded, f)
      <4> HIDE DEF f
      <4>1. <<f>> \in Seq(OutFrame)
        BY <3>2
      <4>2. Append(completeFrames, f) = completeFrames \o <<f>>
        BY <3>2, AppendIsConcat DEF TypeOK
      <4>3. Append(Decoded, f) = Decoded \o <<f>>
        BY <1>1, <3>2, AppendIsConcat
      <4> QED
        BY <4>1, <4>2, <4>3, ConcatAssociative DEF TypeOK, Decoded
    <3> QED
      BY <3>1, <3>3, <3>4
  <2>3. Len(Decoded') = d + 1
    BY <1>1, <2>2
  <2>4. \A i \in 1 .. Len(Decoded') :
          Decoded'[i] = Written(i) /\ Acceptable(wire, i)
    BY <1>1, <2>1, <2>2, <2>3 DEF SyncInv
  <2>5. consumed' = wire.end[d + 1] /\ consumed' <= fed
    <3>1. wire.end[d + 1] = wire.end[d] + HeaderSize + wire.len[d + 1]
      BY <1>1, <2>1, StreamFacts
    <3>2. wire.end[d] \in Nat /\ wire.len[d + 1] \in Nat
      BY <1>1, <2>1, StreamFacts
    <3>3. /\ consumed = wire.end[d] + HeaderSize
          /\ consumed' = consumed + wire.len[d + 1]
          /\ fed - consumed >= wire.len[d + 1]
      BY <1>5, <2>1 DEF ReadPayload, SyncInv, Buffered
    <3>4. HeaderSize \in Nat /\ consumed \in Nat /\ fed \in Nat
      BY ReaderAssumption DEF TypeOK
    <3> QED
      BY <3>1, <3>2, <3>3, <3>4
  <2> QED
    BY <1>1, <1>5, <2>1, <2>3, <2>4, <2>5, StreamFacts
       DEF ReadPayload, SyncInv, NothingHeldBack, ThrowsAtBadHeader, Written,
           Acceptable
<1>6. CASE Return
  <2>1. UNCHANGED <<Decoded, wire, fed, consumed, state, pending>>
    BY <1>6 DEF Return, Decoded, TypeOK
  <2>2. delivered' = Decoded
    BY <1>6 DEF Return, Decoded
  <2>3. NothingHeldBack'
    <3>1. wire.end[d] \in Nat /\ wire.end[d] <= fed
      BY <1>1, <1>6, StreamFacts DEF Return, SyncInv, TypeOK
    <3>2. ASSUME d < wire.n PROVE fed < wire.end[d + 1]
      <4>1. /\ wire.end[d + 1] = wire.end[d] + HeaderSize + wire.len[d + 1]
            /\ wire.len[d + 1] \in Nat
        BY <1>1, <3>2, StreamFacts
      <4>2. HeaderSize \in Nat /\ consumed \in Nat /\ fed \in Nat
        BY ReaderAssumption DEF TypeOK
      <4>3. CASE state = "READING_HEADER"
        <5>1. consumed = wire.end[d] /\ fed - consumed < HeaderSize
          BY <1>6, <4>3 DEF Return, SyncInv, Buffered
        <5>2. fed < wire.end[d] + HeaderSize
          BY <3>1, <4>2, <5>1
        <5> QED
          BY <3>1, <4>1, <4>2, <5>2
      <4>4. CASE state = "READING_PAYLOAD"
        <5>1. /\ consumed = wire.end[d] + HeaderSize
              /\ fed - consumed < wire.len[d + 1]
          BY <1>6, <4>4 DEF Return, SyncInv, Buffered
        <5> QED
          BY <3>1, <4>1, <4>2, <5>1
      <4> QED
        BY <4>3, <4>4 DEF TypeOK
    <3> QED
      BY <2>1, <2>2, <3>1, <3>2 DEF NothingHeldBack
  <2> QED
    BY <1>6, <2>1, <2>3
       DEF Return, SyncInv, ThrowsAtBadHeader, Written, Acceptable
<1>7. CASE UNCHANGED vars
  BY <1>7 DEF vars, SyncInv, Decoded, Written, Acceptable, NothingHeldBack,
       ThrowsAtBadHeader
<1> QED
  BY <1>2, <1>3, <1>4, <1>5, <1>6, <1>7 DEF Next

\* The initial state satisfies both.
LEMMA InitSync == Init => TypeOK /\ SyncInv
<1> SUFFICES ASSUME Init PROVE TypeOK /\ SyncInv
  OBVIOUS
<1>1. TypeOK
  BY DEF Init, TypeOK
<1>2. Decoded = <<>> /\ Len(Decoded) = 0
  BY DEF Init, Decoded
<1>3. wire.end[wire.n] >= 0 /\ (0 < wire.n => 0 < wire.end[1])
  BY <1>1, StreamFacts
<1>4. NothingHeldBack
  BY <1>1, <1>3, StreamFacts DEF Init, NothingHeldBack
<1> QED
  BY <1>1, <1>2, <1>3, <1>4, StreamFacts DEF Init, SyncInv, ThrowsAtBadHeader

\* The inductive invariant holds throughout.
THEOREM Synchronised == Spec => [](TypeOK /\ SyncInv)
<1>1. TypeOK /\ SyncInv /\ [Next]_vars => (TypeOK /\ SyncInv)'
  BY TypeStep, SyncStep
<1> QED
  BY <1>1, InitSync, PTL DEF Spec

-----------------------------------------------------------------------------
(* The theorems.                                                           *)

\* feed() returns exactly what the peer wrote.
THEOREM Exactness == Spec => []DecodesExactly
<1>1. TypeOK /\ SyncInv => DecodesExactly
  BY StreamFacts DEF TypeOK, SyncInv, Decoded, DecodesExactly
<1> QED
  BY <1>1, Synchronised, PTL

\* What feed() has returned depends only on how many bytes it was passed.
THEOREM Promptness == Spec => []NothingHeldBack
<1>1. TypeOK /\ SyncInv => NothingHeldBack
  BY DEF SyncInv
<1> QED
  BY <1>1, Synchronised, PTL

\* feed() throws at the first unacceptable header and nowhere else.
THEOREM ThrowsPrecisely == Spec => []ThrowsAtBadHeader
<1>1. TypeOK /\ SyncInv => ThrowsAtBadHeader
  BY DEF SyncInv
<1> QED
  BY <1>1, Synchronised, PTL

\* Every step of the reader is a step of FrameStream or a stutter.
LEMMA StreamStep ==
  ASSUME TypeOK, SyncInv, TypeOK', SyncInv', [Next]_vars
  PROVE  [Stream!StreamNext]_(Stream!streamVars)
<1> USE DEF Stream!StreamNext, Stream!streamVars
<1>1. ASSUME NEW k \in 1 .. MaxChunk, Feed(k)
      PROVE  UNCHANGED Stream!streamVars
  BY <1>1 DEF Feed
<1>2. CASE ReadHeader \/ ReadPayload
  BY <1>2 DEF ReadHeader, ReadPayload
<1>3. CASE Throw
  <2>1. /\ Len(Decoded) + 1 \in 1 .. wire.n
        /\ ~Acceptable(wire, Len(Decoded) + 1)
    BY <1>3, StreamFacts
       DEF Throw, SyncInv, ThrowsAtBadHeader, Decoded, TypeOK, Acceptable
  <2>2. Len(Decoded) + 1 \in (Len(delivered) + 1) .. wire.n
    BY <2>1, ConcatProperties DEF Decoded, TypeOK
  <2>3. pc = "loop" /\ pc' = "thrown" /\ UNCHANGED <<wire, delivered>>
    BY <1>3 DEF Throw
  <2> QED
    BY <2>1, <2>2, <2>3 DEF Stream!Break
<1>4. CASE Return
  <2>1. pc = "loop" /\ pc' = "idle" /\ delivered' = Decoded /\ wire' = wire
    BY <1>4 DEF Return, Decoded
  <2>2. Len(Decoded) \in Len(delivered) .. wire.n
    BY StreamFacts, ConcatProperties DEF Decoded, TypeOK, SyncInv
  <2>3. \A i \in (Len(delivered) + 1) .. Len(Decoded) : Acceptable(wire, i)
    BY <2>2, StreamFacts DEF SyncInv, TypeOK
  <2> QED
    BY <2>1, <2>2, <2>3 DEF Stream!Deliver
<1>5. CASE UNCHANGED vars
  BY <1>5 DEF vars
<1> QED
  BY <1>1, <1>2, <1>3, <1>4, <1>5 DEF Next

\* FrameReader implements FrameStream.
THEOREM Refinement == Spec => ImplementsStream
<1>1. Init => Stream!StreamInit
  BY DEF Init, Stream!StreamInit
<1>2. TypeOK /\ SyncInv /\ (TypeOK /\ SyncInv)' /\ [Next]_vars
        => [Stream!StreamNext]_(Stream!streamVars)
  BY StreamStep
<1> QED
  BY <1>1, <1>2, Synchronised, PTL DEF Spec, ImplementsStream, Stream!StreamSpec

=============================================================================
