-------------------------- MODULE ConversionsProofs --------------------------
(***************************************************************************)
(* What comes out of the conversions, for every text, every command line,  *)
(* every sequence of recv() and every header: TLC tries short ones.        *)
(*                                                                         *)
(*   1  recursion over positions       4  the command line                 *)
(*   2  the frame header               5  JSON                             *)
(*   3  the rate limit                 6  the theorems                     *)
(*                                                                         *)
(* The recursive functions of the model are reached through the lemmas of  *)
(* part 1: a definition from one position to the next has a solution, and  *)
(* only one, which is then found step by step.                             *)
(***************************************************************************)
EXTENDS Conversions, SequenceTheorems, FiniteSetTheorems, WellFoundedInduction, TLAPS

-----------------------------------------------------------------------------
(* 1. Recursion over positions.                                            *)

(* What holds for 0 and, whenever it holds for n, for n + 1 holds for every n. *)
LEMMA SetInduction ==
  ASSUME NEW S \in SUBSET Nat, 0 \in S, \A n \in S : n + 1 \in S
  PROVE  S = Nat
<1> SUFFICES ASSUME Nat \ S # {} PROVE FALSE
  OBVIOUS
<1> DEFINE T == Nat \ S
<1>1. PICK x \in T : \A y \in T : ~(<<y, x>> \in OpToRel(<, Nat))
  <2> HIDE DEF T
  <2>1. T \subseteq Nat /\ T # {}
    BY DEF T
  <2> QED
  BY <2>1, NatLessThanWellFounded, WFMin, Zenon
<1>2. x # 0 /\ x \in Nat
  OBVIOUS
<1>3. x - 1 \in T
  BY <1>2, SMT
<1>4. <<x-1, x>> \in OpToRel(<, Nat)
  BY <1>2, SMT DEF OpToRel
<1> QED
  BY <1>1, <1>3, <1>4

(* f goes from first by the steps, one after the other. *)
Runs(f, N, first, step) == f[0] = first /\ \A n \in 1 .. N : f[n] = step[n][f[n - 1]]

(* A loop over 1 .. N that takes its state from one round to the next has a *)
(* run.                                                                     *)
LEMMA Recursion ==
  ASSUME NEW N \in Nat, NEW S, NEW first \in S, NEW step \in [1 .. N -> [S -> S]]
  PROVE  \E f \in [0 .. N -> S] : Runs(f, N, first, step)
<1> DEFINE Upto(n) == \E f \in [0 .. n -> S] : Runs(f, n, first, step)
           T == {n \in Nat : n <= N => Upto(n)}
<1> USE DEF Runs
<1>1. 0 \in T
  <2> DEFINE g == [n \in 0 .. 0 |-> first]
  <2>1. g \in [0 .. 0 -> S] /\ g[0] = first
    OBVIOUS
  <2>2. \A k \in 1 .. 0 : g[k] = step[k][g[k-1]]
    OBVIOUS
  <2> QED BY <2>1, <2>2
<1>2. ASSUME NEW n \in T PROVE n + 1 \in T
  <2> SUFFICES ASSUME n + 1 <= N PROVE Upto(n + 1)
    OBVIOUS
  <2>1. n \in Nat /\ n <= N
    OBVIOUS
  <2>2. PICK f \in [0 .. n -> S] : f[0] = first /\ \A k \in 1 .. n : f[k] = step[k][f[k-1]]
    BY <2>1
  <2> DEFINE g == [k \in 0 .. n + 1 |-> IF k = n + 1 THEN step[k][f[n]] ELSE f[k]]
  <2>3. step[n + 1] \in [S -> S] /\ f[n] \in S
    BY <2>1
  <2>4. g \in [0 .. n + 1 -> S]
    BY <2>1, <2>3
  <2>5. g[0] = first
    BY <2>1, <2>2
  <2>6. ASSUME NEW k \in 1 .. n + 1 PROVE g[k] = step[k][g[k-1]]
    <3>1. CASE k = n + 1
      BY <3>1, <2>1
    <3>2. CASE k # n + 1
      BY <3>2, <2>1, <2>2
    <3> QED BY <3>1, <3>2
  <2> QED BY <2>4, <2>5, <2>6
<1>3. T = Nat
  <2> T \in SUBSET Nat OBVIOUS
  <2> HIDE DEF T
  <2> QED
  BY <1>1, <1>2, SetInduction
<1> QED BY <1>3

(* What holds at the two positions after the last one and, wherever it holds *)
(* at the next two positions, holds at every position.                      *)
LEMMA BackwardInduction ==
  ASSUME NEW N \in Nat, NEW T, N + 1 \in T, N + 2 \in T,
         \A i \in 1 .. N : i + 1 \in T /\ i + 2 \in T => i \in T
  PROVE  \A i \in 1 .. N + 2 : i \in T
<1>. DEFINE D == {d \in Nat : d <= N => (N + 1) - d \in T /\ (N + 2) - d \in T}
<1>1. 0 \in D
  BY SMT
<1>2. ASSUME NEW d \in D
      PROVE  d + 1 \in D
  <2>1. SUFFICES ASSUME d + 1 <= N
                 PROVE  (N + 1) - (d + 1) \in T /\ (N + 2) - (d + 1) \in T
    BY SMT
  <2>. DEFINE i == N - d
  <2>2. i \in 1 .. N /\ d \in Nat /\ d <= N
    BY <2>1, SMT
  <2>3. /\ (N + 1) - (d + 1) = i /\ (N + 2) - (d + 1) = i + 1
        /\ (N + 1) - d = i + 1 /\ (N + 2) - d = i + 2
    BY <2>1, SMT
  <2>4. i + 1 \in T /\ i + 2 \in T
    BY <2>2, <2>3
  <2>. HIDE DEF i
  <2> QED
    BY <2>2, <2>3, <2>4
<1>3. D = Nat
  <2>1. D \in SUBSET Nat
    OBVIOUS
  <2>. HIDE DEF D
  <2> QED
    BY <1>1, <1>2, <2>1, SetInduction
<1>4. ASSUME NEW i \in 1 .. N + 2
      PROVE  i \in T
  <2>1. CASE i = N + 2
    BY <2>1
  <2>2. CASE i # N + 2
    <3>. DEFINE d == (N + 1) - i
    <3>1. d \in Nat /\ d <= N /\ (N + 1) - d = i
      BY <2>2, SMT
    <3>. HIDE DEF d
    <3>2. d \in D
      BY <1>3, <3>1
    <3> QED
      BY <3>1, <3>2
  <2> QED
    BY <2>1, <2>2
<1> QED
  BY <1>4

(* Recursion from the end, on the next two positions.                        *)
RunsBack(f, N, last, step) ==
  /\ f[N + 1] = last /\ f[N + 2] = last
  /\ \A i \in 1 .. N : f[i] = step[i][<<f[i + 1], f[i + 2]>>]

(* A definition that takes the value at a position from those at the next two *)
(* has a solution.                                                            *)
LEMMA BackwardRecursion ==
  ASSUME NEW N \in Nat, NEW S, NEW last \in S, NEW step \in [1 .. N -> [S \X S -> S]]
  PROVE  \E f \in [1 .. N + 2 -> S] : RunsBack(f, N, last, step)
<1>. DEFINE first == <<last, last>>
            forth == [n \in 1 .. N |-> [p \in S \X S |-> <<step[N + 1 - n][p], p[1]>>]]
<1>1. first \in S \X S
  OBVIOUS
<1>2. forth \in [1 .. N -> [S \X S -> S \X S]]
  <2>1. ASSUME NEW n \in 1 .. N, NEW p \in S \X S
        PROVE  <<step[N + 1 - n][p], p[1]>> \in S \X S
    <3>1. N + 1 - n \in 1 .. N
      BY SMT
    <3>2. step[N + 1 - n][p] \in S
      BY <3>1
    <3> QED
      BY <3>2
  <2> QED
    BY <2>1, Zenon
<1>3. PICK h \in [0 .. N -> S \X S] : Runs(h, N, first, forth)
  <2>. HIDE DEF first, forth
  <2> QED
    BY <1>1, <1>2, Recursion, Zenon
<1>4. h[0] = <<last, last>>
  BY <1>3 DEF Runs
<1>5. ASSUME NEW n \in 1 .. N
      PROVE  h[n][1] = step[N + 1 - n][h[n - 1]] /\ h[n][2] = h[n - 1][1]
  <2>1. h[n - 1] \in S \X S
    BY SMT
  <2>2. forth[n][h[n - 1]] = <<step[N + 1 - n][h[n - 1]], h[n - 1][1]>>
    BY <2>1
  <2>3. h[n] = forth[n][h[n - 1]]
    BY <1>3 DEF Runs
  <2> QED
    BY <2>2, <2>3
<1>. HIDE DEF forth, first
<1>. DEFINE f == [i \in 1 .. N + 2 |-> IF i = N + 2 THEN last ELSE h[N + 1 - i][1]]
<1>6. f \in [1 .. N + 2 -> S]
  <2>1. ASSUME NEW i \in 1 .. N + 2, i # N + 2
        PROVE  h[N + 1 - i][1] \in S
    <3>1. N + 1 - i \in 0 .. N
      BY <2>1, SMT
    <3>2. h[N + 1 - i] \in S \X S
      BY <3>1
    <3> QED
      BY <3>2
  <2> QED
    BY <2>1, Zenon
<1>7. f[N + 2] = last
  <2>1. N + 2 \in 1 .. N + 2
    BY SMT
  <2> QED
    BY <2>1, Zenon
<1>8. f[N + 1] = last
  <2>1. N + 1 \in 1 .. N + 2 /\ N + 1 # N + 2 /\ N + 1 - (N + 1) = 0
    BY SMT
  <2>2. f[N + 1] = h[0][1]
    BY <2>1
  <2> QED
    BY <2>2, <1>4
<1>9. ASSUME NEW i \in 1 .. N
      PROVE  f[i] = step[i][<<f[i + 1], f[i + 2]>>]
  <2>. DEFINE n == N + 1 - i
  <2>1. /\ n \in 1 .. N /\ n - 1 \in 0 .. N /\ N + 1 - n = i
        /\ i \in 1 .. N + 2 /\ i # N + 2
        /\ i + 1 \in 1 .. N + 2 /\ i + 1 # N + 2 /\ N + 1 - (i + 1) = n - 1
        /\ i + 2 \in 1 .. N + 2
    BY SMT
  <2>2. f[i] = h[n][1] /\ f[i + 1] = h[n - 1][1]
    BY <2>1
  <2>3. f[i + 2] = h[n - 1][2]
    <3>1. CASE i = N
      <4>1. i + 2 = N + 2 /\ n - 1 = 0
        BY <3>1, SMT
      <4> QED
        BY <4>1, <1>4, <1>7
    <3>2. CASE i # N
      <4>1. /\ i + 2 # N + 2 /\ N + 1 - (i + 2) = (n - 1) - 1
            /\ n - 1 \in 1 .. N
        BY <3>2, SMT
      <4>2. f[i + 2] = h[(n - 1) - 1][1]
        BY <4>1, <2>1
      <4>3. h[n - 1][2] = h[(n - 1) - 1][1]
        BY <4>1, <1>5
      <4> QED
        BY <4>2, <4>3
    <3> QED
      BY <3>1, <3>2
  <2>4. h[n - 1] = <<h[n - 1][1], h[n - 1][2]>>
    <3>1. h[n - 1] \in S \X S
      BY <2>1
    <3> QED
      BY <3>1
  <2>5. h[n][1] = step[i][h[n - 1]]
    BY <1>5, <2>1
  <2>. HIDE DEF f, n
  <2> QED
    BY <2>2, <2>3, <2>4, <2>5
<1> QED
  <2>. HIDE DEF f
  <2> QED
    BY <1>6, <1>7, <1>8, <1>9, Zenon DEF RunsBack

(* The two functions agree after N, and wherever they agree at the next two. *)
FollowBack(f, g, N) ==
  /\ f = [i \in 1 .. N + 2 |-> f[i]] /\ g = [i \in 1 .. N + 2 |-> g[i]]
  /\ g[N + 1] = f[N + 1] /\ g[N + 2] = f[N + 2]
  /\ \A i \in 1 .. N : g[i + 1] = f[i + 1] /\ g[i + 2] = f[i + 2] => g[i] = f[i]

(* Such functions are one. *)
LEMMA SameBack ==
  ASSUME NEW N \in Nat, NEW f, NEW g, FollowBack(f, g, N)
  PROVE  g = f
<1>. DEFINE T == {i \in 1 .. N + 2 : g[i] = f[i]}
<1>1. N + 1 \in T /\ N + 2 \in T
  BY SMT DEF FollowBack
<1>2. \A i \in 1 .. N : i + 1 \in T /\ i + 2 \in T => i \in T
  <2>1. \A i \in 1 .. N : i \in 1 .. N + 2
    BY SMT
  <2> QED
    BY <2>1, Zenon DEF FollowBack
<1>3. \A i \in 1 .. N + 2 : i \in T
  <2>. HIDE DEF T
  <2> QED
    BY <1>1, <1>2, BackwardInduction, Zenon
<1> QED
  BY <1>3, Zenon DEF FollowBack

-----------------------------------------------------------------------------
(* 2. The frame header.                                                    *)

(* A header of this protocol and version. *)
Acceptable(h) == h.magic = kProtocolMagic /\ h.version = kProtocolVersion

(* A word splits into two bytes and is put together again: htons, ntohs. *)
LEMMA WordSplits ==
  ASSUME NEW n \in Word
  PROVE  /\ n \div 256 \in Byte
         /\ (n \div 256) % 256 = n \div 256
         /\ n % 256 \in Byte
         /\ (n \div 256) * 256 + (n % 256) = n
<1>1. n \in Nat /\ (n \div 256) * 256 + (n % 256) = n
  BY SMT DEF Word
<1>2. n % 256 \in Byte
  BY <1>1, SMT DEF Byte
<1>3. n \div 256 \in Byte
  BY SMT DEF Word, Byte
<1>4. (n \div 256) % 256 = n \div 256
  BY <1>3, SMT DEF Byte
<1> QED
  BY <1>1, <1>2, <1>3, <1>4

(* A double word splits into two words and is put together again: htonl,    *)
(* ntohl.                                                                   *)
LEMMA DoubleWordSplits ==
  ASSUME NEW n \in DoubleWord
  PROVE  /\ n \div 65536 \in Word
         /\ n % 65536 \in Word
         /\ (n \div 65536) * 65536 + (n % 65536) = n
<1>1. n \in Nat
  BY SMT DEF DoubleWord
<1>2. (n \div 65536) * 65536 + (n % 65536) = n
  BY <1>1, SMT
<1>3. n % 65536 \in Word
  BY <1>1, SMT DEF Word
<1>4. n \div 65536 \in Nat /\ n \div 65536 < 65536
  BY SMT DEF DoubleWord
<1>5. n \div 65536 \in Word
  BY <1>4, SMT DEF Word
<1> QED
  BY <1>2, <1>3, <1>5

(* htons gives two bytes that make up the number. *)
LEMMA ShortBytes ==
  ASSUME NEW n \in Word
  PROVE  /\ htons(n) \in Seq(Byte)
         /\ Len(htons(n)) = 2
         /\ htons(n)[1] * 256 + htons(n)[2] = n
  BY WordSplits, SMT DEF htons

(* htonl gives four bytes, those of the more significant word first. *)
LEMMA LongBytes ==
  ASSUME NEW n \in DoubleWord
  PROVE  /\ htonl(n) \in Seq(Byte)
         /\ Len(htonl(n)) = 4
         /\ ntohl(htonl(n), 1) = n
<1>. DEFINE high == n \div 65536
            low == n % 65536
<1>1. high \in Word /\ low \in Word /\ high * 65536 + low = n
  BY DoubleWordSplits
<1>2. htonl(n) = htons(high) \o htons(low)
  BY DEF htonl
<1>. HIDE DEF high, low
<1>3. /\ htons(high) \in Seq(Byte) /\ Len(htons(high)) = 2
      /\ htons(high)[1] * 256 + htons(high)[2] = high
  BY <1>1, ShortBytes
<1>4. /\ htons(low) \in Seq(Byte) /\ Len(htons(low)) = 2
      /\ htons(low)[1] * 256 + htons(low)[2] = low
  BY <1>1, ShortBytes
<1>5. /\ htonl(n) \in Seq(Byte)
      /\ Len(htonl(n)) = 4
      /\ htonl(n)[1] = htons(high)[1] /\ htonl(n)[2] = htons(high)[2]
      /\ htonl(n)[3] = htons(low)[1] /\ htonl(n)[4] = htons(low)[2]
  <2>1. /\ htons(high) \o htons(low) \in Seq(Byte)
        /\ Len(htons(high) \o htons(low)) = Len(htons(high)) + Len(htons(low))
        /\ \A i \in 1 .. Len(htons(high)) + Len(htons(low)) :
             (htons(high) \o htons(low))[i] =
               IF i <= Len(htons(high))
                 THEN htons(high)[i] ELSE htons(low)[i - Len(htons(high))]
    BY <1>3, <1>4, ConcatProperties, ZenonT(60)
  <2> QED
    BY <2>1, <1>2, <1>3, <1>4, SMT
<1>6. ntohs(htonl(n), 1) = high /\ ntohs(htonl(n), 3) = low
  BY <1>3, <1>4, <1>5, SMT DEF ntohs
<1> QED
  BY <1>1, <1>5, <1>6, SMT DEF ntohl

(* No two types share a byte, and none has that of UNKNOWN. *)
LEMMA TypesDiffer ==
  /\ \A type \in DOMAIN MessageTypes :
       MessageTypes[type] \in Byte /\ MessageTypes[type] # 255
  /\ \A t1, t2 \in DOMAIN MessageTypes :
       MessageTypes[t1] = MessageTypes[t2] => t1 = t2
<1>1. DOMAIN MessageTypes =
        {"HELLO", "AUTH_REQUEST", "AUTH_RESPONSE", "AUTH_OK", "AUTH_FAIL",
         "CHAT_MESSAGE", "CHAT_RECEIPT", "PING", "PONG", "PEER_LIST",
         "DISCONNECT", "ERROR_MSG", "FILE_OFFER", "FILE_ACCEPT", "FILE_CHUNK",
         "FILE_COMPLETE"}
  BY DEF MessageTypes
<1>2. \A type \in DOMAIN MessageTypes :
        MessageTypes[type] \in Byte /\ MessageTypes[type] # 255
  BY <1>1, SMT DEF MessageTypes, Byte
<1>3. \A t1, t2 \in DOMAIN MessageTypes :
        MessageTypes[t1] = MessageTypes[t2] => t1 = t2
  BY <1>1, SMT DEF MessageTypes
<1> QED
  BY <1>2, <1>3

(* messageTypeFromByte takes the byte of a type back to the type. *)
LEMMA TypeRoundTrip ==
  ASSUME NEW type \in DOMAIN MessageTypes \cup {"UNKNOWN"}
  PROVE  /\ ByteOf(type) \in Byte
         /\ MessageTypeFromByte(ByteOf(type)) = type
<1>1. CASE type = "UNKNOWN"
  <2>1. ByteOf(type) = 255
    BY <1>1 DEF ByteOf
  <2>2. 255 \notin Range(MessageTypes)
    BY TypesDiffer, SMT DEF Range
  <2> QED
    BY <1>1, <2>1, <2>2, SMT DEF MessageTypeFromByte, Byte
<1>2. CASE type # "UNKNOWN"
  <2>1. type \in DOMAIN MessageTypes /\ ByteOf(type) = MessageTypes[type]
    BY <1>2 DEF ByteOf
  <2>2. MessageTypes[type] \in Range(MessageTypes)
    BY <2>1, Zenon DEF Range
  <2>3. (CHOOSE t \in DOMAIN MessageTypes : MessageTypes[t] = MessageTypes[type])
          = type
    BY <2>1, TypesDiffer, Zenon
  <2>4. MessageTypeFromByte(MessageTypes[type]) = type
    BY <2>2, <2>3 DEF MessageTypeFromByte
  <2> QED
    BY <2>1, <2>4, TypesDiffer
<1> QED
  BY <1>1, <1>2

(* serialize() writes twelve bytes: the fields one after the other, each    *)
(* number at the place where deserialize() looks for it.                    *)
LEMMA Layout ==
  ASSUME NEW h \in FrameHeaders
  PROVE  /\ Len(Serialize(h)) = 12
         /\ ntohl(Serialize(h), 1) = h.magic
         /\ Serialize(h)[5] = h.version
         /\ Serialize(h)[6] = ByteOf(h.type)
         /\ ntohl(Serialize(h), 7) = h.payloadLength
         /\ ntohs(Serialize(h), 11) = h.flags
<1>. DEFINE magic == htonl(h.magic)
            pair == <<h.version, ByteOf(h.type)>>
            length == htonl(h.payloadLength)
            flags == htons(h.flags)
            front == magic \o pair
            most == front \o length
            data == most \o flags
<1>1. /\ h.magic \in DoubleWord /\ h.version \in Byte
      /\ h.type \in DOMAIN MessageTypes \cup {"UNKNOWN"}
      /\ h.payloadLength \in DoubleWord /\ h.flags \in Word
  BY DEF FrameHeaders
<1>2. Serialize(h) = data
  BY DEF Serialize
<1>3. magic \in Seq(Byte) /\ Len(magic) = 4 /\ ntohl(magic, 1) = h.magic
  BY <1>1, LongBytes
<1>4. length \in Seq(Byte) /\ Len(length) = 4 /\ ntohl(length, 1) = h.payloadLength
  BY <1>1, LongBytes
<1>5. flags \in Seq(Byte) /\ Len(flags) = 2 /\ flags[1] * 256 + flags[2] = h.flags
  BY <1>1, ShortBytes
<1>6. /\ pair \in Seq(Byte) /\ Len(pair) = 2
      /\ pair[1] = h.version /\ pair[2] = ByteOf(h.type)
  BY <1>1, TypeRoundTrip, SMT
<1>. HIDE DEF magic, pair, length, flags
<1>7. /\ front \in Seq(Byte) /\ Len(front) = 6
      /\ \A i \in 1 .. 4 : front[i] = magic[i]
      /\ front[5] = pair[1] /\ front[6] = pair[2]
  <2>1. /\ front \in Seq(Byte) /\ Len(front) = Len(magic) + Len(pair)
        /\ \A i \in 1 .. Len(magic) + Len(pair) :
             front[i] = IF i <= Len(magic) THEN magic[i] ELSE pair[i - Len(magic)]
    BY <1>3, <1>6, ConcatProperties
  <2>. HIDE DEF front
  <2> QED
    BY <2>1, <1>3, <1>6, SMT
<1>. HIDE DEF front
<1>8. /\ most \in Seq(Byte) /\ Len(most) = 10
      /\ \A i \in 1 .. 6 : most[i] = front[i]
      /\ \A i \in 1 .. 4 : most[i + 6] = length[i]
  <2>1. /\ most \in Seq(Byte) /\ Len(most) = Len(front) + Len(length)
        /\ \A i \in 1 .. Len(front) + Len(length) :
             most[i] = IF i <= Len(front) THEN front[i] ELSE length[i - Len(front)]
    BY <1>4, <1>7, ConcatProperties, ZenonT(60)
  <2>. HIDE DEF most
  <2> QED
    BY <2>1, <1>4, <1>7, SMT
<1>. HIDE DEF most
<1>9. /\ Len(data) = 12
      /\ \A i \in 1 .. 10 : data[i] = most[i]
      /\ data[11] = flags[1] /\ data[12] = flags[2]
  <2>. most \in Seq(Byte) /\ flags \in Seq(Byte)
    BY <1>5, <1>8
  <2>1. /\ data \in Seq(Byte) /\ Len(data) = Len(most) + Len(flags)
        /\ \A i \in 1 .. Len(most) + Len(flags) :
             data[i] = IF i <= Len(most) THEN most[i] ELSE flags[i - Len(most)]
    BY ConcatProperties
  <2>. HIDE DEF data
  <2> QED
    BY <2>1, <1>5, <1>8, SMT
<1>. HIDE DEF data
<1>10. ntohl(data, 1) = ntohl(magic, 1)
  BY <1>7, <1>8, <1>9, SMT DEF ntohl, ntohs
<1>11. ntohl(data, 7) = ntohl(length, 1)
  BY <1>8, <1>9, SMT DEF ntohl, ntohs
<1>12. ntohs(data, 11) = h.flags
  BY <1>5, <1>9, SMT DEF ntohs
<1>13. data[5] = h.version /\ data[6] = ByteOf(h.type)
  BY <1>6, <1>7, <1>8, <1>9, SMT
<1> QED
  BY <1>2, <1>3, <1>4, <1>9, <1>10, <1>11, <1>12, <1>13

(* A header of this protocol comes out of deserialize() as it went into     *)
(* serialize(), whatever its length, flags and type are, with `reserved`    *)
(* set to zero; one with another magic number or version does not come out  *)
(* at all (HeaderSurvives, for numbers up to 2^32 - 1).                     *)
THEOREM HeaderRoundTrip ==
  ASSUME NEW h \in FrameHeaders
  PROVE  Deserialize(Serialize(h)) =
           IF Acceptable(h) THEN [h EXCEPT !.reserved = 0] ELSE <<>>
<1>. DEFINE data == Serialize(h)
<1>1. /\ Len(data) = 12
      /\ ntohl(data, 1) = h.magic
      /\ data[5] = h.version
      /\ data[6] = ByteOf(h.type)
      /\ ntohl(data, 7) = h.payloadLength
      /\ ntohs(data, 11) = h.flags
  BY Layout
<1>. HIDE DEF data
<1>2. MessageTypeFromByte(data[6]) = h.type
  <2>1. h.type \in DOMAIN MessageTypes \cup {"UNKNOWN"}
    BY DEF FrameHeaders
  <2> QED
    BY <1>1, <2>1, TypeRoundTrip
<1>3. CASE Acceptable(h)
  <2>1. ~ (\/ Len(data) < kFrameHeaderSize
           \/ ntohl(data, 1) # kProtocolMagic
           \/ data[5] # kProtocolVersion)
    BY <1>1, <1>3, SMT DEF Acceptable, kFrameHeaderSize
  <2>2. Deserialize(data) =
          [magic |-> h.magic, version |-> h.version, type |-> h.type,
           payloadLength |-> h.payloadLength, flags |-> h.flags,
           reserved |-> 0]
    BY <1>1, <1>2, <2>1, Zenon DEF Deserialize
  <2>3. [h EXCEPT !.reserved = 0] =
          [magic |-> h.magic, version |-> h.version, type |-> h.type,
           payloadLength |-> h.payloadLength, flags |-> h.flags,
           reserved |-> 0]
    BY SMT DEF FrameHeaders
  <2> QED
    BY <1>3, <2>2, <2>3 DEF data
<1>4. CASE ~ Acceptable(h)
  BY <1>1, <1>4, Zenon DEF Acceptable, Deserialize, data
<1> QED
  BY <1>3, <1>4

-----------------------------------------------------------------------------
(* 3. The rate limit.                                                      *)

(* Running totals of numbers. *)
LEMMA SumsStep ==
  ASSUME NEW numbers \in Seq(Nat)
  PROVE  /\ Sums(numbers) \in [0 .. Len(numbers) -> Nat]
         /\ Sums(numbers)[0] = 0
         /\ \A n \in 1 .. Len(numbers) :
              Sums(numbers)[n] = Sums(numbers)[n - 1] + numbers[n]
<1>. DEFINE N == Len(numbers)
            IsSums(f) == f = [n \in 0 .. N |-> IF n = 0 THEN 0 ELSE f[n - 1] + numbers[n]]
            step == [n \in 1 .. N |-> [t \in Nat |-> t + numbers[n]]]
<1>1. N \in Nat /\ \A n \in 1 .. N : numbers[n] \in Nat
  BY ElementOfSeq, LenProperties
<1>2. step \in [1 .. N -> [Nat -> Nat]] /\ 0 \in Nat
  BY <1>1, SMT
<1>3. PICK f \in [0 .. N -> Nat] : Runs(f, N, 0, step)
  <2>. HIDE DEF N, step
  <2> QED
    BY <1>1, <1>2, Recursion, Zenon
<1>4. ASSUME NEW n \in 1 .. N
      PROVE  f[n] = f[n - 1] + numbers[n]
  <2>1. f[n - 1] \in Nat
    BY <1>1, SMTT(60)
  <2>2. step[n][f[n - 1]] = f[n - 1] + numbers[n]
    BY <2>1
  <2> QED
    BY <1>3, <2>2 DEF Runs
<1>5. IsSums(f)
  BY <1>3, <1>4, SMT DEF Runs
<1>6. IsSums(Sums(numbers))
  <2>1. Sums(numbers) = CHOOSE g : IsSums(g)
    BY DEF Sums
  <2> QED
    BY <1>5, <2>1, Zenon
<1>7. Sums(numbers) = f
  <2>. DEFINE g == Sums(numbers)
              T == {n \in Nat : n <= N => g[n] = f[n]}
  <2>1. g = [n \in 0 .. N |-> IF n = 0 THEN 0 ELSE g[n - 1] + numbers[n]]
    BY <1>6
  <2>. HIDE DEF g
  <2>2. 0 \in T
    BY <2>1, <1>1, <1>3, SMT DEF Runs
  <2>3. ASSUME NEW n \in T PROVE n + 1 \in T
    BY <2>1, <1>1, <1>4, SMT
  <2>4. T = Nat
    <3>1. T \in SUBSET Nat
      OBVIOUS
    <3>. HIDE DEF T
    <3> QED
      BY <2>2, <2>3, <3>1, SetInduction
  <2>5. \A n \in 0 .. N : g[n] = f[n]
    BY <2>4, <1>1, SMT
  <2> QED
    BY <2>1, <2>5, Zenon DEF g
<1> QED
  BY <1>3, <1>4, <1>7, SMT DEF Runs

(* What a recv() brings, and what recvLoop knows. *)
Recv == [gap : Nat, frames : Nat]

Windows == [since : Nat, frames : Nat, cut : BOOLEAN]

(* What one recv() makes of what recvLoop knows. *)
LEMMA ReceiveEffect ==
  ASSUME NEW w \in Windows, NEW r \in Recv
  PROVE  LET since == w.since + r.gap
             frames == w.frames + r.frames
         IN  /\ Receive(w, r) \in Windows
             /\ w.cut => Receive(w, r) = w
             /\ ~w.cut /\ since < Second =>
                  /\ Receive(w, r).since = since /\ Receive(w, r).frames = frames
                  /\ ~Receive(w, r).cut
             /\ ~w.cut /\ since >= Second /\ frames > Limit => Receive(w, r).cut
             /\ ~w.cut /\ since >= Second /\ frames <= Limit =>
                  /\ Receive(w, r).since = 0 /\ Receive(w, r).frames = 0
                  /\ ~Receive(w, r).cut
<1>. DEFINE since == w.since + r.gap
            frames == w.frames + r.frames
            now == [w EXCEPT !.since = @ + r.gap, !.frames = @ + Counted(r)]
<1>1. since \in Nat /\ frames \in Nat /\ w.cut \in BOOLEAN
  BY SMT DEF Windows, Recv
<1>2. now \in Windows /\ now.since = since /\ now.frames = frames /\ now.cut = w.cut
  <2>. DEFINE counted == Counted(r)
              then == [w EXCEPT !.since = since, !.frames = frames]
  <2>1. counted = r.frames
    BY DEF Counted
  <2>2. now = then
    BY <2>1
  <2>. HIDE DEF now, since, frames
  <2>3. then \in Windows
    BY <1>1 DEF Windows
  <2>4. then.since = since /\ then.frames = frames
    BY <1>1, SMT DEF Windows
  <2>5. then.cut = w.cut
    BY <1>1, SMT DEF Windows
  <2> QED
    BY <2>2, <2>3, <2>4, <2>5
<1>3. Receive(w, r) = IF w.cut THEN w
                      ELSE CASE now.since < Second -> now
                             [] now.since >= Second /\ now.frames > Limit -> [now EXCEPT !.cut = TRUE]
                             [] OTHER -> NewWindow(now)
  BY Zenon DEF Receive
<1>. HIDE DEF now
<1>4. /\ [now EXCEPT !.cut = TRUE] \in Windows
      /\ [now EXCEPT !.cut = TRUE].cut
      /\ NewWindow(now) \in Windows
      /\ NewWindow(now).since = 0 /\ NewWindow(now).frames = 0
      /\ NewWindow(now).cut = w.cut
  <2>1. [now EXCEPT !.cut = TRUE] \in Windows
    BY <1>2 DEF Windows
  <2>2. [now EXCEPT !.cut = TRUE].cut
    BY <1>2, SMT DEF Windows
  <2>3. NewWindow(now) \in Windows
    BY <1>2 DEF NewWindow, Windows
  <2>4. NewWindow(now).since = 0 /\ NewWindow(now).frames = 0
    BY <1>2, SMT DEF NewWindow, Windows
  <2>5. NewWindow(now).cut = now.cut
    BY <1>2, SMT DEF NewWindow, Windows
  <2> QED
    BY <1>2, <2>1, <2>2, <2>3, <2>4, <2>5, Zenon
<1>. HIDE DEF since, frames
<1>5. CASE w.cut
  BY <1>3, <1>5, Zenon DEF since, frames
<1>6. CASE ~w.cut /\ since < Second
  <2>1. Receive(w, r) = now
    <3>1. ~(since >= Second)
      BY <1>1, <1>6, RateAssumption, SMT
    <3> QED
      BY <1>2, <1>3, <1>6, <3>1, Zenon
  <2> QED
    BY <2>1, <1>1, <1>2, <1>6, RateAssumption, SMT DEF since, frames
<1>7. CASE ~w.cut /\ since >= Second /\ frames > Limit
  <2>1. ~(since < Second)
    BY <1>1, <1>7, RateAssumption, SMT
  <2>2. Receive(w, r) = [now EXCEPT !.cut = TRUE]
    BY <1>2, <1>3, <1>7, <2>1, Zenon
  <2> QED
    BY <2>1, <2>2, <1>1, <1>4, <1>7, RateAssumption, SMT DEF since, frames
<1>8. CASE ~w.cut /\ since >= Second /\ frames <= Limit
  <2>1. ~(since < Second) /\ ~(frames > Limit)
    BY <1>1, <1>8, RateAssumption, SMT
  <2>2. Receive(w, r) = NewWindow(now)
    BY <1>2, <1>3, <1>8, <2>1, Zenon
  <2> QED
    BY <2>1, <2>2, <1>1, <1>4, <1>8, RateAssumption, SMT DEF since, frames
<1> QED
  <2>1. (since < Second \/ since >= Second) /\ (frames > Limit \/ frames <= Limit)
    BY <1>1, RateAssumption, SMT
  <2> QED
    BY <1>5, <1>6, <1>7, <1>8, <2>1, Zenon

(* Running totals only grow. *)
LEMMA SumsGrow ==
  ASSUME NEW numbers \in Seq(Nat),
         NEW i \in 0 .. Len(numbers), NEW j \in 0 .. Len(numbers), i <= j
  PROVE  Sums(numbers)[i] <= Sums(numbers)[j]
<1>. DEFINE N == Len(numbers)
            sums == Sums(numbers)
            T == {d \in Nat : i + d <= N => sums[i] <= sums[i + d]}
<1>1. /\ N \in Nat
      /\ sums \in [0 .. N -> Nat]
      /\ \A n \in 1 .. N : sums[n] = sums[n - 1] + numbers[n]
      /\ \A n \in 1 .. N : numbers[n] \in Nat
  BY SumsStep, ElementOfSeq, LenProperties
<1>. HIDE DEF N, sums
<1>2. i \in 0 .. N /\ j \in 0 .. N
  BY DEF N
<1>3. 0 \in T
  BY <1>1, <1>2, SMT
<1>4. ASSUME NEW d \in T
      PROVE  d + 1 \in T
  <2>1. SUFFICES ASSUME i + (d + 1) <= N
                 PROVE  sums[i] <= sums[i + (d + 1)]
    BY <1>4, SMT
  <2>2. /\ i + d \in 0 .. N /\ i + (d + 1) \in 1 .. N
        /\ (i + (d + 1)) - 1 = i + d
        /\ sums[i] <= sums[i + d]
    BY <1>1, <1>2, <2>1, SMT
  <2>3. sums[i + (d + 1)] = sums[i + d] + numbers[i + (d + 1)]
    BY <1>1, <2>2
  <2>4. /\ sums[i] \in Nat /\ sums[i + d] \in Nat /\ numbers[i + (d + 1)] \in Nat
    BY <1>1, <1>2, <2>2
  <2> QED
    BY <2>2, <2>3, <2>4, SMTT(60)
<1>5. T = Nat
  <2>1. T \in SUBSET Nat
    OBVIOUS
  <2>. HIDE DEF T
  <2> QED
    BY <1>3, <1>4, <2>1, SetInduction
<1>6. j - i \in T
  <2>1. j - i \in Nat
    BY <1>1, <1>2, SMT
  <2> QED
    BY <1>5, <2>1
<1> QED
  BY <1>1, <1>2, <1>6, SMT DEF sums

(* The numbers of a sequence of records. *)
LEMMA GapsAndFrames ==
  ASSUME NEW recvs \in Seq(Recv)
  PROVE  /\ Len(recvs) \in Nat
         /\ \A n \in 1 .. Len(recvs) :
              recvs[n] \in Recv /\ recvs[n].gap \in Nat /\ recvs[n].frames \in Nat
         /\ Clock(recvs) \in [0 .. Len(recvs) -> Nat] /\ Clock(recvs)[0] = 0
         /\ Total(recvs) \in [0 .. Len(recvs) -> Nat] /\ Total(recvs)[0] = 0
         /\ \A n \in 1 .. Len(recvs) :
              /\ Clock(recvs)[n] = Clock(recvs)[n - 1] + recvs[n].gap
              /\ Total(recvs)[n] = Total(recvs)[n - 1] + recvs[n].frames
         /\ \A i, j \in 0 .. Len(recvs) :
              i <= j => Clock(recvs)[i] <= Clock(recvs)[j] /\ Total(recvs)[i] <= Total(recvs)[j]
<1>. DEFINE N == Len(recvs)
            gaps == [n \in 1 .. N |-> recvs[n].gap]
            frames == [n \in 1 .. N |-> recvs[n].frames]
<1>1. N \in Nat /\ \A n \in 1 .. N : recvs[n] \in Recv
  BY ElementOfSeq, LenProperties
<1>2. \A n \in 1 .. N : recvs[n].gap \in Nat /\ recvs[n].frames \in Nat
  BY <1>1, SMT DEF Recv
<1>3. gaps \in Seq(Nat) /\ Len(gaps) = N
  BY <1>1, <1>2, SMT
<1>4. frames \in Seq(Nat) /\ Len(frames) = N
  BY <1>1, <1>2, SMT
<1>5. \A n \in 1 .. N : gaps[n] = recvs[n].gap /\ frames[n] = recvs[n].frames
  OBVIOUS
<1>6. Clock(recvs) = Sums(gaps) /\ Total(recvs) = Sums(frames)
  BY DEF Clock, Total
<1>. HIDE DEF gaps, frames
<1>7. /\ Sums(gaps) \in [0 .. N -> Nat] /\ Sums(gaps)[0] = 0
      /\ \A n \in 1 .. N : Sums(gaps)[n] = Sums(gaps)[n - 1] + gaps[n]
      /\ \A i, j \in 0 .. N : i <= j => Sums(gaps)[i] <= Sums(gaps)[j]
  BY <1>3, SumsStep, SumsGrow, Zenon
<1>8. /\ Sums(frames) \in [0 .. N -> Nat] /\ Sums(frames)[0] = 0
      /\ \A n \in 1 .. N : Sums(frames)[n] = Sums(frames)[n - 1] + frames[n]
      /\ \A i, j \in 0 .. N : i <= j => Sums(frames)[i] <= Sums(frames)[j]
  BY <1>4, SumsStep, SumsGrow, Zenon
<1> QED
  BY <1>1, <1>2, <1>5, <1>6, <1>7, <1>8, Zenon

(* What recvLoop knows after each recv(). *)
LEMMA WindowStep ==
  ASSUME NEW recvs \in Seq(Recv)
  PROVE  /\ Window(recvs) \in [0 .. Len(recvs) -> Windows]
         /\ Window(recvs)[0] = [since |-> 0, frames |-> 0, cut |-> FALSE]
         /\ \A n \in 1 .. Len(recvs) :
              Window(recvs)[n] = Receive(Window(recvs)[n - 1], recvs[n])
<1>. DEFINE N == Len(recvs)
            start == [since |-> 0, frames |-> 0, cut |-> FALSE]
            IsWindow(f) == f = [n \in 0 .. N |-> IF n = 0 THEN [since |-> 0, frames |-> 0, cut |-> FALSE] ELSE Receive(f[n - 1], recvs[n])]
            step == [n \in 1 .. N |-> [w \in Windows |-> Receive(w, recvs[n])]]
            w == Window(recvs)
<1>1. N \in Nat /\ \A n \in 1 .. N : recvs[n] \in Recv
  BY GapsAndFrames
<1>2. start \in Windows
  BY DEF Windows
<1>3. step \in [1 .. N -> [Windows -> Windows]]
  <2>1. ASSUME NEW n \in 1 .. N, NEW v \in Windows
        PROVE  Receive(v, recvs[n]) \in Windows
    BY <1>1, ReceiveEffect, Zenon
  <2> QED
    BY <2>1, Zenon
<1>4. PICK f \in [0 .. N -> Windows] : Runs(f, N, start, step)
  <2>. HIDE DEF N, step, start
  <2> QED
    BY <1>1, <1>2, <1>3, Recursion, Zenon
<1>5. ASSUME NEW n \in 1 .. N
      PROVE  f[n] = Receive(f[n - 1], recvs[n])
  <2>1. f[n - 1] \in Windows
    BY <1>1, SMT
  <2>2. step[n][f[n - 1]] = Receive(f[n - 1], recvs[n])
    BY <2>1
  <2> QED
    BY <1>4, <2>2 DEF Runs
<1>6. IsWindow(f)
  <2>. HIDE DEF step
  <2>1. f[0] = start
    BY <1>4 DEF Runs
  <2>2. \A n \in 0 .. N : n = 0 \/ n \in 1 .. N
    BY <1>1, SMT
  <2> QED
  BY <2>1, <2>2, <1>5, Zenon
<1>7. IsWindow(w)
  <2>1. w = CHOOSE g : IsWindow(g)
    BY DEF Window
  <2> QED
    BY <1>6, <2>1, Zenon
<1>. HIDE DEF w
<1>8. /\ w[0] = start
      /\ \A n \in 1 .. N : w[n] = Receive(w[n - 1], recvs[n])
  <2>1. 0 \in 0 .. N /\ \A n \in 1 .. N : n # 0 /\ n \in 0 .. N
    BY <1>1, SMT
  <2> QED
    BY <1>7, <2>1, Zenon
<1>9. w \in [0 .. N -> Windows]
  <2>. DEFINE T == {n \in Nat : n <= N => w[n] \in Windows}
  <2>1. 0 \in T
    BY <1>2, <1>8
  <2>2. ASSUME NEW n \in T
        PROVE  n + 1 \in T
    <3>1. SUFFICES ASSUME n + 1 <= N
                   PROVE  w[n + 1] \in Windows
      BY SMT
    <3>2. n + 1 \in 1 .. N /\ (n + 1) - 1 = n /\ w[n] \in Windows
      BY <1>1, <3>1, SMT
    <3>3. w[n + 1] = Receive(w[n], recvs[n + 1])
      BY <1>8, <3>2
    <3> QED
      BY <1>1, <3>2, <3>3, ReceiveEffect, Zenon
  <2>3. T = Nat
    <3>1. T \in SUBSET Nat
      OBVIOUS
    <3>. HIDE DEF T
    <3> QED
      BY <2>1, <2>2, <3>1, SetInduction
  <2>4. \A n \in 0 .. N : w[n] \in Windows
    BY <2>3, <1>1, SMT
  <2> QED
    BY <1>7, <2>4, Zenon
<1> QED
  BY <1>8, <1>9 DEF w

(* After the n-th recv() the last look at the count was after the k-th: what *)
(* recvLoop knows is the time and the frames since then.                     *)
LastLook(recvs, n, k) ==
  /\ Window(recvs)[n].since = Clock(recvs)[n] - Clock(recvs)[k]
  /\ Window(recvs)[n].frames = Total(recvs)[n] - Total(recvs)[k]
  /\ Window(recvs)[n].since < Second

(* The next recv() leaves the last look where it was, is one, or cuts off.   *)
LEMMA LookStep ==
  ASSUME NEW recvs \in Seq(Recv), NEW n \in Nat, n + 1 <= Len(recvs),
         NEW k \in 0 .. n, ~Window(recvs)[n].cut, LastLook(recvs, n, k)
  PROVE  LET since == Clock(recvs)[n + 1] - Clock(recvs)[k]
             frames == Total(recvs)[n + 1] - Total(recvs)[k]
         IN  \/ /\ since < Second
                /\ ~Window(recvs)[n + 1].cut /\ LastLook(recvs, n + 1, k)
             \/ /\ since >= Second /\ frames <= Limit
                /\ ~Window(recvs)[n + 1].cut /\ LastLook(recvs, n + 1, n + 1)
             \/ /\ since >= Second /\ frames > Limit
                /\ Window(recvs)[n + 1].cut
<1>. DEFINE N == Len(recvs)
            clock == Clock(recvs)
            total == Total(recvs)
            before == Window(recvs)[n]
            after == Window(recvs)[n + 1]
            r == recvs[n + 1]
<1>1. /\ N \in Nat /\ n \in 0 .. N /\ n + 1 \in 1 .. N /\ n + 1 \in 0 .. N
      /\ (n + 1) - 1 = n /\ k \in 0 .. N
  BY GapsAndFrames, SMT
<1>2. /\ r \in Recv
      /\ clock[n] \in Nat /\ clock[n + 1] \in Nat /\ clock[k] \in Nat
      /\ total[n] \in Nat /\ total[n + 1] \in Nat /\ total[k] \in Nat
      /\ r.gap \in Nat /\ r.frames \in Nat
  BY <1>1, GapsAndFrames
<1>3. clock[n + 1] = clock[n] + r.gap /\ total[n + 1] = total[n] + r.frames
  <2>1. \A m \in 1 .. N : /\ clock[m] = clock[m - 1] + recvs[m].gap
                          /\ total[m] = total[m - 1] + recvs[m].frames
    BY GapsAndFrames, Zenon
  <2>. HIDE DEF clock, total
  <2> QED
    BY <1>1, <2>1
<1>4. before \in Windows /\ after \in Windows /\ after = Receive(before, r)
  <2>1. /\ Window(recvs) \in [0 .. N -> Windows]
        /\ \A m \in 1 .. N : Window(recvs)[m] = Receive(Window(recvs)[m - 1], recvs[m])
    BY WindowStep
  <2> QED
    BY <1>1, <2>1
<1>5. /\ before.since = clock[n] - clock[k]
      /\ before.frames = total[n] - total[k]
      /\ ~before.cut
  BY DEF LastLook
<1>. HIDE DEF before, after, r, clock, total
<1>6. before.since + r.gap = clock[n + 1] - clock[k]
  BY <1>2, <1>3, <1>5, SMTT(60)
<1>7. before.frames + r.frames = total[n + 1] - total[k]
  BY <1>2, <1>3, <1>5, SMTT(60)
<1>. DEFINE pause == clock[n + 1] - clock[k]
            count == total[n + 1] - total[k]
<1>8. /\ pause < Second => after.since = pause /\ after.frames = count /\ ~after.cut
      /\ pause >= Second /\ count > Limit => after.cut
      /\ pause >= Second /\ count <= Limit =>
             after.since = 0 /\ after.frames = 0 /\ ~after.cut
  BY <1>2, <1>4, <1>5, <1>6, <1>7, ReceiveEffect, Zenon
<1>9. /\ clock[n + 1] - clock[n + 1] = 0 /\ total[n + 1] - total[n + 1] = 0
      /\ 0 < Second /\ (pause < Second \/ pause >= Second)
  BY <1>2, RateAssumption, SMTT(60)
<1>10. count <= Limit \/ count > Limit
  BY <1>2, RateAssumption, SMT
<1> QED
  BY <1>8, <1>9, <1>10, Zenon DEF LastLook, before, after, clock, total

(* A peer that never sends more than half the limit within a second is never *)
(* cut off.                                                                 *)
LEMMA HalfRate ==
  ASSUME NEW recvs \in Seq(Recv),
         \A i, j \in 1 .. Len(recvs) :
           WithinSecond(recvs, i, j) => 2 * FramesIn(recvs, i, j) <= Limit
  PROVE  ~IsCut(recvs)
<1>. DEFINE N == Len(recvs)
            clock == Clock(recvs)
            total == Total(recvs)
            T == {n \in Nat : n <= N =>
                    /\ ~Window(recvs)[n].cut
                    /\ \E k \in 0 .. n : LastLook(recvs, n, k)}
<1>1. /\ N \in Nat
      /\ clock \in [0 .. N -> Nat] /\ total \in [0 .. N -> Nat]
      /\ clock[0] = 0 /\ total[0] = 0
      /\ \A i, j \in 0 .. N : i <= j => clock[i] <= clock[j] /\ total[i] <= total[j]
  BY GapsAndFrames, Zenon
<1>2. \A i, j \in 1 .. N :
        i <= j /\ clock[j] < clock[i] + Second => 2 * (total[j] - total[i - 1]) <= Limit
  BY Zenon DEF WithinSecond, FramesIn
<1>3. 0 \in T
  <2>1. Window(recvs)[0] = [since |-> 0, frames |-> 0, cut |-> FALSE]
    BY WindowStep
  <2>2. Window(recvs)[0].since = 0 /\ Window(recvs)[0].frames = 0 /\ ~Window(recvs)[0].cut
    BY <2>1
  <2>3. LastLook(recvs, 0, 0)
    <3>. HIDE DEF clock, total
    <3>1. clock[0] - clock[0] = 0 /\ total[0] - total[0] = 0 /\ 0 < Second
      BY <1>1, RateAssumption, SMT
    <3> QED
      BY <2>2, <3>1, Zenon DEF LastLook, clock, total
  <2> QED
    BY <2>2, <2>3, SMT
<1>4. ASSUME NEW n \in T
      PROVE  n + 1 \in T
  <2>1. SUFFICES ASSUME n + 1 <= N
                 PROVE  /\ ~Window(recvs)[n + 1].cut
                        /\ \E k \in 0 .. n + 1 : LastLook(recvs, n + 1, k)
    BY SMT
  <2>2. /\ n \in Nat /\ n \in 0 .. N /\ n + 1 \in 0 .. N /\ n + 1 \in 1 .. N
        /\ ~Window(recvs)[n].cut
    BY <1>1, <2>1, SMT
  <2>3. PICK k \in 0 .. n : LastLook(recvs, n, k)
    BY <1>1, <2>1, SMT
  <2>4. k \in 0 .. N /\ k <= n /\ k \in 0 .. n + 1 /\ n + 1 \in 0 .. n + 1 /\ k \in Nat
    BY <2>2, <2>3, <1>1, SMT
  <2>5. total[n + 1] - total[k] <= Limit
    <3>. HIDE DEF clock, total, N
    <3>1. 2 * (total[n + 1] - total[n]) <= Limit
      <4>1. clock[n + 1] < clock[n + 1] + Second
        BY <1>1, <2>2, RateAssumption, SMT
      <4>2. 2 * (total[n + 1] - total[(n + 1) - 1]) <= Limit
        BY <1>2, <2>2, <4>1, SMT
      <4> QED
        BY <4>2, <2>2, SMT
    <3>2. 2 * (total[n] - total[k]) <= Limit
      <4>1. CASE k = n
        BY <4>1, <1>1, <2>2, RateAssumption, SMT
      <4>2. CASE k # n
        <5>1. k + 1 \in 1 .. N /\ n \in 1 .. N /\ k + 1 <= n /\ (k + 1) - 1 = k /\ k + 1 \in 0 .. N
          BY <2>2, <2>4, <4>2, <1>1, SMT
        <5>2. clock[n] - clock[k] < Second
          BY <2>3, Zenon DEF LastLook, clock, total
        <5>3. clock[n] < clock[k + 1] + Second
          <6>1. clock[k] <= clock[k + 1]
            BY <1>1, <5>1, <2>4, SMT
          <6>2. clock[k] \in Nat /\ clock[k + 1] \in Nat /\ clock[n] \in Nat
            BY <1>1, <5>1, <2>2, <2>4
          <6> QED
            BY <5>2, <6>1, <6>2, RateAssumption, SMT
        <5> QED
          BY <1>2, <5>1, <5>3
      <4> QED
        BY <4>1, <4>2
    <3>3. total[n] \in Nat /\ total[n + 1] \in Nat /\ total[k] \in Nat
      BY <1>1, <2>2, <2>4
    <3> QED
      BY <3>1, <3>2, <3>3, RateAssumption, SMTT(60)
  <2>6. ~(total[n + 1] - total[k] > Limit)
    <3>1. total[n + 1] \in Nat /\ total[k] \in Nat
      BY <1>1, <2>2, <2>4
    <3>. HIDE DEF total
    <3> QED
      BY <2>5, <3>1, RateAssumption, SMT
  <2> QED
    BY <2>1, <2>2, <2>3, <2>4, <2>6, LookStep, Zenon
<1>5. T = Nat
  <2>1. T \in SUBSET Nat
    OBVIOUS
  <2>. HIDE DEF T
  <2> QED
    BY <1>3, <1>4, <2>1, SetInduction
<1>6. ~Window(recvs)[N].cut
  BY <1>1, <1>5, SMT
<1> QED
  BY <1>6 DEF IsCut

(* As long as the connection is not cut off, no second that ended before the *)
(* last look brought more than twice the limit, and the second that ended    *)
(* with it no more than the limit.                                          *)
CalmUntil(recvs, k) ==
  \A i \in 1 .. k :
    /\ WithinSecond(recvs, i, k) => FramesIn(recvs, i, k) <= Limit
    /\ \A j \in 1 .. k :
         WithinSecond(recvs, i, j) => FramesIn(recvs, i, j) <= 2 * Limit

(* A look that does not cut off leaves it that way.                          *)
LEMMA CalmStep ==
  ASSUME NEW recvs \in Seq(Recv),
         NEW k \in 0 .. Len(recvs), NEW m \in 0 .. Len(recvs), k < m,
         CalmUntil(recvs, k),
         Clock(recvs)[m] - Clock(recvs)[k] >= Second,
         Total(recvs)[m] - Total(recvs)[k] <= Limit
  PROVE  CalmUntil(recvs, m)
<1>. DEFINE N == Len(recvs)
            clock == Clock(recvs)
            total == Total(recvs)
<1>1. /\ N \in Nat
      /\ clock \in [0 .. N -> Nat] /\ total \in [0 .. N -> Nat]
      /\ \A i, j \in 0 .. N : i <= j => clock[i] <= clock[j] /\ total[i] <= total[j]
  BY GapsAndFrames, Zenon
<1>2. \A i \in 1 .. k :
        /\ i <= k /\ clock[k] < clock[i] + Second => total[k] - total[i - 1] <= Limit
        /\ \A j \in 1 .. k : i <= j /\ clock[j] < clock[i] + Second
                            => total[j] - total[i - 1] <= 2 * Limit
  BY Zenon DEF CalmUntil, WithinSecond, FramesIn
<1>3. /\ k \in 0 .. N /\ m \in 0 .. N /\ k < m
      /\ clock[m] - clock[k] >= Second /\ total[m] - total[k] <= Limit
  OBVIOUS
<1>. HIDE DEF N, clock, total
<1>4. ASSUME NEW i \in 1 .. m, NEW j \in 1 .. m, i <= j, clock[j] < clock[i] + Second
      PROVE  total[j] - total[i - 1] <= 2 * Limit
  <2>1. /\ i \in 0 .. N /\ j \in 0 .. N /\ i - 1 \in 0 .. N
    BY <1>1, <1>3, <1>4, SMTT(60)
  <2>2. /\ clock[i] \in Nat /\ clock[j] \in Nat /\ clock[k] \in Nat
        /\ total[i - 1] \in Nat /\ total[j] \in Nat /\ total[k] \in Nat /\ total[m] \in Nat
        /\ Limit \in Nat
    BY <1>1, <1>3, <2>1, RateAssumption
  <2>3. CASE j <= k
    <3>1. i \in 1 .. k /\ j \in 1 .. k
      BY <1>3, <1>4, <2>3, SMT
    <3> QED
      BY <1>2, <1>4, <3>1
  <2>4. CASE k < j /\ i <= k
    <3>1. i \in 1 .. k
      BY <1>3, <1>4, <2>4, SMT
    <3>2. clock[k] <= clock[j] /\ total[j] <= total[m]
      BY <1>1, <1>3, <1>4, <2>1, <2>4, SMT
    <3>3. clock[k] < clock[i] + Second
      <4>1. clock[j] < clock[i] + Second /\ clock[k] <= clock[j] /\ Second \in Nat
        BY <1>4, <3>2, RateAssumption
      <4> QED
        BY <2>2, <4>1, SMTT(60)
    <3>4. total[k] - total[i - 1] <= Limit
      BY <1>2, <2>4, <3>1, <3>3
    <3>5. total[j] - total[k] <= Limit
      BY <1>3, <2>2, <3>2, SMTT(60)
    <3> QED
      BY <2>2, <3>4, <3>5, SMTT(60)
  <2>5. CASE k < i
    <3>1. total[k] <= total[i - 1]
      <4>1. k <= i - 1
        BY <1>3, <1>4, <2>5, SMT
      <4> QED
        BY <1>1, <1>3, <2>1, <4>1
    <3>2. total[j] <= total[m]
      BY <1>1, <1>3, <1>4, <2>1, SMT
    <3> QED
      BY <1>3, <2>2, <3>1, <3>2, SMTT(60)
  <2> QED
    BY <1>3, <1>4, <2>3, <2>4, <2>5, SMT
<1>5. ASSUME NEW i \in 1 .. m, clock[m] < clock[i] + Second
      PROVE  total[m] - total[i - 1] <= Limit
  <2>1. i \in 0 .. N /\ i - 1 \in 0 .. N
    BY <1>1, <1>3, <1>5, SMTT(60)
  <2>2. /\ clock[i] \in Nat /\ clock[m] \in Nat /\ clock[k] \in Nat
        /\ total[i - 1] \in Nat /\ total[k] \in Nat /\ total[m] \in Nat
    BY <1>1, <1>3, <2>1
  <2>3. k < i
    <3>1. SUFFICES ASSUME i <= k PROVE FALSE
      BY <1>3, <1>5, SMT
    <3>2. clock[i] <= clock[k]
      BY <1>1, <1>3, <2>1, <3>1
    <3> QED
      BY <1>3, <1>5, <2>2, <3>2, RateAssumption, SMTT(60)
  <2>4. total[k] <= total[i - 1]
    <3>1. k <= i - 1
      BY <1>3, <2>3, SMT
    <3> QED
      BY <1>1, <1>3, <2>1, <3>1
  <2> QED
    BY <1>3, <2>2, <2>4, RateAssumption, SMTT(60)
<1> QED
  BY <1>4, <1>5, Zenon DEF CalmUntil, WithinSecond, FramesIn, clock, total

(* A peer that sends more than twice the limit within a second is cut off,   *)
(* if it sends anything once that second and another one are over.          *)
LEMMA Flood ==
  ASSUME NEW recvs \in Seq(Recv),
         NEW i \in 1 .. Len(recvs), NEW j \in 1 .. Len(recvs), NEW u \in 1 .. Len(recvs),
         WithinSecond(recvs, i, j), FramesIn(recvs, i, j) > 2 * Limit,
         Clock(recvs)[u] >= Clock(recvs)[i] + 2 * Second - 1
  PROVE  IsCut(recvs)
<1>. DEFINE N == Len(recvs)
            clock == Clock(recvs)
            total == Total(recvs)
            T == {n \in Nat : n <= N =>
                    \/ Window(recvs)[n].cut
                    \/ \E k \in 0 .. n : LastLook(recvs, n, k) /\ CalmUntil(recvs, k)}
<1>1. /\ N \in Nat
      /\ clock \in [0 .. N -> Nat] /\ total \in [0 .. N -> Nat]
      /\ clock[0] = 0 /\ total[0] = 0
      /\ \A a, b \in 0 .. N : a <= b => clock[a] <= clock[b] /\ total[a] <= total[b]
  BY GapsAndFrames, Zenon
<1>2. 0 \in T
  <2>1. Window(recvs)[0] = [since |-> 0, frames |-> 0, cut |-> FALSE]
    BY WindowStep
  <2>2. Window(recvs)[0].since = 0 /\ Window(recvs)[0].frames = 0
    BY <2>1
  <2>3. LastLook(recvs, 0, 0)
    <3>. HIDE DEF clock, total
    <3>1. clock[0] - clock[0] = 0 /\ total[0] - total[0] = 0 /\ 0 < Second
      BY <1>1, RateAssumption, SMT
    <3> QED
      BY <2>2, <3>1, Zenon DEF LastLook, clock, total
  <2>4. CalmUntil(recvs, 0)
    BY SMT DEF CalmUntil
  <2> QED
    BY <2>3, <2>4, SMT
<1>3. ASSUME NEW n \in T
      PROVE  n + 1 \in T
  <2>1. SUFFICES ASSUME n + 1 <= N
                 PROVE  \/ Window(recvs)[n + 1].cut
                        \/ \E k \in 0 .. n + 1 :
                             LastLook(recvs, n + 1, k) /\ CalmUntil(recvs, k)
    BY SMT
  <2>2. /\ n \in Nat /\ n \in 0 .. N /\ n + 1 \in 0 .. N /\ n + 1 \in 1 .. N
        /\ n + 1 \in 0 .. n + 1 /\ (n + 1) - 1 = n
    BY <1>1, <2>1, SMT
  <2>3. CASE Window(recvs)[n].cut
    <3>1. /\ Window(recvs)[n] \in Windows /\ recvs[n + 1] \in Recv
          /\ Window(recvs)[n + 1] = Receive(Window(recvs)[n], recvs[n + 1])
      BY <2>2, WindowStep, GapsAndFrames
    <3> QED
      BY <2>3, <3>1, ReceiveEffect, Zenon
  <2>4. CASE ~Window(recvs)[n].cut
    <3>1. PICK k \in 0 .. n : LastLook(recvs, n, k) /\ CalmUntil(recvs, k)
      BY <1>1, <2>1, <2>4, SMT
    <3>2. k \in 0 .. N /\ k < n + 1 /\ k \in 0 .. n + 1
      BY <2>2, <3>1, <1>1, SMT
    <3>3. \/ Window(recvs)[n + 1].cut
          \/ LastLook(recvs, n + 1, k)
          \/ /\ clock[n + 1] - clock[k] >= Second /\ total[n + 1] - total[k] <= Limit
             /\ LastLook(recvs, n + 1, n + 1)
      BY <2>1, <2>2, <2>4, <3>1, LookStep, Zenon
    <3> QED
      BY <2>2, <3>1, <3>2, <3>3, CalmStep, Zenon
  <2> QED
    BY <2>3, <2>4
<1>4. T = Nat
  <2>1. T \in SUBSET Nat
    OBVIOUS
  <2>. HIDE DEF T
  <2> QED
    BY <1>2, <1>3, <2>1, SetInduction
<1>5. SUFFICES ASSUME ~Window(recvs)[N].cut PROVE FALSE
  BY DEF IsCut
<1>6. PICK k \in 0 .. N : LastLook(recvs, N, k) /\ CalmUntil(recvs, k)
  BY <1>1, <1>4, <1>5, SMTT(60)
<1>7. /\ clock[N] - clock[k] < Second
      /\ clock[u] >= clock[i] + 2 * Second - 1
      /\ i <= j /\ clock[j] < clock[i] + Second
      /\ i \in 1 .. N /\ j \in 1 .. N /\ u \in 1 .. N
  BY <1>6, Zenon DEF LastLook, WithinSecond
<1>. HIDE DEF N, clock, total
<1>8. /\ i \in 0 .. N /\ j \in 0 .. N /\ u \in 0 .. N /\ N \in 0 .. N
  BY <1>1, SMT DEF N
<1>9. clock[u] <= clock[N]
  BY <1>1, <1>8, SMT
<1>10. clock[j] < clock[k]
  <2>1. /\ clock[i] \in Nat /\ clock[j] \in Nat /\ clock[k] \in Nat
        /\ clock[u] \in Nat /\ clock[N] \in Nat
    BY <1>1, <1>6, <1>8
  <2>2. Second \in Nat
    BY RateAssumption
  <2>3. clock[N] - clock[k] < Second
    BY <1>7
  <2>4. clock[u] >= clock[i] + 2 * Second - 1
    BY <1>7
  <2>5. clock[i] + 2 * Second - 1 <= clock[N]
    BY <2>1, <2>2, <2>4, <1>9, SMTT(60)
  <2>6. clock[i] + Second - 1 < clock[k]
    BY <2>1, <2>2, <2>3, <2>5, SMTT(60)
  <2>7. clock[j] < clock[i] + Second
    BY <1>7
  <2> QED
    BY <2>1, <2>2, <2>6, <2>7, SMTT(60)
<1>11. j <= k
  <2>1. SUFFICES ASSUME k < j PROVE FALSE
    BY <1>6, <1>7, <1>1, SMT
  <2>2. clock[k] <= clock[j] /\ clock[k] \in Nat /\ clock[j] \in Nat
    BY <1>1, <1>6, <1>8, <2>1, SMT
  <2> QED
    BY <1>10, <2>2, SMT
<1>12. i \in 1 .. k /\ j \in 1 .. k
  BY <1>1, <1>6, <1>7, <1>11, SMT
<1>13. FramesIn(recvs, i, j) <= 2 * Limit
  BY <1>6, <1>12 DEF CalmUntil
<1>14. FramesIn(recvs, i, j) \in Int
  <2>1. i - 1 \in 0 .. N
    BY <1>7, <1>1, SMT
  <2>2. total[j] \in Nat /\ total[i - 1] \in Nat
    BY <2>1, <1>1, <1>8
  <2> QED
    BY <2>2, SMT DEF FramesIn, total
<1> QED
  BY <1>13, <1>14, RateAssumption, SMT

(* Whether the connection is cut off is a truth value. *)
LEMMA CutIsBoolean ==
  ASSUME NEW recvs \in Seq(Recv)
  PROVE  IsCut(recvs) \in BOOLEAN
<1>1. Window(recvs) \in [0 .. Len(recvs) -> Windows] /\ Len(recvs) \in Nat
  BY WindowStep, LenProperties
<1>2. Len(recvs) \in 0 .. Len(recvs)
  BY <1>1, SMT
<1>3. Window(recvs)[Len(recvs)] \in Windows
  BY <1>1, <1>2
<1> QED
  BY <1>3 DEF IsCut, Windows

-----------------------------------------------------------------------------
(* 4. The command line.                                                    *)

(* A port is one of the command line or what sixteen bits leave of the       *)
(* configured one.                                                          *)
LEMMA PortExact ==
  ASSUME NEW flag, flag = NotANumber \/ flag \in Int, NotANumber \notin Int,
         NoPort \notin Int, NEW configured \in Int
  PROVE  IF flag \in Ports
           THEN ListenPort(flag, configured) = flag
           ELSE /\ ListenPort(flag, configured) \in Ports \cup {0}
                /\ (configured - ListenPort(flag, configured)) % 65536 = 0
<1>1. CASE flag \in Ports
  <2>1. flag # NotANumber /\ flag \in Int /\ flag > 0 /\ flag <= 65535 /\ flag # NoPort
    BY <1>1, SMT DEF Ports
  <2>2. GetFlagAsPort(flag) = flag
    BY <2>1, SMT DEF GetFlagAsPort
  <2>3. ListenPort(flag, configured) = flag
    BY <2>1, <2>2, SMT DEF ListenPort
  <2> QED
    BY <1>1, <2>3, SMT
<1>2. CASE flag \notin Ports
  <2>1. ~(flag # NotANumber /\ flag > 0 /\ flag <= 65535)
    <3>1. CASE flag = NotANumber
      BY <3>1
    <3>2. CASE flag \in Int
      BY <1>2, <3>2, SMT DEF Ports
    <3> QED
      BY <3>1, <3>2
  <2>2. GetFlagAsPort(flag) = NoPort
    BY <2>1, SMT DEF GetFlagAsPort
  <2>3. ListenPort(flag, configured) = configured % 65536
    BY <2>2, SMT DEF ListenPort, StoredPort
  <2>4. configured % 65536 \in Ports \cup {0} /\ (configured - (configured % 65536)) % 65536 = 0
    BY SMT DEF Ports
  <2> QED
    BY <1>2, <2>3, <2>4, SMT
<1> QED
  BY <1>1, <1>2, SMT

(* What parse() returns when arguments come from A. *)
Texts(A) == A \cup {"true"}

Tables(A) == UNION {[D -> Texts(A)] : D \in SUBSET Range(Dashed)}

ParsedArgs(A) == [command : A, positional : Seq(A), flags : Tables(A)]

(* A flag is added unless it is there. *)
LEMMA PutBeforeEffect ==
  ASSUME NEW A, NEW args \in ParsedArgs(A), NEW name \in Range(Dashed), NEW value \in Texts(A)
  PROVE  LET put == PutBefore(name, value, args)
         IN  /\ put \in ParsedArgs(A)
             /\ put.command = args.command /\ put.positional = args.positional
             /\ DOMAIN put.flags = DOMAIN args.flags \cup {name}
             /\ \A n \in DOMAIN args.flags : put.flags[n] = args.flags[n]
             /\ name \notin DOMAIN args.flags => put.flags[name] = value
<1>. DEFINE flags == args.flags
            more == [n \in DOMAIN flags \cup {name} |-> IF n = name THEN value ELSE flags[n]]
            then == IF name \in DOMAIN flags THEN flags ELSE more
            put == [args EXCEPT !.flags = then]
<1>1. PutBefore(name, value, args) = put
  BY DEF PutBefore
<1>2. PICK D \in SUBSET Range(Dashed) : flags \in [D -> Texts(A)]
  BY DEF ParsedArgs, Tables
<1>3. then \in Tables(A)
  <2>1. CASE name \in DOMAIN flags
    BY <2>1, <1>2 DEF Tables
  <2>2. CASE name \notin DOMAIN flags
    <3>1. more \in [D \cup {name} -> Texts(A)] /\ D \cup {name} \in SUBSET Range(Dashed)
      BY <1>2
    <3> QED
      BY <2>2, <3>1, Zenon DEF Tables
  <2> QED
    BY <2>1, <2>2
<1>4. /\ DOMAIN then = DOMAIN flags \cup {name}
      /\ \A n \in DOMAIN flags : then[n] = flags[n]
      /\ name \notin DOMAIN flags => then[name] = value
  BY Zenon
<1>. HIDE DEF then
<1>5. put \in ParsedArgs(A)
  BY <1>3 DEF ParsedArgs
<1>6. put.command = args.command /\ put.positional = args.positional /\ put.flags = then
  BY DEF ParsedArgs
<1> QED
  BY <1>1, <1>4, <1>5, <1>6, Zenon

(* The arguments from position i on follow from those from the next two. *)
LEMMA ArgumentsStep ==
  ASSUME NEW A, NEW argv \in Seq(A), argv # <<>>
  PROVE  LET N == Len(argv)
             from == Arguments(argv)
         IN  /\ from \in [1 .. N + 2 -> ParsedArgs(A)]
             /\ from[N + 1] = Bare(argv[1]) /\ from[N + 2] = Bare(argv[1])
             /\ \A i \in 1 .. N :
                  /\ ~IsFlag(argv[i]) =>
                       from[i] = PlainBefore(argv[i], from[i + 1])
                  /\ IsFlag(argv[i]) /\ TakesValue(argv, i) =>
                       from[i] = PutBefore(Dashed[argv[i]], argv[i + 1], from[i + 2])
                  /\ IsFlag(argv[i]) /\ ~TakesValue(argv, i) =>
                       from[i] = PutBefore(Dashed[argv[i]], "true", from[i + 1])
<1>. DEFINE N == Len(argv)
            Step(i, one, two) ==
              CASE ~IsFlag(argv[i]) -> PlainBefore(argv[i], one)
                [] IsFlag(argv[i]) /\ TakesValue(argv, i) ->
                     PutBefore(Dashed[argv[i]], argv[i + 1], two)
                [] OTHER -> PutBefore(Dashed[argv[i]], "true", one)
            IsFrom(f) ==
              f = [i \in 1 .. Len(argv) + 2 |->
                     IF i > Len(argv) THEN Bare(argv[1]) ELSE Step(i, f[i + 1], f[i + 2])]
            step == [i \in 1 .. N |-> [p \in ParsedArgs(A) \X ParsedArgs(A) |-> Step(i, p[1], p[2])]]
            from == Arguments(argv)
            last == Bare(argv[1])
<1>1. N \in Nat /\ N >= 1 /\ \A i \in 1 .. N : argv[i] \in A
  BY ElementOfSeq, LenProperties, EmptySeq, SMT
<1>2. last \in ParsedArgs(A)
  <2>1. argv[1] \in A
    BY <1>1, SMT
  <2>2. [n \in {} |-> ""] \in [{} -> Texts(A)]
    OBVIOUS
  <2>3. [n \in {} |-> ""] \in Tables(A)
    BY <2>2, Zenon DEF Tables
  <2> QED
    BY <2>1, <2>3 DEF Bare, ParsedArgs
<1>3. ASSUME NEW i \in 1 .. N, NEW one \in ParsedArgs(A), NEW two \in ParsedArgs(A)
      PROVE  /\ Step(i, one, two) \in ParsedArgs(A)
             /\ ~IsFlag(argv[i]) => Step(i, one, two) = PlainBefore(argv[i], one)
             /\ IsFlag(argv[i]) /\ TakesValue(argv, i) =>
                  Step(i, one, two) = PutBefore(Dashed[argv[i]], argv[i + 1], two)
             /\ IsFlag(argv[i]) /\ ~TakesValue(argv, i) =>
                  Step(i, one, two) = PutBefore(Dashed[argv[i]], "true", one)
  <2>. DEFINE plain == PlainBefore(argv[i], one)
              valued == PutBefore(Dashed[argv[i]], argv[i + 1], two)
              bare == PutBefore(Dashed[argv[i]], "true", one)
  <2>1. Step(i, one, two) = CASE ~IsFlag(argv[i]) -> plain
                              [] IsFlag(argv[i]) /\ TakesValue(argv, i) -> valued
                              [] OTHER -> bare
    OBVIOUS
  <2>2. argv[i] \in A
    BY <1>1
  <2>3. plain \in ParsedArgs(A)
    <3>1. <<argv[i]>> \o one.positional \in Seq(A)
      <4>1. one.positional \in Seq(A) /\ <<argv[i]>> \in Seq(A)
        BY <2>2 DEF ParsedArgs
      <4> QED
        BY <4>1, ConcatProperties
    <3> QED
      BY <3>1 DEF PlainBefore, ParsedArgs
  <2>4. IsFlag(argv[i]) => bare \in ParsedArgs(A)
    <3>1. IsFlag(argv[i]) => Dashed[argv[i]] \in Range(Dashed)
      BY Zenon DEF IsFlag, Range
    <3>2. "true" \in Texts(A)
      BY DEF Texts
    <3> QED
      BY <3>1, <3>2, PutBeforeEffect, Zenon
  <2>5. IsFlag(argv[i]) /\ TakesValue(argv, i) => valued \in ParsedArgs(A)
    <3>1. IsFlag(argv[i]) => Dashed[argv[i]] \in Range(Dashed)
      BY Zenon DEF IsFlag, Range
    <3>2. TakesValue(argv, i) => argv[i + 1] \in A
      BY <1>1, SMT DEF TakesValue
    <3>3. TakesValue(argv, i) => argv[i + 1] \in Texts(A)
      BY <3>2 DEF Texts
    <3> QED
      BY <3>1, <3>3, PutBeforeEffect, Zenon
  <2>. HIDE DEF plain, valued, bare, Step
  <2>6. CASE ~IsFlag(argv[i])
    BY <2>1, <2>3, <2>6, Zenon DEF plain
  <2>7. CASE IsFlag(argv[i]) /\ TakesValue(argv, i)
    BY <2>1, <2>5, <2>7, Zenon DEF valued
  <2>8. CASE IsFlag(argv[i]) /\ ~TakesValue(argv, i)
    BY <2>1, <2>4, <2>8, Zenon DEF bare
  <2> QED
    BY <2>6, <2>7, <2>8, Zenon
<1>. HIDE DEF Step
<1>4. step \in [1 .. N -> [ParsedArgs(A) \X ParsedArgs(A) -> ParsedArgs(A)]]
  <2>1. ASSUME NEW i \in 1 .. N, NEW p \in ParsedArgs(A) \X ParsedArgs(A)
        PROVE  Step(i, p[1], p[2]) \in ParsedArgs(A)
    BY <1>3
  <2> QED
    BY <2>1, Zenon
<1>5. PICK f \in [1 .. N + 2 -> ParsedArgs(A)] : RunsBack(f, N, last, step)
  <2>. HIDE DEF N, step, last
  <2> QED
    BY <1>1, <1>2, <1>4, BackwardRecursion, Zenon
<1>6. \A i \in 1 .. N : /\ i \in 1 .. N + 2 /\ i + 1 \in 1 .. N + 2 /\ i + 2 \in 1 .. N + 2
                        /\ ~(i > N)
  BY <1>1, SMT
<1>7. ASSUME NEW i \in 1 .. N
      PROVE  f[i] = Step(i, f[i + 1], f[i + 2])
  <2>1. f[i + 1] \in ParsedArgs(A) /\ f[i + 2] \in ParsedArgs(A)
    BY <1>6
  <2>. DEFINE p == <<f[i + 1], f[i + 2]>>
  <2>2. step[i][p] = Step(i, p[1], p[2])
    BY <2>1
  <2>3. p[1] = f[i + 1] /\ p[2] = f[i + 2]
    OBVIOUS
  <2>4. f[i] = step[i][p]
    BY <1>5 DEF RunsBack
  <2>. HIDE DEF p, step
  <2> QED
    BY <2>2, <2>3, <2>4
<1>8. /\ N + 1 \in 1 .. N + 2 /\ N + 2 \in 1 .. N + 2 /\ N + 1 > N /\ N + 2 > N
      /\ \A i \in 1 .. N + 2 : i \in 1 .. N \/ (i > N /\ (i = N + 1 \/ i = N + 2))
  BY <1>1, SMT
<1>9. IsFrom(f)
  <2>1. f[N + 1] = last /\ f[N + 2] = last
    BY <1>5 DEF RunsBack
  <2>2. \A i \in 1 .. N + 2 : f[i] = IF i > N THEN last ELSE Step(i, f[i + 1], f[i + 2])
    <3>. HIDE DEF last, N
    <3> QED
      BY <2>1, <1>6, <1>7, <1>8, Zenon
  <2> QED
    BY <2>2, Zenon
<1>10. IsFrom(from)
  <2>1. from = CHOOSE g : IsFrom(g)
    BY DEF Arguments, Step
  <2> QED
    BY <1>9, <2>1, Zenon
<1>. HIDE DEF from
<1>11. /\ from = [i \in 1 .. N + 2 |-> from[i]]
       /\ from[N + 1] = last /\ from[N + 2] = last
       /\ \A i \in 1 .. N : from[i] = Step(i, from[i + 1], from[i + 2])
  <2>. HIDE DEF last
  <2>1. \A i \in 1 .. N + 2 : from[i] = IF i > N THEN last ELSE Step(i, from[i + 1], from[i + 2])
    BY <1>10, Zenon DEF last
  <2>2. from = [i \in 1 .. N + 2 |-> from[i]]
    BY <1>10, <2>1, Zenon DEF last
  <2> QED
    BY <1>6, <1>8, <2>1, <2>2, Zenon
<1>12. from = f
  <2>1. f[N + 1] = last /\ f[N + 2] = last
    BY <1>5 DEF RunsBack
  <2>2. \A i \in 1 .. N :
          from[i + 1] = f[i + 1] /\ from[i + 2] = f[i + 2] => from[i] = f[i]
    BY <1>7, <1>11, Zenon
  <2>3. from[N + 1] = f[N + 1] /\ from[N + 2] = f[N + 2]
    BY <1>11, <2>1
  <2>4. f = [i \in 1 .. N + 2 |-> f[i]]
    BY <1>5
  <2>5. from = [i \in 1 .. N + 2 |-> from[i]]
    BY <1>11
  <2>. HIDE DEF last, N
  <2>6. FollowBack(f, from, N)
    BY <2>2, <2>3, <2>4, <2>5, Zenon DEF FollowBack
  <2> QED
    BY <1>1, <2>6, SameBack, Zenon
<1>13. ASSUME NEW i \in 1 .. N
       PROVE  from[i] = Step(i, from[i + 1], from[i + 2]) /\ from[i + 1] \in ParsedArgs(A)
              /\ from[i + 2] \in ParsedArgs(A)
  BY <1>6, <1>11, <1>12
<1>14. ASSUME NEW i \in 1 .. N
       PROVE  /\ ~IsFlag(argv[i]) =>
                   from[i] = PlainBefore(argv[i], from[i + 1])
              /\ IsFlag(argv[i]) /\ TakesValue(argv, i) =>
                   from[i] = PutBefore(Dashed[argv[i]], argv[i + 1], from[i + 2])
              /\ IsFlag(argv[i]) /\ ~TakesValue(argv, i) =>
                   from[i] = PutBefore(Dashed[argv[i]], "true", from[i + 1])
  BY <1>3, <1>13
<1>15. from \in [1 .. N + 2 -> ParsedArgs(A)]
  BY <1>12
<1> QED
  BY <1>11, <1>14, <1>15, Zenon DEF from

(* The plain arguments from position i on, in their order. *)
PlainFrom(i, argv) == {j \in Plain(argv) : i <= j}

(* The plain ones from i to p. *)
PlainUpTo(i, p, argv) == {j \in PlainFrom(i, argv) : j <= p}

(* The positional arguments are the plain ones from i on, in their order. *)
PlainAre(i, positional, argv) ==
  /\ Len(positional) = Cardinality(PlainFrom(i, argv))
  /\ \A p \in PlainFrom(i, argv) : positional[Cardinality(PlainUpTo(i, p, argv))] = argv[p]

(* The flags from position i on; the last place of each gives its value. *)
LastPlace(p, i, name, argv) ==
  /\ p \in PlacesOf(name, argv) /\ i <= p
  /\ \A q \in PlacesOf(name, argv) : q <= p

(* The flags have the values of their last places from i on. *)
FlagsAre(i, flags, argv) ==
  /\ DOMAIN flags = {n \in Range(Dashed) : \E p \in PlacesOf(n, argv) : i <= p}
  /\ \A n \in DOMAIN flags : \E p : LastPlace(p, i, n, argv) /\ flags[n] = ValueAt(argv, p)

(* One argument more, read from the back: what the plain ones are. *)
LEMMA PlainStep ==
  ASSUME NEW A, NEW argv \in Seq(A), NEW i \in 2 .. Len(argv), NEW positional \in Seq(A),
         PlainAre(i + 1, positional, argv), i \in Plain(argv)
  PROVE  PlainAre(i, <<argv[i]>> \o positional, argv)
<1>. DEFINE more == <<argv[i]>> \o positional
            R == PlainFrom(i + 1, argv)
<1>1. /\ Len(argv) \in Nat /\ argv[i] \in A /\ i \in Nat
      /\ \A j \in Plain(argv) : j \in Nat /\ j <= Len(argv)
  <2>1. Len(argv) \in Nat
    BY LenProperties
  <2>2. i \in 1 .. Len(argv)
    BY <2>1, SMT
  <2>3. argv[i] \in A
    BY <2>2, ElementOfSeq, Zenon
  <2> QED
    BY <2>1, <2>3, SMT DEF Plain
<1>2. IsFiniteSet(R) /\ Cardinality(R) \in Nat
  <2>1. IsFiniteSet(2 .. Len(argv))
    BY <1>1, FS_Interval, SMT
  <2>2. R \subseteq 2 .. Len(argv)
    BY DEF PlainFrom, Plain
  <2>3. IsFiniteSet(R)
    BY <2>1, <2>2, FS_Subset, Zenon
  <2> QED
    BY <2>3, FS_CardinalityType
<1>3. i \notin R /\ PlainFrom(i, argv) = R \cup {i}
  <2>1. i \notin R
    BY <1>1, SMT DEF PlainFrom
  <2>2. ASSUME NEW j
        PROVE  j \in PlainFrom(i, argv) <=> j \in R \cup {i}
    <3>1. j \in Plain(argv) => (i <= j <=> i + 1 <= j \/ j = i)
      BY <1>1, SMT
    <3> QED
      BY <1>1, <3>1 DEF PlainFrom
  <2> QED
    BY <2>1, <2>2, Zenon
<1>4. Cardinality(PlainFrom(i, argv)) = Cardinality(R) + 1
  BY <1>2, <1>3, FS_AddElement
<1>5. <<argv[i]>> \in Seq(A) /\ Len(<<argv[i]>>) = 1 /\ <<argv[i]>>[1] = argv[i]
  BY <1>1
<1>6. Len(more) = Len(positional) + 1
  BY <1>5, ConcatProperties, LenProperties, SMT
<1>7. more[1] = argv[i] /\ \A k \in 1 .. Len(positional) : more[k + 1] = positional[k]
  <2>1. 1 \in 1 .. 1 + Len(positional) /\ 1 <= 1
    BY LenProperties, SMT
  <2>2. more[1] = argv[i]
    BY <1>5
  <2>3. \A k \in 1 .. Len(positional) : more[k + 1] = positional[k]
    BY <1>5, LenProperties
  <2> QED
    BY <2>2, <2>3
<1>. HIDE DEF more
<1>8. ASSUME NEW p \in PlainFrom(i, argv)
      PROVE  more[Cardinality(PlainUpTo(i, p, argv))] = argv[p]
  <2>1. CASE p = i
    <3>1. PlainUpTo(i, p, argv) = {i}
      <4>1. i \in PlainFrom(i, argv) /\ i <= i
        BY <1>3, <1>1
      <4>2. ASSUME NEW j \in PlainFrom(i, argv), j <= i
            PROVE  j = i
        BY <1>1, <4>2, SMT DEF PlainFrom
      <4> QED
        BY <2>1, <4>1, <4>2, Zenon DEF PlainUpTo
    <3>2. Cardinality({i}) = 1
      BY FS_Singleton
    <3> QED
      BY <2>1, <3>1, <3>2, <1>7
  <2>2. CASE p # i
    <3>. DEFINE U == PlainUpTo(i + 1, p, argv)
    <3>1. p \in R /\ p \in U /\ U \subseteq R
      BY <1>3, <2>2, <1>1, SMT DEF PlainUpTo, PlainFrom
    <3>2. i \notin U /\ PlainUpTo(i, p, argv) = U \cup {i}
      BY <1>1, <1>3, <2>2, SMT DEF PlainUpTo, PlainFrom
    <3>3. IsFiniteSet(U) /\ Cardinality(U) \in Nat /\ Cardinality(U) <= Cardinality(R)
      BY <3>1, <1>2, FS_Subset, FS_CardinalityType
    <3>4. Cardinality(U) # 0
      BY <3>1, <3>3, FS_EmptySet
    <3>5. Cardinality(PlainUpTo(i, p, argv)) = Cardinality(U) + 1
      BY <3>2, <3>3, FS_AddElement
    <3>6. positional[Cardinality(U)] = argv[p] /\ Len(positional) = Cardinality(R)
      BY <3>1 DEF PlainAre
    <3>7. Cardinality(U) \in 1 .. Len(positional)
      BY <3>3, <3>4, <3>6, <1>2, SMT
    <3> QED
      BY <1>7, <3>5, <3>6, <3>7
  <2> QED
    BY <2>1, <2>2
<1>9. Len(more) = Cardinality(PlainFrom(i, argv))
  BY <1>4, <1>6 DEF PlainAre
<1> QED
  BY <1>8, <1>9 DEF PlainAre, more

(* A flag at i joins those further on, and its place counts unless it is *)
(* among them.                                                           *)
LEMMA FlagsStep ==
  ASSUME NEW argv, NEW i \in 2 .. Len(argv), Len(argv) \in Nat, IsFlag(argv[i]),
         NEW k \in Nat, k = i + 1 \/ (k = i + 2 /\ (i + 1 <= Len(argv) => ~IsFlag(argv[i + 1]))),
         NEW later, FlagsAre(k, later, argv),
         NEW flags, DOMAIN flags = DOMAIN later \cup {Dashed[argv[i]]},
         \A n \in DOMAIN later : flags[n] = later[n],
         Dashed[argv[i]] \notin DOMAIN later => flags[Dashed[argv[i]]] = ValueAt(argv, i)
  PROVE  FlagsAre(i, flags, argv)
<1>. DEFINE name == Dashed[argv[i]]
<1>1. ASSUME NEW n, NEW p \in PlacesOf(n, argv)
      PROVE  /\ p \in 2 .. Len(argv) /\ p \in Nat
             /\ i <= p <=> (k <= p \/ p = i)
             /\ p = i => n = name
  <2>1. p \in 2 .. Len(argv) /\ IsFlag(argv[p]) /\ Dashed[argv[p]] = n
    BY DEF PlacesOf
  <2>2. ~(k = i + 2 /\ p = i + 1)
    BY <2>1, SMT
  <2>3. i \in Nat /\ p \in Nat
    BY <2>1, SMT
  <2> QED
    BY <2>1, <2>2, <2>3, SMT
<1>2. i \in PlacesOf(name, argv) /\ i <= i
  BY SMT DEF PlacesOf
<1>3. name \in Range(Dashed)
  BY Zenon DEF IsFlag, Range
<1>. HIDE DEF name
<1>4. ASSUME NEW n \in Range(Dashed)
      PROVE  n \in DOMAIN flags <=> \E p \in PlacesOf(n, argv) : i <= p
  <2>1. n \in DOMAIN later <=> \E p \in PlacesOf(n, argv) : k <= p
    BY DEF FlagsAre
  <2>2. n \in DOMAIN flags <=> n \in DOMAIN later \/ n = name
    BY DEF name
  <2> QED
    BY <2>1, <2>2, <1>1, <1>2, Zenon
<1>5. DOMAIN flags = {n \in Range(Dashed) : \E p \in PlacesOf(n, argv) : i <= p}
  <2>1. DOMAIN flags \subseteq Range(Dashed)
    BY <1>3 DEF FlagsAre, name
  <2> QED
    BY <1>4, <2>1, Zenon
<1>6. ASSUME NEW n \in DOMAIN flags
      PROVE  \E p : LastPlace(p, i, n, argv) /\ flags[n] = ValueAt(argv, p)
  <2>1. CASE n \in DOMAIN later
    <3>1. PICK p : LastPlace(p, k, n, argv) /\ later[n] = ValueAt(argv, p)
      BY <2>1 DEF FlagsAre
    <3>2. i <= p
      BY <1>1, <3>1 DEF LastPlace
    <3> QED
      BY <2>1, <3>1, <3>2, Zenon DEF LastPlace
  <2>2. CASE n \notin DOMAIN later
    <3>1. n = name
      BY <2>2 DEF name
    <3>2. n \in Range(Dashed)
      BY <3>1, <1>3
    <3>3. ~\E p \in PlacesOf(n, argv) : k <= p
      BY <2>2, <3>2 DEF FlagsAre
    <3>4. \A q \in PlacesOf(n, argv) : q <= i
      <4>1. SUFFICES ASSUME NEW q \in PlacesOf(n, argv)
                     PROVE  q <= i
        OBVIOUS
      <4>2. ~(k <= q)
        BY <3>3
      <4>3. ~(i <= q) \/ q = i
        BY <4>2, <1>1
      <4>4. q \in Nat /\ i \in Nat
        BY <1>1, SMT
      <4> QED
        BY <4>3, <4>4, SMT
    <3>5. flags[n] = ValueAt(argv, i)
      BY <2>2, <3>1 DEF name
    <3> QED
      BY <3>1, <3>4, <3>5, <1>2 DEF LastPlace
  <2> QED
    BY <2>1, <2>2
<1> QED
  BY <1>5, <1>6, Zenon DEF FlagsAre

(* What the loop finds from a position on at which it arrives: the plain *)
(* arguments and the flags.                                              *)
Found(i, args, argv) ==
  /\ PlainAre(i, args.positional, argv)
  /\ FlagsAre(i, args.flags, argv)

(* What the loop makes of the arguments from any position on. *)
LEMMA ArgumentsFound ==
  ASSUME NEW A, NEW argv \in Seq(A), argv # <<>>
  PROVE  Found(2, Arguments(argv)[2], argv) /\ Arguments(argv)[2] \in ParsedArgs(A)
<1>. DEFINE N == Len(argv)
            from == Arguments(argv)
            Reached(i) == i > N \/ ~IsValue(argv, i)
            T == {i \in Nat : i >= 2 /\ Reached(i) => Found(i, from[i], argv)}
<1>1. N \in Nat /\ N >= 1 /\ \A i \in 1 .. N : argv[i] \in A
  BY ElementOfSeq, LenProperties, EmptySeq, SMT
<1>2. /\ from \in [1 .. N + 2 -> ParsedArgs(A)]
      /\ from[N + 1] = Bare(argv[1]) /\ from[N + 2] = Bare(argv[1])
  BY ArgumentsStep
<1>3. ASSUME NEW i \in 1 .. N
      PROVE  /\ ~IsFlag(argv[i]) =>
                   from[i] = PlainBefore(argv[i], from[i + 1])
             /\ IsFlag(argv[i]) /\ TakesValue(argv, i) =>
                   from[i] = PutBefore(Dashed[argv[i]], argv[i + 1], from[i + 2])
             /\ IsFlag(argv[i]) /\ ~TakesValue(argv, i) =>
                   from[i] = PutBefore(Dashed[argv[i]], "true", from[i + 1])
  BY ArgumentsStep, Zenon
<1>. HIDE DEF from
<1>4. ASSUME NEW i \in Nat, i > N
      PROVE  Found(i, Bare(argv[1]), argv)
  <2>1. PlainFrom(i, argv) = {}
    BY <1>1, <1>4, SMT DEF PlainFrom, Plain
  <2>2. Cardinality({}) = 0 /\ Len(<<>>) = 0
    BY FS_EmptySet
  <2>3. PlainAre(i, <<>>, argv)
    BY <2>1, <2>2 DEF PlainAre
  <2>4. \A n : ~\E p \in PlacesOf(n, argv) : i <= p
    BY <1>1, <1>4, SMT DEF PlacesOf
  <2>5. FlagsAre(i, [n \in {} |-> ""], argv)
    BY <2>4, Zenon DEF FlagsAre
  <2> QED
    BY <2>3, <2>5 DEF Found, Bare
<1>5. N + 1 \in T /\ N + 2 \in T
  <2>1. N + 1 \in Nat /\ N + 2 \in Nat /\ N + 1 > N /\ N + 2 > N
    BY <1>1, SMT
  <2> QED
    BY <1>2, <1>4, <2>1
<1>6. ASSUME NEW i \in 1 .. N, i + 1 \in T, i + 2 \in T
      PROVE  i \in T
  <2>1. SUFFICES ASSUME i >= 2, Reached(i)
                 PROVE  Found(i, from[i], argv)
    BY SMT
  <2>2. /\ i \in 2 .. N /\ i \in Nat /\ i + 1 \in 1 .. N + 2 /\ i + 2 \in 1 .. N + 2
        /\ i + 1 \in Nat /\ i + 2 \in Nat /\ i + 1 >= 2 /\ i + 2 >= 2
        /\ (i + 1) - 1 = i /\ (i + 2) - 1 = i + 1 /\ i + 2 > 2 /\ i + 1 > 2
        /\ ~(i > N) /\ (i < N <=> i + 1 <= N) /\ (i < N <=> ~(i + 1 > N))
    BY <2>1, <1>1, SMT
  <2>3. from[i + 1] \in ParsedArgs(A) /\ from[i + 2] \in ParsedArgs(A)
    BY <2>2, <1>2
  <2>4. CASE ~IsFlag(argv[i])
    <3>1. Reached(i + 1)
      BY <2>2, <2>4 DEF IsValue
    <3>2. PlainAre(i + 1, from[i + 1].positional, argv) /\ FlagsAre(i + 1, from[i + 1].flags, argv)
      BY <3>1, <1>6, <2>2 DEF Found
    <3>3. i \in Plain(argv)
      BY <2>1, <2>2, <2>4 DEF Plain
    <3>4. from[i].positional = <<argv[i]>> \o from[i + 1].positional /\ from[i].flags = from[i + 1].flags
      BY <1>3, <2>4, <2>3 DEF PlainBefore, ParsedArgs
    <3>5. from[i + 1].positional \in Seq(A)
      BY <2>3 DEF ParsedArgs
    <3>6. PlainAre(i, from[i].positional, argv)
      BY <2>2, <3>2, <3>3, <3>4, <3>5, PlainStep
    <3>7. ASSUME NEW n, NEW p \in PlacesOf(n, argv)
          PROVE  i <= p <=> i + 1 <= p
      <4>1. p # i /\ p \in Nat
        BY <2>4 DEF PlacesOf
      <4> QED
        BY <4>1, <2>2, SMT
    <3>8. FlagsAre(i, from[i].flags, argv)
      BY <3>2, <3>4, <3>7, Zenon DEF FlagsAre, LastPlace
    <3> QED
      BY <3>6, <3>8 DEF Found
  <2>5. ASSUME NEW k \in Nat, NEW value \in Texts(A), IsFlag(argv[i]),
               k = i + 1 \/ (k = i + 2 /\ (i + 1 <= N => ~IsFlag(argv[i + 1]) /\ IsValue(argv, i + 1))),
               Reached(k), value = ValueAt(argv, i),
               from[i] = PutBefore(Dashed[argv[i]], value, from[k])
        PROVE  Found(i, from[i], argv)
    <3>1. from[k] \in ParsedArgs(A) /\ PlainAre(k, from[k].positional, argv) /\ FlagsAre(k, from[k].flags, argv)
      BY <2>5, <2>2, <2>3, <1>6 DEF Found
    <3>2. Dashed[argv[i]] \in Range(Dashed)
      BY <2>5, Zenon DEF IsFlag, Range
    <3>3. /\ from[i].positional = from[k].positional
          /\ DOMAIN from[i].flags = DOMAIN from[k].flags \cup {Dashed[argv[i]]}
          /\ \A n \in DOMAIN from[k].flags : from[i].flags[n] = from[k].flags[n]
          /\ Dashed[argv[i]] \notin DOMAIN from[k].flags => from[i].flags[Dashed[argv[i]]] = value
      <4>. DEFINE name == Dashed[argv[i]]
                  args == from[k]
                  put == PutBefore(name, value, args)
      <4>1. name \in Range(Dashed) /\ args \in ParsedArgs(A) /\ value \in Texts(A)
        BY <2>5, <3>1, <3>2
      <4>2. from[i] = put
        BY <2>5
      <4>. HIDE DEF name, args
      <4>3. /\ put.positional = args.positional
            /\ DOMAIN put.flags = DOMAIN args.flags \cup {name}
            /\ \A n \in DOMAIN args.flags : put.flags[n] = args.flags[n]
            /\ name \notin DOMAIN args.flags => put.flags[name] = value
        BY <4>1, PutBeforeEffect
      <4>. HIDE DEF put
      <4> QED
        BY <4>2, <4>3, Zenon DEF name, args
    <3>4. FlagsAre(i, from[i].flags, argv)
      BY <3>1, <3>3, <2>5, <2>2, <1>1, FlagsStep, ZenonT(60)
    <3>5. ASSUME NEW j \in Plain(argv)
          PROVE  i <= j <=> k <= j
      <4>1. j \in 2 .. N /\ j # i
        BY <2>5 DEF Plain
      <4>2. ~(k = i + 2 /\ j = i + 1)
        BY <2>5, <4>1, SMT DEF Plain
      <4> QED
        BY <4>1, <4>2, <2>5, <2>2, SMT
    <3>6. PlainFrom(i, argv) = PlainFrom(k, argv)
      BY <3>5, Zenon DEF PlainFrom
    <3>7. PlainAre(i, from[i].positional, argv)
      BY <3>1, <3>3, <3>6 DEF PlainAre, PlainUpTo
    <3> QED
      BY <3>4, <3>7 DEF Found
  <2>6. CASE IsFlag(argv[i]) /\ TakesValue(argv, i)
    <3>1. i < N /\ ~IsFlag(argv[i + 1])
      BY <2>6 DEF TakesValue
    <3>2. IsValue(argv, i + 1)
      BY <2>2, <2>6, <3>1 DEF IsValue
    <3>3. Reached(i + 2)
      BY <2>2, <3>1 DEF IsValue
    <3>4. ValueAt(argv, i) = argv[i + 1]
      BY <3>1, <3>2 DEF ValueAt
    <3>5. argv[i + 1] \in Texts(A)
      <4>1. i + 1 \in 1 .. N
        BY <3>1, <2>2, SMT
      <4> QED
        BY <4>1, <1>1 DEF Texts
    <3> QED
      BY <2>2, <2>5, <2>6, <3>1, <3>2, <3>3, <3>4, <3>5, <1>3
  <2>7. CASE IsFlag(argv[i]) /\ ~TakesValue(argv, i)
    <3>1. i < N => IsFlag(argv[i + 1])
      BY <2>7 DEF TakesValue
    <3>2. Reached(i + 1) /\ (i < N => ~IsValue(argv, i + 1))
      BY <3>1, <2>2 DEF IsValue
    <3>3. ValueAt(argv, i) = "true"
      BY <3>2 DEF ValueAt
    <3>4. "true" \in Texts(A)
      BY DEF Texts
    <3> QED
      BY <2>2, <2>5, <2>7, <3>2, <3>3, <3>4, <1>3
  <2> QED
    BY <2>4, <2>6, <2>7, Zenon
<1>7. \A i \in 1 .. N + 2 : i \in T
  <2>. HIDE DEF T, N
  <2> QED
    BY <1>1, <1>5, <1>6, BackwardInduction, Zenon
<1>8. 2 \in 1 .. N + 2 /\ ~IsValue(argv, 2) /\ 2 >= 2
  BY <1>1, SMT DEF IsValue
<1>9. Found(2, from[2], argv) /\ from[2] \in ParsedArgs(A)
  BY <1>2, <1>7, <1>8
<1> QED
  BY <1>9 DEF from

(* parse() gives every argument the place that its position means. *)
LEMMA ParseByPosition ==
  ASSUME NEW A, NEW argv \in Seq(A), argv # <<>>, Parse(argv).command = argv[1]
  PROVE  /\ IsPositional(Parse(argv).positional, argv)
         /\ Parse(argv).flags = FlagsOf(argv)
<1>1. Parse(argv) = Arguments(argv)[2]
  <2>1. argv[1] \notin {"--help", "-h"} /\ argv[1] \notin {"--version", "-v"}
    <3>1. CASE argv[1] \in {"--help", "-h"}
      <4>1. Parse(argv) = CASE argv[1] \in {"--help", "-h"}    -> Bare("help")
                            [] argv[1] \in {"--version", "-v"} -> Bare("version")
                            [] OTHER -> Arguments(argv)[2]
        BY DEF Parse
      <4>2. argv[1] \notin {"--version", "-v"}
        BY <3>1
      <4>3. Parse(argv) = Bare("help")
        BY <3>1, <4>1, <4>2, Zenon
      <4> QED
        BY <3>1, <4>3 DEF Bare
    <3>2. CASE argv[1] \in {"--version", "-v"}
      <4>1. Parse(argv) = CASE argv[1] \in {"--help", "-h"}    -> Bare("help")
                            [] argv[1] \in {"--version", "-v"} -> Bare("version")
                            [] OTHER -> Arguments(argv)[2]
        BY DEF Parse
      <4>2. argv[1] \notin {"--help", "-h"}
        BY <3>2
      <4>3. Parse(argv) = Bare("version")
        BY <3>2, <4>1, <4>2, Zenon
      <4> QED
        BY <3>2, <4>3 DEF Bare
    <3> QED
      BY <3>1, <3>2
  <2> QED
    BY <2>1, Zenon DEF Parse
<1>2. Found(2, Parse(argv), argv) /\ Parse(argv) \in ParsedArgs(A)
  BY <1>1, ArgumentsFound
<1>. DEFINE parsed == Parse(argv)
<1>. HIDE DEF parsed
<1>3. PlainAre(2, parsed.positional, argv) /\ FlagsAre(2, parsed.flags, argv) /\ parsed.flags \in Tables(A)
  BY <1>2 DEF Found, ParsedArgs, parsed
<1>4. IsPositional(parsed.positional, argv)
  <2>1. PlainFrom(2, argv) = Plain(argv)
    BY SMT DEF PlainFrom, Plain
  <2> QED
    BY <1>3, <2>1 DEF IsPositional, PlainAre, PlainUpTo
<1>5. parsed.flags = FlagsOf(argv)
  <2>. DEFINE D == {n \in Range(Dashed) : PlacesOf(n, argv) # {}}
  <2>1. \A n : \A p \in PlacesOf(n, argv) : 2 <= p /\ p \in Int
    BY SMT DEF PlacesOf
  <2>2. DOMAIN parsed.flags = D
    BY <1>3, <2>1, Zenon DEF FlagsAre
  <2>3. ASSUME NEW n \in D
        PROVE  parsed.flags[n] = ValueAt(argv, Max(PlacesOf(n, argv)))
    <3>1. PICK p : LastPlace(p, 2, n, argv) /\ parsed.flags[n] = ValueAt(argv, p)
      BY <1>3, <2>2 DEF FlagsAre
    <3>2. /\ p \in PlacesOf(n, argv) /\ p \in Int
          /\ \A q \in PlacesOf(n, argv) : q \in Int /\ q <= p
      BY <2>1, <3>1 DEF LastPlace
    <3>. DEFINE max == Max(PlacesOf(n, argv))
    <3>3. max = CHOOSE x \in PlacesOf(n, argv) : \A y \in PlacesOf(n, argv) : x >= y
      BY DEF Max
    <3>4. \A y \in PlacesOf(n, argv) : p >= y
      BY <3>2, SMT
    <3>5. max \in PlacesOf(n, argv) /\ \A y \in PlacesOf(n, argv) : max >= y
      BY <3>2, <3>3, <3>4, Zenon
    <3>. HIDE DEF max
    <3>6. max = p
      <4>1. max >= p /\ max <= p /\ max \in Int
        BY <3>2, <3>5
      <4> QED
        BY <3>2, <4>1, SMT
    <3> QED
      BY <3>1, <3>6 DEF max
  <2>4. parsed.flags = [n \in D |-> parsed.flags[n]]
    BY <1>3, <2>2, Zenon DEF Tables
  <2> QED
    BY <2>3, <2>4, Zenon DEF FlagsOf
<1> QED
  BY <1>4, <1>5 DEF parsed

-----------------------------------------------------------------------------
(* 5. JSON.                                                                *)

(* flat is the sequences one after the other: the n-th ends at at[n].        *)
Placed(flat, seqs, at) ==
  /\ at \in [0 .. Len(seqs) -> Nat] /\ at[0] = 0 /\ Len(flat) = at[Len(seqs)]
  /\ \A n \in 1 .. Len(seqs) :
       /\ at[n] = at[n - 1] + Len(seqs[n]) /\ at[n] <= Len(flat)
       /\ \A k \in 1 .. Len(seqs[n]) : flat[at[n - 1] + k] = seqs[n][k]
  /\ \A i \in 1 .. Len(flat) :
       \E n \in 1 .. Len(seqs) : \E k \in 1 .. Len(seqs[n]) : i = at[n - 1] + k

(* FlattenSeq as a run over its sequences. *)
LEMMA FlattenRuns ==
  ASSUME NEW C, NEW seqs \in Seq(Seq(C))
  PROVE  \E f \in [0 .. Len(seqs) -> Seq(C)] :
            /\ f[0] = <<>> /\ FlattenSeq(seqs) = f[Len(seqs)]
            /\ \A n \in 1 .. Len(seqs) : f[n] = f[n - 1] \o seqs[n]
<1>. DEFINE N == Len(seqs)
            step == [n \in 1 .. N |-> [s \in Seq(C) |-> s \o seqs[n]]]
            IsFlat(g) == g = [i \in 1 .. Len(seqs) |-> IF i = 1 THEN seqs[i] ELSE g[i - 1] \o seqs[i]]
            none == <<>>
<1>1. N \in Nat /\ \A n \in 1 .. N : seqs[n] \in Seq(C)
  BY ElementOfSeq, LenProperties
<1>2. none \in Seq(C)
  OBVIOUS
<1>3. step \in [1 .. N -> [Seq(C) -> Seq(C)]]
  <2>1. ASSUME NEW n \in 1 .. N, NEW s \in Seq(C)
        PROVE  s \o seqs[n] \in Seq(C)
    BY <1>1, ConcatProperties
  <2> QED
    BY <2>1, Zenon
<1>4. PICK f \in [0 .. N -> Seq(C)] : Runs(f, N, none, step)
  <2>. HIDE DEF N, step, none
  <2> QED
    BY <1>1, <1>2, <1>3, Recursion, Zenon
<1>5. f[0] = <<>>
  BY <1>4 DEF Runs
<1>6. ASSUME NEW n \in 1 .. N
      PROVE  f[n] = f[n - 1] \o seqs[n] /\ n - 1 \in 0 .. N /\ f[n - 1] \in Seq(C)
  <2>1. n - 1 \in 0 .. N
    BY <1>1, SMT
  <2>2. f[n - 1] \in Seq(C)
    BY <2>1
  <2>3. step[n][f[n - 1]] = f[n - 1] \o seqs[n]
    BY <2>2
  <2> QED
    BY <1>4, <2>1, <2>2, <2>3 DEF Runs
<1>7. FlattenSeq(seqs) = f[N]
  <2>1. CASE N = 0
    <3>1. seqs = <<>>
      BY <2>1, EmptySeq
    <3> QED
      BY <2>1, <3>1, <1>5 DEF FlattenSeq
  <2>2. CASE N # 0
    <3>. DEFINE g == CHOOSE g : IsFlat(g)
                h == [i \in 1 .. N |-> f[i]]
    <3>1. FlattenSeq(seqs) = g[N]
      BY <2>2 DEF FlattenSeq
    <3>2. 1 \in 1 .. N /\ f[1] = seqs[1]
      <4>1. 1 \in 1 .. N /\ 1 - 1 = 0
        BY <1>1, <2>2, SMT
      <4>2. f[1] = <<>> \o seqs[1]
        BY <4>1, <1>5, <1>6
      <4> QED
        BY <4>1, <4>2, <1>1, ConcatEmptySeq
    <3>3. \A i \in 1 .. N : i # 1 => i - 1 \in 1 .. N
      BY <1>1, SMT
    <3>4. IsFlat(h)
      <4>1. ASSUME NEW i \in 1 .. N
            PROVE  h[i] = IF i = 1 THEN seqs[i] ELSE h[i - 1] \o seqs[i]
        <5>1. CASE i = 1
          BY <5>1, <3>2
        <5>2. CASE i # 1
          BY <5>2, <3>3, <1>6
        <5> QED
          BY <5>1, <5>2
      <4> QED
        BY <4>1, Zenon
    <3>5. IsFlat(g)
      BY <3>4, Zenon
    <3>. HIDE DEF g
    <3>6. \A i \in 1 .. N : g[i] = IF i = 1 THEN seqs[i] ELSE g[i - 1] \o seqs[i]
      BY <3>5, Zenon
    <3>. DEFINE T == {n \in Nat : n + 1 <= N => g[n + 1] = f[n + 1]}
    <3>7. 0 \in T
      <4>1. 0 + 1 = 1
        BY SMT
      <4> QED
        BY <4>1, <3>2, <3>6
    <3>8. ASSUME NEW n \in T
          PROVE  n + 1 \in T
      <4>1. SUFFICES ASSUME (n + 1) + 1 <= N
                     PROVE  g[(n + 1) + 1] = f[(n + 1) + 1]
        BY SMT
      <4>2. /\ (n + 1) + 1 \in 1 .. N /\ (n + 1) + 1 # 1 /\ ((n + 1) + 1) - 1 = n + 1
            /\ n + 1 <= N
        BY <4>1, SMT
      <4>3. g[n + 1] = f[n + 1]
        BY <4>2
      <4>4. g[(n + 1) + 1] = g[n + 1] \o seqs[(n + 1) + 1]
        BY <4>2, <3>6
      <4>5. f[(n + 1) + 1] = f[n + 1] \o seqs[(n + 1) + 1]
        BY <4>2, <1>6
      <4> QED
        BY <4>3, <4>4, <4>5
    <3>9. T = Nat
      <4>1. T \in SUBSET Nat
        OBVIOUS
      <4>. HIDE DEF T
      <4> QED
        BY <3>7, <3>8, <4>1, SetInduction
    <3>10. N - 1 \in Nat /\ (N - 1) + 1 = N /\ N <= N
      BY <2>2, <1>1, SMT
    <3>11. N - 1 \in T
      <4>. HIDE DEF T
      <4> QED
        BY <3>9, <3>10
    <3> QED
      BY <3>1, <3>10, <3>11
  <2> QED
    BY <2>1, <2>2
<1> QED
  BY <1>5, <1>6, <1>7

(* FlattenSeq puts its sequences one after the other. *)
LEMMA FlattenPlaces ==
  ASSUME NEW C, NEW seqs \in Seq(Seq(C))
  PROVE  FlattenSeq(seqs) \in Seq(C) /\ \E at : Placed(FlattenSeq(seqs), seqs, at)
<1>. DEFINE N == Len(seqs)
<1>1. N \in Nat /\ \A n \in 1 .. N : seqs[n] \in Seq(C) /\ Len(seqs[n]) \in Nat
  BY ElementOfSeq, LenProperties
<1>2. PICK f \in [0 .. N -> Seq(C)] :
            /\ f[0] = <<>> /\ FlattenSeq(seqs) = f[N]
            /\ \A n \in 1 .. N : f[n] = f[n - 1] \o seqs[n]
  BY FlattenRuns
<1>. DEFINE at == [n \in 0 .. N |-> Len(f[n])]
<1>3. at \in [0 .. N -> Nat] /\ at[0] = 0
  BY <1>1, <1>2, LenProperties, SMT
<1>4. ASSUME NEW n \in 1 .. N
      PROVE  /\ n - 1 \in 0 .. N /\ n \in 0 .. N
             /\ at[n] = at[n - 1] + Len(seqs[n])
             /\ \A k \in 1 .. at[n - 1] : f[n][k] = f[n - 1][k]
             /\ \A k \in 1 .. Len(seqs[n]) : f[n][at[n - 1] + k] = seqs[n][k]
  <2>1. n - 1 \in 0 .. N /\ n \in 0 .. N
    BY <1>1, SMT
  <2>2. f[n - 1] \in Seq(C) /\ f[n] = f[n - 1] \o seqs[n]
    BY <2>1, <1>2
  <2>3. /\ Len(f[n]) = Len(f[n - 1]) + Len(seqs[n])
        /\ \A i \in 1 .. Len(f[n - 1]) + Len(seqs[n]) :
             f[n][i] = IF i <= Len(f[n - 1]) THEN f[n - 1][i] ELSE seqs[n][i - Len(f[n - 1])]
    <3>1. seqs[n] \in Seq(C)
      BY <1>1
    <3>. DEFINE front == f[n - 1]
                back == seqs[n]
    <3>. HIDE DEF front, back
    <3>2. /\ Len(front \o back) = Len(front) + Len(back)
          /\ \A i \in 1 .. Len(front) + Len(back) :
               (front \o back)[i] = IF i <= Len(front) THEN front[i] ELSE back[i - Len(front)]
      <4>1. front \in Seq(C) /\ back \in Seq(C)
        BY <2>2, <3>1 DEF front, back
      <4> QED
        BY <4>1, ConcatProperties
    <3> QED
      BY <2>2, <3>2 DEF front, back
  <2>4. at[n] = Len(f[n]) /\ at[n - 1] = Len(f[n - 1]) /\ at[n - 1] \in Nat
    BY <2>1, <1>3
  <2>. HIDE DEF at, N
  <2>. DEFINE a == at[n - 1]
              l == Len(seqs[n])
  <2>7. a \in Nat /\ l \in Nat /\ a = Len(f[n - 1])
    BY <2>4, <1>1
  <2>. HIDE DEF a, l
  <2>5. \A k \in 1 .. at[n - 1] : f[n][k] = f[n - 1][k]
    <3>1. \A k \in 1 .. a : k \in 1 .. a + l /\ k <= a
      BY <2>7, SMT
    <3> QED
      BY <2>3, <2>7, <3>1 DEF a, l
  <2>6. ASSUME NEW k \in 1 .. Len(seqs[n])
        PROVE  f[n][at[n - 1] + k] = seqs[n][k]
    <3>1. k \in 1 .. l
      BY DEF l
    <3>2. a + k \in 1 .. a + l /\ ~(a + k <= a) /\ (a + k) - a = k
      BY <2>7, <3>1, SMT
    <3> QED
      BY <2>3, <2>7, <3>2 DEF a, l
  <2> QED
    BY <2>1, <2>3, <2>4, <2>5, <2>6
<1>. HIDE DEF at
<1>. DEFINE Has(n, m) ==
              /\ at[m] <= at[n]
              /\ \A k \in 1 .. Len(seqs[m]) : f[n][at[m - 1] + k] = seqs[m][k]
            Covers(n) ==
              \A i \in 1 .. at[n] :
                 \E m \in 1 .. N : \E k \in 1 .. Len(seqs[m]) : i = at[m - 1] + k
            T == {n \in Nat : n <= N => Covers(n) /\ \A m \in 1 .. n : Has(n, m)}
<1>5. 0 \in T
  BY <1>3, SMT
<1>6. ASSUME NEW n \in T
      PROVE  n + 1 \in T
  <2>1. SUFFICES ASSUME n + 1 <= N
                 PROVE  Covers(n + 1) /\ \A m \in 1 .. n + 1 : Has(n + 1, m)
    BY SMT
  <2>2. /\ n + 1 \in 1 .. N /\ (n + 1) - 1 = n /\ n <= N /\ n \in 0 .. N /\ n + 1 \in 0 .. N
        /\ \A m \in 1 .. n : m \in 1 .. N /\ m \in 0 .. N /\ m - 1 \in 0 .. N
    BY <2>1, <1>1, SMTT(60)
  <2>3. Covers(n) /\ \A m \in 1 .. n : Has(n, m)
    BY <2>2
  <2>4. /\ at[n + 1] = at[n] + Len(seqs[n + 1])
        /\ \A k \in 1 .. at[n] : f[n + 1][k] = f[n][k]
        /\ \A k \in 1 .. Len(seqs[n + 1]) : f[n + 1][at[n] + k] = seqs[n + 1][k]
    BY <1>4, <2>2
  <2>5. at[n] \in Nat /\ at[n + 1] \in Nat /\ Len(seqs[n + 1]) \in Nat
    BY <1>1, <1>3, <2>2
  <2>6. ASSUME NEW m \in 1 .. n + 1
        PROVE  Has(n + 1, m)
    <3>1. CASE m = n + 1
      <4>1. at[n + 1] <= at[n + 1]
        BY <2>5, SMT
      <4> QED
        BY <3>1, <2>2, <2>4, <4>1
    <3>2. CASE m # n + 1
      <4>1. m \in 1 .. n
        BY <3>2, SMT
      <4>2. Has(n, m)
        BY <4>1, <2>3
      <4>3. /\ at[m] \in Nat /\ at[m - 1] \in Nat /\ at[m] = at[m - 1] + Len(seqs[m])
            /\ Len(seqs[m]) \in Nat
        BY <4>1, <2>2, <1>1, <1>3, <1>4
      <4>4. at[m] <= at[n + 1]
        BY <4>2, <4>3, <2>4, <2>5, SMTT(60)
      <4>5. ASSUME NEW k \in 1 .. Len(seqs[m])
            PROVE  f[n + 1][at[m - 1] + k] = seqs[m][k]
        <5>1. at[m - 1] + k \in 1 .. at[n]
          <6>. DEFINE l == Len(seqs[m])
                      a == at[m - 1]
                      b == at[m]
                      d == at[n]
          <6>1. l \in Nat /\ a \in Nat /\ b = a + l /\ b <= d /\ d \in Nat /\ k \in 1 .. l
            BY <4>2, <4>3, <2>5
          <6>. HIDE DEF l, a, b, d
          <6>2. a + k \in 1 .. d
            BY <6>1, SMT
          <6> QED
            BY <6>2 DEF a, d
        <5> QED
          BY <5>1, <2>4, <4>2
      <4> QED
        BY <4>4, <4>5
    <3> QED
      BY <3>1, <3>2
  <2>7. ASSUME NEW i \in 1 .. at[n + 1]
        PROVE  \E m \in 1 .. N : \E k \in 1 .. Len(seqs[m]) : i = at[m - 1] + k
    <3>1. CASE i <= at[n]
      <4>1. i \in 1 .. at[n]
        BY <3>1, <2>5, SMT
      <4> QED
        BY <4>1, <2>3
    <3>2. CASE ~(i <= at[n])
      <4>. DEFINE k == i - at[n]
      <4>1. k \in 1 .. Len(seqs[n + 1]) /\ i = at[n] + k
        BY <3>2, <2>4, <2>5, SMTT(60)
      <4>. HIDE DEF k
      <4> QED
        BY <4>1, <2>2
    <3> QED
      BY <3>1, <3>2
  <2> QED
    BY <2>6, <2>7
<1>7. T = Nat
  <2>1. T \in SUBSET Nat
    OBVIOUS
  <2>. HIDE DEF T
  <2> QED
    BY <1>5, <1>6, <2>1, SetInduction
<1>8. Covers(N) /\ \A m \in 1 .. N : Has(N, m)
  <2>1. N \in T
    <3>. HIDE DEF T
    <3> QED
      BY <1>1, <1>7
  <2>2. N <= N
    BY <1>1, SMT
  <2> QED
    BY <2>1, <2>2
<1>9. N \in 0 .. N /\ f[N] \in Seq(C) /\ Len(f[N]) = at[N]
  <2>1. N \in 0 .. N
    BY <1>1, SMT
  <2> QED
    BY <2>1, <1>2 DEF at
<1>10. Placed(FlattenSeq(seqs), seqs, at)
  <2>. DEFINE flat == FlattenSeq(seqs)
  <2>1. flat = f[N] /\ Len(flat) = at[N]
    BY <1>2, <1>9
  <2>. HIDE DEF flat
  <2>2. ASSUME NEW n \in 1 .. N
        PROVE  /\ at[n] = at[n - 1] + Len(seqs[n]) /\ at[n] <= Len(flat)
               /\ \A k \in 1 .. Len(seqs[n]) : flat[at[n - 1] + k] = seqs[n][k]
    BY <1>4, <1>8, <2>1
  <2>3. \A i \in 1 .. Len(flat) :
           \E n \in 1 .. N : \E k \in 1 .. Len(seqs[n]) : i = at[n - 1] + k
    BY <1>8, <2>1
  <2>4. Placed(flat, seqs, at)
    BY <1>3, <2>1, <2>2, <2>3, Zenon DEF Placed
  <2> QED
    BY <2>4 DEF flat
<1> QED
  BY <1>2, <1>9, <1>10

(* Characters are strings; the provers are told that those with a name are. *)
Char == STRING \cup
        {Quote, Escape, "newline", "n", "u0001", ":", ",", "{", "}", "x", "linux", "5050",
         "msgId", "senderId", "senderName", "timestampUtc", "text",
         "device_id", "display_name", "platform", "tcp_port"}

(* The texts of these characters. *)
Text == Seq(Char)

(* What Reading says from a position follows from the next two. *)
LEMMA ReadingStep ==
  ASSUME NEW s \in Text, NEW ends
  PROVE  /\ Reading(s, ends) \in [1 .. Len(s) + 2 -> Text]
         /\ Reading(s, ends)[Len(s) + 1] = <<>>
         /\ \A i \in 1 .. Len(s) :
              /\ Escapes(s, i) =>
                   Reading(s, ends)[i] = <<Unescaped(s[i + 1])>> \o Reading(s, ends)[i + 2]
              /\ ~Escapes(s, i) /\ s[i] \in ends => Reading(s, ends)[i] = <<>>
              /\ ~Escapes(s, i) /\ s[i] \notin ends =>
                   Reading(s, ends)[i] = <<s[i]>> \o Reading(s, ends)[i + 1]
<1>. DEFINE N == Len(s)
            Step(i, one, two) ==
              CASE Escapes(s, i) -> <<Unescaped(s[i + 1])>> \o two
                [] ~Escapes(s, i) /\ s[i] \in ends -> <<>>
                [] OTHER -> <<s[i]>> \o one
            IsFrom(f) ==
              f = [i \in 1 .. Len(s) + 2 |->
                     IF i > Len(s) THEN <<>> ELSE Step(i, f[i + 1], f[i + 2])]
            step == [i \in 1 .. N |-> [p \in Text \X Text |-> Step(i, p[1], p[2])]]
            from == Reading(s, ends)
            last == <<>>
<1>1. N \in Nat /\ \A i \in 1 .. N : s[i] \in Char
  BY ElementOfSeq, LenProperties DEF Text
<1>2. last \in Text
  BY DEF Text
<1>3. ASSUME NEW i \in 1 .. N, NEW one \in Text, NEW two \in Text
      PROVE  /\ Step(i, one, two) \in Text
             /\ Escapes(s, i) => Step(i, one, two) = <<Unescaped(s[i + 1])>> \o two
             /\ ~Escapes(s, i) /\ s[i] \in ends => Step(i, one, two) = <<>>
             /\ ~Escapes(s, i) /\ s[i] \notin ends => Step(i, one, two) = <<s[i]>> \o one
  <2>. DEFINE escaped == <<Unescaped(s[i + 1])>> \o two
              plain == <<s[i]>> \o one
              none == <<>>
  <2>1. Step(i, one, two) = CASE Escapes(s, i) -> escaped
                              [] ~Escapes(s, i) /\ s[i] \in ends -> none
                              [] OTHER -> plain
    OBVIOUS
  <2>2. plain \in Text
    <3>1. <<s[i]>> \in Text
      BY <1>1 DEF Text
    <3> QED
      BY <3>1, ConcatProperties DEF Text
  <2>3. Escapes(s, i) => escaped \in Text
    <3>1. Escapes(s, i) => s[i + 1] \in Char
      <4>1. Escapes(s, i) => i + 1 \in 1 .. N
        BY <1>1, SMT DEF Escapes
      <4> QED
        BY <4>1, <1>1
    <3>2. Escapes(s, i) => Unescaped(s[i + 1]) \in Char
      <4>1. \A c \in Char : Unescaped(c) \in Char
        BY Zenon DEF Unescaped, Char
      <4> QED
        BY <3>1, <4>1
    <3>3. Escapes(s, i) => <<Unescaped(s[i + 1])>> \in Text
      BY <3>2 DEF Text
    <3> QED
      BY <3>3, ConcatProperties DEF Text
  <2>4. none \in Text
    BY DEF Text
  <2>. HIDE DEF escaped, plain, none, Step
  <2>5. CASE Escapes(s, i)
    BY <2>1, <2>3, <2>5, Zenon DEF escaped
  <2>6. CASE ~Escapes(s, i) /\ s[i] \in ends
    BY <2>1, <2>4, <2>6, Zenon DEF none
  <2>7. CASE ~Escapes(s, i) /\ s[i] \notin ends
    BY <2>1, <2>2, <2>7, Zenon DEF plain
  <2> QED
    BY <2>5, <2>6, <2>7, Zenon
<1>. HIDE DEF Step
<1>4. step \in [1 .. N -> [Text \X Text -> Text]]
  <2>1. ASSUME NEW i \in 1 .. N, NEW p \in Text \X Text
        PROVE  Step(i, p[1], p[2]) \in Text
    BY <1>3
  <2> QED
    BY <2>1, Zenon
<1>5. PICK f \in [1 .. N + 2 -> Text] : RunsBack(f, N, last, step)
  <2>. HIDE DEF N, step, last
  <2> QED
    BY <1>1, <1>2, <1>4, BackwardRecursion, Zenon
<1>6. \A i \in 1 .. N : /\ i \in 1 .. N + 2 /\ i + 1 \in 1 .. N + 2 /\ i + 2 \in 1 .. N + 2
                        /\ ~(i > N)
  BY <1>1, SMT
<1>7. ASSUME NEW i \in 1 .. N
      PROVE  f[i] = Step(i, f[i + 1], f[i + 2])
  <2>1. f[i + 1] \in Text /\ f[i + 2] \in Text
    BY <1>6
  <2>. DEFINE p == <<f[i + 1], f[i + 2]>>
  <2>2. step[i][p] = Step(i, p[1], p[2])
    BY <2>1
  <2>3. p[1] = f[i + 1] /\ p[2] = f[i + 2]
    OBVIOUS
  <2>4. f[i] = step[i][p]
    BY <1>5 DEF RunsBack
  <2>. HIDE DEF p, step
  <2> QED
    BY <2>2, <2>3, <2>4
<1>8. /\ N + 1 \in 1 .. N + 2 /\ N + 2 \in 1 .. N + 2 /\ N + 1 > N /\ N + 2 > N
      /\ \A i \in 1 .. N + 2 : i \in 1 .. N \/ (i > N /\ (i = N + 1 \/ i = N + 2))
  BY <1>1, SMT
<1>9. IsFrom(f)
  <2>1. f[N + 1] = last /\ f[N + 2] = last
    BY <1>5 DEF RunsBack
  <2>2. \A i \in 1 .. N + 2 : f[i] = IF i > N THEN last ELSE Step(i, f[i + 1], f[i + 2])
    <3>. HIDE DEF last, N
    <3> QED
      BY <2>1, <1>6, <1>7, <1>8, Zenon
  <2> QED
    BY <2>2, Zenon
<1>10. IsFrom(from)
  <2>1. from = CHOOSE g : IsFrom(g)
    BY DEF Reading, Step
  <2> QED
    BY <1>9, <2>1, Zenon
<1>. HIDE DEF from
<1>11. /\ from = [i \in 1 .. N + 2 |-> from[i]]
       /\ from[N + 1] = last /\ from[N + 2] = last
       /\ \A i \in 1 .. N : from[i] = Step(i, from[i + 1], from[i + 2])
  <2>. HIDE DEF last
  <2>1. \A i \in 1 .. N + 2 : from[i] = IF i > N THEN last ELSE Step(i, from[i + 1], from[i + 2])
    BY <1>10, Zenon DEF last
  <2>2. from = [i \in 1 .. N + 2 |-> from[i]]
    BY <1>10, <2>1, Zenon DEF last
  <2> QED
    BY <1>6, <1>8, <2>1, <2>2, Zenon
<1>12. from = f
  <2>1. f[N + 1] = last /\ f[N + 2] = last
    BY <1>5 DEF RunsBack
  <2>2. \A i \in 1 .. N :
          from[i + 1] = f[i + 1] /\ from[i + 2] = f[i + 2] => from[i] = f[i]
    BY <1>7, <1>11, Zenon
  <2>3. from[N + 1] = f[N + 1] /\ from[N + 2] = f[N + 2]
    BY <1>11, <2>1
  <2>4. f = [i \in 1 .. N + 2 |-> f[i]]
    BY <1>5
  <2>5. from = [i \in 1 .. N + 2 |-> from[i]]
    BY <1>11
  <2>. HIDE DEF last, N
  <2>6. FollowBack(f, from, N)
    BY <2>2, <2>3, <2>4, <2>5, Zenon DEF FollowBack
  <2> QED
    BY <1>1, <2>6, SameBack, Zenon
<1>13. ASSUME NEW i \in 1 .. N
       PROVE  from[i] = Step(i, from[i + 1], from[i + 2]) /\ from[i + 1] \in Text
              /\ from[i + 2] \in Text
  BY <1>6, <1>11, <1>12
<1>14. ASSUME NEW i \in 1 .. N
       PROVE  /\ Escapes(s, i) => from[i] = <<Unescaped(s[i + 1])>> \o from[i + 2]
              /\ ~Escapes(s, i) /\ s[i] \in ends => from[i] = <<>>
              /\ ~Escapes(s, i) /\ s[i] \notin ends => from[i] = <<s[i]>> \o from[i + 1]
  <2>. DEFINE one == from[i + 1]
              two == from[i + 2]
  <2>1. from[i] = Step(i, one, two) /\ one \in Text /\ two \in Text
    BY <1>13
  <2>. HIDE DEF one, two
  <2>2. /\ Escapes(s, i) => Step(i, one, two) = <<Unescaped(s[i + 1])>> \o two
        /\ ~Escapes(s, i) /\ s[i] \in ends => Step(i, one, two) = <<>>
        /\ ~Escapes(s, i) /\ s[i] \notin ends => Step(i, one, two) = <<s[i]>> \o one
    BY <1>3, <2>1
  <2> QED
    BY <2>1, <2>2, Zenon DEF one, two
<1>15. from \in [1 .. N + 2 -> Text]
  BY <1>12
<1> QED
  BY <1>11, <1>14, <1>15, Zenon DEF from

(* How a character is written: as it is, or with a backslash. *)
IsLetter(block, c) ==
  \/ block = <<c>> /\ c \notin {Quote, Escape}
  \/ \E x \in Char : block = <<Escape, x>> /\ Unescaped(x) = c

(* A letter for every character of the text. *)
Spells(blocks, t) ==
  Len(blocks) = Len(t) /\ \A n \in 1 .. Len(t) : IsLetter(blocks[n], t[n])

(* flat stands in s after the first d characters. *)
StandsAt(flat, s, d) ==
  d + Len(flat) <= Len(s) /\ \A k \in 1 .. Len(flat) : s[d + k] = flat[k]

(* The first n characters of t. *)
FirstOf(t, n) == [k \in 1 .. n |-> t[k]]

(* One element more at the end. *)
LEMMA OneMore ==
  ASSUME NEW C, NEW a \in Seq(C), NEW b \in Seq(C), Len(b) = 1
  PROVE  /\ a \o b \in Seq(C) /\ Len(a \o b) = Len(a) + 1
         /\ \A k \in 1 .. Len(a) + 1 :
              (a \o b)[k] = IF k <= Len(a) THEN a[k] ELSE b[k - Len(a)]
<1>1. Len(a \o b) = Len(a) + 1
  <2>1. Len(a \o b) = Len(a) + Len(b)
    BY ConcatProperties
  <2> QED
    BY <2>1
<1>2. /\ a \o b \in Seq(C)
      /\ \A k \in 1 .. Len(a) + Len(b) :
              (a \o b)[k] = IF k <= Len(a) THEN a[k] ELSE b[k - Len(a)]
  BY ConcatProperties
<1> QED
  BY <1>1, <1>2

(* The next character moves from the rest to the front. *)
LEMMA FrontGrows ==
  ASSUME NEW t \in Text, NEW n \in Nat, n + 1 <= Len(t), NEW rest \in Text
  PROVE  FirstOf(t, n) \o (<<t[n + 1]>> \o rest) = FirstOf(t, n + 1) \o rest
<1>1. Len(t) \in Nat /\ \A k \in 1 .. Len(t) : t[k] \in Char
  BY ElementOfSeq, LenProperties DEF Text
<1>2. n \in Nat /\ n + 1 \in Nat /\ \A k \in 1 .. n + 1 : k \in 1 .. Len(t)
  BY <1>1, SMT
<1>3. FirstOf(t, n) \in Text /\ Len(FirstOf(t, n)) = n
  <2>1. \A k \in 1 .. n : k \in 1 .. n + 1
    BY SMT
  <2>2. FirstOf(t, n) \in [1 .. n -> Char]
    BY <1>1, <1>2, <2>1 DEF FirstOf
  <2> QED
    BY <2>2 DEF Text
<1>4. FirstOf(t, n + 1) \in [1 .. n + 1 -> Char]
  BY <1>1, <1>2 DEF FirstOf
<1>5. FirstOf(t, n + 1) \in Text /\ Len(FirstOf(t, n + 1)) = n + 1
  BY <1>2, <1>4 DEF Text
<1>6. t[n + 1] \in Char
  <2>1. n + 1 \in 1 .. Len(t)
    BY <1>1, SMT
  <2> QED
    BY <2>1, <1>1
<1>. DEFINE a == FirstOf(t, n)
            b == <<t[n + 1]>>
<1>7. b \in Text /\ Len(b) = 1 /\ b[1] = t[n + 1]
  BY <1>6 DEF Text
<1>8. a \o b = FirstOf(t, n + 1)
  <2>1. /\ a \o b \in Text /\ Len(a \o b) = n + 1
        /\ \A k \in 1 .. n + 1 : (a \o b)[k] = IF k <= n THEN a[k] ELSE b[k - n]
    <3>1. a \in Seq(Char) /\ b \in Seq(Char) /\ Len(a) = n /\ Len(b) = 1
      BY <1>3, <1>7 DEF Text
    <3>. HIDE DEF a, b
    <3>2. /\ a \o b \in Seq(Char) /\ Len(a \o b) = Len(a) + 1
          /\ \A k \in 1 .. Len(a) + 1 :
               (a \o b)[k] = IF k <= Len(a) THEN a[k] ELSE b[k - Len(a)]
      BY <3>1, OneMore, Zenon
    <3> QED
      BY <3>1, <3>2, Zenon DEF Text
  <2>2. ASSUME NEW k \in 1 .. n + 1
        PROVE  (a \o b)[k] = FirstOf(t, n + 1)[k]
    <3>1. CASE k <= n
      <4>1. k \in 1 .. n
        BY <3>1, SMT
      <4>2. a[k] = t[k]
        BY <4>1 DEF FirstOf
      <4> QED
        BY <2>1, <3>1, <4>2 DEF FirstOf
    <3>2. CASE ~(k <= n)
      <4>1. k = n + 1 /\ k - n = 1
        BY <3>2, SMT
      <4>2. (a \o b)[k] = b[1]
        BY <2>1, <3>2, <4>1
      <4> QED
        BY <4>1, <4>2, <1>7 DEF FirstOf
    <3> QED
      BY <3>1, <3>2
  <2>. HIDE DEF a, b
  <2> QED
    BY <2>1, <2>2, <1>5, SeqEqual DEF Text
<1>9. a \o (b \o rest) = (a \o b) \o rest
  <2>1. a \in Seq(Char) /\ b \in Seq(Char) /\ rest \in Seq(Char)
    BY <1>3, <1>7 DEF Text
  <2>. HIDE DEF a, b
  <2> QED
    BY <2>1, ConcatAssociative, SMTT(60)
<1>. HIDE DEF a, b
<1> QED
  BY <1>8, <1>9 DEF a, b

(* Reading passes over a text that is spelled in s and says it. *)
LEMMA TextIsRead ==
  ASSUME NEW s \in Text, NEW ends, ends \subseteq {Quote},
         NEW t \in Text, NEW blocks, Spells(blocks, t),
         NEW flat, NEW at, Placed(flat, blocks, at), NEW d \in Nat, StandsAt(flat, s, d)
  PROVE  Reading(s, ends)[d + 1] = t \o Reading(s, ends)[(d + Len(flat)) + 1]
<1>. DEFINE N == Len(t)
            read == Reading(s, ends)
            T == {n \in Nat : n <= N => read[d + 1] = FirstOf(t, n) \o read[(d + at[n]) + 1]}
<1>1. /\ N \in Nat /\ Len(s) \in Nat /\ Len(blocks) = N
      /\ \A k \in 1 .. N : t[k] \in Char
  BY ElementOfSeq, LenProperties DEF Text, Spells
<1>2. /\ at \in [0 .. N -> Nat] /\ at[0] = 0 /\ Len(flat) = at[N]
      /\ \A n \in 1 .. N :
           /\ at[n] = at[n - 1] + Len(blocks[n]) /\ at[n] <= Len(flat)
           /\ \A k \in 1 .. Len(blocks[n]) : flat[at[n - 1] + k] = blocks[n][k]
  BY <1>1, Zenon DEF Placed
<1>3. Len(flat) \in Nat /\ d + Len(flat) <= Len(s)
  <2>1. N \in 0 .. N
    BY <1>1, SMT
  <2> QED
    BY <2>1, <1>2 DEF StandsAt
<1>4. read \in [1 .. Len(s) + 2 -> Text]
  BY ReadingStep
<1>5. ASSUME NEW i \in 1 .. Len(s)
      PROVE  /\ Escapes(s, i) => read[i] = <<Unescaped(s[i + 1])>> \o read[i + 2]
             /\ ~Escapes(s, i) /\ s[i] \notin ends => read[i] = <<s[i]>> \o read[i + 1]
  BY ReadingStep
<1>. HIDE DEF read
<1>6. ASSUME NEW n \in Nat, n <= N
      PROVE  at[n] \in Nat /\ at[n] <= Len(flat) /\ read[(d + at[n]) + 1] \in Text
  <2>1. n \in 0 .. N /\ (n # 0 => n \in 1 .. N)
    BY <1>1, <1>6, SMT
  <2>2. at[n] \in Nat /\ at[n] <= Len(flat)
    <3>1. CASE n = 0
      BY <3>1, <1>2, <1>3
    <3>2. CASE n # 0
      BY <3>2, <2>1, <1>2
    <3> QED
      BY <3>1, <3>2
  <2>3. (d + at[n]) + 1 \in 1 .. Len(s) + 2
    BY <2>2, <1>1, <1>3, SMT
  <2> QED
    BY <2>2, <2>3, <1>4
<1>7. 0 \in T
  <2>1. FirstOf(t, 0) = <<>>
    BY DEF FirstOf
  <2>2. d + at[0] = d /\ 0 <= N
    BY <1>1, <1>2, SMT
  <2>3. read[d + 1] \in Text
    BY <2>2, <1>6, SMTT(60)
  <2>4. <<>> \o read[d + 1] = read[d + 1]
    BY <2>3, ConcatEmptySeq DEF Text
  <2> QED
    BY <2>1, <2>2, <2>4
<1>8. ASSUME NEW n \in T
      PROVE  n + 1 \in T
  <2>1. SUFFICES ASSUME n + 1 <= N
                 PROVE  read[d + 1] = FirstOf(t, n + 1) \o read[(d + at[n + 1]) + 1]
    <3>1. n + 1 \in Nat
      BY SMT
    <3> QED
      BY <3>1, Zenon
  <2>2. n + 1 \in 1 .. N /\ (n + 1) - 1 = n /\ n <= N /\ n + 1 \in Nat /\ n \in Nat
    BY <2>1, <1>1, SMT
  <2>3. read[d + 1] = FirstOf(t, n) \o read[(d + at[n]) + 1]
    BY <2>2
  <2>. DEFINE block == blocks[n + 1]
              i == (d + at[n]) + 1
              here == at[n]
              next == at[n + 1]
  <2>4. /\ here \in Nat /\ next \in Nat /\ next <= Len(flat) /\ next = here + Len(block)
        /\ \A k \in 1 .. Len(block) : flat[here + k] = block[k]
    <3>1. here \in Nat /\ next \in Nat /\ next <= Len(flat)
      BY <2>1, <2>2, <1>6
    <3>2. next = here + Len(block)
      BY <2>2, <1>2
    <3>3. \A k \in 1 .. Len(block) : flat[here + k] = block[k]
      BY <2>2, <1>2
    <3> QED
      BY <3>1, <3>2, <3>3
  <2>5. IsLetter(block, t[n + 1])
    BY <2>2, <1>1 DEF Spells
  <2>6. read[i] = <<t[n + 1]>> \o read[(d + next) + 1]
    <3>. HIDE DEF block, here, next
    <3>1. i = (d + here) + 1
      BY DEF here
    <3>. HIDE DEF i
    <3>2. CASE block = <<t[n + 1]>> /\ t[n + 1] \notin {Quote, Escape}
      <4>1. Len(block) = 1 /\ block[1] = t[n + 1]
        BY <3>2
      <4>2. /\ here + 1 \in 1 .. Len(flat) /\ d + (here + 1) = i /\ i \in 1 .. Len(s)
            /\ i + 1 = (d + next) + 1 /\ 1 \in 1 .. Len(block)
        BY <2>4, <3>1, <4>1, <1>1, <1>3, SMT
      <4>3. s[i] = t[n + 1]
        BY <2>4, <4>1, <4>2 DEF StandsAt
      <4>4. ~Escapes(s, i) /\ s[i] \notin ends
        BY <4>3, <3>2 DEF Escapes
      <4> QED
        BY <4>2, <4>3, <4>4, <1>5
    <3>3. ASSUME NEW x \in Char, block = <<Escape, x>>, Unescaped(x) = t[n + 1]
          PROVE  read[i] = <<t[n + 1]>> \o read[(d + next) + 1]
      <4>1. Len(block) = 2 /\ block[1] = Escape /\ block[2] = x
        BY <3>3
      <4>2. /\ here + 1 \in 1 .. Len(flat) /\ d + (here + 1) = i /\ i \in 1 .. Len(s)
            /\ here + 2 \in 1 .. Len(flat) /\ d + (here + 2) = i + 1 /\ i < Len(s)
            /\ i + 2 = (d + next) + 1 /\ 1 \in 1 .. Len(block) /\ 2 \in 1 .. Len(block)
        BY <2>4, <3>1, <4>1, <1>1, <1>3, SMT
      <4>3. s[i] = Escape /\ s[i + 1] = x
        BY <2>4, <4>1, <4>2 DEF StandsAt
      <4>4. Escapes(s, i)
        BY <4>2, <4>3 DEF Escapes
      <4>5. read[i] = <<Unescaped(s[i + 1])>> \o read[i + 2]
        BY <4>2, <4>4, <1>5
      <4> QED
        BY <4>2, <4>3, <4>5, <3>3
    <3> QED
      BY <2>5, <3>2, <3>3, Zenon DEF IsLetter
  <2>7. read[(d + next) + 1] \in Text
    BY <2>2, <1>6
  <2>8. FirstOf(t, n) \o (<<t[n + 1]>> \o read[(d + next) + 1]) = FirstOf(t, n + 1) \o read[(d + next) + 1]
    <3>. HIDE DEF next
    <3> QED
      BY <2>1, <2>2, <2>7, FrontGrows
  <2> QED
    BY <2>3, <2>6, <2>8
<1>9. N \in T
  <2>1. T \in SUBSET Nat
    OBVIOUS
  <2>2. T = Nat
    <3>. HIDE DEF T
    <3> QED
      BY <1>7, <1>8, <2>1, SetInduction
  <2>. HIDE DEF T
  <2> QED
    BY <2>2, <1>1
<1>10. FirstOf(t, N) = t
  BY DEF FirstOf, Text
<1>11. N <= N
  BY <1>1, SMT
<1> QED
  BY <1>2, <1>9, <1>10, <1>11 DEF read

(* Both ways of escaping write a letter for a character. *)
LEMMA EscapeIsLetter ==
  ASSUME NEW c \in Char
  PROVE  /\ EscapeOf(c) \in Text /\ IsLetter(EscapeOf(c), c)
         /\ Len(EscapeOf(c)) \in {1, 2}
         /\ EscapeOf(c)[Len(EscapeOf(c))] = Escape <=> c = Escape
<1>1. Quote \in Char /\ Escape \in Char /\ "newline" \in Char /\ "n" \in Char
  BY DEF Char
<1>2. Quote # Escape /\ Quote # "n" /\ Escape # "n" /\ Quote # "newline" /\ Escape # "newline"
      /\ Unescaped(Quote) = Quote /\ Unescaped(Escape) = Escape /\ Unescaped("n") = "newline"
  BY DEF Quote, Escape, Unescaped
<1>3. EscapeOf(c) = CASE c = Quote     -> <<Escape, Quote>>
                      [] c = Escape    -> <<Escape, Escape>>
                      [] c = "newline" -> <<Escape, "n">>
                      [] OTHER         -> <<c>>
  BY DEF EscapeOf
<1>. HIDE DEF Char
<1>4. ASSUME NEW x \in Char
      PROVE  /\ <<Escape, x>> \in Text /\ Len(<<Escape, x>>) = 2
             /\ <<Escape, x>>[1] = Escape /\ <<Escape, x>>[2] = x
             /\ <<x>> \in Text /\ Len(<<x>>) = 1 /\ <<x>>[1] = x
  BY <1>1 DEF Text
<1>5. CASE c = Quote
  <2>1. EscapeOf(c) = <<Escape, Quote>>
    BY <1>2, <1>3, <1>5, Zenon
  <2> QED
    BY <2>1, <1>1, <1>2, <1>4, <1>5, Zenon DEF IsLetter
<1>6. CASE c = Escape
  <2>1. EscapeOf(c) = <<Escape, Escape>>
    BY <1>2, <1>3, <1>6, Zenon
  <2> QED
    BY <2>1, <1>1, <1>2, <1>4, <1>6, Zenon DEF IsLetter
<1>7. CASE c = "newline"
  <2>1. EscapeOf(c) = <<Escape, "n">>
    BY <1>2, <1>3, <1>7, Zenon
  <2> QED
    BY <2>1, <1>1, <1>2, <1>4, <1>7, Zenon DEF IsLetter
<1>8. CASE c \notin {Quote, Escape, "newline"}
  <2>1. EscapeOf(c) = <<c>>
    BY <1>3, <1>8, Zenon
  <2> QED
    BY <2>1, <1>4, <1>8, Zenon DEF IsLetter
<1> QED
  BY <1>5, <1>6, <1>7, <1>8, Zenon

(* What becomes of a character in a HELLO. *)
HelloText(c) == IF c = "control" THEN "u0001" ELSE c

(* jsonEscape writes a letter, too: for a control character that of the text *)
(* that it comes back as.                                                    *)
LEMMA HelloEscapeIsLetter ==
  ASSUME NEW c \in Char
  PROVE  /\ HelloEscapeOf(c) \in Text /\ IsLetter(HelloEscapeOf(c), HelloText(c))
         /\ HelloText(c) \in Char
<1>1. CASE c = "control"
  <2>1. HelloEscapeOf(c) = <<Escape, "u0001">> /\ HelloText(c) = "u0001"
    BY <1>1 DEF HelloEscapeOf, HelloText
  <2>2. Unescaped("u0001") = "u0001"
    BY DEF Unescaped
  <2>3. "u0001" \in Char /\ Escape \in Char
    BY DEF Char
  <2>. HIDE DEF Char
  <2>4. <<Escape, "u0001">> \in Text
    BY <2>3 DEF Text
  <2> QED
    BY <2>1, <2>2, <2>3, <2>4, Zenon DEF IsLetter
<1>2. CASE c # "control"
  <2>1. HelloEscapeOf(c) = EscapeOf(c) /\ HelloText(c) = c
    BY <1>2 DEF HelloEscapeOf, HelloText
  <2> QED
    BY <2>1, EscapeIsLetter
<1> QED
  BY <1>1, <1>2

(* The escaped characters of a text spell it: escapeJson. *)
LEMMA EscapesSpell ==
  ASSUME NEW t \in Text
  PROVE  LET blocks == [i \in DOMAIN t |-> EscapeOf(t[i])]
         IN  blocks \in Seq(Text) /\ Len(blocks) = Len(t) /\ Spells(blocks, t)
<1>1. Len(t) \in Nat /\ DOMAIN t = 1 .. Len(t) /\ \A i \in 1 .. Len(t) : t[i] \in Char
  BY ElementOfSeq, LenProperties DEF Text
<1>. DEFINE blocks == [i \in DOMAIN t |-> EscapeOf(t[i])]
<1>2. \A i \in 1 .. Len(t) : EscapeOf(t[i]) \in Text /\ IsLetter(EscapeOf(t[i]), t[i])
  BY <1>1, EscapeIsLetter
<1>3. blocks \in [1 .. Len(t) -> Text]
  BY <1>1, <1>2
<1>4. blocks \in Seq(Text) /\ Len(blocks) = Len(t)
  BY <1>1, <1>3
<1>5. Spells(blocks, t)
  BY <1>1, <1>2, <1>4 DEF Spells
<1> QED
  BY <1>4, <1>5

(* They spell what survives a HELLO: jsonEscape. *)
LEMMA HelloEscapesSpell ==
  ASSUME NEW t \in Text
  PROVE  LET blocks == [i \in DOMAIN t |-> HelloEscapeOf(t[i])]
         IN  /\ blocks \in Seq(Text) /\ Spells(blocks, HelloSurviving(t))
             /\ HelloSurviving(t) \in Text
<1>1. Len(t) \in Nat /\ DOMAIN t = 1 .. Len(t) /\ \A i \in 1 .. Len(t) : t[i] \in Char
  BY ElementOfSeq, LenProperties DEF Text
<1>. DEFINE blocks == [i \in DOMAIN t |-> HelloEscapeOf(t[i])]
            u == HelloSurviving(t)
<1>2. \A i \in 1 .. Len(t) :
        /\ HelloEscapeOf(t[i]) \in Text /\ IsLetter(HelloEscapeOf(t[i]), HelloText(t[i]))
        /\ HelloText(t[i]) \in Char
  BY <1>1, HelloEscapeIsLetter
<1>3. blocks \in [1 .. Len(t) -> Text]
  BY <1>1, <1>2
<1>4. blocks \in Seq(Text) /\ Len(blocks) = Len(t)
  BY <1>1, <1>3
<1>5. u = [i \in 1 .. Len(t) |-> HelloText(t[i])]
  BY <1>1 DEF HelloSurviving, HelloText
<1>6. u \in [1 .. Len(t) -> Char] /\ \A i \in 1 .. Len(t) : u[i] = HelloText(t[i])
  BY <1>2, <1>5
<1>7. u \in Text /\ Len(u) = Len(t)
  BY <1>1, <1>6 DEF Text
<1>. HIDE DEF u
<1>8. Spells(blocks, u)
  BY <1>1, <1>2, <1>4, <1>6, <1>7 DEF Spells
<1> QED
  BY <1>4, <1>7, <1>8 DEF u

(* A quote in an escaped text has a backslash before it. *)
LEMMA QuotesEscaped ==
  ASSUME NEW blocks, NEW t \in Text, Spells(blocks, t), NEW flat, NEW at,
         Placed(flat, blocks, at), NEW i \in 1 .. Len(flat), flat[i] = Quote
  PROVE  i - 1 \in 1 .. Len(flat) /\ flat[i - 1] = Escape
<1>1. Len(t) \in Nat /\ Len(blocks) = Len(t)
  BY LenProperties DEF Text, Spells
<1>2. PICK n \in 1 .. Len(t) : \E k \in 1 .. Len(blocks[n]) : i = at[n - 1] + k
  BY <1>1 DEF Placed
<1>11. PICK k \in 1 .. Len(blocks[n]) : i = at[n - 1] + k
  BY <1>2
<1>. DEFINE a == at[n - 1]
            block == blocks[n]
<1>3. a \in Nat /\ Len(flat) \in Nat
  <2>1. n - 1 \in 0 .. Len(t) /\ Len(t) \in 0 .. Len(t)
    BY <1>1, SMT
  <2> QED
    BY <2>1, <1>1, ZenonT(60) DEF Placed
<1>4. \A j \in 1 .. Len(block) : flat[a + j] = block[j]
  BY <1>1 DEF Placed
<1>5. IsLetter(block, t[n])
  BY DEF Spells
<1>6. block[k] = Quote
  BY <1>11, <1>4
<1>7. k \in 1 .. Len(block) /\ i = a + k
  BY <1>11
<1>. HIDE DEF a, block
<1>8. Quote # Escape
  BY DEF Quote, Escape
<1>9. CASE block = <<t[n]>> /\ t[n] \notin {Quote, Escape}
  <2>1. Len(block) = 1 /\ block[1] = t[n]
    BY <1>9
  <2>2. k = 1
    BY <2>1, <1>7, SMT
  <2> QED
    BY <1>6, <1>9, <2>1, <2>2
<1>10. ASSUME NEW x \in Char, block = <<Escape, x>>
       PROVE  i - 1 \in 1 .. Len(flat) /\ flat[i - 1] = Escape
  <2>1. Len(block) = 2 /\ block[1] = Escape /\ block[2] = x
    BY <1>10
  <2>2. k # 1
    BY <1>6, <1>8, <2>1
  <2>3. k = 2 /\ 1 \in 1 .. Len(block)
    BY <2>1, <2>2, <1>7, SMT
  <2>4. a + 1 \in 1 .. Len(flat) /\ i - 1 = a + 1
    BY <2>3, <1>3, <1>7, SMT
  <2> QED
    BY <2>1, <2>3, <2>4, <1>4
<1> QED
  BY <1>5, <1>9, <1>10 DEF IsLetter

(* It ends in a backslash exactly if the text does. *)
LEMMA LastEscaped ==
  ASSUME NEW t \in Text, t # <<>>, NEW flat, NEW at,
         Placed(flat, [i \in DOMAIN t |-> EscapeOf(t[i])], at)
  PROVE  /\ Len(flat) \in Nat /\ Len(flat) > 0
         /\ flat[Len(flat)] = Escape <=> t[Len(t)] = Escape
<1>. DEFINE blocks == [i \in DOMAIN t |-> EscapeOf(t[i])]
            N == Len(t)
            block == blocks[N]
            a == at[N - 1]
<1>1. N \in Nat /\ N # 0 /\ DOMAIN t = 1 .. N /\ \A i \in 1 .. N : t[i] \in Char
  BY ElementOfSeq, LenProperties, EmptySeq DEF Text
<1>2. N \in 1 .. N /\ N - 1 \in 0 .. N
  BY <1>1, SMT
<1>3. Len(blocks) = N /\ block = EscapeOf(t[N])
  BY <1>1, <1>2, EscapesSpell
<1>4. /\ at \in [0 .. N -> Nat] /\ Len(flat) = at[N]
      /\ \A n \in 1 .. N :
           /\ at[n] = at[n - 1] + Len(blocks[n])
           /\ \A k \in 1 .. Len(blocks[n]) : flat[at[n - 1] + k] = blocks[n][k]
  <2>1. Placed(flat, blocks, at)
    OBVIOUS
  <2>. HIDE DEF blocks
  <2> QED
    BY <2>1, <1>3, Zenon DEF Placed
<1>5. a \in Nat /\ Len(flat) = a + Len(block)
  BY <1>2, <1>4
<1>6. \A k \in 1 .. Len(block) : flat[a + k] = block[k]
  BY <1>2, <1>4
<1>7. Len(block) \in {1, 2} /\ (block[Len(block)] = Escape <=> t[N] = Escape)
  BY <1>1, <1>2, <1>3, EscapeIsLetter
<1>. HIDE DEF a, block
<1>8. Len(block) \in 1 .. Len(block) /\ Len(flat) \in Nat /\ Len(flat) > 0
  <2>1. CASE Len(block) = 1
    BY <2>1, <1>5
  <2>2. CASE Len(block) = 2
    BY <2>2, <1>5
  <2> QED
    BY <2>1, <2>2, <1>7
<1>9. flat[Len(flat)] = block[Len(block)]
  BY <1>5, <1>6, <1>8
<1> QED
  BY <1>7, <1>8, <1>9

(* A key stands at i. *)
HasKey(s, i, key) ==
  s[i] = Quote /\ s[i + 1] = key /\ s[i + 2] = Quote /\ s[i + 3] = ":"

(* A key that is no mark and needs no escape. *)
PlainKey(key) == key \in Char /\ key \notin {Quote, Escape, ":", ",", "{", "}"}

(* A member of an object with its key, and no key further on. *)
Owns(member, key) ==
  /\ member \in Text /\ Len(member) >= 5 /\ HasKey(member, 1, key)
  /\ \A k \in 2 .. Len(member) - 3 : \A other : PlainKey(other) => ~HasKey(member, k, other)

(* The characters that mean something to the readers all differ. *)
LEMMA Marks ==
  /\ Quote \in Char /\ Escape \in Char /\ ":" \in Char /\ "," \in Char /\ "{" \in Char /\ "}" \in Char
  /\ Quote # Escape /\ Quote # ":" /\ Quote # "," /\ Quote # "{" /\ Quote # "}"
  /\ Escape # "," /\ Escape # "}"
  /\ ":" # "," /\ ":" # "{" /\ ":" # "}"
<1>1. /\ Quote \in Char /\ Escape \in Char /\ ":" \in Char /\ "," \in Char /\ "{" \in Char
      /\ "}" \in Char
  BY DEF Char
<1>2. /\ Quote # Escape /\ Quote # ":" /\ Quote # "," /\ Quote # "{" /\ Quote # "}"
      /\ Escape # "," /\ Escape # "}"
      /\ ":" # "," /\ ":" # "{" /\ ":" # "}"
  BY DEF Quote, Escape
<1> QED
  BY <1>1, <1>2

(* A key at the very start. *)
LEMMA FirstKey ==
  ASSUME NEW s, NEW key
  PROVE  HasKey(s, 1, key) <=> s[1] = Quote /\ s[2] = key /\ s[3] = Quote /\ s[4] = ":"
<1>1. 1 + 1 = 2 /\ 1 + 2 = 3 /\ 1 + 3 = 4
  OBVIOUS
<1> QED
  BY <1>1, Zenon DEF HasKey

(* A key with its colon, and one character after it. *)
LEMMA KeyAndQuote ==
  ASSUME NEW key \in Char, NEW c \in Char
  PROVE  LET s == KeyIs(key) \o <<c>>
         IN  s \in Text /\ Len(s) = 5 /\ HasKey(s, 1, key) /\ s[5] = c
<1>. DEFINE k == KeyIs(key)
            b == <<c>>
            s == k \o b
<1>1. /\ k \in Text /\ Len(k) = 4
      /\ k[1] = Quote /\ k[2] = key /\ k[3] = Quote /\ k[4] = ":"
  <2>1. Quote \in Char /\ ":" \in Char
    BY Marks
  <2> QED
    BY <2>1 DEF KeyIs, Text
<1>2. b \in Text /\ Len(b) = 1 /\ b[1] = c
  BY DEF Text
<1>. HIDE DEF k, b
<1>3. /\ s \in Text /\ Len(s) = Len(k) + 1
      /\ \A i \in 1 .. Len(k) + 1 : s[i] = IF i <= Len(k) THEN k[i] ELSE b[i - Len(k)]
  BY <1>1, <1>2, OneMore DEF Text
<1>. HIDE DEF s
<1>4. Len(s) = 5 /\ s[1] = k[1] /\ s[2] = k[2] /\ s[3] = k[3] /\ s[4] = k[4] /\ s[5] = b[1]
  BY <1>1, <1>3, SMT
<1>5. HasKey(s, 1, key)
  BY <1>1, <1>4, FirstKey, Zenon
<1> QED
  BY <1>2, <1>3, <1>4, <1>5 DEF s, k, b

(* A number has its key and nothing else that looks like one. *)
LEMMA NumberOwns ==
  ASSUME NEW key, PlainKey(key), NEW digits \in Char
  PROVE  /\ Owns(Number(key, digits), key) /\ Len(Number(key, digits)) = 5
         /\ Number(key, digits)[5] = digits
<1>. DEFINE s == Number(key, digits)
<1>1. s \in Text /\ Len(s) = 5 /\ HasKey(s, 1, key) /\ s[5] = digits
  BY KeyAndQuote DEF Number, PlainKey
<1>. HIDE DEF s
<1>2. ASSUME NEW k \in 2 .. Len(s) - 3, NEW other
      PROVE  ~HasKey(s, k, other)
  <2>1. k = 2
    BY <1>1
  <2>2. s[2] = key /\ key # Quote
    BY <1>1, FirstKey DEF PlainKey
  <2> QED
    BY <2>1, <2>2 DEF HasKey
<1>3. Len(s) >= 5
  BY <1>1
<1> QED
  BY <1>1, <1>2, <1>3 DEF s, Owns

(* What stands where in a text in quotes. *)
LEMMA QuotedStands ==
  ASSUME NEW key \in Char, NEW flat \in Text
  PROVE  LET s == Quoted(key, flat)
         IN  /\ s \in Text /\ Len(s) = Len(flat) + 6 /\ HasKey(s, 1, key) /\ s[5] = Quote
             /\ \A k \in 1 .. Len(flat) : s[5 + k] = flat[k]
             /\ s[Len(flat) + 6] = Quote
<1>. DEFINE front == KeyIs(key) \o <<Quote>>
            most == front \o flat
            q == <<Quote>>
            s == most \o q
            L == Len(flat)
<1>1. Quoted(key, flat) = s
  BY DEF Quoted
<1>2. front \in Text /\ Len(front) = 5 /\ HasKey(front, 1, key) /\ front[5] = Quote
  BY KeyAndQuote, Marks
<1>3. q \in Text /\ Len(q) = 1 /\ q[1] = Quote
  <2>1. Quote \in Char
    BY Marks
  <2> QED
    BY <2>1 DEF Text
<1>4. L \in Nat
  BY LenProperties DEF Text
<1>. HIDE DEF front, q
<1>5. /\ most \in Text /\ Len(most) = L + 5
      /\ \A i \in 1 .. L + 5 : most[i] = IF i <= 5 THEN front[i] ELSE flat[i - 5]
  <2>1. /\ most \in Text /\ Len(most) = Len(front) + Len(flat)
        /\ \A i \in 1 .. Len(front) + Len(flat) :
             most[i] = IF i <= Len(front) THEN front[i] ELSE flat[i - Len(front)]
    BY <1>2, ConcatProperties DEF Text
  <2>2. Len(front) + Len(flat) = L + 5
    BY <1>2, <1>4
  <2> QED
    BY <2>1, <2>2, <1>2
<1>. HIDE DEF most
<1>6. /\ s \in Text /\ Len(s) = L + 6
      /\ \A i \in 1 .. L + 6 : s[i] = IF i <= L + 5 THEN most[i] ELSE q[i - (L + 5)]
  <2>1. /\ s \in Text /\ Len(s) = Len(most) + 1
        /\ \A i \in 1 .. Len(most) + 1 :
             s[i] = IF i <= Len(most) THEN most[i] ELSE q[i - Len(most)]
    BY <1>3, <1>5, OneMore DEF Text
  <2>2. Len(most) + 1 = L + 6
    BY <1>4, <1>5
  <2> QED
    BY <2>1, <2>2, <1>5
<1>. HIDE DEF s, L
<1>7. ASSUME NEW i \in 1 .. 5
      PROVE  s[i] = front[i]
  <2>1. i \in 1 .. L + 5 /\ i \in 1 .. L + 6 /\ i <= 5 /\ i <= L + 5
    BY <1>4, SMT
  <2> QED
    BY <2>1, <1>5, <1>6
<1>8. ASSUME NEW k \in 1 .. L
      PROVE  s[5 + k] = flat[k]
  <2>1. /\ 5 + k \in 1 .. L + 5 /\ 5 + k \in 1 .. L + 6 /\ ~(5 + k <= 5) /\ 5 + k <= L + 5
        /\ (5 + k) - 5 = k
    BY <1>4, SMT
  <2>2. s[5 + k] = most[5 + k]
    BY <2>1, <1>6
  <2>3. most[5 + k] = flat[(5 + k) - 5]
    BY <2>1, <1>5
  <2> QED
    BY <2>1, <2>2, <2>3
<1>9. s[L + 6] = Quote
  <2>1. L + 6 \in 1 .. L + 6 /\ ~(L + 6 <= L + 5) /\ (L + 6) - (L + 5) = 1
    BY <1>4, SMT
  <2> QED
    BY <2>1, <1>3, <1>6
<1>10. HasKey(s, 1, key) /\ s[5] = Quote
  BY <1>2, <1>7, FirstKey
<1>11. /\ s \in Text /\ Len(s) = Len(flat) + 6 /\ HasKey(s, 1, key) /\ s[5] = Quote
       /\ \A k \in 1 .. Len(flat) : s[5 + k] = flat[k]
       /\ s[Len(flat) + 6] = Quote
  BY <1>6, <1>8, <1>9, <1>10 DEF L
<1> QED
  BY <1>1, <1>11, Zenon

(* A text in quotes has its key and, when its own quotes are escaped, nothing *)
(* else that looks like one.                                                  *)
LEMMA QuotedOwns ==
  ASSUME NEW key, PlainKey(key), NEW flat \in Text,
         \A i \in 1 .. Len(flat) : flat[i] = Quote => i - 1 \in 1 .. Len(flat) /\ flat[i - 1] = Escape
  PROVE  Owns(Quoted(key, flat), key)
<1>. DEFINE s == Quoted(key, flat)
            L == Len(flat)
<1>1. L \in Nat
  BY LenProperties DEF Text
<1>2. /\ s \in Text /\ Len(s) = L + 6 /\ HasKey(s, 1, key) /\ s[5] = Quote
      /\ \A k \in 1 .. L : s[5 + k] = flat[k]
  BY QuotedStands DEF PlainKey
<1>. HIDE DEF s, L
<1>3. ASSUME NEW k \in 2 .. Len(s) - 3, NEW other, PlainKey(other), HasKey(s, k, other)
      PROVE  FALSE
  <2>1. /\ s[2] = key /\ s[4] = ":" /\ key # Quote /\ ":" # Quote
        /\ other # ":" /\ other # Escape
    <3>1. s[2] = key /\ s[4] = ":"
      BY <1>2, FirstKey
    <3>2. key # Quote /\ other # ":" /\ other # Escape
      BY <1>3 DEF PlainKey
    <3> QED
      BY <3>1, <3>2, Marks
  <2>2. s[k] = Quote /\ s[k + 1] = other /\ s[k + 2] = Quote
    BY <1>3 DEF HasKey
  <2>3. k # 2 /\ k # 4
    BY <2>1, <2>2
  <2>4. k # 3
    BY <2>1, <2>2
  <2>. DEFINE i == k - 3
  <2>5. k + 2 = 5 + i /\ k + 1 = 5 + (i - 1) /\ i \in 1 .. L
    BY <2>3, <2>4, <1>1, <1>2, SMT
  <2>. HIDE DEF i
  <2>6. flat[i] = Quote
    BY <2>2, <2>5, <1>2
  <2>7. i - 1 \in 1 .. L /\ flat[i - 1] = Escape
    BY <2>5, <2>6 DEF L
  <2>8. s[k + 1] = Escape
    BY <2>5, <2>7, <1>2
  <2> QED
    BY <2>1, <2>2, <2>8
<1>4. Len(s) >= 5
  BY <1>1, <1>2, SMT
<1> QED
  BY <1>2, <1>3, <1>4 DEF s, Owns

(* The characters around the members of an object. *)
Separators == {"{", ",", "}"}

(* Where the members of an object stand: the n-th after from[n] characters,  *)
(* and between them separators.                                              *)
MembersStand(json, members, from) ==
  /\ json \in Text /\ from \in [1 .. Len(members) -> Nat]
  /\ \A n \in 1 .. Len(members) :
       /\ StandsAt(members[n], json, from[n])
       /\ (from[n] + Len(members[n])) + 1 <= Len(json)
       /\ n = Len(members) =>
            /\ json[(from[n] + Len(members[n])) + 1] = "}"
            /\ Len(json) = (from[n] + Len(members[n])) + 1
       /\ n # Len(members) =>
            /\ json[(from[n] + Len(members[n])) + 1] = ","
            /\ from[n + 1] = (from[n] + Len(members[n])) + 1
  /\ \A i \in 1 .. Len(json) :
       \/ json[i] \in Separators
       \/ \E n \in 1 .. Len(members) : \E k \in 1 .. Len(members[n]) : i = from[n] + k

(* One character more in front. *)
LEMMA Prepended ==
  ASSUME NEW c \in Char, NEW t \in Text
  PROVE  LET s == <<c>> \o t
         IN  /\ s \in Text /\ Len(s) = Len(t) + 1 /\ s[1] = c
             /\ \A k \in 1 .. Len(t) : s[k + 1] = t[k]
<1>. DEFINE b == <<c>>
            s == b \o t
            L == Len(t)
<1>1. b \in Text /\ Len(b) = 1 /\ b[1] = c
  BY DEF Text
<1>2. L \in Nat
  BY LenProperties DEF Text
<1>. HIDE DEF b
<1>3. /\ s \in Text /\ Len(s) = Len(b) + Len(t)
      /\ \A i \in 1 .. Len(b) + Len(t) : s[i] = IF i <= Len(b) THEN b[i] ELSE t[i - Len(b)]
  BY <1>1, ConcatProperties DEF Text
<1>4. Len(b) + Len(t) = L + 1
  BY <1>1, <1>2
<1>. HIDE DEF s
<1>5. s[1] = c
  <2>1. 1 \in 1 .. L + 1 /\ 1 <= 1
    BY <1>2, SMT
  <2> QED
    BY <2>1, <1>1, <1>3, <1>4
<1>6. ASSUME NEW k \in 1 .. L
      PROVE  s[k + 1] = t[k]
  <2>1. k + 1 \in 1 .. L + 1 /\ ~(k + 1 <= 1) /\ (k + 1) - 1 = k
    BY <1>2, SMT
  <2> QED
    BY <2>1, <1>1, <1>3, <1>4
<1> QED
  BY <1>3, <1>4, <1>5, <1>6 DEF s, b, L

(* One character more at the end. *)
LEMMA Appended ==
  ASSUME NEW c \in Char, NEW t \in Text
  PROVE  LET s == t \o <<c>>
         IN  /\ s \in Text /\ Len(s) = Len(t) + 1 /\ s[Len(t) + 1] = c
             /\ \A k \in 1 .. Len(t) : s[k] = t[k]
<1>. DEFINE b == <<c>>
            s == t \o b
            L == Len(t)
<1>1. b \in Text /\ Len(b) = 1 /\ b[1] = c
  BY DEF Text
<1>2. L \in Nat
  BY LenProperties DEF Text
<1>. HIDE DEF b
<1>3. /\ s \in Text /\ Len(s) = L + 1
      /\ \A i \in 1 .. L + 1 : s[i] = IF i <= L THEN t[i] ELSE b[i - L]
  BY <1>1, OneMore DEF Text
<1>. HIDE DEF s, L
<1>4. s[L + 1] = c
  <2>1. L + 1 \in 1 .. L + 1 /\ ~(L + 1 <= L) /\ (L + 1) - L = 1
    BY <1>2, SMT
  <2> QED
    BY <2>1, <1>1, <1>3
<1>5. ASSUME NEW k \in 1 .. L
      PROVE  s[k] = t[k]
  <2>1. k \in 1 .. L + 1 /\ k <= L
    BY <1>2, SMT
  <2> QED
    BY <2>1, <1>3
<1> QED
  BY <1>3, <1>4, <1>5 DEF s, b, L

(* An object is its members with separators around them: toJson, sendHello. *)
LEMMA ObjectStands ==
  ASSUME NEW members \in Seq(Text), members # <<>>
  PROVE  \E from : MembersStand(Object(members), members, from)
<1>. DEFINE N == Len(members)
            Mark(n) == IF n = 1 THEN "{" ELSE ","
            blocks == [n \in DOMAIN members |-> <<Mark(n)>> \o members[n]]
            flat == FlattenSeq(blocks)
            json == Object(members)
<1>1. /\ N \in Nat /\ N # 0 /\ DOMAIN members = 1 .. N
      /\ \A n \in 1 .. N : members[n] \in Text /\ Len(members[n]) \in Nat
  BY ElementOfSeq, LenProperties, EmptySeq, Zenon DEF Text
<1>2. \A n \in 1 .. N : Mark(n) \in Char /\ Mark(n) \in Separators
  BY Marks DEF Separators
<1>. HIDE DEF Mark
<1>3. ASSUME NEW n \in 1 .. N
      PROVE  /\ blocks[n] \in Text /\ Len(blocks[n]) = Len(members[n]) + 1
             /\ blocks[n][1] = Mark(n)
             /\ \A k \in 1 .. Len(members[n]) : blocks[n][k + 1] = members[n][k]
  <2>1. blocks[n] = <<Mark(n)>> \o members[n]
    BY <1>1
  <2> QED
    BY <2>1, <1>1, <1>2, Prepended
<1>4. blocks \in Seq(Text) /\ Len(blocks) = N
  <2>1. blocks = [n \in 1 .. N |-> blocks[n]]
    BY <1>1
  <2>. HIDE DEF blocks
  <2>2. blocks \in [1 .. N -> Text]
    BY <2>1, <1>3
  <2> QED
    BY <2>2, <1>1
<1>5. json = flat \o <<"}">>
  BY DEF Object, Mark
<1>. HIDE DEF blocks
<1>6. flat \in Text /\ \E at : Placed(flat, blocks, at)
  BY <1>4, FlattenPlaces DEF Text
<1>7. PICK at : Placed(flat, blocks, at)
  BY <1>6
<1>. HIDE DEF flat
<1>8. /\ json \in Text /\ Len(json) = Len(flat) + 1 /\ json[Len(flat) + 1] = "}"
      /\ \A k \in 1 .. Len(flat) : json[k] = flat[k]
  <2>1. "}" \in Char
    BY Marks
  <2>. DEFINE whole == flat \o <<"}">>
  <2>2. flat \in Text
    BY <1>6
  <2>3. /\ whole \in Text /\ Len(whole) = Len(flat) + 1 /\ whole[Len(flat) + 1] = "}"
        /\ \A k \in 1 .. Len(flat) : whole[k] = flat[k]
    BY <2>1, <2>2, Appended
  <2>4. json = whole
    BY <1>5
  <2>. HIDE DEF whole, json
  <2> QED
    BY <2>3, <2>4
<1>. HIDE DEF json
<1>16. N \in Nat
  BY <1>1
<1>17. Len(json) = Len(flat) + 1
  BY <1>8
<1>9. /\ at \in [0 .. N -> Nat] /\ Len(flat) = at[N]
      /\ \A n \in 1 .. N :
           /\ at[n] = at[n - 1] + Len(blocks[n]) /\ at[n] <= Len(flat)
           /\ \A k \in 1 .. Len(blocks[n]) : flat[at[n - 1] + k] = blocks[n][k]
      /\ \A i \in 1 .. Len(flat) :
           \E n \in 1 .. N : \E k \in 1 .. Len(blocks[n]) : i = at[n - 1] + k
  <2>1. Len(blocks) = N
    BY <1>4
  <2>. HIDE DEF N
  <2> QED
    BY <1>7, <2>1 DEF Placed
<1>10. Len(flat) \in Nat
  BY <1>6, LenProperties DEF Text
<1>. DEFINE from == [n \in 1 .. N |-> at[n - 1] + 1]
<1>11. ASSUME NEW n \in 1 .. N
       PROVE  /\ at[n - 1] \in Nat /\ from[n] = at[n - 1] + 1 /\ from[n] \in Nat
              /\ at[n] = from[n] + Len(members[n]) /\ at[n] <= Len(flat) /\ at[n] \in Nat
              /\ json[from[n]] = Mark(n)
              /\ \A k \in 1 .. Len(members[n]) : json[from[n] + k] = members[n][k]
  <2>. DEFINE a == at[n - 1]
              b == at[n]
              L == Len(members[n])
              block == blocks[n]
              member == members[n]
  <2>1. n - 1 \in 0 .. N /\ n \in 0 .. N
    BY <1>1, SMT
  <2>2. a \in Nat /\ b \in Nat /\ b = a + Len(block) /\ b <= Len(flat) /\ from[n] = a + 1
    BY <2>1, <1>9
  <2>3. \A k \in 1 .. Len(block) : flat[a + k] = block[k]
    BY <1>9
  <2>4. /\ Len(block) = L + 1 /\ L \in Nat /\ block[1] = Mark(n)
        /\ \A k \in 1 .. L : block[k + 1] = member[k]
    BY <1>1, <1>3
  <2>. DEFINE f == from[n]
  <2>. HIDE DEF a, b, L, block, member, f
  <2>5. f \in Nat /\ f = a + 1 /\ b = f + L
    BY <2>2, <2>4 DEF f
  <2>6. 1 \in 1 .. Len(block) /\ a + 1 \in 1 .. Len(flat)
    BY <2>2, <2>4, <1>10, SMT
  <2>7. json[f] = Mark(n)
    BY <2>3, <2>4, <2>5, <2>6, <1>8
  <2>8. ASSUME NEW k \in 1 .. L
        PROVE  json[f + k] = member[k]
    <3>1. k + 1 \in 1 .. Len(block) /\ a + (k + 1) = f + k /\ f + k \in 1 .. Len(flat)
      BY <2>2, <2>4, <2>5, <1>10, SMT
    <3>2. flat[f + k] = block[k + 1]
      BY <3>1, <2>3
    <3> QED
      BY <3>1, <3>2, <2>4, <1>8
  <2>9. \A k \in 1 .. L : json[f + k] = member[k]
    BY <2>8
  <2> QED
    BY <2>2, <2>5, <2>7, <2>9, Zenon DEF a, b, L, member, f
<1>. HIDE DEF from
<1>12. ASSUME NEW n \in 1 .. N
       PROVE  /\ StandsAt(members[n], json, from[n])
              /\ (from[n] + Len(members[n])) + 1 <= Len(json)
              /\ n = N =>
                   /\ json[(from[n] + Len(members[n])) + 1] = "}"
                   /\ Len(json) = (from[n] + Len(members[n])) + 1
              /\ n # N =>
                   /\ json[(from[n] + Len(members[n])) + 1] = ","
                   /\ from[n + 1] = (from[n] + Len(members[n])) + 1
  <2>. DEFINE e == from[n] + Len(members[n])
  <2>1. e \in Nat /\ e = at[n] /\ e <= Len(flat)
    BY <1>11
  <2>. HIDE DEF e
  <2>2. e <= Len(json) /\ e + 1 <= Len(json)
    BY <2>1, <1>17, <1>10, SMT
  <2>3. StandsAt(members[n], json, from[n])
    BY <2>2, <1>11 DEF StandsAt, e
  <2>4. CASE n = N
    <3>1. e = Len(flat)
      BY <2>1, <2>4, <1>9
    <3> QED
      BY <2>2, <2>3, <2>4, <3>1, <1>8 DEF e
  <2>5. CASE n # N
    <3>1. n + 1 \in 1 .. N /\ (n + 1) - 1 = n /\ n + 1 # 1
      BY <2>5, <1>16, SMT
    <3>2. from[n + 1] = at[n] + 1
      <4>1. from[n + 1] = at[(n + 1) - 1] + 1
        BY <3>1, <1>11
      <4> QED
        BY <3>1, <4>1
    <3>3. json[from[n + 1]] = Mark(n + 1) /\ Mark(n + 1) = ","
      <4>1. Mark(n + 1) = ","
        BY <3>1, Zenon DEF Mark
      <4> QED
        BY <3>1, <4>1, <1>11
    <3> QED
      BY <2>1, <2>2, <2>3, <2>5, <3>2, <3>3 DEF e
  <2> QED
    BY <2>4, <2>5
<1>13. ASSUME NEW i \in 1 .. Len(json), json[i] \notin Separators
       PROVE  \E n \in 1 .. N : \E k \in 1 .. Len(members[n]) : i = from[n] + k
  <2>1. i # Len(flat) + 1
    BY <1>8, <1>13 DEF Separators
  <2>2. i \in 1 .. Len(flat)
    BY <2>1, <1>17, <1>10, SMT
  <2>3. PICK n \in 1 .. N : \E k \in 1 .. Len(blocks[n]) : i = at[n - 1] + k
    BY <2>2, <1>9
  <2>4. PICK k \in 1 .. Len(blocks[n]) : i = at[n - 1] + k
    BY <2>3
  <2>5. k # 1
    <3>1. from[n] = at[n - 1] + 1 /\ json[from[n]] = Mark(n) /\ Mark(n) \in Separators
      BY <1>2, <1>11
    <3> QED
      BY <3>1, <2>4, <1>13
  <2>. DEFINE a == at[n - 1]
              L == Len(members[n])
              f == from[n]
  <2>6. /\ a \in Nat /\ L \in Nat /\ f = a + 1 /\ Len(blocks[n]) = L + 1 /\ i = a + k
        /\ k \in 1 .. L + 1
    BY <2>4, <1>1, <1>3, <1>11
  <2>. HIDE DEF a, L, f
  <2>7. k - 1 \in 1 .. L /\ i = f + (k - 1)
    BY <2>5, <2>6, SMT
  <2> QED
    BY <2>7 DEF L, f
<1>14. from \in [1 .. N -> Nat]
  <2>1. from = [n \in 1 .. N |-> from[n]]
    BY DEF from
  <2> QED
    BY <2>1, <1>11
<1>15. MembersStand(json, members, from)
  BY <1>8, <1>12, <1>13, <1>14, Zenon DEF MembersStand
<1> QED
  BY <1>15 DEF json

(* A place of K in s, character by character. *)
LEMMA StandsThere ==
  ASSUME NEW s \in Text, NEW K \in Text, K # <<>>, NEW i \in 1 .. Len(s) - Len(K) + 1
  PROVE  SubSeq(s, i, i + Len(K) - 1) = K <=> \A k \in 1 .. Len(K) : s[i + k - 1] = K[k]
<1>. DEFINE L == Len(K)
            N == Len(s)
            j == i + L - 1
            sub == SubSeq(s, i, j)
<1>1. L \in Nat /\ N \in Nat /\ L # 0
  BY LenProperties, EmptySeq DEF Text
<1>. HIDE DEF L, N
<1>2. i \in 1 .. N - L + 1
  BY DEF L, N
<1>3. i \in 1 .. N + 1 /\ j \in i - 1 .. N /\ j - i + 1 = L
  BY <1>1, <1>2, SMT
<1>. HIDE DEF j
<1>4. /\ sub \in Seq(Char) /\ Len(sub) = j - i + 1
      /\ \A k \in 1 .. j - i + 1 : sub[k] = s[i + k - 1]
  BY <1>3, SubSeqProperties DEF Text, N
<1>. HIDE DEF sub
<1>5. Len(sub) = L /\ \A k \in 1 .. L : sub[k] = s[i + k - 1]
  BY <1>3, <1>4
<1>6. (\A k \in 1 .. L : s[i + k - 1] = K[k]) => sub = K
  <2>1. SUFFICES ASSUME \A k \in 1 .. L : s[i + k - 1] = K[k]
                 PROVE  sub = K
    OBVIOUS
  <2>2. Len(sub) = Len(K) /\ \A k \in 1 .. Len(sub) : sub[k] = K[k]
    BY <1>5, <2>1 DEF L
  <2> QED
    BY <1>4, <2>2, SeqEqual DEF Text
<1>7. sub = K => \A k \in 1 .. L : s[i + k - 1] = K[k]
  BY <1>5
<1> QED
  BY <1>6, <1>7 DEF sub, j, L

(* find() stops at the first place. *)
LEMMA FoundFirst ==
  ASSUME NEW s \in Text, NEW K \in Text, K # <<>>, NEW p \in 1 .. Len(s) - Len(K) + 1,
         \A k \in 1 .. Len(K) : s[p + k - 1] = K[k],
         \A i \in 1 .. Len(s) - Len(K) + 1 :
           (\A k \in 1 .. Len(K) : s[i + k - 1] = K[k]) => i = p
  PROVE  After(s, K) = p + Len(K)
<1>. DEFINE At == {i \in 1 .. Len(s) - Len(K) + 1 : SubSeq(s, i, i + Len(K) - 1) = K}
<1>1. At = {p}
  BY StandsThere, ZenonT(60)
<1>2. After(s, K) = IF At = {} THEN 0 ELSE Min(At) + Len(K)
  BY DEF After
<1>. HIDE DEF At
<1>3. Min({p}) = p
  <2>1. Min({p}) = CHOOSE x \in {p} : \A y \in {p} : x =< y
    BY Zenon DEF Min
  <2>2. p =< p
    BY SMT
  <2> QED
    BY <2>1, <2>2, Zenon
<1> QED
  BY <1>1, <1>2, <1>3, Zenon

(* Which of the members has the key, and that no other has. *)
HasItself(members, n, key) ==
  /\ n \in 1 .. Len(members) /\ PlainKey(key) /\ Owns(members[n], key)
  /\ \A m \in 1 .. Len(members) :
       m # n => \E other : other # key /\ Owns(members[m], other)

(* A key stands in an object once, at its member. *)
LEMMA KeyFoundOnce ==
  ASSUME NEW members, Len(members) \in Nat, NEW json, NEW from, MembersStand(json, members, from),
         NEW n, NEW key, HasItself(members, n, key)
  PROVE  /\ from[n] \in Nat /\ from[n] + 6 <= Len(json) /\ Len(json) \in Nat
         /\ HasKey(json, from[n] + 1, key) /\ json[from[n] + 5] = members[n][5]
         /\ \A i \in 1 .. Len(json) - 3 : HasKey(json, i, key) => i = from[n] + 1
<1>. DEFINE N == Len(members)
<1>1. n \in 1 .. N /\ json \in Text /\ Len(json) \in Nat
  BY LenProperties DEF HasItself, MembersStand, Text
<1>2. \A m \in 1 .. N : from[m] \in Nat /\ StandsAt(members[m], json, from[m])
                        /\ (from[m] + Len(members[m])) + 1 <= Len(json)
  BY DEF MembersStand
<1>3. \A m \in 1 .. N : \E own : Owns(members[m], own) /\ (m # n => own # key)
  BY DEF HasItself
<1>4. \A m \in 1 .. N : Len(members[m]) \in Nat /\ Len(members[m]) >= 5
  BY <1>3, LenProperties DEF Owns, Text
<1>. DEFINE f == from[n]
            L == Len(members[n])
<1>5. f \in Nat /\ L \in Nat /\ L >= 5 /\ (f + L) + 1 <= Len(json)
      /\ \A k \in 1 .. L : json[f + k] = members[n][k]
  BY <1>1, <1>2, <1>4 DEF StandsAt
<1>. HIDE DEF f, L
<1>6. /\ f + 6 <= Len(json) /\ 1 \in 1 .. L /\ 2 \in 1 .. L /\ 3 \in 1 .. L
      /\ 4 \in 1 .. L /\ 5 \in 1 .. L
      /\ (f + 1) + 1 = f + 2 /\ (f + 1) + 2 = f + 3 /\ (f + 1) + 3 = f + 4
  BY <1>1, <1>5, SMT
<1>7. HasKey(json, f + 1, key)
  <2>1. Owns(members[n], key)
    BY DEF HasItself
  <2>2. members[n][1] = Quote /\ members[n][2] = key /\ members[n][3] = Quote /\ members[n][4] = ":"
    BY <2>1, FirstKey DEF Owns
  <2> QED
    BY <2>2, <1>5, <1>6, Zenon DEF HasKey
<1>8. json[f + 5] = members[n][5]
  BY <1>5, <1>6
<1>9. ASSUME NEW i \in 1 .. Len(json) - 3, HasKey(json, i, key)
      PROVE  i = f + 1
  <2>1. /\ json[i] \notin Separators /\ json[i + 1] \notin Separators
        /\ json[i + 2] \notin Separators /\ json[i + 3] \notin Separators
    <3>1. key \notin {"{", ",", "}"}
      BY DEF HasItself, PlainKey
    <3> QED
      BY <1>9, <3>1, Marks DEF HasKey, Separators
  <2>2. i \in 1 .. Len(json)
    BY <1>1, SMT
  <2>3. PICK m \in 1 .. N : \E k \in 1 .. Len(members[m]) : i = from[m] + k
    BY <2>1, <2>2 DEF MembersStand
  <2>4. PICK k \in 1 .. Len(members[m]) : i = from[m] + k
    BY <2>3
  <2>. DEFINE g == from[m]
              M == Len(members[m])
              member == members[m]
  <2>5. /\ g \in Nat /\ M \in Nat /\ i = g + k /\ k \in 1 .. M
        /\ \A j \in 1 .. M : json[g + j] = member[j]
    BY <2>4, <1>2, <1>4 DEF StandsAt
  <2>6. json[(g + M) + 1] \in Separators
    BY DEF MembersStand, Separators
  <2>. HIDE DEF g, M
  <2>7. i # g + M /\ i + 1 # g + M /\ i + 2 # g + M
    <3>1. /\ i + 1 # (g + M) + 1 /\ (i + 1) + 1 # (g + M) + 1 /\ (i + 2) + 1 # (g + M) + 1
      <4>1. (i + 1) + 1 = i + 2 /\ (i + 2) + 1 = i + 3
        BY SMT
      <4> QED
        BY <2>1, <2>6, <4>1
    <3>2. g \in Nat /\ M \in Nat /\ i \in Nat
      BY <2>2, <2>5
    <3> QED
      BY <3>1, <3>2, SMT
  <2>8. /\ k + 1 \in 1 .. M /\ k + 2 \in 1 .. M /\ k + 3 \in 1 .. M /\ k \in 1 .. M - 3
        /\ i + 1 = g + (k + 1) /\ i + 2 = g + (k + 2) /\ i + 3 = g + (k + 3)
    BY <2>5, <2>7, SMT
  <2>9. HasKey(member, k, key)
    BY <1>9, <2>5, <2>8 DEF HasKey
  <2>10. PICK own : Owns(member, own) /\ (m # n => own # key)
    BY <1>3
  <2>11. PlainKey(key)
    BY DEF HasItself
  <2>12. k = 1
    <3>1. k \notin 2 .. M - 3
      BY <2>9, <2>10, <2>11 DEF Owns, M
    <3> QED
      BY <3>1, <2>5, <2>8, SMT
  <2>13. own = key
    BY <2>9, <2>10, <2>12, FirstKey DEF Owns
  <2>14. m = n
    BY <2>10, <2>13
  <2> QED
    BY <2>5, <2>12, <2>14 DEF f, g
<1> QED
  BY <1>1, <1>5, <1>6, <1>7, <1>8, <1>9 DEF f

(* find() finds a key at its member. *)
LEMMA KeyFound ==
  ASSUME NEW members, Len(members) \in Nat, NEW json, NEW from, MembersStand(json, members, from),
         NEW n, NEW key, HasItself(members, n, key)
  PROVE  /\ After(json, KeyIs(key)) = from[n] + 5
         /\ members[n][5] = Quote => After(json, KeyIs(key) \o <<Quote>>) = from[n] + 6
<1>. DEFINE f == from[n]
            K == KeyIs(key)
            Q == KeyIs(key) \o <<Quote>>
<1>1. /\ f \in Nat /\ f + 6 <= Len(json) /\ Len(json) \in Nat
      /\ HasKey(json, f + 1, key) /\ json[f + 5] = members[n][5]
      /\ \A i \in 1 .. Len(json) - 3 : HasKey(json, i, key) => i = f + 1
  BY KeyFoundOnce
<1>2. json \in Text /\ key \in Char
  BY DEF MembersStand, HasItself, PlainKey
<1>3. /\ K \in Text /\ Len(K) = 4
      /\ K[1] = Quote /\ K[2] = key /\ K[3] = Quote /\ K[4] = ":"
  <2>1. Quote \in Char /\ ":" \in Char
    BY Marks
  <2> QED
    BY <2>1, <1>2 DEF KeyIs, Text
<1>4. /\ Q \in Text /\ Len(Q) = 5
      /\ Q[1] = Quote /\ Q[2] = key /\ Q[3] = Quote /\ Q[4] = ":" /\ Q[5] = Quote
  <2>1. Quote \in Char
    BY Marks
  <2>2. Q \in Text /\ Len(Q) = 5 /\ HasKey(Q, 1, key) /\ Q[5] = Quote
    BY <1>2, <2>1, KeyAndQuote
  <2>. HIDE DEF Q
  <2> QED
    BY <2>2, FirstKey, Zenon
<1>. HIDE DEF f, K, Q
<1>5. ASSUME NEW i \in Nat
      PROVE  /\ (\A k \in 1 .. 4 : json[i + k - 1] = K[k]) <=> HasKey(json, i, key)
             /\ (\A k \in 1 .. 5 : json[i + k - 1] = Q[k]) <=>
                  HasKey(json, i, key) /\ json[i + 4] = Quote
  <2>1. /\ i + 1 - 1 = i /\ i + 2 - 1 = i + 1 /\ i + 3 - 1 = i + 2 /\ i + 4 - 1 = i + 3
        /\ i + 5 - 1 = i + 4
    BY SMT
  <2>2. \A k : k \in 1 .. 4 <=> k \in {1, 2, 3, 4}
    BY SMT
  <2>3. \A k : k \in 1 .. 5 <=> k \in {1, 2, 3, 4, 5}
    BY SMT
  <2>4. (\A k \in 1 .. 4 : json[i + k - 1] = K[k]) <=> HasKey(json, i, key)
    BY <1>3, <2>1, <2>2, Zenon DEF HasKey
  <2>5. (\A k \in 1 .. 5 : json[i + k - 1] = Q[k]) <=>
          HasKey(json, i, key) /\ json[i + 4] = Quote
    BY <1>4, <2>1, <2>3, ZenonT(60) DEF HasKey
  <2> QED
    BY <2>4, <2>5
<1>6. /\ f + 1 \in Nat /\ (f + 1) + 4 = f + 5 /\ (f + 1) + 5 = f + 6
      /\ f + 1 \in 1 .. Len(json) - 4 + 1 /\ f + 1 \in 1 .. Len(json) - 5 + 1
      /\ \A i \in 1 .. Len(json) - 4 + 1 : i \in Nat /\ i \in 1 .. Len(json) - 3
      /\ \A i \in 1 .. Len(json) - 5 + 1 : i \in Nat /\ i \in 1 .. Len(json) - 3
  BY <1>1, SMT
<1>7. After(json, K) = f + 5
  <2>1. K # <<>> /\ f + 1 \in 1 .. Len(json) - Len(K) + 1
    <3>1. Len(<<>>) = 0
      OBVIOUS
    <3>2. K # <<>>
      <4>1. Len(K) = 4
        BY <1>3
      <4> QED
        BY <3>1, <4>1
    <3>3. Len(json) - Len(K) + 1 = Len(json) - 4 + 1
      BY <1>3
    <3> QED
      BY <3>2, <3>3, <1>6
  <2>2. \A k \in 1 .. Len(K) : json[(f + 1) + k - 1] = K[k]
    BY <1>1, <1>3, <1>5, <1>6, ZenonT(60)
  <2>3. \A i \in 1 .. Len(json) - Len(K) + 1 :
          (\A k \in 1 .. Len(K) : json[i + k - 1] = K[k]) => i = f + 1
    BY <1>1, <1>3, <1>5, <1>6, ZenonT(60)
  <2>. DEFINE p == f + 1
  <2>. HIDE DEF p
  <2>4. After(json, K) = p + Len(K)
    BY <1>2, <1>3, <2>1, <2>2, <2>3, FoundFirst, Zenon DEF p
  <2> QED
    BY <2>4, <1>3, <1>6 DEF p
<1>8. members[n][5] = Quote => After(json, Q) = f + 6
  <2>1. SUFFICES ASSUME members[n][5] = Quote
                 PROVE  After(json, Q) = f + 6
    OBVIOUS
  <2>2. Q # <<>> /\ f + 1 \in 1 .. Len(json) - Len(Q) + 1
    <3>1. Len(<<>>) = 0
      OBVIOUS
    <3>2. Q # <<>>
      <4>1. Len(Q) = 5
        BY <1>4
      <4> QED
        BY <3>1, <4>1, SMTT(60)
    <3>3. Len(json) - Len(Q) + 1 = Len(json) - 5 + 1
      BY <1>4
    <3> QED
      BY <3>2, <3>3, <1>6
  <2>3. json[(f + 1) + 4] = Quote
    BY <1>1, <1>6, <2>1
  <2>4. \A k \in 1 .. Len(Q) : json[(f + 1) + k - 1] = Q[k]
    BY <1>1, <1>4, <1>5, <1>6, <2>3, ZenonT(60)
  <2>5. \A i \in 1 .. Len(json) - Len(Q) + 1 :
          (\A k \in 1 .. Len(Q) : json[i + k - 1] = Q[k]) => i = f + 1
    BY <1>1, <1>4, <1>5, <1>6, ZenonT(60)
  <2>. DEFINE p == f + 1
  <2>. HIDE DEF p
  <2>6. After(json, Q) = p + Len(Q)
    BY <1>2, <1>4, <2>2, <2>4, <2>5, FoundFirst, Zenon DEF p
  <2> QED
    BY <2>6, <1>4, <1>6 DEF p
<1> QED
  BY <1>7, <1>8 DEF f, K, Q

(* The least element of a set of numbers. *)
LEMMA MinIs ==
  ASSUME NEW S \in SUBSET Int, NEW x \in S, \A y \in S : x <= y
  PROVE  Min(S) = x
<1>1. Min(S) = CHOOSE z \in S : \A y \in S : z =< y
  BY Zenon DEF Min
<1>. DEFINE m == Min(S)
<1>2. m \in S /\ \A y \in S : m =< y
  BY <1>1, Zenon
<1>. HIDE DEF m
<1>3. m <= x /\ x <= m /\ m \in Int /\ x \in Int
  BY <1>2
<1>4. m = x
  BY <1>3, SMT
<1> QED
  BY <1>4 DEF m

(* What stands around a text in quotes that is the n-th of the members.      *)
ValueStands(json, flat, d, last) ==
  /\ d \in Nat /\ d > 0 /\ StandsAt(flat, json, d)
  /\ Len(flat) \in Nat /\ Len(json) \in Nat /\ (d + Len(flat)) + 2 <= Len(json)
  /\ json[d] = Quote /\ json[(d + Len(flat)) + 1] = Quote
  /\ last => json[(d + Len(flat)) + 2] = "}" /\ Len(json) = (d + Len(flat)) + 2
  /\ ~last => /\ json[(d + Len(flat)) + 2] = "," /\ json[(d + Len(flat)) + 3] = Quote
              /\ (d + Len(flat)) + 3 <= Len(json)

(* find() finds the value of a text in quotes. *)
LEMMA QuotedFound ==
  ASSUME NEW members, Len(members) \in Nat, NEW json, NEW from, MembersStand(json, members, from),
         NEW n, NEW key, HasItself(members, n, key),
         NEW flat \in Text, members[n] = Quoted(key, flat)
  PROVE  /\ After(json, KeyIs(key) \o <<Quote>>) = from[n] + 6
         /\ ValueStands(json, flat, from[n] + 5, n = Len(members))
<1>. DEFINE N == Len(members)
            f == from[n]
            L == Len(flat)
            member == members[n]
            last == n = N
            d == f + 5
<1>1. n \in 1 .. N /\ PlainKey(key) /\ N \in Nat
  BY DEF HasItself
<1>2. L \in Nat /\ Len(json) \in Nat
  BY LenProperties DEF Text, MembersStand
<1>3. /\ Len(member) = L + 6 /\ member[5] = Quote /\ member[L + 6] = Quote
      /\ \A k \in 1 .. L : member[5 + k] = flat[k]
  <2>1. key \in Char
    BY <1>1 DEF PlainKey
  <2>. DEFINE q == Quoted(key, flat)
  <2>2. /\ Len(q) = L + 6 /\ q[5] = Quote /\ q[L + 6] = Quote
        /\ \A k \in 1 .. L : q[5 + k] = flat[k]
    BY <2>1, QuotedStands
  <2>3. member = q
    OBVIOUS
  <2>. HIDE DEF q, member
  <2> QED
    BY <2>2, <2>3
<1>4. After(json, KeyIs(key) \o <<Quote>>) = from[n] + 6
  BY <1>3, KeyFound
<1>5. /\ f \in Nat /\ (f + Len(member)) + 1 <= Len(json)
      /\ \A k \in 1 .. Len(member) : json[f + k] = member[k]
      /\ last => json[(f + Len(member)) + 1] = "}" /\ Len(json) = (f + Len(member)) + 1
      /\ ~last => json[(f + Len(member)) + 1] = "," /\ from[n + 1] = (f + Len(member)) + 1
  BY <1>1 DEF MembersStand, StandsAt
<1>6. ~last => json[((f + Len(member)) + 1) + 1] = Quote
               /\ ((f + Len(member)) + 1) + 1 <= Len(json)
  <2>1. SUFFICES ASSUME ~last
                 PROVE  json[((f + Len(member)) + 1) + 1] = Quote
                        /\ ((f + Len(member)) + 1) + 1 <= Len(json)
    OBVIOUS
  <2>2. n + 1 \in 1 .. N /\ n + 1 # n
    BY <1>1, <2>1, SMT
  <2>3. PICK own : Owns(members[n + 1], own)
    BY <2>2 DEF HasItself
  <2>4. /\ members[n + 1][1] = Quote /\ Len(members[n + 1]) \in Nat /\ Len(members[n + 1]) >= 5
    BY <2>3, FirstKey, LenProperties DEF Owns, Text
  <2>5. 1 \in 1 .. Len(members[n + 1])
    BY <2>4, SMT
  <2>. DEFINE g == from[n + 1]
              M == Len(members[n + 1])
  <2>6. json[g + 1] = Quote /\ g \in Nat /\ (g + M) + 1 <= Len(json) /\ M \in Nat /\ M >= 5
    BY <2>2, <2>4, <2>5 DEF MembersStand, StandsAt
  <2>7. g = (f + Len(member)) + 1
    BY <1>5, <2>1
  <2>. HIDE DEF g, M
  <2>8. g + 1 <= Len(json)
    BY <2>6, <1>2, SMT
  <2> QED
    BY <2>6, <2>7, <2>8
<1>. HIDE DEF f, L, member, last
<1>7. /\ d \in Nat /\ d > 0 /\ d = f + 5 /\ (d + L) + 1 = f + (L + 6)
      /\ (d + L) + 2 = (f + Len(member)) + 1 /\ (d + L) + 3 = ((f + Len(member)) + 1) + 1
      /\ d + L <= Len(json) /\ (d + L) + 2 <= Len(json)
      /\ 5 \in 1 .. Len(member) /\ L + 6 \in 1 .. Len(member)
      /\ \A k \in 1 .. L : 5 + k \in 1 .. Len(member) /\ d + k = f + (5 + k)
  <2>1. Len(member) = L + 6 /\ f \in Nat /\ (f + Len(member)) + 1 <= Len(json)
    BY <1>3, <1>5
  <2> QED
    BY <2>1, <1>2, SMT
<1>. HIDE DEF d
<1>8. StandsAt(flat, json, d)
  <2>1. \A k \in 1 .. L : json[d + k] = flat[k]
    BY <1>3, <1>5, <1>7, ZenonT(60)
  <2> QED
    BY <2>1, <1>7 DEF StandsAt, L
<1>9. json[d] = Quote /\ json[(d + L) + 1] = Quote
  BY <1>3, <1>5, <1>7
<1>10. ValueStands(json, flat, d, last)
  BY <1>2, <1>5, <1>6, <1>7, <1>8, <1>9 DEF ValueStands, L
<1> QED
  BY <1>4, <1>10 DEF d, f, last

(* Nothing more at the end. *)
LEMMA ConcatNothing ==
  ASSUME NEW t \in Text
  PROVE  t \o <<>> = t
BY ConcatEmptySeq DEF Text

(* extractStr reads the text that the letters spell. *)
LEMMA ExtractStrReads ==
  ASSUME NEW json \in Text, NEW key, NEW t \in Text, NEW blocks, Spells(blocks, t), NEW flat, NEW at,
         Placed(flat, blocks, at), NEW d, NEW last, ValueStands(json, flat, d, last),
         After(json, KeyIs(key) \o <<Quote>>) = d + 1
  PROVE  ExtractStr(json, key) = t
<1>. DEFINE e == (d + Len(flat)) + 1
            ends == {Quote}
<1>1. /\ d \in Nat /\ d > 0 /\ d + 1 # 0 /\ StandsAt(flat, json, d) /\ e \in 1 .. Len(json)
      /\ json[e] = Quote
  <2>1. /\ d \in Nat /\ d > 0 /\ Len(flat) \in Nat /\ Len(json) \in Nat
        /\ (d + Len(flat)) + 2 <= Len(json)
    BY DEF ValueStands
  <2>2. e \in 1 .. Len(json) /\ d + 1 # 0
    BY <2>1, SMT
  <2> QED
    BY <2>1, <2>2 DEF ValueStands
<1>2. ends \subseteq {Quote}
  OBVIOUS
<1>. HIDE DEF ends
<1>3. Reading(json, ends)[d + 1] = t \o Reading(json, ends)[e]
  BY <1>1, <1>2, TextIsRead
<1>. HIDE DEF e
<1>4. ~Escapes(json, e) /\ json[e] \in ends
  BY <1>1, Marks DEF Escapes, ends
<1>5. Reading(json, ends)[e] = <<>>
  BY <1>1, <1>4, ReadingStep
<1>6. Reading(json, ends)[d + 1] = t
  BY <1>3, <1>5, ConcatNothing
<1>7. ExtractStr(json, key) = Reading(json, ends)[d + 1]
  BY <1>1, Zenon DEF ExtractStr, ends
<1> QED
  BY <1>6, <1>7

(* The quotes before the closing one do not end a value. *)
LEMMA NoEndInside ==
  ASSUME NEW json, NEW t \in Text, NEW flat, NEW blocks, Spells(blocks, t), NEW at,
         Placed(flat, blocks, at), NEW d, NEW last, ValueStands(json, flat, d, last),
         NEW i \in d + 1 .. d + Len(flat)
  PROVE  ~EndsValue(json, i)
<1>. DEFINE L == Len(flat)
            k == i - d
<1>1. d \in Nat /\ L \in Nat /\ \A j \in 1 .. L : json[d + j] = flat[j]
  BY DEF ValueStands, StandsAt
<1>2. k \in 1 .. L /\ d + k = i /\ d + (k - 1) = i - 1
  <2>1. i \in d + 1 .. d + L
    OBVIOUS
  <2>. HIDE DEF L
  <2> QED
    BY <1>1, <2>1, SMT
<1>. HIDE DEF k
<1>3. ASSUME json[i] = Quote
      PROVE  json[i - 1] = Escape
  <2>1. flat[k] = Quote
    BY <1>1, <1>2, <1>3
  <2>2. k - 1 \in 1 .. L /\ flat[k - 1] = Escape
    BY <1>2, <2>1, QuotesEscaped
  <2> QED
    BY <1>1, <1>2, <2>2
<1> QED
  BY <1>3 DEF EndsValue

(* The closing quote has a backslash before it if the text ends in one. *)
EndsInEscape(t) == t # <<>> /\ t[Len(t)] = Escape

(* extractJsonString stops at the closing quote unless the text ends in a *)
(* backslash.                                                             *)
LEMMA BeforeTheClosingQuote ==
  ASSUME NEW json, NEW t \in Text, NEW flat, NEW at,
         Placed(flat, [i \in DOMAIN t |-> EscapeOf(t[i])], at), NEW d, NEW last,
         ValueStands(json, flat, d, last)
  PROVE  EndsValue(json, (d + Len(flat)) + 1) <=> ~EndsInEscape(t)
<1>. DEFINE L == Len(flat)
            blocks == [i \in DOMAIN t |-> EscapeOf(t[i])]
<1>1. /\ d \in Nat /\ L \in Nat /\ \A j \in 1 .. L : json[d + j] = flat[j]
      /\ json[d] = Quote /\ json[(d + L) + 1] = Quote
  BY DEF ValueStands, StandsAt
<1>2. ((d + L) + 1) - 1 = d + L
  <2>. HIDE DEF L
  <2> QED
    BY <1>1, SMT
<1>3. json[d + L] = Escape <=> EndsInEscape(t)
  <2>1. CASE t = <<>>
    <3>1. Len(blocks) = 0
      <4>1. Len(t) = 0
        BY <2>1
      <4> QED
        BY <4>1, EscapesSpell
    <3>2. L = 0
      <4>1. Placed(flat, blocks, at)
        OBVIOUS
      <4>. HIDE DEF blocks
      <4> QED
        BY <3>1, <4>1 DEF Placed
    <3>3. d + L = d
      BY <1>1, <3>2
    <3> QED
      BY <1>1, <2>1, <3>3, Marks DEF EndsInEscape
  <2>2. CASE t # <<>>
    <3>1. L > 0 /\ (flat[L] = Escape <=> t[Len(t)] = Escape)
      BY <2>2, LastEscaped
    <3>2. L \in 1 .. L
      <4>. HIDE DEF L
      <4> QED
        BY <1>1, <3>1, SMT
    <3> QED
      BY <1>1, <2>2, <3>1, <3>2 DEF EndsInEscape
  <2> QED
    BY <2>1, <2>2
<1> QED
  BY <1>1, <1>2, <1>3 DEF EndsValue

(* The part of a text from after d to before e. *)
LEMMA PartStands ==
  ASSUME NEW json \in Text, NEW d \in Nat, NEW e \in Nat, d < e, e <= Len(json) + 1
  PROVE  LET part == SubSeq(json, d + 1, e - 1)
         IN  /\ part \in Text /\ Len(part) = (e - d) - 1
             /\ \A k \in 1 .. (e - d) - 1 : part[k] = json[d + k]
<1>. DEFINE N == Len(json)
            a == d + 1
            b == e - 1
            part == SubSeq(json, a, b)
            M == (e - d) - 1
<1>1. N \in Nat /\ e <= N + 1
  BY LenProperties DEF Text
<1>. HIDE DEF N
<1>2. a \in 1 .. N + 1 /\ b \in a - 1 .. N /\ b - a + 1 = M /\ M \in Nat
      /\ \A k \in 1 .. M : a + k - 1 = d + k
  BY <1>1, SMT
<1>. HIDE DEF a, b
<1>3. /\ part \in Seq(Char) /\ Len(part) = b - a + 1
      /\ \A k \in 1 .. b - a + 1 : part[k] = json[a + k - 1]
  BY <1>2, SubSeqProperties DEF N, Text
<1>. HIDE DEF part
<1>4. Len(part) = M /\ \A k \in 1 .. M : part[k] = json[d + k]
  BY <1>2, <1>3
<1> QED
  BY <1>3, <1>4 DEF part, a, b, Text

(* unescapeJson says the text that stands at the front and what comes after. *)
LEMMA Unescaping ==
  ASSUME NEW s \in Text, NEW t \in Text, NEW blocks, Spells(blocks, t), NEW flat, NEW at,
         Placed(flat, blocks, at), Len(flat) \in Nat, StandsAt(flat, s, 0)
  PROVE  UnescapeJson(s) = t \o Reading(s, {})[Len(flat) + 1]
<1>1. 0 \in Nat /\ 0 + 1 = 1 /\ 0 + Len(flat) = Len(flat)
  BY SMT
<1>2. {} \subseteq {Quote}
  OBVIOUS
<1>3. Reading(s, {})[0 + 1] = t \o Reading(s, {})[(0 + Len(flat)) + 1]
  BY <1>1, <1>2, TextIsRead
<1> QED
  BY <1>1, <1>3 DEF UnescapeJson

(* unescapeJson takes an escaped text back. *)
LEMMA WholeTextUnescaped ==
  ASSUME NEW s \in Text, NEW t \in Text, NEW blocks, Spells(blocks, t), NEW flat, NEW at,
         Placed(flat, blocks, at), Len(flat) \in Nat, StandsAt(flat, s, 0), Len(s) = Len(flat)
  PROVE  UnescapeJson(s) = t
<1>1. UnescapeJson(s) = t \o Reading(s, {})[Len(flat) + 1]
  BY Unescaping
<1>2. Reading(s, {})[Len(s) + 1] = <<>>
  BY ReadingStep
<1> QED
  BY <1>1, <1>2, ConcatNothing

(* Two characters behind it stay as they are. *)
LEMMA TwoMoreUnescaped ==
  ASSUME NEW s \in Text, NEW t \in Text, NEW blocks, Spells(blocks, t), NEW flat, NEW at,
         Placed(flat, blocks, at), Len(flat) \in Nat, StandsAt(flat, s, 0),
         Len(s) = Len(flat) + 2, s[Len(flat) + 1] # Escape, s[Len(flat) + 2] # Escape
  PROVE  UnescapeJson(s) = t \o <<s[Len(flat) + 1], s[Len(flat) + 2]>>
<1>. DEFINE L == Len(flat)
            read == Reading(s, {})
            a == s[L + 1]
            b == s[L + 2]
<1>1. UnescapeJson(s) = t \o read[L + 1]
  BY Unescaping
<1>2. L + 1 \in 1 .. Len(s) /\ L + 2 \in 1 .. Len(s) /\ (L + 1) + 1 = L + 2 /\ (L + 2) + 1 = Len(s) + 1
  <2>1. L \in Nat /\ Len(s) = L + 2
    OBVIOUS
  <2>. HIDE DEF L
  <2> QED
    BY <2>1, SMT
<1>3. a \in Char /\ b \in Char
  BY <1>2, ElementOfSeq DEF Text
<1>4. ASSUME NEW i \in 1 .. Len(s), s[i] # Escape
      PROVE  read[i] = <<s[i]>> \o read[i + 1]
  <2>1. ~Escapes(s, i) /\ s[i] \notin {}
    BY <1>4 DEF Escapes
  <2> QED
    BY <2>1, ReadingStep
<1>9. read[Len(s) + 1] = <<>>
  BY ReadingStep
<1>. HIDE DEF read
<1>5. read[L + 2] = <<b>> \o read[Len(s) + 1]
  BY <1>2, <1>4
<1>6. read[L + 1] = <<a>> \o read[L + 2]
  BY <1>2, <1>4
<1>. HIDE DEF read, a, b
<1>7. <<b>> \o <<>> = <<b>>
  <2>1. <<b>> \in Text
    BY <1>3 DEF Text
  <2> QED
    BY <2>1, ConcatNothing
<1>8. <<a>> \o <<b>> = <<a, b>>
  <2>1. <<b>> \in Text
    BY <1>3 DEF Text
  <2>. DEFINE one == <<b>>
              two == <<a>> \o one
  <2>2. one \in Text /\ Len(one) = 1 /\ one[1] = b
    BY <2>1
  <2>. HIDE DEF one
  <2>3. two \in Text /\ Len(two) = Len(one) + 1 /\ two[1] = a
        /\ \A k \in 1 .. Len(one) : two[k + 1] = one[k]
    BY <1>3, <2>2, Prepended
  <2>. HIDE DEF two
  <2>4. Len(two) = 2 /\ two[1] = a /\ two[2] = b
    BY <2>2, <2>3
  <2>. DEFINE pair == <<a, b>>
  <2>6. pair \in Text /\ Len(pair) = 2 /\ pair[1] = a /\ pair[2] = b
    BY <1>3 DEF Text
  <2>. HIDE DEF pair
  <2>7. \A k \in 1 .. Len(two) : two[k] = pair[k]
    BY <2>4, <2>6
  <2>5. two = pair
    BY <2>3, <2>4, <2>6, <2>7, SeqEqual DEF Text
  <2> QED
    BY <2>5 DEF two, one, pair
<1> QED
  BY <1>1, <1>5, <1>6, <1>7, <1>8, <1>9 DEF a, b

(* extractJsonString reads the text, or the text and two characters more if  *)
(* it ends in a backslash.                                                   *)
LEMMA StringRead ==
  ASSUME NEW json \in Text, NEW key, NEW t \in Text, NEW flat, NEW at,
         Placed(flat, [i \in DOMAIN t |-> EscapeOf(t[i])], at), NEW d, NEW last \in BOOLEAN,
         ValueStands(json, flat, d, last), After(json, KeyIs(key) \o <<Quote>>) = d + 1
  PROVE  ExtractJsonString(json, key) = Survives(t, IF last THEN "}" ELSE ",")
<1>. DEFINE L == Len(flat)
            N == Len(json)
            e == (d + L) + 1
            blocks == [i \in DOMAIN t |-> EscapeOf(t[i])]
            ends == {i \in d + 1 .. N : EndsValue(json, i)} \cup {N + 1}
            first == Min(ends)
            part == SubSeq(json, d + 1, first - 1)
            separator == IF last THEN "}" ELSE ","
<1>1. /\ d \in Nat /\ d > 0 /\ L \in Nat /\ N \in Nat /\ (d + L) + 2 <= N
      /\ \A j \in 1 .. L : json[d + j] = flat[j]
      /\ json[e] = Quote
  BY DEF ValueStands, StandsAt
<1>2. /\ last => json[(d + L) + 2] = "}" /\ N = (d + L) + 2
      /\ ~last => /\ json[(d + L) + 2] = "," /\ json[(d + L) + 3] = Quote /\ (d + L) + 3 <= N
  BY DEF ValueStands
<1>3. Spells(blocks, t)
  BY EscapesSpell
<1>4. Placed(flat, blocks, at)
  OBVIOUS
<1>5. \A i \in d + 1 .. d + L : ~EndsValue(json, i)
  <2>. HIDE DEF blocks
  <2> QED
    BY <1>3, <1>4, NoEndInside
<1>6. EndsValue(json, e) <=> ~EndsInEscape(t)
  BY BeforeTheClosingQuote
<1>7. ExtractJsonString(json, key) = UnescapeJson(part)
  <2>1. d + 1 # 0
    BY <1>1, SMT
  <2> QED
    BY <2>1, Zenon DEF ExtractJsonString
<1>8. Survives(t, separator) = IF EndsInEscape(t) THEN t \o <<Quote, separator>> ELSE t
  BY Zenon DEF Survives, EndsInEscape
<1>9. /\ e \in Nat /\ e \in Int /\ e \in d + 1 .. N /\ d < e /\ e <= N + 1 /\ (e - d) - 1 = L
      /\ e + 2 \in Nat /\ e + 2 \in Int /\ d < e + 2 /\ e + 2 <= N + 1 /\ ((e + 2) - d) - 1 = L + 2
      /\ e + 1 = (d + L) + 2 /\ e + 2 = (d + L) + 3 /\ e + 2 # e
      /\ (e + 1) - 1 = e /\ (e + 2) - 1 = e + 1
      /\ (N = (d + L) + 2 => e + 2 = N + 1)
      /\ ((d + L) + 3 <= N => e + 2 \in d + 1 .. N)
  <2>. HIDE DEF L, N
  <2> QED
    BY <1>1, SMT
<1>10. ends \in SUBSET Int
  <2>1. N + 1 \in Int
    BY <1>1, SMT
  <2>2. d + 1 .. N \in SUBSET Int
    BY <1>1, SMT
  <2>. HIDE DEF N
  <2> QED
    BY <2>1, <2>2
<1>11. CASE ~EndsInEscape(t)
  <2>1. e \in ends
    BY <1>6, <1>9, <1>11
  <2>2. ASSUME NEW y \in ends
        PROVE  e <= y
    <3>1. CASE y = N + 1
      BY <3>1, <1>9
    <3>2. CASE y \in d + 1 .. N /\ EndsValue(json, y)
      <4>1. y \notin d + 1 .. d + L /\ y \in d + 1 .. N
        BY <3>2, <1>5
      <4>. HIDE DEF L, N
      <4> QED
        BY <4>1, <1>1, SMT
    <3> QED
      BY <3>1, <3>2
  <2>. HIDE DEF e, ends
  <2>3. first = e
    BY <2>1, <2>2, <1>10, MinIs, Zenon
  <2>. DEFINE s == SubSeq(json, d + 1, e - 1)
  <2>4. part = s
    BY <2>3
  <2>. HIDE DEF first, part
  <2>5. s \in Text /\ Len(s) = (e - d) - 1 /\ \A k \in 1 .. (e - d) - 1 : s[k] = json[d + k]
    <3>. HIDE DEF L
    <3> QED
      BY <1>1, <1>9, PartStands
  <2>. HIDE DEF s
  <2>6. Len(s) = L /\ \A k \in 1 .. L : s[k] = json[d + k]
    BY <1>9, <2>5
  <2>7. StandsAt(flat, s, 0)
    <3>1. 0 + L <= Len(s) /\ \A k \in 1 .. L : 0 + k = k
      <4>1. Len(s) = L /\ L \in Nat
        BY <1>1, <2>6
      <4>. HIDE DEF L
      <4> QED
        BY <4>1, SMT
    <3>2. \A k \in 1 .. L : s[k] = flat[k]
      BY <1>1, <2>6
    <3> QED
      BY <3>1, <3>2 DEF StandsAt
  <2>8. UnescapeJson(s) = t
    <3>1. L \in Nat
      BY <1>1
    <3>. HIDE DEF blocks
    <3> QED
      BY <1>3, <1>4, <2>5, <2>6, <2>7, <3>1, WholeTextUnescaped
  <2> QED
    BY <1>7, <1>8, <1>11, <2>4, <2>8
<1>12. CASE EndsInEscape(t)
  <2>1. e + 2 \in ends
    <3>1. CASE last
      BY <3>1, <1>2, <1>9
    <3>2. CASE ~last
      <4>1. json[e + 2] = Quote /\ json[(e + 2) - 1] = "," /\ e + 2 \in d + 1 .. N
        BY <3>2, <1>2, <1>9
      <4>2. EndsValue(json, e + 2)
        BY <4>1, Marks DEF EndsValue
      <4> QED
        BY <4>1, <4>2
    <3> QED
      BY <3>1, <3>2
  <2>2. json[e + 1] = separator /\ json[e + 1] # Quote /\ json[e + 1] # Escape
    <3>1. CASE last
      BY <3>1, <1>2, <1>9, Marks
    <3>2. CASE ~last
      BY <3>2, <1>2, <1>9, Marks
    <3> QED
      BY <3>1, <3>2
  <2>3. ASSUME NEW y \in ends
        PROVE  e + 2 <= y
    <3>1. CASE y = N + 1
      BY <3>1, <1>9
    <3>2. CASE y \in d + 1 .. N /\ EndsValue(json, y)
      <4>1. y \notin d + 1 .. d + L /\ y \in d + 1 .. N /\ y # e /\ y # e + 1
        BY <3>2, <1>5, <1>6, <1>12, <2>2 DEF EndsValue
      <4>2. e = (d + L) + 1
        OBVIOUS
      <4>. HIDE DEF L, N, e
      <4> QED
        BY <4>1, <4>2, <1>1, SMT
    <3> QED
      BY <3>1, <3>2
  <2>. HIDE DEF ends
  <2>4. first = e + 2
    <3>. DEFINE x == e + 2
    <3>1. x \in ends /\ \A y \in ends : x <= y
      BY <2>1, <2>3
    <3>. HIDE DEF x
    <3>2. first = x
      BY <3>1, <1>10, MinIs, Zenon
    <3> QED
      BY <3>2 DEF x
  <2>. HIDE DEF e
  <2>. DEFINE x == e + 2
              s == SubSeq(json, d + 1, x - 1)
  <2>5. part = s
    BY <2>4
  <2>. HIDE DEF first, part
  <2>6. x \in Nat /\ d < x /\ x <= N + 1 /\ (x - d) - 1 = L + 2
    BY <1>9
  <2>. HIDE DEF x
  <2>7. s \in Text /\ Len(s) = (x - d) - 1 /\ \A k \in 1 .. (x - d) - 1 : s[k] = json[d + k]
    <3>. HIDE DEF L
    <3> QED
      BY <1>1, <2>6, PartStands
  <2>. HIDE DEF s
  <2>8. Len(s) = L + 2 /\ \A k \in 1 .. L + 2 : s[k] = json[d + k]
    BY <2>6, <2>7
  <2>9. /\ 0 + L <= Len(s) /\ L + 1 \in 1 .. L + 2 /\ L + 2 \in 1 .. L + 2
        /\ d + (L + 1) = e /\ d + (L + 2) = e + 1
        /\ \A k \in 1 .. L : 0 + k = k /\ k \in 1 .. L + 2
    <3>1. Len(s) = L + 2 /\ L \in Nat /\ d \in Nat /\ e = (d + L) + 1
      BY <1>1, <2>8 DEF e
    <3>. HIDE DEF L
    <3> QED
      BY <3>1, SMT
  <2>10. StandsAt(flat, s, 0)
    <3>1. \A k \in 1 .. L : s[k] = flat[k]
      BY <1>1, <2>8, <2>9
    <3> QED
      BY <3>1, <2>9 DEF StandsAt
  <2>11. s[L + 1] = Quote /\ s[L + 2] = separator /\ s[L + 1] # Escape /\ s[L + 2] # Escape
    <3>1. s[L + 1] = json[e] /\ s[L + 2] = json[e + 1]
      BY <2>8, <2>9
    <3>2. json[e] = Quote /\ Quote # Escape
      BY <1>1, Marks
    <3> QED
      BY <2>2, <3>1, <3>2
  <2>12. UnescapeJson(s) = t \o <<s[L + 1], s[L + 2]>>
    <3>1. L \in Nat
      BY <1>1
    <3>2. s \in Text /\ Len(s) = L + 2 /\ s[L + 1] # Escape /\ s[L + 2] # Escape
      BY <2>7, <2>8, <2>11
    <3>. HIDE DEF blocks
    <3> QED
      BY <1>3, <1>4, <2>10, <3>1, <3>2, TwoMoreUnescaped, ZenonT(60)
  <2>13. UnescapeJson(s) = t \o <<Quote, separator>>
    BY <2>11, <2>12
  <2> QED
    BY <1>7, <1>8, <1>12, <2>5, <2>13
<1> QED
  BY <1>11, <1>12

(* A text in quotes is a member that owns its key. *)
LEMMA MemberOwns ==
  ASSUME NEW key, PlainKey(key), NEW t \in Text
  PROVE  LET blocks == [i \in DOMAIN t |-> EscapeOf(t[i])]
             flat == FlattenSeq(blocks)
         IN  /\ Member(key, t) = Quoted(key, flat) /\ flat \in Text
             /\ Member(key, t) \in Text /\ Owns(Member(key, t), key)
             /\ \E at : Placed(flat, blocks, at)
<1>. DEFINE blocks == [i \in DOMAIN t |-> EscapeOf(t[i])]
            flat == FlattenSeq(blocks)
<1>1. Member(key, t) = Quoted(key, flat)
  BY DEF Member
<1>2. blocks \in Seq(Text) /\ Spells(blocks, t)
  BY EscapesSpell
<1>. HIDE DEF blocks
<1>3. flat \in Text /\ \E at : Placed(flat, blocks, at)
  BY <1>2, FlattenPlaces DEF Text
<1>. HIDE DEF flat
<1>4. PICK at : Placed(flat, blocks, at)
  BY <1>3
<1>5. \A i \in 1 .. Len(flat) : flat[i] = Quote => i - 1 \in 1 .. Len(flat) /\ flat[i - 1] = Escape
  BY <1>2, <1>4, QuotesEscaped
<1>6. Owns(Quoted(key, flat), key)
  BY <1>3, <1>5, QuotedOwns
<1>7. Quoted(key, flat) \in Text
  BY <1>6 DEF Owns
<1> QED
  BY <1>1, <1>3, <1>6, <1>7 DEF flat, blocks

(* So it is for a member of a HELLO. *)
LEMMA HelloMemberOwns ==
  ASSUME NEW key, PlainKey(key), NEW t \in Text
  PROVE  LET blocks == [i \in DOMAIN t |-> HelloEscapeOf(t[i])]
             flat == FlattenSeq(blocks)
         IN  /\ JsonStr(key, t) = Quoted(key, flat) /\ flat \in Text
             /\ JsonStr(key, t) \in Text /\ Owns(JsonStr(key, t), key)
             /\ \E at : Placed(flat, blocks, at)
<1>. DEFINE blocks == [i \in DOMAIN t |-> HelloEscapeOf(t[i])]
            flat == FlattenSeq(blocks)
<1>1. JsonStr(key, t) = Quoted(key, flat)
  BY DEF JsonStr
<1>2. blocks \in Seq(Text) /\ Spells(blocks, HelloSurviving(t)) /\ HelloSurviving(t) \in Text
  BY HelloEscapesSpell
<1>. HIDE DEF blocks
<1>3. flat \in Text /\ \E at : Placed(flat, blocks, at)
  BY <1>2, FlattenPlaces DEF Text
<1>. HIDE DEF flat
<1>4. PICK at : Placed(flat, blocks, at)
  BY <1>3
<1>5. \A i \in 1 .. Len(flat) : flat[i] = Quote => i - 1 \in 1 .. Len(flat) /\ flat[i - 1] = Escape
  BY <1>2, <1>4, QuotesEscaped
<1>6. Owns(Quoted(key, flat), key)
  BY <1>3, <1>5, QuotedOwns
<1>7. Quoted(key, flat) \in Text
  BY <1>6 DEF Owns
<1> QED
  BY <1>1, <1>3, <1>6, <1>7 DEF flat, blocks

(* Members with keys of their own are each found by their key. *)
LEMMA AllHave ==
  ASSUME NEW members, NEW keys,
         \A n \in 1 .. Len(members) : PlainKey(keys[n]) /\ Owns(members[n], keys[n]),
         \A m, n \in 1 .. Len(members) : m # n => keys[m] # keys[n]
  PROVE  \A n \in 1 .. Len(members) : HasItself(members, n, keys[n])
BY Zenon DEF HasItself

(* The character after a member. *)
Follows(members, n) == IF n = Len(members) THEN "}" ELSE ","

(* extractJsonString reads a member as it was written, or with its closing *)
(* quote and the character that follows.                                   *)
LEMMA FieldRead ==
  ASSUME NEW members, Len(members) \in Nat, NEW json, NEW from, MembersStand(json, members, from),
         NEW n, NEW key, HasItself(members, n, key), NEW t \in Text, members[n] = Member(key, t)
  PROVE  ExtractJsonString(json, key) = Survives(t, Follows(members, n))
<1>. DEFINE blocks == [i \in DOMAIN t |-> EscapeOf(t[i])]
            flat == FlattenSeq(blocks)
            last == n = Len(members)
            d == from[n] + 5
<1>1. PlainKey(key) /\ n \in 1 .. Len(members)
  BY DEF HasItself
<1>2. Member(key, t) = Quoted(key, flat) /\ flat \in Text /\ \E at : Placed(flat, blocks, at)
  BY <1>1, MemberOwns
<1>3. PICK at : Placed(flat, blocks, at)
  BY <1>2
<1>. HIDE DEF flat
<1>4. /\ After(json, KeyIs(key) \o <<Quote>>) = from[n] + 6
      /\ ValueStands(json, flat, from[n] + 5, n = Len(members))
  BY <1>2, QuotedFound
<1>5. from[n] + 6 = (from[n] + 5) + 1
  <2>1. from[n] \in Nat
    BY <1>1 DEF MembersStand
  <2> QED
    BY <2>1, SMT
<1>6. json \in Text /\ last \in BOOLEAN
  BY DEF MembersStand
<1>7. /\ After(json, KeyIs(key) \o <<Quote>>) = d + 1 /\ ValueStands(json, flat, d, last)
  BY <1>4, <1>5
<1>. HIDE DEF last, d
<1>8. ExtractJsonString(json, key) = Survives(t, IF last THEN "}" ELSE ",")
  BY <1>3, <1>6, <1>7, StringRead, ZenonT(60)
<1> QED
  BY <1>8 DEF last, Follows

(* extractJsonInt reads the number of a member. *)
LEMMA NumberRead ==
  ASSUME NEW members, Len(members) \in Nat, NEW json, NEW from, MembersStand(json, members, from),
         NEW n, NEW key, HasItself(members, n, key), NEW digits \in Char,
         members[n] = Number(key, digits)
  PROVE  ExtractJsonInt(json, key) = digits
<1>1. PlainKey(key)
  BY DEF HasItself
<1>2. members[n][5] = digits
  BY <1>1, NumberOwns
<1>3. from[n] \in Nat /\ json[from[n] + 5] = digits
  BY <1>2, KeyFoundOnce
<1>4. After(json, KeyIs(key)) = from[n] + 5
  BY KeyFound
<1>5. from[n] + 5 # 0
  BY <1>3, SMT
<1> QED
  BY <1>3, <1>4, <1>5 DEF ExtractJsonInt

(* extractStr reads a member of a HELLO. *)
LEMMA HelloFieldRead ==
  ASSUME NEW members, Len(members) \in Nat, NEW json, NEW from, MembersStand(json, members, from),
         NEW n, NEW key, HasItself(members, n, key), NEW t \in Text, members[n] = JsonStr(key, t)
  PROVE  ExtractStr(json, key) = HelloSurviving(t)
<1>. DEFINE blocks == [i \in DOMAIN t |-> HelloEscapeOf(t[i])]
            flat == FlattenSeq(blocks)
            last == n = Len(members)
            d == from[n] + 5
<1>1. PlainKey(key) /\ n \in 1 .. Len(members)
  BY DEF HasItself
<1>2. JsonStr(key, t) = Quoted(key, flat) /\ flat \in Text /\ \E at : Placed(flat, blocks, at)
  BY <1>1, HelloMemberOwns
<1>3. PICK at : Placed(flat, blocks, at)
  BY <1>2
<1>. HIDE DEF flat
<1>4. /\ After(json, KeyIs(key) \o <<Quote>>) = from[n] + 6
      /\ ValueStands(json, flat, from[n] + 5, n = Len(members))
  BY <1>2, QuotedFound
<1>5. from[n] + 6 = (from[n] + 5) + 1
  <2>1. from[n] \in Nat
    BY <1>1 DEF MembersStand
  <2> QED
    BY <2>1, SMT
<1>6. json \in Text
  BY DEF MembersStand
<1>7. /\ After(json, KeyIs(key) \o <<Quote>>) = d + 1 /\ ValueStands(json, flat, d, last)
  BY <1>4, <1>5
<1>8. Spells(blocks, HelloSurviving(t)) /\ HelloSurviving(t) \in Text
  BY HelloEscapesSpell
<1>. HIDE DEF last, d, blocks
<1> QED
  BY <1>3, <1>6, <1>7, <1>8, ExtractStrReads

(* The keys of the two objects are plain: nothing escapes them. *)
LEMMA Keys ==
  /\ PlainKey("msgId") /\ PlainKey("senderId") /\ PlainKey("senderName")
  /\ PlainKey("timestampUtc") /\ PlainKey("text")
  /\ PlainKey("device_id") /\ PlainKey("display_name") /\ PlainKey("platform")
  /\ PlainKey("tcp_port")
<1>1. /\ "msgId" \in Char /\ "senderId" \in Char /\ "senderName" \in Char
      /\ "timestampUtc" \in Char /\ "text" \in Char /\ "device_id" \in Char
      /\ "display_name" \in Char /\ "platform" \in Char /\ "tcp_port" \in Char
  BY DEF Char
<1>. HIDE DEF Char
<1> QED
  BY <1>1 DEF PlainKey, Quote, Escape

(* Only an empty text comes back empty. *)
LEMMA SurvivesEmpty ==
  ASSUME NEW t \in Text, NEW c \in Char
  PROVE  Survives(t, c) = <<>> <=> t = <<>>
<1>1. CASE EndsInEscape(t)
  <2>1. Quote \in Char
    BY Marks
  <2>. DEFINE b == <<Quote, c>>
  <2>2. b \in Text /\ Len(b) = 2
    BY <2>1 DEF Text
  <2>. HIDE DEF b
  <2>3. Len(t \o b) = Len(t) + Len(b) /\ Len(t) \in Nat
    BY <2>2, ConcatProperties, LenProperties DEF Text
  <2>4. Len(t \o b) # 0
    BY <2>2, <2>3
  <2>5. t \o b # <<>>
    <3>1. Len(<<>>) = 0
      OBVIOUS
    <3> QED
      BY <2>4, <3>1
  <2>6. Survives(t, c) = t \o b
    BY <1>1 DEF Survives, EndsInEscape, b
  <2> QED
    BY <1>1, <2>5, <2>6 DEF EndsInEscape
<1>2. CASE ~EndsInEscape(t)
  BY <1>2 DEF Survives, EndsInEscape
<1> QED
  BY <1>1, <1>2

(* fromJson takes back what toJson writes (MessageSurvives). *)
LEMMA MessageKept ==
  ASSUME NEW m \in [msgId : Text, senderId : Text, senderName : Text, text : Text,
                    timestampUtc : Char]
  PROVE  FromJson(ToJson(m)) =
           IF m.msgId = <<>> \/ m.senderId = <<>> THEN None ELSE Surviving(m)
<1>1. /\ m.msgId \in Text /\ m.senderId \in Text /\ m.senderName \in Text /\ m.text \in Text
      /\ m.timestampUtc \in Char
  OBVIOUS
<1>. DEFINE m1 == Member("msgId", m.msgId)
            m2 == Member("senderId", m.senderId)
            m3 == Member("senderName", m.senderName)
            m4 == Number("timestampUtc", m.timestampUtc)
            m5 == Member("text", m.text)
            members == <<m1, m2, m3, m4, m5>>
            keys == <<"msgId", "senderId", "senderName", "timestampUtc", "text">>
            json == Object(members)
<1>2. /\ Owns(m1, "msgId") /\ Owns(m2, "senderId") /\ Owns(m3, "senderName")
      /\ Owns(m4, "timestampUtc") /\ Owns(m5, "text")
  <2>1. Owns(m1, "msgId")
    BY <1>1, Keys, MemberOwns
  <2>2. Owns(m2, "senderId")
    BY <1>1, Keys, MemberOwns
  <2>3. Owns(m3, "senderName")
    BY <1>1, Keys, MemberOwns
  <2>4. Owns(m4, "timestampUtc")
    BY <1>1, Keys, NumberOwns
  <2>5. Owns(m5, "text")
    BY <1>1, Keys, MemberOwns
  <2> QED
    BY <2>1, <2>2, <2>3, <2>4, <2>5
<1>3. m1 \in Text /\ m2 \in Text /\ m3 \in Text /\ m4 \in Text /\ m5 \in Text
  BY <1>2 DEF Owns
<1>4. ToJson(m) = json
  BY DEF ToJson
<1>5. /\ members[1] = Member("msgId", m.msgId) /\ members[2] = Member("senderId", m.senderId)
      /\ members[3] = Member("senderName", m.senderName)
      /\ members[4] = Number("timestampUtc", m.timestampUtc)
      /\ members[5] = Member("text", m.text)
  OBVIOUS
<1>. HIDE DEF m1, m2, m3, m4, m5
<1>6. /\ members \in Seq(Text) /\ Len(members) = 5 /\ members # <<>>
      /\ members[1] = m1 /\ members[2] = m2 /\ members[3] = m3 /\ members[4] = m4
      /\ members[5] = m5
  BY <1>3
<1>7. /\ keys[1] = "msgId" /\ keys[2] = "senderId" /\ keys[3] = "senderName"
      /\ keys[4] = "timestampUtc" /\ keys[5] = "text"
  OBVIOUS
<1>. HIDE DEF members, keys
<1>8. /\ \A n \in 1 .. 5 : n \in {1, 2, 3, 4, 5}
      /\ 1 \in 1 .. 5 /\ 2 \in 1 .. 5 /\ 3 \in 1 .. 5 /\ 4 \in 1 .. 5 /\ 5 \in 1 .. 5
  BY SMT
<1>9. \A n \in 1 .. Len(members) : PlainKey(keys[n]) /\ Owns(members[n], keys[n])
  <2>1. \A n \in {1, 2, 3, 4, 5} : PlainKey(keys[n]) /\ Owns(members[n], keys[n])
    BY <1>2, <1>6, <1>7, Keys
  <2> QED
    BY <1>6, <1>8, <2>1
<1>10. \A k, n \in 1 .. Len(members) : k # n => keys[k] # keys[n]
  <2>1. \A k, n \in {1, 2, 3, 4, 5} : k # n => keys[k] # keys[n]
    BY <1>7
  <2> QED
    BY <1>6, <1>8, <2>1
<1>11. \A n \in 1 .. Len(members) : HasItself(members, n, keys[n])
  BY <1>9, <1>10, AllHave
<1>12. PICK from : MembersStand(json, members, from)
  BY <1>6, ObjectStands
<1>. HIDE DEF json
<1>13. /\ HasItself(members, 1, "msgId") /\ HasItself(members, 2, "senderId")
       /\ HasItself(members, 3, "senderName") /\ HasItself(members, 4, "timestampUtc")
       /\ HasItself(members, 5, "text")
  BY <1>6, <1>7, <1>8, <1>11
<1>14. Len(members) \in Nat
  BY <1>6
<1>25. /\ Follows(members, 1) = "," /\ Follows(members, 2) = "," /\ Follows(members, 3) = ","
       /\ Follows(members, 5) = "}"
  BY <1>6 DEF Follows
<1>15. ExtractJsonString(json, "msgId") = Survives(m.msgId, ",")
  <2>1. members[1] = Member("msgId", m.msgId)
    BY <1>5
  <2>2. HasItself(members, 1, "msgId")
    BY <1>13
  <2>3. m.msgId \in Text
    BY <1>1
  <2>4. ExtractJsonString(json, "msgId") = Survives(m.msgId, Follows(members, 1))
    BY <1>12, <1>14, <2>1, <2>2, <2>3, FieldRead
  <2> QED
    BY <1>25, <2>4
<1>16. ExtractJsonString(json, "senderId") = Survives(m.senderId, ",")
  <2>1. members[2] = Member("senderId", m.senderId)
    BY <1>5
  <2>2. HasItself(members, 2, "senderId")
    BY <1>13
  <2>3. m.senderId \in Text
    BY <1>1
  <2>4. ExtractJsonString(json, "senderId") = Survives(m.senderId, Follows(members, 2))
    BY <1>12, <1>14, <2>1, <2>2, <2>3, FieldRead
  <2> QED
    BY <1>25, <2>4
<1>17. ExtractJsonString(json, "senderName") = Survives(m.senderName, ",")
  <2>1. members[3] = Member("senderName", m.senderName)
    BY <1>5
  <2>2. HasItself(members, 3, "senderName")
    BY <1>13
  <2>3. m.senderName \in Text
    BY <1>1
  <2>4. ExtractJsonString(json, "senderName") = Survives(m.senderName, Follows(members, 3))
    BY <1>12, <1>14, <2>1, <2>2, <2>3, FieldRead
  <2> QED
    BY <1>25, <2>4
<1>18. ExtractJsonString(json, "text") = Survives(m.text, "}")
  <2>1. members[5] = Member("text", m.text)
    BY <1>5
  <2>2. HasItself(members, 5, "text")
    BY <1>13
  <2>3. m.text \in Text
    BY <1>1
  <2>4. ExtractJsonString(json, "text") = Survives(m.text, Follows(members, 5))
    BY <1>12, <1>14, <2>1, <2>2, <2>3, FieldRead
  <2> QED
    BY <1>25, <2>4
<1>19. ExtractJsonInt(json, "timestampUtc") = m.timestampUtc
  BY <1>1, <1>5, <1>12, <1>13, <1>14, NumberRead
<1>20. /\ Survives(m.msgId, ",") = <<>> <=> m.msgId = <<>>
       /\ Survives(m.senderId, ",") = <<>> <=> m.senderId = <<>>
  <2>1. "," \in Char
    BY Marks
  <2> QED
    BY <1>1, <2>1, SurvivesEmpty
<1>. DEFINE read == [msgId        |-> ExtractJsonString(json, "msgId"),
                     senderId     |-> ExtractJsonString(json, "senderId"),
                     senderName   |-> ExtractJsonString(json, "senderName"),
                     text         |-> ExtractJsonString(json, "text"),
                     timestampUtc |-> ExtractJsonInt(json, "timestampUtc")]
<1>21. FromJson(json) = IF read.msgId = <<>> \/ read.senderId = <<>> THEN None ELSE read
  BY Zenon DEF FromJson
<1>22. /\ read.msgId = ExtractJsonString(json, "msgId")
       /\ read.senderId = ExtractJsonString(json, "senderId")
  OBVIOUS
<1>23. read = Surviving(m)
  BY <1>15, <1>16, <1>17, <1>18, <1>19, Zenon DEF Surviving
<1>. HIDE DEF read
<1>24. (read.msgId = <<>> \/ read.senderId = <<>>) <=> (m.msgId = <<>> \/ m.senderId = <<>>)
  BY <1>15, <1>16, <1>20, <1>22
<1> QED
  BY <1>4, <1>21, <1>23, <1>24, Zenon

(* The receiver of a HELLO reads the name that sendHello writes (HelloSurvives). *)
LEMMA NameKept ==
  ASSUME NEW name \in Text
  PROVE  ExtractStr(HelloJson(<<"x">>, name), "display_name") = HelloSurviving(name)
<1>1. "x" \in Char /\ "linux" \in Char /\ "5050" \in Char
  BY DEF Char
<1>. DEFINE x == <<"x">>
            linux == <<"linux">>
<1>2. x \in Text /\ linux \in Text
  <2>. HIDE DEF Char
  <2> QED
    BY <1>1 DEF Text
<1>. DEFINE m1 == JsonStr("device_id", x)
            m2 == JsonStr("display_name", name)
            m3 == JsonStr("platform", linux)
            m4 == Number("tcp_port", "5050")
            members == <<m1, m2, m3, m4>>
            keys == <<"device_id", "display_name", "platform", "tcp_port">>
            json == Object(members)
<1>3. /\ Owns(m1, "device_id") /\ Owns(m2, "display_name") /\ Owns(m3, "platform")
      /\ Owns(m4, "tcp_port")
  <2>. HIDE DEF x, linux
  <2>1. Owns(m1, "device_id")
    BY <1>2, Keys, HelloMemberOwns
  <2>2. Owns(m2, "display_name")
    BY Keys, HelloMemberOwns
  <2>3. Owns(m3, "platform")
    BY <1>2, Keys, HelloMemberOwns
  <2>4. Owns(m4, "tcp_port")
    BY <1>1, Keys, NumberOwns
  <2> QED
    BY <2>1, <2>2, <2>3, <2>4
<1>4. HelloJson(x, name) = json
  BY DEF HelloJson
<1>. HIDE DEF x, linux
<1>5. m1 \in Text /\ m2 \in Text /\ m3 \in Text /\ m4 \in Text
  BY <1>3 DEF Owns
<1>6. members[2] = JsonStr("display_name", name)
  OBVIOUS
<1>. HIDE DEF m1, m2, m3, m4
<1>7. /\ members \in Seq(Text) /\ Len(members) = 4 /\ members # <<>>
      /\ members[1] = m1 /\ members[2] = m2 /\ members[3] = m3 /\ members[4] = m4
  BY <1>5
<1>8. /\ keys[1] = "device_id" /\ keys[2] = "display_name" /\ keys[3] = "platform"
      /\ keys[4] = "tcp_port"
  OBVIOUS
<1>. HIDE DEF members, keys
<1>9. (\A n \in 1 .. 4 : n \in {1, 2, 3, 4}) /\ 2 \in 1 .. 4
  BY SMT
<1>10. \A n \in 1 .. Len(members) : PlainKey(keys[n]) /\ Owns(members[n], keys[n])
  <2>1. \A n \in {1, 2, 3, 4} : PlainKey(keys[n]) /\ Owns(members[n], keys[n])
    BY <1>3, <1>7, <1>8, Keys
  <2> QED
    BY <1>7, <1>9, <2>1
<1>11. \A k, n \in 1 .. Len(members) : k # n => keys[k] # keys[n]
  <2>1. \A k, n \in {1, 2, 3, 4} : k # n => keys[k] # keys[n]
    BY <1>8
  <2> QED
    BY <1>7, <1>9, <2>1
<1>12. HasItself(members, 2, "display_name")
  <2>1. \A n \in 1 .. Len(members) : HasItself(members, n, keys[n])
    BY <1>10, <1>11, AllHave
  <2> QED
    BY <1>7, <1>8, <1>9, <2>1
<1>13. PICK from : MembersStand(json, members, from)
  BY <1>7, ObjectStands
<1>. HIDE DEF json
<1>14. Len(members) \in Nat
  BY <1>7
<1>15. ExtractStr(json, "display_name") = HelloSurviving(name)
  BY <1>6, <1>12, <1>13, <1>14, HelloFieldRead
<1> QED
  BY <1>4, <1>15 DEF x

-----------------------------------------------------------------------------
(* 6. The theorems.                                                        *)

(* What the state is at any time: an input of its kind, and nothing yet or    *)
(* what the conversion makes of it.                                           *)
Made(k, inputs, result) ==
  kind = k => input \in inputs /\ (output = None \/ output = <<result>>)

IInv ==
  /\ kind \in {"message", "hello", "args", "port", "recvs", "header"}
  /\ Made("message", Messages, ThroughJson(input))
  /\ Made("hello", Names, ThroughHello(input))
  /\ Made("args", ArgVectors, Parse(input))
  /\ Made("port", PortFlags \X PortSettings, PortOf(input))
  /\ Made("recvs", Recvs, IsCut(input))
  /\ Made("header", Headers, ThroughHeader(input))

(* A step converts the input and leaves it where it is. *)
LEMMA ConversionStep ==
  IInv /\ [Next]_vars => IInv'
<1>. SUFFICES ASSUME IInv, [Next]_vars
              PROVE  IInv'
  OBVIOUS
<1>1. /\ "message" # "hello" /\ "message" # "args" /\ "message" # "port" /\ "message" # "recvs"
      /\ "message" # "header" /\ "hello" # "args" /\ "hello" # "port" /\ "hello" # "recvs"
      /\ "hello" # "header" /\ "args" # "port" /\ "args" # "recvs" /\ "args" # "header"
      /\ "port" # "recvs" /\ "port" # "header" /\ "recvs" # "header"
  OBVIOUS
<1>2. CASE UNCHANGED vars
  BY <1>2, Zenon DEF vars, IInv, Made
<1>3. CASE Convert("message", ThroughJson)
  BY <1>1, <1>3, Zenon DEF Convert, IInv, Made
<1>4. CASE Convert("hello", ThroughHello)
  BY <1>1, <1>4, Zenon DEF Convert, IInv, Made
<1>5. CASE Convert("args", Parse)
  BY <1>1, <1>5, Zenon DEF Convert, IInv, Made
<1>6. CASE Convert("port", PortOf)
  BY <1>1, <1>6, Zenon DEF Convert, IInv, Made
<1>7. CASE Convert("recvs", IsCut)
  BY <1>1, <1>7, Zenon DEF Convert, IInv, Made
<1>8. CASE Convert("header", ThroughHeader)
  BY <1>1, <1>8, Zenon DEF Convert, IInv, Made
<1> QED
  BY <1>2, <1>3, <1>4, <1>5, <1>6, <1>7, <1>8 DEF Next

(* The output is what the code makes of the input, for every kind of input.   *)
THEOREM OutputIsTheConversion == Spec => []IInv
<1>1. Init => IInv
  <2>1. /\ "message" # "hello" /\ "message" # "args" /\ "message" # "port" /\ "message" # "recvs"
        /\ "message" # "header" /\ "hello" # "args" /\ "hello" # "port" /\ "hello" # "recvs"
        /\ "hello" # "header" /\ "args" # "port" /\ "args" # "recvs" /\ "args" # "header"
        /\ "port" # "recvs" /\ "port" # "header" /\ "recvs" # "header"
    OBVIOUS
  <2> QED
    BY <2>1, Zenon DEF Init, IInv, Made
<1> QED
  BY <1>1, ConversionStep, PTL DEF Spec

(* A text of the program is one of the characters of this module.             *)
LEMMA StringsAreTexts ==
  ASSUME NEW t \in Seq(STRING)
  PROVE  t \in Text
<1>1. Len(t) \in Nat /\ t \in [1 .. Len(t) -> STRING]
  BY LenProperties
<1>2. STRING \subseteq Char
  BY DEF Char
<1>. HIDE DEF Char
<1>3. t \in [1 .. Len(t) -> Char]
  BY <1>1, <1>2
<1> QED
  BY <1>1, <1>3 DEF Text

(* A chat message comes out of fromJson() as it went into toJson().           *)
LEMMA MessagesSurvive == IInv => MessageSurvives
<1>. SUFFICES ASSUME IInv, Done("message")
              PROVE  output[1] = IF input.msgId = <<>> \/ input.senderId = <<>>
                                   THEN None ELSE Surviving(input)
  BY DEF MessageSurvives
<1>1. input \in Messages /\ output = <<ThroughJson(input)>>
  BY DEF IInv, Made, Done
<1>2. input \in [msgId : Text, senderId : Text, senderName : Text, text : Text,
                 timestampUtc : Char]
  <2>1. input \in [msgId : Seq(STRING), senderId : Seq(STRING), senderName : Seq(STRING),
                   text : Seq(STRING), timestampUtc : STRING]
    BY <1>1, ConversionsAssumption DEF ConversionAssumption
  <2>2. /\ input.msgId \in Text /\ input.senderId \in Text /\ input.senderName \in Text
        /\ input.text \in Text
    BY <2>1, StringsAreTexts
  <2>3. input.timestampUtc \in Char
    <3>1. input.timestampUtc \in STRING
      BY <2>1
    <3> QED
      BY <3>1, Zenon DEF Char
  <2>4. input = [msgId |-> input.msgId, senderId |-> input.senderId,
                 senderName |-> input.senderName, text |-> input.text,
                 timestampUtc |-> input.timestampUtc]
    BY <2>1
  <2> QED
    BY <2>2, <2>3, <2>4
<1>3. output[1] = FromJson(ToJson(input))
  BY <1>1 DEF ThroughJson
<1> QED
  BY <1>2, <1>3, MessageKept

(* A display name comes out of a HELLO as it went in.                         *)
LEMMA NamesSurvive == IInv => HelloSurvives
<1>. SUFFICES ASSUME IInv, Done("hello")
              PROVE  output[1] = HelloSurviving(input)
  BY DEF HelloSurvives
<1>1. input \in Names /\ output = <<ThroughHello(input)>>
  BY DEF IInv, Made, Done
<1>2. input \in Text
  BY <1>1, StringsAreTexts, ConversionsAssumption DEF ConversionAssumption
<1>3. output[1] = ExtractStr(HelloJson(<<"x">>, input), "display_name")
  BY <1>1 DEF ThroughHello
<1> QED
  BY <1>2, <1>3, NameKept

(* A header comes out of deserialize() as it went into serialize(), without   *)
(* what was in `reserved`.                                                    *)
LEMMA HeadersSurvive == IInv => HeaderSurvives
<1>. SUFFICES ASSUME IInv, Done("header")
              PROVE  output[1] =
                       IF /\ input.magic = kProtocolMagic
                          /\ input.version = kProtocolVersion
                         THEN [input EXCEPT !.reserved = 0] ELSE <<>>
  BY DEF HeaderSurvives
<1>1. input \in Headers /\ output = <<ThroughHeader(input)>>
  BY DEF IInv, Made, Done
<1>2. input \in FrameHeaders
  BY <1>1, ConversionsAssumption DEF ConversionAssumption
<1>3. output[1] = Deserialize(Serialize(input))
  BY <1>1 DEF ThroughHeader
<1> QED
  BY <1>2, <1>3, HeaderRoundTrip DEF Acceptable

(* Every chat message, every display name and every header comes out as it    *)
(* went in, with exactly the exceptions that the property names (toJson and   *)
(* fromJson, jsonStr and extractStr, serialize and deserialize).              *)
THEOREM WireKeeps == Spec => []SurvivesTheWire
<1>1. IInv => SurvivesTheWire
  BY MessagesSurvive, NamesSurvive, HeadersSurvive DEF SurvivesTheWire
<1> QED
  BY <1>1, OutputIsTheConversion, PTL

(* Every command line is read by its positions, and the port is the one that  *)
(* it names or sixteen bits of the configured one (CommandParser::parse,      *)
(* getFlagAsPort, runListen).                                                 *)
THEOREM CommandLineKept == Spec => []CommandLineIsKept
<1>1. ASSUME IInv
      PROVE  ParsesByPosition
  <2>. SUFFICES ASSUME Done("args"), input # <<>>, output[1].command = input[1]
                PROVE  /\ IsPositional(output[1].positional, input)
                       /\ output[1].flags = FlagsOf(input)
    BY DEF ParsesByPosition
  <2>1. input \in ArgVectors /\ output = <<Parse(input)>>
    BY <1>1 DEF IInv, Made, Done
  <2>2. input \in Seq(STRING)
    BY <2>1, ConversionsAssumption DEF ConversionAssumption
  <2>3. output[1] = Parse(input)
    BY <2>1
  <2>4. Parse(input).command = input[1]
    BY <2>3
  <2>5. /\ IsPositional(Parse(input).positional, input)
        /\ Parse(input).flags = FlagsOf(input)
    BY <2>2, <2>4, ParseByPosition, Zenon
  <2> QED
    BY <2>3, <2>5
<1>2. ASSUME IInv
      PROVE  PortIsExactOrIgnored
  <2>. SUFFICES ASSUME Done("port")
                PROVE  IF input[1] \in Ports
                         THEN output[1] = input[1]
                         ELSE output[1] \in Ports \cup {0} /\ (input[2] - output[1]) % 65536 = 0
    BY DEF PortIsExactOrIgnored
  <2>1. input \in PortFlags \X PortSettings /\ output = <<PortOf(input)>>
    BY <1>2 DEF IInv, Made, Done
  <2>2. /\ input[1] \in Int \cup {NotANumber} /\ input[2] \in Int
        /\ NotANumber \notin Int /\ NoPort \notin Int
    BY <2>1, ConversionsAssumption DEF ConversionAssumption
  <2>3. output[1] = ListenPort(input[1], input[2])
    BY <2>1 DEF PortOf
  <2> QED
    BY <2>2, <2>3, PortExact
<1>3. IInv => CommandLineIsKept
  BY <1>1, <1>2 DEF CommandLineIsKept
<1> QED
  BY <1>3, OutputIsTheConversion, PTL

(* The rate limit of recvLoop holds within a factor of two, for every limit   *)
(* and every sequence of recv().                                              *)
THEOREM RateLimitHolds == Spec => []RateLimitWithinTwo
<1>1. ASSUME IInv, Done("recvs")
      PROVE  output[1] = IsCut(input) /\ input \in Seq(Recv) /\ DOMAIN input = 1 .. Len(input)
  <2>1. input \in Recvs /\ output = <<IsCut(input)>>
    BY <1>1 DEF IInv, Made, Done
  <2>2. input \in Seq(Recv)
    BY <2>1, ConversionsAssumption DEF ConversionAssumption, Recv
  <2> QED
    BY <2>1, <2>2, LenProperties
<1>2. ASSUME IInv
      PROVE  HalfRateIsSafe
  <2>. SUFFICES ASSUME Done("recvs"),
                       \A i, j \in DOMAIN input :
                         WithinSecond(input, i, j) => 2 * FramesIn(input, i, j) <= Limit
                PROVE  output[1] = FALSE
    BY DEF HalfRateIsSafe
  <2>1. output[1] = IsCut(input) /\ input \in Seq(Recv) /\ DOMAIN input = 1 .. Len(input)
    BY <1>1, <1>2
  <2>2. ~IsCut(input)
    BY <2>1, HalfRate, Zenon
  <2>3. IsCut(input) \in BOOLEAN
    BY <2>1, CutIsBoolean
  <2> QED
    BY <2>1, <2>2, <2>3
<1>3. ASSUME IInv
      PROVE  FloodIsCut
  <2>. SUFFICES ASSUME Done("recvs"),
                       NEW i \in DOMAIN input, NEW j \in DOMAIN input, NEW u \in DOMAIN input,
                       WithinSecond(input, i, j), FramesIn(input, i, j) > 2 * Limit,
                       Clock(input)[u] >= Clock(input)[i] + 2 * Second - 1
                PROVE  output[1] = TRUE
    BY DEF FloodIsCut
  <2>1. output[1] = IsCut(input) /\ input \in Seq(Recv) /\ DOMAIN input = 1 .. Len(input)
    BY <1>1, <1>3
  <2>2. IsCut(input)
    BY <2>1, Flood, Zenon
  <2>3. IsCut(input) \in BOOLEAN
    BY <2>1, CutIsBoolean
  <2> QED
    BY <2>1, <2>2, <2>3
<1>4. IInv => RateLimitWithinTwo
  BY <1>2, <1>3 DEF RateLimitWithinTwo
<1> QED
  BY <1>4, OutputIsTheConversion, PTL

=============================================================================
