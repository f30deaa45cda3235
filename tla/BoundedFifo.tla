----------------------------- MODULE BoundedFifo -----------------------------
(***************************************************************************)
(* What MessageQueue promises: a first-in first-out queue of at most       *)
(* MaxSize messages, whose whole content may be thrown away or taken at    *)
(* once.  `taken` is everything ever handed to a consumer, in order.       *)
(***************************************************************************)
EXTENDS Naturals, Sequences

CONSTANTS Messages, MaxSize

VARIABLES queue, taken

fifoVars == <<queue, taken>>

FifoInit == queue = <<>> /\ taken = <<>>

Put ==
  /\ Len(queue) < MaxSize
  /\ \E m \in Messages : queue' = Append(queue, m)
  /\ UNCHANGED taken

Get ==
  /\ queue # <<>>
  /\ taken' = Append(taken, Head(queue))
  /\ queue' = Tail(queue)

GetAll ==
  /\ taken' = taken \o queue
  /\ queue' = <<>>

Discard ==
  /\ queue' = <<>>
  /\ UNCHANGED taken

FifoNext == Put \/ Get \/ GetAll \/ Discard

FifoSpec == FifoInit /\ [][FifoNext]_fifoVars

=============================================================================
