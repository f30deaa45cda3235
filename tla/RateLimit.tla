------------------------------ MODULE RateLimit ------------------------------
(***************************************************************************)
(* The rate limit of Connection::recvLoop (src/network/connection.cpp), as *)
(* a function of what recv() returns: a sequence of records with the time  *)
(* since the one before and the number of frames that it completes.        *)
(***************************************************************************)
EXTENDS Integers, Sequences

CONSTANTS
  Limit,   \* frames: 100 in the code
  Second   \* the units of time in a second

ASSUME RateAssumption ==
  /\ Limit \in Nat
  /\ Second \in Nat \ {0}

\* frameCount++ for every frame.
Counted(r) == r.frames

\* Mutant of NewWindow: frameCount is not reset.
KeepCount(w) == [w EXCEPT !.since = 0]

\* frameCount = 0; lastCheck = now
NewWindow(w) == [w EXCEPT !.since = 0, !.frames = 0]

\* One recv(): its frames are counted and, a second or more after the last
\* look at the count, the count is looked at.
Receive(w, r) ==
  LET now == [w EXCEPT !.since = @ + r.gap, !.frames = @ + Counted(r)]
  IN  IF w.cut THEN w
      ELSE CASE now.since < Second -> now
             [] now.since >= Second /\ now.frames > Limit -> [now EXCEPT !.cut = TRUE]
             [] OTHER -> NewWindow(now)

\* What recvLoop knows after the n-th recv().
Window(recvs) ==
  LET After[n \in 0 .. Len(recvs)] ==
        IF n = 0 THEN [since |-> 0, frames |-> 0, cut |-> FALSE]
                 ELSE Receive(After[n - 1], recvs[n])
  IN  After

\* Whether the connection is cut off.
IsCut(recvs) == Window(recvs)[Len(recvs)].cut

-----------------------------------------------------------------------------
(* What a clock on the wall sees.                                          *)

Sums(numbers) ==
  LET Upto[n \in 0 .. Len(numbers)] == IF n = 0 THEN 0 ELSE Upto[n - 1] + numbers[n]
  IN  Upto

\* The time of the n-th recv(), and the frames that have come in by then.
Clock(recvs) == Sums([n \in 1 .. Len(recvs) |-> recvs[n].gap])
Total(recvs) == Sums([n \in 1 .. Len(recvs) |-> recvs[n].frames])

\* No second passes from the i-th recv() to the j-th.
WithinSecond(recvs, i, j) == i <= j /\ Clock(recvs)[j] < Clock(recvs)[i] + Second

\* The frames of all of these.
FramesIn(recvs, i, j) == Total(recvs)[j] - Total(recvs)[i - 1]

=============================================================================
