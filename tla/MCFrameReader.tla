---------------------------- MODULE MCFrameReader ----------------------------
(***************************************************************************)
(* Small instances of FrameReader: every stream of up to MaxFrames frames, *)
(* with a header of HeaderSize bytes instead of 12.                        *)
(***************************************************************************)
EXTENDS FrameReader

CONSTANTS MaxFrames, MaxLen

\* Where the frames of a stream with payload lengths len end.
Ends(n, len) ==
  LET end[i \in 0 .. n] ==
        IF i = 0 THEN 0 ELSE end[i - 1] + HeaderSize + len[i]
  IN  end

MCWires ==
  UNION {{[n |-> n, good |-> good, len |-> len, end |-> Ends(n, len)] :
             good \in [1 .. n -> BOOLEAN], len \in [1 .. n -> 0 .. MaxLen]} :
           n \in 0 .. MaxFrames}

=============================================================================
