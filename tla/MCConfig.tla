------------------------------ MODULE MCConfig ------------------------------
(***************************************************************************)
(* Config for TLC: the user sets a name between blanks, one with a second  *)
(* line that sets the device id, or nothing; the processes are             *)
(* interchangeable.                                                        *)
(***************************************************************************)
EXTENDS Config, TLC

CONSTANTS name, padded, twoLines

MCTexts == DeviceIds \cup {HostName, Empty, name, padded, twoLines}

MCInputs == {Empty, padded, twoLines}

MCFirstLine ==
  [t \in MCTexts |-> IF t \in {padded, twoLines} THEN name ELSE t]

MCMoreLines ==
  [t \in MCTexts |->
     IF t = twoLines THEN [k \in {"device_id"} |-> Empty] ELSE Nothing]

Symmetry == Permutations(Procs)

=============================================================================
