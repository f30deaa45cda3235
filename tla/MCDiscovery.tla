---------------------------- MODULE MCDiscovery -----------------------------
(***************************************************************************)
(* Discovery with two foreign datagrams: one that bears the id of Peer and *)
(* lacks the end of the name it announces, and one from a further device   *)
(* that only lacks the platform.                                           *)
(***************************************************************************)
EXTENDS Discovery

CONSTANTS Peer, Other

MCPorts == [d \in Devices |-> IF d = Peer THEN {1, 2} ELSE {1}]

From(id, len) ==
  [id |-> id, port |-> 1, magic |-> TRUE, nameLen |-> NameLen, len |-> len]

MCForeign ==
  {From(Peer, FixedSize + NameLen - 1), From(Other, FixedSize + NameLen)}

=============================================================================
