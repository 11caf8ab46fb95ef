------------------------------ MODULE MCKnownHosts ------------------------------
(***************************************************************************)
(* Instances of KnownHosts for TLC: three lighthouses, two of which share  *)
(* an address.                                                             *)
(***************************************************************************)
EXTENDS KnownHosts

CONSTANTS lh1, lh2, lh3, a1, a2

SharedAddress == [l \in Lighthouses |-> IF l = lh3 THEN a2 ELSE a1]
=============================================================================
