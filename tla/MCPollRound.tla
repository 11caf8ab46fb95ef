------------------------------ MODULE MCPollRound ------------------------------
(***************************************************************************)
(* Instances of PollRound for TLC.                                         *)
(***************************************************************************)
EXTENDS PollRound, TLC

CONSTANTS lh1, lh2, noView

Symmetry == Permutations(Lighthouses)
=============================================================================
