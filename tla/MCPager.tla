------------------------------- MODULE MCPager -------------------------------
(***************************************************************************)
(* Instances of Pager for TLC.                                             *)
(***************************************************************************)
EXTENDS Pager, TLC

CONSTANT Modes     \* journal modes that all connections may share

SameModes == {[c \in Conns |-> m] : m \in Modes}

MixedModes == [Conns -> Modes]

Symmetry == Permutations(Conns)
=============================================================================
