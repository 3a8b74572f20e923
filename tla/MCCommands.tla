----------------------------- MODULE MCCommands -----------------------------
(* Instances of Commands for TLC. *)
EXTENDS Commands, TLC

CONSTANTS x, y

MCData == {x, y}
MCTexts == {<<x>>, <<y, x>>}
MCSymmetry == Permutations(Names)
=============================================================================
