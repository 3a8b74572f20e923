------------------------------- MODULE Least --------------------------------
(* The first match of the kernel's table scans. *)
EXTENDS Naturals

Lowest(S) == CHOOSE x \in S : \A y \in S : x <= y
=============================================================================
