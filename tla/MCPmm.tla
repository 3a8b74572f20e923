------------------------------- MODULE MCPmm --------------------------------
(* Instances of Pmm for TLC. *)
EXTENDS Pmm, TLC

E(type, high, low, lhigh, llow) ==
    [type |-> type, addr_high |-> high, addr_low |-> low,
     length_high |-> lhigh, length_low |-> llow]

\* Regions that start and end inside frames, overlap, wrap, exceed 32 bits, are
\* empty, are not available, or lie beyond what is tracked.
MCEntries == {E(1, 0, 0, 0, 10), E(1, 0, 9, 0, 10), E(1, 0, 12, 0, 12),
              E(1, 0, 13, 0, 51), E(1, 0, 20, 0, 60), E(1, 0, 4, 1, 3),
              E(1, 0, 3, 0, 18), E(1, 0, 16, 0, 0), E(2, 0, 8, 0, 8),
              E(1, 1, 8, 0, 8), E(1, 0, 30, 0, 8)}

ClientSymmetry == Permutations(Clients)
=============================================================================
