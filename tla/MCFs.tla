-------------------------------- MODULE MCFs --------------------------------
(* Instances of Fs for TLC. *)
EXTENDS StoreMapping, TLC

CONSTANTS x, y

MCData == {x, y}
MCDataSmall == {x}
MCBuffers == {<<x>>, <<y, x, y>>}
MCBuffersSmall == {<<x, x>>}
MCReadSizesSmall == {1}
MCBuffersOne == {<<x>>}
Symmetry == Permutations(Names)
MCReadSizes == {1, 3}
=============================================================================
