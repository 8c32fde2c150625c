--------------------------- MODULE MCNativeAccess ---------------------------
(* A small instance of NativeAccess for TLC. *)
EXTENDS NativeAccess, TLC

CONSTANTS d1, d2, n1, n2, k1, k2, h1, h2

TwoDevices == {d1, d2}
TwoNodes == {n1, n2}
OneNode == {n1}
TwoKeys == {k1, k2}
TwoHandlers == {h1, h2}
OneHandler == {h1}
Addresses == {2, 3}
OneOrTwo == {1, 2}
One == {1}
Symmetry == Permutations(TwoHandlers) \union Permutations(TwoKeys) \union Permutations(TwoDevices) \union Permutations(TwoNodes)
=============================================================================
