----------------------------- MODULE MCAcpDriver -----------------------------
(* AcpDriver with its symmetry for TLC: the properties tell neither files   *)
(* nor blocks nor addresses apart.                                          *)
EXTENDS AcpDriver, MCAcpIodelays, TLC

Symmetry == Permutations(Files) \cup Permutations(Blocks) \cup Permutations(Addresses)
=============================================================================
