---------------------------- MODULE MCAcpIodelays ----------------------------
(* Delays for TLC: back to 0, up to the last tap, and down or past the end. *)
EXTENDS AcpIodelays

MCSettings ==
  {[l \in Lines |-> 0],
   [l \in Lines |-> IF l[2] = 0 THEN Taps - 1 ELSE 1],
   [l \in Lines |-> IF l[2] = 0 THEN 1 ELSE Taps]}
=============================================================================
