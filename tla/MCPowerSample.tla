--------------------------- MODULE MCPowerSample ---------------------------
(* PowerSample for TLC: two guests, which the specification does not tell  *)
(* apart.                                                                  *)
EXTENDS PowerSample, TLC

Interchangeable == Permutations(Guest)
=============================================================================
