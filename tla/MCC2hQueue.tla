----------------------------- MODULE MCC2hQueue -----------------------------
(* C2hQueue for TLC: a ring of three slots, which four events wrap around.   *)
EXTENDS C2hQueue

AllKinds == {"ccx", "normal", "nomem"}
=============================================================================
