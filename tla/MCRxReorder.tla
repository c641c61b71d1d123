---------------------------- MODULE MCRxReorder ----------------------------
(* Arrivals for RxReorder: numbers on both sides of the wrap, of the       *)
(* window end and of the half-range boundary of SN_LESS.                   *)
EXTENDS RxReorder

EdgeSeqs == {4095, 0, 1, 64, 2048}
=============================================================================
