------------------------------- MODULE MCMlme -------------------------------
(* Mlme for TLC: the configurations give the two bounds.  MaxRoam = 2 lets *)
(* a join timeout try again; with MaxCmds = 2 a disconnect and the join    *)
(* that follows it, or two overlapping surveys, are queued together.       *)
EXTENDS Mlme
=============================================================================
