------------------------------ MODULE MCApSta ------------------------------
(* Two stations and two ids: the last id is reached by one rejected         *)
(* association.                                                             *)
EXTENDS ApSta

CONSTANT MaxExcess

(* Bound: nothing is claimed of what follows a race for a station, nor of   *)
(* num_sta_non_erp, which no other step reads, after a race for it.         *)
NotRaced == ~raced /\ ~miscounted
(* Bound: how far num_sta_non_erp drifts above the stations counted; the    *)
(* excess only makes the count larger.                                      *)
Drift == num_non_erp <= Cardinality(non_erp) + MaxExcess
====
