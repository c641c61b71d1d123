------------------------------ MODULE MCApSleep ------------------------------
(* ApSleep for TLC: a U-APSD station and one with mixed categories, which   *)
(* may fall asleep without an AID and contend for one.  The bound on frames *)
(* lets one be held for each, or two for one of them.                       *)
EXTENDS ApSleep

(* Nothing is claimed after a torn store, so a behaviour ends there.        *)
NotTorn == ~torn

(* Bound: of what a wake-up, a sender, a PS-Poll or a free does after it    *)
(* released the lock, one is under way at a time, beside the command thread *)
(* and every step under the lock.                                           *)
OneUnlocked ==
  Cardinality({c \in Contexts : waking[c] # "no"}) + Cardinality({tx_force, polled} \ {NoSta}) + Cardinality(freeing) <= 1

(* Bound: the stations of Mixed do not lose their AID or leave.             *)
MixedStay == \A s \in Mixed : s \notin freeing /\ (s \in associated => sleep_aid[s] # 0)
=============================================================================
