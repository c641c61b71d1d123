------------------------------- MODULE MCXmit -------------------------------
(* Xmit for TLC: two subqueues, so that two senders and the tasklet can    *)
(* hold all buffers at once, and a pool that two packets bring to its low  *)
(* mark.                                                                   *)
EXTENDS Xmit
=============================================================================
