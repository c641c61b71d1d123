----------------------------- MODULE MCRecvPath -----------------------------
(* RecvPath for TLC: two frames that a fragmented packet takes together,   *)
(* and a queue of two buffers, the least of which one can be left behind.  *)
EXTENDS RecvPath
=============================================================================
