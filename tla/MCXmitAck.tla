----------------------------- MODULE MCXmitAck -----------------------------
(* XmitAck for TLC: two senders and two buffers, so that a buffer is       *)
(* reused while its last sender has still to wake up.  The two mechanisms  *)
(* share only drv_stopped, so a behaviour exercises one of them: the       *)
(* product of the two would add states and no interaction.                 *)
EXTENDS XmitAck

VARIABLE kind   \* "sctx" or "ack"

MCInit == MgntInit /\ kind \in {"sctx", "ack"}

MCNext ==
  /\ MgntNext
  /\ UNCHANGED kind
  /\ kind = "sctx" => UNCHANGED frame /\ \A a \in Ackers : pc'[a] = "idle"
  /\ kind = "ack" => UNCHANGED buf_vars

MCSpec == MCInit /\ [][MCNext]_<<mgnt_vars, kind>>
=============================================================================
