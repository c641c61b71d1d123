------------------------------ MODULE XmitAck ------------------------------
(***************************************************************************)
(* Management frames whose sender waits for the result: the two ways of    *)
(* rtw_mlme_ext.c.                                                         *)
(*                                                                         *)
(*  - dump_mgntframe_and_wait hangs a submit_ctx of its own stack on the   *)
(*    buffer and waits for the URB to complete it;                         *)
(*  - dump_mgntframe_and_wait_ack asks the firmware for a transmit report  *)
(*    and waits on the one submit_ctx ack_tx_ops, under ack_tx_mutex.      *)
(*                                                                         *)
(* Both waits have a timeout that races the answer.  Contexts: the sending *)
(* threads (command thread, ioctls), URB completions in interrupt context, *)
(* the thread that handles the firmware's reports, and the one that stops  *)
(* the driver.  Buffers come from free_xmit_extbuf_queue.                  *)
(*                                                                         *)
(* Names that Xmit has too begin with Mgnt: TransmitProofs extends both.   *)
(***************************************************************************)
EXTENDS Integers, FiniteSets

CONSTANTS
  Senders,    \* threads that call dump_mgntframe_and_wait
  Ackers,     \* threads that call dump_mgntframe_and_wait_ack
  Bufs,       \* the buffers of free_xmit_extbuf_queue
  NONE,
  MaxFrames   \* bound: frames that ask for a report

ASSUME NoneAssumption == NONE \notin Senders \cup Ackers
ASSUME FramesAssumption == MaxFrames \in Nat /\ IsFiniteSet(Ackers)

VARIABLES
  free_ext,   \* buffers in free_xmit_extbuf_queue
  leaked,     \* buffers a refused send has left nowhere
  sctx,       \* buffer -> sender whose submit_ctx it points to, or NONE
  urb,        \* buffer -> "none", "submitted", or "done": completed, not yet freed
  owner,      \* history: buffer -> sender whose frame it carries, or NONE
  pc,         \* control point of each sending thread
  w_buf,      \* buffer of each sender
  done,       \* senders whose completion is signalled
  status,     \* submit_ctx.status of each sender
  written,    \* history: senders whose own URB has succeeded
  mutex,      \* holder of ack_tx_mutex, or NONE
  ack_tx, ack_done, ack_status,  \* xmit_priv.ack_tx, ack_tx_ops
  frame,      \* number of the last frame sent with ack_report
  due,        \* frames whose report is still to come
  rpt,        \* the report handler: NONE, or the status it is about to signal
  acked,      \* history: frames the peer acknowledged
  late,       \* history: a report outlived the wait of its frame
  stopped     \* bDriverStopped or bSurpriseRemoved

buf_vars == <<free_ext, leaked, sctx, urb, owner>>
wait_vars == <<w_buf, done, status, written>>
ack_vars == <<mutex, ack_tx, ack_done, ack_status, frame, due, rpt, acked, late>>
mgnt_vars == <<buf_vars, wait_vars, ack_vars, pc, stopped>>

Threads == Senders \cup Ackers

MgntInit ==
  /\ free_ext = Bufs /\ leaked = {}
  /\ sctx = [b \in Bufs |-> NONE] /\ urb = [b \in Bufs |-> "none"]
  /\ owner = [b \in Bufs |-> NONE]
  /\ pc = [t \in Threads |-> "idle"]
  /\ w_buf = [s \in Senders |-> NONE] /\ done = {}
  /\ status = [s \in Senders |-> "none"] /\ written = {}
  /\ mutex = NONE /\ ack_tx = FALSE /\ ack_done = 0 /\ ack_status = "submitted"
  /\ frame = 0 /\ due = {} /\ rpt = NONE /\ acked = {} /\ late = FALSE
  /\ stopped = FALSE

MgntGoto(t, l) == pc' = [pc EXCEPT ![t] = l]

-----------------------------------------------------------------------------
(***************************************************************************)
(* dump_mgntframe_and_wait by sender s.                                    *)
(***************************************************************************)

(* rtw_sctx_done_err on the submit_ctx of buffer b.                        *)
SctxDone(b, st) ==
  /\ done' = IF sctx[b] = NONE THEN done ELSE done \cup {sctx[b]}
  /\ status' = IF sctx[b] = NONE THEN status ELSE [status EXCEPT ![sctx[b]] = st]
  /\ sctx' = [sctx EXCEPT ![b] = NONE]

(* _alloc_mgtxmitframe, rtw_alloc_xmitbuf_ext: a submit_ctx the buffer     *)
(* still points to is completed.                                           *)
Alloc(s, b) ==
  /\ pc[s] = "idle" /\ b \in free_ext
  /\ free_ext' = free_ext \ {b}
  /\ w_buf' = [w_buf EXCEPT ![s] = b]
  /\ owner' = [owner EXCEPT ![b] = s]
  /\ written' = written \ {s}
  /\ SctxDone(b, "alloc")
  /\ MgntGoto(s, "check")
  /\ UNCHANGED <<leaked, urb, ack_vars, stopped>>

(* A stopped driver returns at once and keeps the frame and its buffer.    *)
Check(s) ==
  /\ pc[s] = "check"
  /\ IF stopped
       THEN /\ leaked' = leaked \cup {w_buf[s]}
            /\ MgntGoto(s, "idle")
            /\ UNCHANGED <<sctx, done, status>>
       ELSE /\ done' = done \ {s}
            /\ status' = [status EXCEPT ![s] = "submitted"]
            /\ sctx' = [sctx EXCEPT ![w_buf[s]] = s]
            /\ MgntGoto(s, "xmit")
            /\ UNCHANGED leaked
  /\ UNCHANGED <<free_ext, urb, owner, w_buf, written, ack_vars, stopped>>

(* rtw_hal_mgnt_xmit, usb_write_port.  A submission that fails completes   *)
(* the submit_ctx and frees the buffer; rtw_dump_xframe returns _SUCCESS   *)
(* all the same, so the sender goes on to wait.                            *)
MgntSubmit(b) == urb' = [urb EXCEPT ![b] = "submitted"]

Xmit(s) ==
  /\ pc[s] = "xmit"
  /\ \/ ~stopped /\ MgntSubmit(w_buf[s])
        /\ UNCHANGED <<free_ext, sctx, done, status>>
     \/ SctxDone(w_buf[s], "write_port_err")
        /\ free_ext' = free_ext \cup {w_buf[s]}
        /\ UNCHANGED urb
  /\ MgntGoto(s, "wait")
  /\ UNCHANGED <<leaked, owner, w_buf, written, ack_vars, stopped>>

(* rtw_sctx_wait, which ends by the completion or by the timeout.          *)
Wait(s, timeout) ==
  /\ pc[s] = "wait" /\ (timeout \/ s \in done)
  /\ status' = IF timeout THEN [status EXCEPT ![s] = "timeout"] ELSE status
  /\ MgntGoto(s, "clear")
  /\ UNCHANGED <<buf_vars, w_buf, done, written, ack_vars, stopped>>

ClearSkip(s) ==                    \* mutant: the pointer is left in the buffer
  /\ pc[s] = "clear"
  /\ MgntGoto(s, "idle")
  /\ UNCHANGED <<buf_vars, wait_vars, ack_vars, stopped>>

(* The pointer is cleared under lock_sctx, whoever uses the buffer now.    *)
Clear(s) ==
  /\ pc[s] = "clear"
  /\ sctx' = [sctx EXCEPT ![w_buf[s]] = NONE]
  /\ MgntGoto(s, "idle")
  /\ UNCHANGED <<free_ext, leaked, urb, owner, wait_vars, ack_vars, stopped>>

(* dump_mgntframe from any context: a frame nobody waits for.              *)
PlainXmit(b) ==
  /\ b \in free_ext
  /\ free_ext' = free_ext \ {b}
  /\ owner' = [owner EXCEPT ![b] = NONE]
  /\ SctxDone(b, "alloc")
  /\ IF stopped THEN leaked' = leaked \cup {b} /\ UNCHANGED urb
                    ELSE MgntSubmit(b) /\ UNCHANGED leaked
  /\ UNCHANGED <<w_buf, written, ack_vars, pc, stopped>>

(***************************************************************************)
(* usb_write_port_complete: the submit_ctx under lock_sctx, then the       *)
(* buffer.                                                                 *)
(***************************************************************************)
UrbDoneLoose(b, ok) ==             \* mutant: every sender that waits is told
  /\ urb[b] = "submitted"
  /\ urb' = [urb EXCEPT ![b] = "done"]
  /\ done' = done \cup {s \in Senders : pc[s] = "wait"}
  /\ status' = [s \in Senders |-> IF pc[s] = "wait" /\ ok THEN "success" ELSE status[s]]
  /\ sctx' = [sctx EXCEPT ![b] = NONE]
  /\ written' = IF ok /\ owner[b] # NONE THEN written \cup {owner[b]} ELSE written
  /\ UNCHANGED <<free_ext, leaked, owner, w_buf, ack_vars, pc, stopped>>

UrbDoneFree(b, ok) ==              \* mutant: both the completion and the sender free the buffer
  /\ urb[b] = "submitted"
  /\ urb' = [urb EXCEPT ![b] = "done"]
  /\ SctxDone(b, IF ok THEN "success" ELSE "write_port_err")
  /\ free_ext' = free_ext \cup {b}
  /\ written' = IF ok /\ owner[b] # NONE THEN written \cup {owner[b]} ELSE written
  /\ UNCHANGED <<leaked, owner, w_buf, ack_vars, pc, stopped>>

UrbDone(b, ok) ==
  /\ urb[b] = "submitted"
  /\ urb' = [urb EXCEPT ![b] = "done"]
  /\ SctxDone(b, IF ok THEN "success" ELSE "write_port_err")
  /\ written' = IF ok /\ owner[b] # NONE THEN written \cup {owner[b]} ELSE written
  /\ UNCHANGED <<free_ext, leaked, owner, w_buf, ack_vars, pc, stopped>>

(* rtw_free_xmitbuf, rtw_free_xmitbuf_ext.                                 *)
UrbFree(b) ==
  /\ urb[b] = "done"
  /\ urb' = [urb EXCEPT ![b] = "none"]
  /\ SctxDone(b, "free")
  /\ free_ext' = free_ext \cup {b}
  /\ UNCHANGED <<leaked, owner, w_buf, written, ack_vars, pc, stopped>>

-----------------------------------------------------------------------------
(***************************************************************************)
(* dump_mgntframe_and_wait_ack by thread a.  (Its buffers are as in        *)
(* PlainXmit.)                                                             *)
(***************************************************************************)
AckCheck(a) ==
  /\ pc[a] = "idle" /\ ~stopped
  /\ frame + Cardinality({t \in Ackers : pc[t] \in {"lock", "send"}}) < MaxFrames
  /\ MgntGoto(a, "lock")
  /\ UNCHANGED <<buf_vars, wait_vars, ack_vars, stopped>>

AckLock(a) ==
  /\ pc[a] = "lock" /\ mutex = NONE
  /\ mutex' = a
  /\ ack_tx' = TRUE
  /\ MgntGoto(a, "send")
  /\ UNCHANGED <<buf_vars, wait_vars, ack_done, ack_status, frame, due, rpt, acked, late, stopped>>

(* rtw_hal_mgnt_xmit with ack_report set; the frame, or the submission,    *)
(* may be lost, and then no report comes.                                  *)
AckSend(a) ==
  /\ pc[a] = "send"
  /\ frame' = frame + 1
  /\ due' \in {due, IF stopped THEN due ELSE due \cup {frame + 1}}
  /\ MgntGoto(a, "reset")
  /\ UNCHANGED <<buf_vars, wait_vars, mutex, ack_tx, ack_done, ack_status, rpt, acked, late, stopped>>

(* rtw_ack_tx_wait resets the status but not the completion, and only      *)
(* after the frame is on its way.                                          *)
AckReset(a) ==
  /\ pc[a] = "reset"
  /\ ack_status' = "submitted"
  /\ MgntGoto(a, "wait_ack")
  /\ UNCHANGED <<buf_vars, wait_vars, mutex, ack_tx, ack_done, frame, due, rpt, acked, late, stopped>>

AckWait(a, timeout) ==
  /\ pc[a] = "wait_ack"
  /\ \/ timeout /\ MgntGoto(a, "failed") /\ UNCHANGED ack_done
     \/ /\ ~timeout /\ ack_done > 0
        /\ ack_done' = ack_done - 1
        /\ MgntGoto(a, IF ack_status = "success" THEN "success" ELSE "failed")
  /\ late' = (late \/ due # {} \/ rpt # NONE)
  /\ UNCHANGED <<buf_vars, wait_vars, mutex, ack_tx, ack_status, frame, due, rpt, acked, stopped>>

AckEnd(a) ==
  /\ pc[a] \in {"success", "failed"}
  /\ ack_tx' = FALSE
  /\ mutex' = NONE
  /\ MgntGoto(a, "idle")
  /\ UNCHANGED <<buf_vars, wait_vars, ack_done, ack_status, frame, due, rpt, acked, late, stopped>>

(***************************************************************************)
(* handle_txrpt_ccx_8723a and rtw_ack_tx_done.  A report does not say      *)
(* which frame it is about.                                                *)
(***************************************************************************)
ReportBlind(f, ok) ==              \* mutant: pkt_ok is not looked at
  /\ f \in due /\ rpt = NONE
  /\ due' = due \ {f}
  /\ acked' = IF ok THEN acked \cup {f} ELSE acked
  /\ rpt' = IF ack_tx THEN "success" ELSE NONE
  /\ ack_status' = IF ack_tx THEN "success" ELSE ack_status
  /\ UNCHANGED <<buf_vars, wait_vars, mutex, ack_tx, ack_done, frame, late, pc, stopped>>

Report(f, ok) ==
  /\ f \in due /\ rpt = NONE
  /\ due' = due \ {f}
  /\ acked' = IF ok THEN acked \cup {f} ELSE acked
  /\ rpt' = IF ~ack_tx THEN NONE ELSE IF ok THEN "success" ELSE "pkt_fail"
  /\ ack_status' = IF ~ack_tx THEN ack_status ELSE IF ok THEN "success" ELSE "pkt_fail"
  /\ UNCHANGED <<buf_vars, wait_vars, mutex, ack_tx, ack_done, frame, late, pc, stopped>>

(* complete() after the status is written.                                 *)
ReportComplete ==
  /\ rpt # NONE
  /\ ack_done' = ack_done + 1
  /\ rpt' = NONE
  /\ UNCHANGED <<buf_vars, wait_vars, mutex, ack_tx, ack_status, frame, due, acked, late, pc,
                 stopped>>

(* The chip gives up on a report.                                          *)
ReportLost(f) ==
  /\ f \in due
  /\ due' = due \ {f}
  /\ UNCHANGED <<buf_vars, wait_vars, mutex, ack_tx, ack_done, ack_status, frame, rpt, acked, late,
                 pc, stopped>>

(* rtw_dev_unload and rtw_usb_if1_deinit stop the driver and end the wait. *)
MgntStop ==
  /\ ~stopped /\ stopped' = TRUE
  /\ ack_status' = IF ack_tx THEN "drv_stop" ELSE ack_status
  /\ ack_done' = IF ack_tx THEN ack_done + 1 ELSE ack_done
  /\ UNCHANGED <<buf_vars, wait_vars, mutex, ack_tx, frame, due, rpt, acked, late, pc>>

-----------------------------------------------------------------------------
SendSteps(s) == Check(s) \/ Xmit(s) \/ (\E timeout \in BOOLEAN : Wait(s, timeout)) \/ Clear(s)
AckSteps(a) ==
  AckSend(a) \/ AckReset(a) \/ (\E timeout \in BOOLEAN : AckWait(a, timeout)) \/ AckEnd(a)

MgntNext ==
  \/ \E s \in Senders : (\E b \in Bufs : Alloc(s, b)) \/ SendSteps(s)
  \/ \E b \in Bufs : PlainXmit(b) \/ (\E ok \in BOOLEAN : UrbDone(b, ok)) \/ UrbFree(b)
  \/ \E a \in Ackers : AckCheck(a) \/ AckLock(a) \/ AckSteps(a)
  \/ \E f \in due : (\E ok \in BOOLEAN : Report(f, ok)) \/ ReportLost(f)
  \/ ReportComplete \/ MgntStop

MgntSpec == MgntInit /\ [][MgntNext]_mgnt_vars

-----------------------------------------------------------------------------
MgntTypeOK ==
  /\ free_ext \subseteq Bufs /\ leaked \subseteq Bufs
  /\ sctx \in [Bufs -> Senders \cup {NONE}] /\ owner \in [Bufs -> Senders \cup {NONE}]
  /\ urb \in [Bufs -> {"none", "submitted", "done"}]
  /\ pc \in [Threads -> {"idle", "check", "xmit", "wait", "clear", "lock", "send", "reset",
                          "wait_ack", "success", "failed"}]
  /\ done \subseteq Senders /\ written \subseteq Senders
  /\ mutex \in Ackers \cup {NONE}
  /\ frame \in 0 .. MaxFrames /\ due \subseteq 1 .. MaxFrames /\ acked \subseteq 1 .. MaxFrames
  /\ ack_done \in Nat
  /\ {ack_tx, late, stopped} \subseteq BOOLEAN

(* No buffer points to a submit_ctx whose sender has returned: the context *)
(* is on the sender's stack.  And a free buffer points to none, so that    *)
(* the tests in rtw_alloc_xmitbuf_ext and rtw_free_xmitbuf never fire.     *)
NoDanglingSctx ==
  \A b \in Bufs : sctx[b] # NONE =>
    /\ w_buf[sctx[b]] = b /\ pc[sctx[b]] \in {"xmit", "wait", "clear"}
    /\ b \notin free_ext

(* A buffer is in the pool, with one sender, in a URB, or leaked by a      *)
(* refused send; never in two of these places.  The state has its types.   *)
ExtBufsConserved ==
  /\ MgntTypeOK
  /\ \A b \in Bufs :
       LET senders == {s \in Senders : pc[s] \in {"check", "xmit"} /\ w_buf[s] = b}
           places == <<b \in free_ext, b \in leaked, urb[b] # "none", senders # {}>>
       IN Cardinality(senders) <= 1 /\ Cardinality({i \in 1 .. 4 : places[i]}) = 1

(* dump_mgntframe_and_wait reports success only for a frame whose own URB  *)
(* succeeded, although buffers are reused while senders wake up late.      *)
WriteTruthful ==
  \A s \in Senders : pc[s] = "clear" /\ status[s] = "success" => s \in written

(* dump_mgntframe_and_wait_ack reports success only for a frame the peer   *)
(* acknowledged, unless the report of an earlier frame outlived its wait   *)
(* (reports do not name their frame).                                      *)
AckTruthful ==
  \A a \in Ackers : pc[a] = "success" => frame \in acked \/ late

=============================================================================
