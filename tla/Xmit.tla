-------------------------------- MODULE Xmit --------------------------------
(***************************************************************************)
(* The data transmit path: frames of free_xmit_queue, buffers of           *)
(* free_xmitbuf_queue, the frames waiting per access category, the         *)
(* transmit tasklet, the completions of the bulk URBs, and the flow        *)
(* control that stops and wakes the subqueues of the net_device.           *)
(*                                                                         *)
(* Contexts: one sender per subqueue (rtw_xmit_entry, which the network    *)
(* stack serialises per subqueue and runs on any CPU), the tasklet, URB    *)
(* completions, and the end of surveys and joins, which hold frames back.  *)
(* Frames are counted, not named.  Frames for dozing stations are in       *)
(* ApSleep.                                                                *)
(***************************************************************************)
EXTENDS Integers, FiniteSets, FiniteSetsExt

CONSTANTS
  NQueues,      \* subqueues and access categories, 1 is served first
  NR_XMITFRAME, \* frames in free_xmit_queue
  NR_XMITBUFF,  \* buffers in free_xmitbuf_queue
  LowMark       \* frames at which rtw_check_xmit_resource stops (4)

ASSUME QueuesAssumption == NQueues \in Nat \ {0}
ASSUME PoolAssumption == NR_XMITFRAME \in Nat /\ NR_XMITBUFF \in Nat \ {0}
ASSUME LowMarkAssumption == LowMark \in Nat

VARIABLES
  free_frames,  \* free_xmitframe_cnt
  free_bufs,    \* free_xmitbuf_cnt
  pending,      \* frames in the sta_pending lists, per category
  inflight,     \* buffers whose URB is submitted
  halted,       \* subqueues that are stopped
  tx_pc,        \* control point of the sender of each subqueue
  scheduled,    \* xmit_tasklet is scheduled
  task_pc,      \* control point of the tasklet
  task_q,       \* category of the frame the tasklet holds
  survey,       \* _FW_UNDER_SURVEY
  linking,      \* _FW_UNDER_LINKING
  mlme_pc,      \* a callback is about to call rtw_os_xmit_schedule
  drv_stopped,  \* bDriverStopped, bSurpriseRemoved or bWritePortCancel
  orphan,       \* history: stopped by a packet that was dropped then
  missed        \* history: frames wait and the code let a trigger pass

Queues == 1 .. NQueues

pool_vars == <<free_frames, free_bufs, pending, inflight>>
task_vars == <<scheduled, task_pc, task_q>>
mlme_vars == <<survey, linking, mlme_pc>>
vars == <<pool_vars, task_vars, mlme_vars, halted, tx_pc, drv_stopped, orphan, missed>>

-----------------------------------------------------------------------------
Init ==
  /\ free_frames = NR_XMITFRAME /\ free_bufs = NR_XMITBUFF
  /\ pending = [q \in Queues |-> 0] /\ inflight = 0
  /\ halted = {}
  /\ tx_pc = [q \in Queues |-> "idle"]
  /\ scheduled = FALSE /\ task_pc = "idle" /\ task_q = 1
  /\ survey = FALSE /\ linking = FALSE /\ mlme_pc = "idle"
  /\ drv_stopped = FALSE
  /\ orphan = {} /\ missed = FALSE

AnyPending == \E q \in Queues : pending[q] > 0

(* rtw_os_pkt_complete wakes the subqueues of the packets that are done.   *)
PktComplete(qs) == halted' = halted \ qs /\ orphan' = orphan \ qs
KeepFlow == UNCHANGED <<halted, orphan>>

(* rtw_free_xmitframe returns n frames to the pool.                        *)
FreeFrames(n) == free_frames' = free_frames + n

At(q, pc) == tx_pc[q] = pc
Goto(q, pc) == tx_pc' = [tx_pc EXCEPT ![q] = pc]

(* tasklet_hi_schedule: the tasklet will look at every waiting frame.      *)
Schedule == scheduled' = TRUE /\ missed' = FALSE
NoSchedule == UNCHANGED <<scheduled, missed>>

-----------------------------------------------------------------------------
(***************************************************************************)
(* rtw_xmit_entry for one packet of subqueue q.                            *)
(***************************************************************************)

(* rtw_check_xmit_resource reads the counter without a lock ...            *)
TxCheck(q) ==
  /\ At(q, "idle") /\ q \notin halted /\ ~drv_stopped
  /\ Goto(q, IF free_frames <= LowMark THEN "stop" ELSE "alloc")
  /\ UNCHANGED <<pool_vars, task_vars, mlme_vars, halted, drv_stopped, orphan, missed>>

(* ... and stops the subqueue; the packet is sent all the same.            *)
TxStop(q) ==
  /\ At(q, "stop")
  /\ halted' = halted \cup {q}
  /\ Goto(q, "alloc")
  /\ UNCHANGED <<pool_vars, task_vars, mlme_vars, drv_stopped, orphan, missed>>

(* A packet that is dropped before its frame knows of it wakes nobody.     *)
Drop(q) ==
  /\ Goto(q, "idle")
  /\ orphan' = IF q \in halted THEN orphan \cup {q} ELSE orphan

(* rtw_alloc_xmitframe.                                                    *)
TxAlloc(q) ==
  /\ At(q, "alloc")
  /\ \/ /\ free_frames = 0
        /\ Drop(q)
        /\ UNCHANGED free_frames
     \/ /\ free_frames > 0
        /\ free_frames' = free_frames - 1
        /\ Goto(q, "attrib")
        /\ UNCHANGED orphan
  /\ UNCHANGED <<free_bufs, pending, inflight, task_vars, mlme_vars, halted, drv_stopped, missed>>

TxAttribKeep(q) ==                 \* mutant: the frame is not given back
  /\ At(q, "attrib")
  /\ Drop(q) \/ (Goto(q, "pre") /\ UNCHANGED orphan)
  /\ UNCHANGED <<pool_vars, task_vars, mlme_vars, halted, drv_stopped, missed>>

(* update_attrib, which may fail: no station, not authorised, no key.      *)
AttribFails(q) == FreeFrames(1) /\ Drop(q)

TxAttrib(q) ==
  /\ At(q, "attrib")
  /\ \/ AttribFails(q)
     \/ /\ Goto(q, "pre")
        /\ UNCHANGED <<free_frames, orphan>>
  /\ UNCHANGED <<free_bufs, pending, inflight, task_vars, mlme_vars, halted, drv_stopped, missed>>

(* pre_xmitframe under pxmitpriv->lock: the frame has to wait behind its   *)
(* own category, for a survey or a join, or for a buffer; rtw_xmit_        *)
(* classifier refuses it when the station is gone.                         *)
MustWait(q) == pending[q] > 0 \/ survey \/ linking \/ free_bufs = 0

TxPreQueue(q) ==
  /\ At(q, "pre") /\ MustWait(q)
  /\ Goto(q, "idle")
  /\ \/ /\ pending' = [pending EXCEPT ![q] = @ + 1]
        /\ KeepFlow /\ UNCHANGED free_frames
     \/ /\ FreeFrames(1)
        /\ PktComplete({q})
        /\ UNCHANGED pending
  /\ UNCHANGED <<free_bufs, inflight, task_vars, mlme_vars, drv_stopped, missed>>

(* rtw_alloc_xmitbuf.                                                      *)
AllocBuf == free_bufs > 0 /\ free_bufs' = free_bufs - 1

TxPreDirect(q) ==
  /\ At(q, "pre") /\ ~MustWait(q)
  /\ AllocBuf
  /\ Goto(q, "write")
  /\ UNCHANGED <<free_frames, pending, inflight, task_vars, mlme_vars, halted, drv_stopped,
                 orphan, missed>>

(* rtw_write_port: the URB takes the buffer, or the buffer goes back to    *)
(* the pool: the driver stops, the submission or the coalescing fails.     *)
Submit == inflight' = inflight + 1 /\ UNCHANGED free_bufs
SubmitFails == free_bufs' = free_bufs + 1 /\ UNCHANGED inflight

(* xmitframe_direct, rtw_dump_xframe.  Nobody is told of a buffer that     *)
(* comes back: frames that found none stay where they are.                 *)
TxWrite(q) ==
  /\ At(q, "write")
  /\ \/ Submit /\ ~drv_stopped /\ UNCHANGED missed
     \/ SubmitFails /\ missed' = (missed \/ AnyPending)
  /\ Goto(q, "free")
  /\ UNCHANGED <<free_frames, pending, task_vars, mlme_vars, halted, drv_stopped, orphan>>

TxFreeNoWake(q) ==                 \* mutant: the packet is freed, not completed
  /\ At(q, "free")
  /\ FreeFrames(1)
  /\ Goto(q, "idle")
  /\ UNCHANGED <<free_bufs, pending, inflight, task_vars, mlme_vars, drv_stopped, missed, halted, orphan>>

TxFree(q) ==
  /\ At(q, "free")
  /\ FreeFrames(1)
  /\ PktComplete({q})
  /\ Goto(q, "idle")
  /\ UNCHANGED <<free_bufs, pending, inflight, task_vars, mlme_vars, drv_stopped, missed>>

-----------------------------------------------------------------------------
(***************************************************************************)
(* rtl8192cu_xmit_tasklet.                                                 *)
(***************************************************************************)
TaskRun ==
  /\ scheduled /\ task_pc = "idle"
  /\ scheduled' = FALSE
  /\ task_pc' = IF survey THEN "idle" ELSE "loop"
  /\ UNCHANGED <<pool_vars, task_q, mlme_vars, halted, tx_pc, drv_stopped, orphan, missed>>

(* rtl8192cu_xmitframe_complete: a buffer first ...                        *)
TaskBuf ==
  /\ task_pc = "loop"
  /\ \/ /\ drv_stopped \/ free_bufs = 0
        /\ task_pc' = "idle"
        /\ UNCHANGED free_bufs
     \/ /\ ~drv_stopped
        /\ AllocBuf
        /\ task_pc' = "dequeue"
  /\ UNCHANGED <<free_frames, pending, inflight, scheduled, task_q, mlme_vars, halted, tx_pc,
                 drv_stopped, orphan, missed>>

(* ... then rtw_dequeue_xframe, the first category that has a frame.       *)
TaskDequeue ==
  /\ task_pc = "dequeue"
  /\ \/ /\ ~AnyPending
        /\ task_pc' = "empty"
        /\ UNCHANGED <<pending, task_q>>
     \/ \E q \in Queues :
          /\ pending[q] > 0 /\ \A p \in 1 .. q - 1 : pending[p] = 0
          /\ pending' = [pending EXCEPT ![q] = @ - 1]
          /\ task_q' = q
          /\ task_pc' = "complete"
  /\ UNCHANGED <<free_frames, free_bufs, inflight, scheduled, mlme_vars, halted, tx_pc,
                 drv_stopped, orphan, missed>>

TaskEmpty ==
  /\ task_pc = "empty"
  /\ free_bufs' = free_bufs + 1
  /\ task_pc' = "idle"
  /\ UNCHANGED <<free_frames, pending, inflight, scheduled, task_q, mlme_vars, halted, tx_pc,
                 drv_stopped, orphan, missed>>

TaskCompleteRetry ==               \* mutant: a frame that cannot be sent is tried again
  /\ task_pc = "complete"
  /\ pending' = [pending EXCEPT ![task_q] = @ + 1]
  /\ free_bufs' = free_bufs + 1
  /\ task_pc' = "loop"
  /\ KeepFlow
  /\ UNCHANGED <<free_frames, inflight, scheduled, task_q, mlme_vars, tx_pc, drv_stopped, missed>>

(* rtw_xmitframe_coalesce has copied the packet; rtw_os_xmit_complete      *)
(* returns it, before the frame itself is free.                            *)
TaskComplete ==
  /\ task_pc = "complete"
  /\ PktComplete({task_q})
  /\ task_pc' = "write"
  /\ UNCHANGED <<pool_vars, scheduled, task_q, mlme_vars, tx_pc, drv_stopped, missed>>

TaskWrite ==
  /\ task_pc = "write"
  /\ (Submit /\ ~drv_stopped) \/ SubmitFails
  /\ task_pc' = "free"
  /\ UNCHANGED <<free_frames, pending, scheduled, task_q, mlme_vars, halted, tx_pc, drv_stopped,
                 orphan, missed>>

(* The frame has no packet any more; the loop goes on.                     *)
TaskFree ==
  /\ task_pc = "free"
  /\ FreeFrames(1)
  /\ task_pc' = "loop"
  /\ UNCHANGED <<free_bufs, pending, inflight, scheduled, task_q, mlme_vars, halted, tx_pc,
                 drv_stopped, orphan, missed>>

-----------------------------------------------------------------------------
(* usb_write_port_complete.  Some errors stop the driver.  (The URBs of    *)
(* management frames, which have pools of their own, also schedule the     *)
(* tasklet; the properties do not rely on them.)                           *)
UrbComplete(ok) ==
  /\ inflight > 0
  /\ inflight' = inflight - 1 /\ free_bufs' = free_bufs + 1
  /\ Schedule
  /\ drv_stopped' \in (IF ok THEN {drv_stopped} ELSE {drv_stopped, TRUE})
  /\ UNCHANGED <<free_frames, pending, task_pc, task_q, mlme_vars, halted, tx_pc, orphan>>

(***************************************************************************)
(* Surveys and joins.                                                      *)
(***************************************************************************)
SurveyBegin ==
  /\ ~survey /\ ~drv_stopped
  /\ survey' = TRUE
  /\ UNCHANGED <<pool_vars, task_vars, linking, mlme_pc, halted, tx_pc, drv_stopped, orphan, missed>>

LinkBegin ==
  /\ ~linking /\ ~drv_stopped
  /\ linking' = TRUE
  /\ UNCHANGED <<pool_vars, task_vars, survey, mlme_pc, halted, tx_pc, drv_stopped, orphan, missed>>

(* rtw_surveydone_event_callback and rtw_joinbss_event_callback clear the  *)
(* flag and call rtw_os_xmit_schedule after their critical section.        *)
MlmeDone ==
  /\ mlme_pc = "idle"
  /\ \/ survey /\ survey' = FALSE /\ UNCHANGED linking
     \/ linking /\ linking' = FALSE /\ UNCHANGED survey
  /\ mlme_pc' = "schedule"
  /\ UNCHANGED <<pool_vars, task_vars, halted, tx_pc, drv_stopped, orphan, missed>>

XmitSchedule ==
  /\ mlme_pc = "schedule"
  /\ IF AnyPending THEN Schedule ELSE NoSchedule
  /\ mlme_pc' = "idle"
  /\ UNCHANGED <<pool_vars, task_pc, task_q, survey, linking, halted, tx_pc, drv_stopped, orphan>>

(* rtw_scan_timeout_handler, a failed rtw_sitesurvey_cmd and               *)
(* _rtw_join_timeout_handler clear the flag and schedule nothing.          *)
MlmeTimeout ==
  /\ \/ survey /\ survey' = FALSE /\ UNCHANGED linking
     \/ linking /\ linking' = FALSE /\ UNCHANGED survey
  /\ missed' = (missed \/ AnyPending)
  /\ UNCHANGED <<pool_vars, task_vars, mlme_pc, halted, tx_pc, drv_stopped, orphan>>

(* rtw_free_xmitframe_queue on every list of the station.                  *)
FreeQueue ==
  /\ FreeFrames(MapThenSumSet(LAMBDA q : pending[q], Queues))
  /\ PktComplete({q \in Queues : pending[q] > 0})

(* rtw_free_stainfo frees what waits for the station.                      *)
FreeSta ==
  /\ AnyPending
  /\ FreeQueue
  /\ pending' = [q \in Queues |-> 0]
  /\ UNCHANGED <<free_bufs, inflight, task_vars, mlme_vars, tx_pc, drv_stopped, missed>>

Stop ==
  /\ ~drv_stopped
  /\ drv_stopped' = TRUE
  /\ UNCHANGED <<pool_vars, task_vars, mlme_vars, halted, tx_pc, orphan, missed>>

-----------------------------------------------------------------------------
Sender(q) ==
  \/ TxStop(q) \/ TxAlloc(q) \/ TxAttrib(q) \/ TxPreQueue(q) \/ TxPreDirect(q) \/ TxWrite(q)
  \/ TxFree(q)
Tasklet ==
  TaskRun \/ TaskBuf \/ TaskDequeue \/ TaskEmpty \/ TaskComplete \/ TaskWrite \/ TaskFree
Completion == \E ok \in BOOLEAN : UrbComplete(ok)
MlmeEnds == MlmeDone \/ MlmeTimeout

Next ==
  \/ \E q \in Queues : TxCheck(q) \/ Sender(q)
  \/ Tasklet \/ Completion
  \/ SurveyBegin \/ LinkBegin \/ MlmeEnds \/ XmitSchedule
  \/ FreeSta \/ Stop

Spec == Init /\ [][Next]_vars

(* A sender runs with bottom halves disabled, the tasklet in a softirq,    *)
(* and every submitted URB is completed by the USB core.  Packets need     *)
(* not come, nor surveys end.                                              *)
FairSpec ==
  /\ Spec
  /\ \A q \in Queues : WF_vars(Sender(q))
  /\ WF_vars(Tasklet) /\ WF_vars(Completion) /\ WF_vars(XmitSchedule)

-----------------------------------------------------------------------------
TypeOK ==
  /\ free_frames \in 0 .. NR_XMITFRAME /\ free_bufs \in 0 .. NR_XMITBUFF
  /\ pending \in [Queues -> 0 .. NR_XMITFRAME] /\ inflight \in 0 .. NR_XMITBUFF
  /\ halted \subseteq Queues /\ orphan \subseteq Queues
  /\ tx_pc \in [Queues -> {"idle", "stop", "alloc", "attrib", "pre", "write", "free"}]
  /\ task_pc \in {"idle", "loop", "dequeue", "empty", "complete", "write", "free"}
  /\ task_q \in Queues
  /\ mlme_pc \in {"idle", "schedule"}
  /\ {scheduled, survey, linking, drv_stopped, missed} \subseteq BOOLEAN

Busy(pcs) == Cardinality({q \in Queues : tx_pc[q] \in pcs})
TaskHas(pcs) == IF task_pc \in pcs THEN 1 ELSE 0

(* Every frame and every buffer is in exactly one place: in its pool,      *)
(* waiting, with the sender or the tasklet that took it, or in a URB.  No  *)
(* error path of rtw_xmit, pre_xmitframe, xmitframe_complete, usb_write_   *)
(* port or rtw_free_stainfo leaks one or frees it twice.  The state has    *)
(* its types.                                                              *)
PoolsConserved ==
  /\ TypeOK
  /\ free_frames + MapThenSumSet(LAMBDA q : pending[q], Queues)
       + Busy({"attrib", "pre", "write", "free"})
       + TaskHas({"complete", "write", "free"}) = NR_XMITFRAME
  /\ free_bufs + inflight + Busy({"write"})
       + TaskHas({"dequeue", "empty", "complete", "write"}) = NR_XMITBUFF

(* A stopped subqueue has a packet on its way whose completion wakes it    *)
(* up, unless the packet that stopped it was dropped: nothing else in the  *)
(* transmit path wakes a subqueue.                                         *)
StoppedRestarts ==
  \A q \in halted \ orphan :
    \/ tx_pc[q] \notin {"idle", "stop"}
    \/ pending[q] > 0
    \/ task_pc = "complete" /\ task_q = q

Held == survey \/ linking \/ missed \/ drv_stopped

Quiet == \A q \in Queues : tx_pc[q] = "idle"

(* When the stack has nothing more to send, every waiting frame is sent    *)
(* and every subqueue that is not an orphan is open again.  (While it goes *)
(* on sending, direct frames of other categories may take each buffer      *)
(* before the tasklet does.)                                               *)
QueuesDrain == <>[](Quiet /\ ~Held) => <>[](~AnyPending /\ halted \subseteq orphan)
=============================================================================
