------------------------------ MODULE RecvPath ------------------------------
(***************************************************************************)
(* The receive path below the reordering: bulk-in URBs of the recv_bufs,   *)
(* rx_skb_queue and its tasklet, the recv_frames of free_recv_queue, the   *)
(* frames that wait for a key (uc_swdec_pending_queue) or for the rest of  *)
(* their fragments (defrag_q), and the hand-over to the reordering, which  *)
(* RxReorder details and which is here a set of frames it holds.           *)
(*                                                                         *)
(* Contexts: URB completions (one at a time), the tasklet, the reordering  *)
(* timer, the command thread (join, key, disconnect), and the paths that   *)
(* take the interface down and up again (suspend, IPS).  The preallocated  *)
(* skbs are left out: a buffer finds one or there is no memory.            *)
(***************************************************************************)
EXTENDS Integers, Sequences, FiniteSets, SequencesExt, FiniteSetsExt

CONSTANTS
  NR_RECVBUFF,            \* recv_bufs
  NR_RECVFRAME,           \* frames in free_recv_queue
  MAX_CONTINUAL_URB_ERR,  \* URB errors in a row that mean the device is gone
  MaxFrag,                \* bound: highest fragment number
  MaxPkts,                \* bound: packets in one buffer
  MaxRxq                  \* bound: buffers in rx_skb_queue

ASSUME PoolsAssumption == NR_RECVBUFF \in Nat \ {0} /\ NR_RECVFRAME \in Nat \ {0}
ASSUME ErrAssumption == MAX_CONTINUAL_URB_ERR \in Nat
ASSUME BoundsAssumption == {MaxFrag, MaxPkts, MaxRxq} \subseteq Nat \ {0}

VARIABLES
  urb,       \* per recv_buf: off, bus, or its completion has queued the skb
  rxq,       \* buffers in rx_skb_queue
  errs,      \* continual_urb_error
  sched,     \* recv_tasklet is scheduled
  stopped,   \* bDriverStopped
  removed,   \* bSurpriseRemoved
  cancelled, \* bReadPortCancel
  phase,     \* of the interface: run, stopping, down, ips, opening
  pc,        \* control point of the tasklet
  pkts,      \* packets the current buffer may still hold
  free,      \* free_recv_queue
  cur,       \* the frame of the current packet, until it is validated
  work,      \* the frame recv_func_posthandle works on
  orig,      \* the frame it was called with
  pend,      \* uc_swdec_pending_queue
  defrag,    \* defrag_q of the station
  held,      \* frames in the reordering lists of the station
  limbo,     \* frames in the reordering lists of the freed station
  att,       \* fragment number, more-fragments bit, station freed since
  sta,       \* the station (our access point) is in the table
  ht,        \* ht_option of the association
  key,       \* busetkipkey
  leave,     \* control point of a disconnection
  leaked,    \* history: frames no list and no variable holds any more
  leftover,  \* history: restarted with a queue no tasklet looks at
  short      \* history: a buffer was given up since the last start

Bufs == 1 .. NR_RECVBUFF
Frames == 1 .. NR_RECVFRAME
NoFrame == 0
Attrs == [num : 0 .. MaxFrag, more : BOOLEAN, old : BOOLEAN]
Blank == [num |-> 0, more |-> FALSE, old |-> FALSE]

urb_vars == <<urb, rxq, errs, sched, short>>
ctl_vars == <<stopped, removed, cancelled, phase, leftover>>
hand_vars == <<cur, work, orig>>
list_vars == <<pend, defrag, held, limbo>>
pool_vars == <<free, leaked, att>>
mlme_vars == <<sta, ht, key, leave>>
vars == <<urb_vars, ctl_vars, pc, pkts, hand_vars, list_vars, pool_vars, mlme_vars>>

-----------------------------------------------------------------------------
Init ==
  /\ urb = [b \in Bufs |-> "bus"] /\ rxq = 0 /\ errs = 0 /\ sched = FALSE
  /\ stopped = FALSE /\ removed = FALSE /\ cancelled = FALSE /\ phase = "run"
  /\ pc = "idle" /\ pkts = 0
  /\ free = Frames /\ cur = NoFrame /\ work = NoFrame /\ orig = NoFrame
  /\ pend = <<>> /\ defrag = <<>> /\ held = {} /\ limbo = {}
  /\ att = [f \in Frames |-> Blank]
  /\ sta = FALSE /\ ht = FALSE /\ key = FALSE /\ leave = "no"
  /\ leaked = {} /\ leftover = FALSE /\ short = FALSE

Gone == stopped \/ removed

(* Frames that are back in the pool, or with the reordering, are no longer *)
(* read for their attributes: a is the attributes of all others.           *)
SetAtt(a) ==
  att' = [f \in Frames |-> IF f \in free' \cup leaked' \cup held' \cup limbo' THEN Blank ELSE a[f]]

(* rtw_free_recvframe on every frame of s.                                 *)
Free(s) == free' = free \cup s /\ UNCHANGED leaked
Leak(s) == leaked' = leaked \cup s /\ UNCHANGED free

-----------------------------------------------------------------------------
(***************************************************************************)
(* The URBs.                                                               *)
(***************************************************************************)

(* usb_read_port, with or without an skb and room on the bus.              *)
ReadPort(b, ok) ==
  /\ urb' = [urb EXCEPT ![b] = IF ok /\ ~Gone' THEN "bus" ELSE "off"]
  /\ short' = (short \/ ~ok)

Completing(b) == urb[b] = "bus" /\ \A c \in Bufs : urb[c] # "queued"

(* usb_read_port_complete while the driver stops.                          *)
UrbStopped(b) ==
  /\ Completing(b) /\ (Gone \/ cancelled)
  /\ urb' = [urb EXCEPT ![b] = "off"]
  /\ UNCHANGED <<rxq, errs, sched, short, ctl_vars, pc, pkts, hand_vars, list_vars, pool_vars, mlme_vars>>

(* A transfer: the skb is queued ...                                       *)
UrbGood(b) ==
  /\ Completing(b) /\ ~Gone /\ ~cancelled /\ rxq < MaxRxq
  /\ errs' = 0
  /\ rxq' = rxq + 1
  /\ urb' = [urb EXCEPT ![b] = "queued"]
  /\ UNCHANGED <<sched, short, ctl_vars, pc, pkts, hand_vars, list_vars, pool_vars, mlme_vars>>

UrbQueuedFirst(b) ==                   \* mutant: schedules for an empty queue only
  /\ urb[b] = "queued"
  /\ sched' = (sched \/ rxq < 1)
  /\ UNCHANGED ctl_vars
  /\ \E ok \in BOOLEAN : ReadPort(b, ok)
  /\ UNCHANGED <<rxq, errs, pc, pkts, hand_vars, list_vars, pool_vars, mlme_vars>>

(* ... the tasklet is scheduled unless the queue was not empty, and the    *)
(* buffer goes back to the bus.                                            *)
UrbQueued(b) ==
  /\ urb[b] = "queued"
  /\ sched' = (sched \/ rxq <= 1)
  /\ UNCHANGED ctl_vars
  /\ \E ok \in BOOLEAN : ReadPort(b, ok)
  /\ UNCHANGED <<rxq, errs, pc, pkts, hand_vars, list_vars, pool_vars, mlme_vars>>

(* A transfer with an impossible length.                                   *)
UrbShort(b) ==
  /\ Completing(b) /\ ~Gone /\ ~cancelled
  /\ UNCHANGED ctl_vars
  /\ \E ok \in BOOLEAN : ReadPort(b, ok)
  /\ UNCHANGED <<rxq, errs, sched, pc, pkts, hand_vars, list_vars, pool_vars, mlme_vars>>

(* An error: proto (EPROTO, EOVERFLOW) is tried again, dead (EPIPE,        *)
(* ESHUTDOWN, ...) stops the driver, and after any other the buffer is     *)
(* given up.                                                               *)
UrbError(b, status) ==
  /\ Completing(b) /\ ~Gone /\ ~cancelled
  /\ errs' = errs + 1
  /\ removed' = (errs' > MAX_CONTINUAL_URB_ERR)
  /\ stopped' = (status = "dead")
  /\ IF status = "proto"
       THEN \E ok \in BOOLEAN : ReadPort(b, ok)
       ELSE urb' = [urb EXCEPT ![b] = "off"] /\ short' = TRUE
  /\ UNCHANGED <<rxq, sched, cancelled, phase, leftover, pc, pkts, hand_vars, list_vars, pool_vars, mlme_vars>>

-----------------------------------------------------------------------------
(***************************************************************************)
(* The tasklet.                                                            *)
(***************************************************************************)
TaskStart ==
  /\ sched /\ pc = "idle"
  /\ sched' = FALSE /\ pc' = "deq"
  /\ UNCHANGED <<urb, rxq, errs, short, ctl_vars, pkts, hand_vars, list_vars, pool_vars, mlme_vars>>

(* rtl8192cu_recv_tasklet: a buffer is taken, or dropped and the rest of   *)
(* the queue left behind when the driver stops.                            *)
TaskDeq ==
  /\ pc = "deq"
  /\ rxq' = IF rxq > 0 THEN rxq - 1 ELSE 0
  /\ IF rxq > 0 /\ ~Gone THEN pc' = "parse" /\ pkts' = MaxPkts
                         ELSE pc' = "idle" /\ pkts' = 0
  /\ UNCHANGED <<urb, errs, sched, short, ctl_vars, hand_vars, list_vars, pool_vars, mlme_vars>>

(* recvbuf2recvframe is done with a buffer: the packets are over, a packet *)
(* is broken or finds no memory, or there is no frame for it.              *)
ParseEnd ==
  /\ pc = "parse"
  /\ pc' = "deq" /\ pkts' = 0
  /\ UNCHANGED <<urb_vars, ctl_vars, hand_vars, list_vars, pool_vars, mlme_vars>>

(* The next packet gets a frame: rtw_alloc_recvframe.                      *)
ParseOk ==
  /\ pc = "parse" /\ pkts > 0 /\ free # {}
  /\ cur' = Min(free)
  /\ free' = free \ {cur'}
  /\ pkts' = pkts - 1
  /\ pc' = "entry"
  /\ UNCHANGED <<urb_vars, ctl_vars, work, orig, list_vars, leaked, att, mlme_vars>>

MustDrainButOne == key /\ Len(pend) > 1   \* mutant: leaves the last one

(* recv_func first works off the frames that waited for the key.           *)
MustDrain == key /\ pend # <<>>

DrainTake ==
  /\ pc = "entry" /\ MustDrain
  /\ work' = Head(pend) /\ orig' = work'
  /\ pend' = Tail(pend)
  /\ pc' = "post"
  /\ UNCHANGED <<urb_vars, ctl_vars, pkts, cur, defrag, held, limbo, pool_vars, mlme_vars>>

AtPre == pc = "entry" /\ ~MustDrain

(* recv_func_prehandle frees the frame of an invalid or duplicate packet,  *)
(* of a control packet and of a management packet.  A management frame has *)
(* no ta: a fragment of one goes to the defrag_q of the broadcast station, *)
(* and a last one is refused there, for its number is not 0 and it is      *)
(* alone.  The free after it takes the frame off whatever list it is on,   *)
(* so that queue is empty between two packets.                             *)
PreDrop ==
  /\ AtPre
  /\ Free({cur})
  /\ cur' = NoFrame /\ pc' = "parse"
  /\ UNCHANGED <<urb_vars, ctl_vars, pkts, work, orig, list_vars, att, mlme_vars>>

(* A data frame of the station that the chip has not decrypted waits for   *)
(* the key.                                                                *)
PreWait(num, more) ==
  /\ AtPre /\ sta /\ ~key
  /\ pend' = Append(pend, cur)
  /\ att' = [att EXCEPT ![cur] = [num |-> num, more |-> more, old |-> FALSE]]
  /\ cur' = NoFrame /\ pc' = "parse"
  /\ UNCHANGED <<urb_vars, ctl_vars, pkts, work, orig, defrag, held, limbo, free, leaked, mlme_vars>>

(* Any other data frame of the station goes to recv_func_posthandle.       *)
PreData(num, more) ==
  /\ AtPre /\ sta
  /\ att' = [att EXCEPT ![cur] = [num |-> num, more |-> more, old |-> FALSE]]
  /\ work' = cur /\ orig' = cur /\ cur' = NoFrame
  /\ pc' = "post"
  /\ UNCHANGED <<urb_vars, ctl_vars, pkts, list_vars, free, leaked, mlme_vars>>

-----------------------------------------------------------------------------
(***************************************************************************)
(* recv_func_posthandle.                                                   *)
(***************************************************************************)

(* It returns to the drain loop, or the packet is done.                    *)
PostDone ==
  /\ pc' = IF cur # NoFrame THEN "entry" ELSE "parse"
  /\ work' = NoFrame /\ orig' = NoFrame

Fragment(f) == att[f].more \/ att[f].num > 0
LastFragment(f) == ~att[f].more /\ att[f].num > 0

PostRefusedKeep ==                     \* mutant: decryptor does not free
  /\ pc = "post"
  /\ UNCHANGED <<free, leaked, list_vars>>
  /\ PostDone /\ SetAtt(att)
  /\ UNCHANGED <<urb_vars, ctl_vars, pkts, cur, mlme_vars>>

(* decryptor fails; or the frame is no fragment, and recvframe_chkmic or   *)
(* portctrl (which looks the station up by an address it has not set yet)  *)
(* refuses it; or it is a fragment of a station that is gone.              *)
PostRefused ==
  /\ pc = "post"
  /\ Free({work})
  /\ PostDone /\ UNCHANGED list_vars /\ SetAtt(att)
  /\ UNCHANGED <<urb_vars, ctl_vars, pkts, cur, mlme_vars>>

PostWhole ==
  /\ pc = "post" /\ ~Fragment(work)
  /\ pc' = "ind"
  /\ UNCHANGED <<urb_vars, ctl_vars, pkts, hand_vars, list_vars, pool_vars, mlme_vars>>

(* recvframe_chk_defrag keeps a fragment; a first one replaces the queue.  *)
PostFragment ==
  /\ pc = "post" /\ att[work].more /\ sta
  /\ IF att[work].num = 0
       THEN Free(ToSet(defrag)) /\ defrag' = <<work>>
       ELSE UNCHANGED <<free, leaked>> /\ defrag' = Append(defrag, work)
  /\ PostDone /\ UNCHANGED <<pend, held, limbo>> /\ SetAtt(att)
  /\ UNCHANGED <<urb_vars, ctl_vars, pkts, cur, mlme_vars>>

(* The fragments in q are one frame: numbers 0, 1, 2, ...                  *)
InSequence(q, a) == \A i \in DOMAIN q : a[q[i]].num = i - 1

(* recvframe_defrag: the first frame takes the fragments and the others,   *)
(* the one in hand with them, are freed; or they do not fit and all are    *)
(* freed, as they are when the result is refused.                          *)
PostJoin ==
  /\ pc = "post" /\ LastFragment(work) /\ sta
  /\ defrag' = <<>>
  /\ LET q == Append(defrag, work)
     IN \/ /\ InSequence(q, att)
           /\ Free(ToSet(Tail(q)))
           /\ work' = Head(q) /\ pc' = "ind"
           /\ UNCHANGED orig
        \/ Free(ToSet(q)) /\ PostDone
  /\ UNCHANGED <<pend, held, limbo>> /\ SetAtt(att)
  /\ UNCHANGED <<urb_vars, ctl_vars, pkts, cur, mlme_vars>>

(* process_recv_indicatepkts passes the frame up: rtw_recv_indicatepkt or  *)
(* amsdu_to_msdu frees it.                                                 *)
IndUp ==
  /\ pc = "ind"
  /\ Gone => ht
  /\ Free({work})
  /\ PostDone /\ UNCHANGED list_vars /\ SetAtt(att)
  /\ UNCHANGED <<urb_vars, ctl_vars, pkts, cur, mlme_vars>>

(* It fails, and the frame recv_func_posthandle was called with is freed:  *)
(* after a reassembly that is one that is free already.                    *)
IndFail ==
  /\ pc = "ind"
  /\ ht # Gone
  /\ IF orig = work THEN Free({work}) ELSE Leak({work})
  /\ PostDone /\ UNCHANGED list_vars /\ SetAtt(att)
  /\ UNCHANGED <<urb_vars, ctl_vars, pkts, cur, mlme_vars>>

(* With ht_option a failure while the driver stops is taken for success.   *)
IndForget ==
  /\ pc = "ind" /\ ht /\ Gone
  /\ Leak({work})
  /\ PostDone /\ UNCHANGED list_vars /\ SetAtt(att)
  /\ UNCHANGED <<urb_vars, ctl_vars, pkts, cur, mlme_vars>>

(* recv_indicatepkt_reorder inserts the frame and indicates those that are *)
(* due; while the driver stops these are taken off the list and nothing    *)
(* else.  The list is the one of the station the frame was validated for,  *)
(* whether or not that has been freed.                                     *)
IndReorder ==
  /\ pc = "ind" /\ ht
  /\ LET list == {work} \cup (IF att[work].old THEN limbo ELSE held)
     IN \E due \in SUBSET list :
          /\ IF Gone THEN Leak(due) ELSE Free(due)
          /\ IF att[work].old THEN limbo' = list \ due /\ UNCHANGED held
                              ELSE held' = list \ due /\ UNCHANGED limbo
  /\ PostDone /\ UNCHANGED <<pend, defrag>> /\ SetAtt(att)
  /\ UNCHANGED <<urb_vars, ctl_vars, pkts, cur, mlme_vars>>

-----------------------------------------------------------------------------
(***************************************************************************)
(* Other contexts.                                                         *)
(***************************************************************************)

(* The reordering timer passes frames up, of the freed station as well.    *)
ReorderTimer ==
  /\ ~Gone
  /\ \/ \E due \in SUBSET held \ {{}} :
          Free(due) /\ held' = held \ due /\ UNCHANGED limbo
     \/ \E due \in SUBSET limbo \ {{}} :
          Free(due) /\ limbo' = limbo \ due /\ UNCHANGED held
  /\ SetAtt(att)
  /\ UNCHANGED <<urb_vars, ctl_vars, pc, pkts, hand_vars, pend, defrag, mlme_vars>>

(* rtw_joinbss_update_stainfo: the entry, the freed one or another, has    *)
(* new lists, and the key is still to come.                                *)
Join ==
  /\ phase = "run" /\ ~Gone /\ ~sta
  /\ sta' = TRUE /\ ht' \in BOOLEAN
  /\ key' \in {FALSE, key}
  /\ limbo' \in {{}, limbo}
  /\ Leak(limbo \ limbo')
  /\ UNCHANGED <<urb_vars, ctl_vars, pc, pkts, hand_vars, pend, defrag, held, att, leave>>

(* wpa_set_encryption withdraws busetkipkey before it installs a TKIP key  *)
(* ...                                                                     *)
Rekey ==
  /\ sta /\ key
  /\ key' = FALSE
  /\ UNCHANGED <<urb_vars, ctl_vars, pc, pkts, hand_vars, list_vars, pool_vars, sta, ht, leave>>

(* ... and rtw_setstakey_cmd sets it, memory permitting.                   *)
SetKey ==
  /\ sta /\ ~key
  /\ key' = TRUE
  /\ UNCHANGED <<urb_vars, ctl_vars, pc, pkts, hand_vars, list_vars, pool_vars, sta, ht, leave>>

(* A disconnection: rtw_free_uc_swdec_pending_queue frees the frames that  *)
(* wait, one by one, ...                                                   *)
LeaveStart ==
  /\ sta /\ leave = "no"
  /\ leave' = "drain"
  /\ UNCHANGED <<urb_vars, ctl_vars, pc, pkts, hand_vars, list_vars, pool_vars, sta, ht, key>>

LeaveDrain ==
  /\ leave = "drain"
  /\ IF pend = <<>>
       THEN leave' = "free" /\ UNCHANGED <<free, leaked, pend>>
       ELSE Free({Head(pend)}) /\ pend' = Tail(pend) /\ UNCHANGED leave
  /\ UNCHANGED <<defrag, held, limbo>> /\ SetAtt(att)
  /\ UNCHANGED <<urb_vars, ctl_vars, pc, pkts, hand_vars, sta, ht, key>>

(* ... and rtw_free_stainfo frees the reordering lists, not defrag_q.      *)
LeaveFree ==
  /\ leave = "free"
  /\ leave' = "no" /\ sta' = FALSE
  /\ free' = free \cup held /\ held' = {}
  /\ leaked' = leaked \cup ToSet(defrag) /\ defrag' = <<>>
  /\ UNCHANGED <<pend, limbo>>
  /\ SetAtt([f \in Frames |-> [att[f] EXCEPT !.old = @ \/ f \in ToSet(pend) \cup {work}]])
  /\ UNCHANGED <<urb_vars, ctl_vars, pc, pkts, hand_vars, ht, key>>

(* rtw_suspend, after the disconnection: rtw_dev_unload ...                *)
Stop ==
  /\ phase = "run" /\ ~Gone /\ ~sta
  /\ stopped' = TRUE /\ phase' = "stopping"
  /\ UNCHANGED <<urb_vars, removed, cancelled, leftover, pc, pkts, hand_vars, list_vars, pool_vars, mlme_vars>>

(* usb_read_port_cancel: usb_kill_urb waits for a completion that runs.    *)
Kill ==
  /\ \A b \in Bufs : urb[b] # "queued"
  /\ cancelled' = TRUE
  /\ urb' = [b \in Bufs |-> "off"]

StopKill ==
  /\ phase = "stopping"
  /\ Kill
  /\ removed' = TRUE /\ phase' = "down"
  /\ UNCHANGED <<rxq, errs, sched, short, stopped, leftover, pc, pkts, hand_vars, list_vars, pool_vars, mlme_vars>>

(* rtw_ips_dev_unload: the driver is not stopped.                          *)
IpsDown ==
  /\ phase = "run" /\ ~Gone /\ ~sta
  /\ Kill
  /\ phase' = "ips"
  /\ UNCHANGED <<rxq, errs, sched, short, stopped, removed, leftover, pc, pkts, hand_vars, list_vars, pool_vars, mlme_vars>>

OpenCancelled ==                       \* mutant: bReadPortCancel stays set
  /\ phase \in {"down", "ips"}
  /\ stopped' = FALSE /\ removed' = FALSE
  /\ phase' = "opening"
  /\ leftover' = (rxq > 0 /\ ~sched /\ pc = "idle")
  /\ UNCHANGED <<urb_vars, cancelled, pc, pkts, hand_vars, list_vars, pool_vars, mlme_vars>>

(* rtw_resume_process, ips_leave: rtw_reset_drv_sw and _netdev_open or     *)
(* ips_netdrv_open reset the flags, not rx_skb_queue ...                   *)
Open ==
  /\ phase \in {"down", "ips"}
  /\ cancelled' = FALSE /\ stopped' = FALSE /\ removed' = FALSE
  /\ phase' = "opening"
  /\ leftover' = (rxq > 0 /\ ~sched /\ pc = "idle")
  /\ UNCHANGED <<urb_vars, pc, pkts, hand_vars, list_vars, pool_vars, mlme_vars>>

(* ... and rtl8723au_inirp_init submits the buffers up to the first that   *)
(* fails.                                                                  *)
Start ==
  /\ phase = "opening"
  /\ phase' = "run"
  /\ \E n \in 0 .. NR_RECVBUFF :
       /\ urb' = [b \in Bufs |-> IF b <= n THEN "bus" ELSE "off"]
       /\ short' = (n < NR_RECVBUFF)
  /\ UNCHANGED <<rxq, errs, sched, stopped, removed, cancelled, leftover, pc, pkts, hand_vars, list_vars, pool_vars, mlme_vars>>

-----------------------------------------------------------------------------
UrbStep == \E b \in Bufs :
  UrbStopped(b) \/ UrbGood(b) \/ UrbQueued(b) \/ UrbShort(b)
  \/ \E status \in {"proto", "dead", "other"} : UrbError(b, status)

PreStep == \E num \in 0 .. MaxFrag, more \in BOOLEAN :
  PreWait(num, more) \/ PreData(num, more)

PostStep ==
  PostRefused \/ PostWhole \/ PostFragment \/ PostJoin
  \/ IndUp \/ IndFail \/ IndForget \/ IndReorder

TaskStep ==
  TaskStart \/ TaskDeq \/ ParseEnd \/ ParseOk \/ DrainTake \/ PreDrop \/ PreStep \/ PostStep

MlmeStep ==
  Join \/ Rekey \/ SetKey \/ LeaveStart \/ LeaveDrain \/ LeaveFree

PowerStep == Stop \/ StopKill \/ IpsDown \/ Open \/ Start

Next == UrbStep \/ TaskStep \/ ReorderTimer \/ MlmeStep \/ PowerStep

Spec == Init /\ [][Next]_vars

(* The tasklet runs once scheduled, completions run, the access point goes *)
(* on sending (beacons, if nothing else), and of what it sends some        *)
(* packets arrive intact.                                                  *)
Fairness ==
  /\ WF_vars(TaskStep)
  /\ WF_vars(\E b \in Bufs : UrbGood(b))
  /\ WF_vars(\E b \in Bufs : UrbQueued(b))
  /\ SF_vars(ParseOk)

FairSpec == Spec /\ Fairness
-----------------------------------------------------------------------------
(* Type correctness.                                                       *)
TypeOK ==
  /\ urb \in [Bufs -> {"off", "bus", "queued"}]
  /\ rxq \in 0 .. MaxRxq /\ errs \in 0 .. MAX_CONTINUAL_URB_ERR + 1
  /\ {sched, stopped, removed, cancelled, sta, ht, key, leftover, short} \subseteq BOOLEAN
  /\ phase \in {"run", "stopping", "down", "ips", "opening"}
  /\ pc \in {"idle", "deq", "parse", "entry", "post", "ind"} /\ pkts \in 0 .. MaxPkts
  /\ {cur, work, orig} \subseteq Frames \cup {NoFrame}
  /\ free \subseteq Frames /\ held \subseteq Frames /\ limbo \subseteq Frames /\ leaked \subseteq Frames
  /\ pend \in Seq(Frames) /\ defrag \in Seq(Frames)
  /\ att \in [Frames -> Attrs]
  /\ leave \in {"no", "drain", "free"}

(* Where a recv_frame can be.                                               *)
Places ==
  <<free, {cur, work} \ {NoFrame}, ToSet(pend), ToSet(defrag), held, limbo, leaked>>

(* Every recv_frame is in exactly one place: the pool, one of the lists or *)
(* the tasklet's hands; the frames that are nowhere were lost on one of    *)
(* the ways the model names (IndFail after a reassembly, IndForget and     *)
(* IndReorder while the driver stops, LeaveFree with fragments, Join over  *)
(* a freed station's list).  The state has its types.                      *)
FramesAccounted ==
  /\ TypeOK
  /\ UNION ToSet(Places) = Frames
  /\ \A i, j \in DOMAIN Places : i # j => Places[i] \cap Places[j] = {}
  /\ cur # work \/ cur = NoFrame
  /\ IsInjective(pend) /\ IsInjective(defrag)

(* While the driver runs, buffers in rx_skb_queue have a tasklet that will *)
(* look at them, although a completion schedules it for the first of them  *)
(* only; a restart over a queue that was left behind is the exception.     *)
TaskletAwake ==
  rxq > 0 /\ ~Gone /\ ~leftover /\ (\A b \in Bufs : urb[b] # "queued")
    => sched \/ pc # "idle"

(* As long as no buffer was given up for lack of memory or for an error    *)
(* status the completion does not handle, all of them are on the bus while *)
(* the interface runs, over any number of suspends and IPS cycles.         *)
BusFed ==
  phase = "run" /\ ~Gone /\ ~short => \A b \in Bufs : urb[b] # "off"

(* Reception has ended.                                                    *)
Deaf ==
  \/ (free = {} /\ cur = NoFrame /\ work = NoFrame)
  \/ Gone \/ cancelled \/ leftover
  \/ \A b \in Bufs : urb[b] = "off"

(* Frames that wait for the key are worked off once it is there, unless    *)
(* reception has ended: all frames wait somewhere, no buffer is on the     *)
(* bus, the driver stops, or nobody looks at the queue.                    *)
PendingLeaves == pend # <<>> /\ key ~> pend = <<>> \/ ~key \/ Deaf
=============================================================================
