------------------------------ MODULE RxReorder ------------------------------
(***************************************************************************)
(* The A-MPDU receive reordering buffer of one (station, TID) pair: struct *)
(* recv_reorder_ctrl with its pending_recvframe_queue and its              *)
(* reordering_ctrl_timer.                                                  *)
(*                                                                         *)
(* Four contexts of the driver act on it:                                  *)
(*   rx     the receive tasklet: data frames (recv_indicatepkt_reorder)    *)
(*          and block-ack action frames (OnAction_back); one at a time;    *)
(*   timer  reordering_ctrl_timer, which may run on another CPU;           *)
(*   delba  send_delba in process context (ap_free_sta, add/remove of a    *)
(*          station), which writes the structure without taking its lock;  *)
(*   free   rtw_free_stainfo, called with sta_hash_lock held.              *)
(*                                                                         *)
(* A frame is its 12-bit sequence number: the driver keeps at most one     *)
(* buffered frame per number.  The numbers and the window keep the widths  *)
(* of the code.  Frames that bypass the buffer (non-QoS, ARP, no-ack       *)
(* policy) touch none of this state and are left out.                      *)
(***************************************************************************)
EXTENDS Integers, Sequences

CONSTANTS
  Seqs,          \* sequence numbers that may arrive in data frames
  NR_RECVFRAME,  \* frames in the receive pool, which bounds the buffer
  ApMode,        \* WIFI_AP_STATE: send_delba is reachable
  Relayed        \* frames addressed to another station of this access point

ASSUME SeqsAssumption == Seqs \subseteq 0 .. 4095
ASSUME PoolAssumption == NR_RECVFRAME \in Nat \ {0}
ASSUME ApModeAssumption ==
  /\ ApMode \in BOOLEAN
  /\ Relayed \subseteq Seqs
  /\ Relayed # {} => ApMode

VARIABLES
  enable,        \* preorder_ctrl->enable
  indicate_seq,  \* preorder_ctrl->indicate_seq (WinStart), 0xFFFF when unset
  wr,            \* the value the lock holder computed and is about to store
                 \* in indicate_seq, NoSeq when there is none
  pending,       \* pending_recvframe_queue, head first
  lock,          \* who holds pending_recvframe_queue.lock
  hash_lock,     \* who holds pstapriv->sta_hash_lock
  armed,         \* reordering_ctrl_timer is queued in the kernel
  timer_pc,      \* control point of the timer handler
  rx_pc,         \* control point of recv_indicatepkt_reorder
  rx_seq,        \* the frame the tasklet is handling, or its register
  delba_pc,      \* control point of send_delba
  free_pc,       \* control point of rtw_free_stainfo
  stopped,       \* bDriverStopped or bSurpriseRemoved
  last,          \* history: last number taken off the list, or NoSeq
  stale          \* history: the list holds frames older than indicate_seq

vars == <<enable, indicate_seq, wr, pending, lock, hash_lock, armed, timer_pc,
          rx_pc, rx_seq, delba_pc, free_pc, stopped, last, stale>>

ctrl == <<enable, indicate_seq, wr, pending>>
others == <<hash_lock, delba_pc, free_pc, stopped>>

WSize == 64            \* wsize_b
SeqInit == 65535       \* 0xFFFF: "Rx Reorder initialize condition"
NoSeq == -1            \* no number: in wr, and in last after a reset
SeqNum == 0 .. 4095

(***************************************************************************)
(* SN_LESS and SN_EQUAL of rtw_recv.h: bit 0x800 of the difference.  The   *)
(* sentinel 0xFFFF takes part in this arithmetic as the number it is.      *)
(***************************************************************************)
Dist(a, b) == (b - a) % 4096
SN_LESS(a, b) == (a - b) % 4096 >= 2048
SN_EQUAL(a, b) == a = b

Wend(ind) == (ind + WSize - 1) % 4096

(* Where a frame beyond the window end moves the window start to.          *)
ShiftToNoWrap(s) == s + 1 - WSize      \* mutant: boundary case forgotten
ShiftToLate(s) == (s - WSize) % 4096   \* mutant: off by one
ShiftTo(s) == IF s >= WSize - 1 THEN s + 1 - WSize ELSE 4095 - (WSize - (s + 1)) + 1

(* check_indicate_seq: whether frame s is accepted, and the window start   *)
(* it leaves.  wend is computed before the initialisation of the start.    *)
InitSeq(ind, s) == IF ind = SeqInit THEN s ELSE ind
AcceptsAlways(ind, s) == TRUE          \* mutant: old frames not dropped
Accepts(ind, s) == ~SN_LESS(s, InitSeq(ind, s))
NextIndicate(ind, s) ==
  LET start == InitSeq(ind, s) IN
  CASE SN_EQUAL(s, start)                             -> (start + 1) % 4096
    [] ~SN_EQUAL(s, start) /\ SN_LESS(Wend(ind), s)   -> ShiftTo(s)
    [] OTHER                                          -> start

(* The list scan of enqueue_reorder_recvframe stops at the first frame     *)
(* that is not less than s.                                                *)
ScanStop(q, s, k) ==
  /\ k \in 1 .. Len(q) + 1
  /\ \A i \in 1 .. k - 1 : SN_LESS(q[i], s)
  /\ k <= Len(q) => ~SN_LESS(q[k], s)

Insert(q, s, k) ==
  [i \in 1 .. Len(q) + 1 |-> IF i < k THEN q[i] ELSE IF i = k THEN s ELSE q[i - 1]]

(* What rtw_recv_indicatepkt needs: the destination of a relayed frame is  *)
(* looked up with rtw_get_stainfo, under sta_hash_lock.                    *)
CanIndicate(s) == s \in Relayed => hash_lock = "none"

-----------------------------------------------------------------------------
Init ==
  /\ enable = FALSE
  /\ indicate_seq = SeqInit
  /\ wr = NoSeq
  /\ pending = <<>>
  /\ lock = "none"
  /\ hash_lock = "none"
  /\ armed = FALSE
  /\ timer_pc = "idle"
  /\ rx_pc = "idle"
  /\ rx_seq = 0
  /\ delba_pc = "idle"
  /\ free_pc = "idle"
  /\ stopped = FALSE
  /\ last = NoSeq
  /\ stale = FALSE

(***************************************************************************)
(* The receive tasklet.                                                    *)
(***************************************************************************)

(* A data frame reaches recv_indicatepkt_reorder: its station was found in *)
(* the hash table (so rtw_free_stainfo has not unlinked it), and the code  *)
(* tests enable without the lock.  The frame came out of free_recv_queue.  *)
RxFrame(s) ==
  /\ rx_pc = "idle" /\ hash_lock = "none" /\ free_pc = "idle"
  /\ Len(pending) < NR_RECVFRAME
  /\ rx_seq' = s
  /\ rx_pc' = IF enable THEN "lock" ELSE "direct"
  /\ UNCHANGED <<ctrl, lock, armed, timer_pc, last, stale, others>>

(* enable == _FALSE: the start moves to the frame, which goes straight up, *)
(* and then past it: a store, a load and a store, all without the lock.    *)
RxDirect ==
  /\ rx_pc = "direct"
  /\ indicate_seq' = rx_seq
  /\ stale' = (pending # <<>>)
  /\ last' = NoSeq
  /\ rx_pc' = "load"
  /\ UNCHANGED <<enable, wr, pending, lock, armed, timer_pc, rx_seq, others>>

RxLoad ==
  /\ rx_pc = "load" /\ CanIndicate(rx_seq)
  /\ rx_seq' = indicate_seq
  /\ rx_pc' = "store"
  /\ UNCHANGED <<ctrl, lock, armed, timer_pc, last, stale, others>>

RxStore ==
  /\ rx_pc = "store"
  /\ indicate_seq' = (rx_seq + 1) % 4096
  /\ stale' = (pending # <<>>)
  /\ last' = NoSeq
  /\ rx_pc' = "idle"
  /\ UNCHANGED <<enable, wr, pending, lock, armed, timer_pc, rx_seq, others>>

(* s2: take the lock; check_indicate_seq drops s or computes the start.    *)
RxCheck ==
  /\ rx_pc = "lock" /\ lock = "none"
  /\ \/ /\ ~Accepts(indicate_seq, rx_seq)
        /\ rx_pc' = "idle"
        /\ UNCHANGED <<wr, lock>>
     \/ /\ Accepts(indicate_seq, rx_seq)
        /\ LET start == NextIndicate(indicate_seq, rx_seq) IN
             wr' = IF start = indicate_seq THEN NoSeq ELSE start
        /\ lock' = "rx"
        /\ rx_pc' = "enqueue"
  /\ UNCHANGED <<enable, indicate_seq, pending, armed, timer_pc, rx_seq, last, stale, others>>

(* s3: insert in order, or drop a duplicate and leave.                     *)
RxEnqueue ==
  /\ rx_pc = "enqueue" /\ wr = NoSeq
  /\ \E k \in 1 .. Len(pending) + 1 :
       /\ ScanStop(pending, rx_seq, k)
       /\ \/ /\ k <= Len(pending) /\ SN_EQUAL(pending[k], rx_seq)
             /\ lock' = "none"
             /\ rx_pc' = "idle"
             /\ UNCHANGED pending
          \/ /\ k <= Len(pending) => ~SN_EQUAL(pending[k], rx_seq)
             /\ pending' = Insert(pending, rx_seq, k)
             /\ rx_pc' = "indicate"
             /\ UNCHANGED lock
  /\ UNCHANGED <<enable, indicate_seq, wr, armed, timer_pc, rx_seq, last, stale, others>>

(***************************************************************************)
(* One turn of the loop of recv_indicatepkts_in_order: the head leaves the *)
(* list when it is not beyond the window start.                            *)
(***************************************************************************)
HeadDue == wr = NoSeq /\ pending # <<>> /\ ~SN_LESS(indicate_seq, Head(pending))

IndicateHead ==
  /\ HeadDue /\ CanIndicate(Head(pending))
  /\ pending' = Tail(pending)
  /\ wr' = IF SN_EQUAL(indicate_seq, Head(pending))
             THEN (indicate_seq + 1) % 4096 ELSE NoSeq
  /\ last' = IF stale THEN NoSeq ELSE Head(pending)
  /\ stale' = (stale /\ Tail(pending) # <<>>)
  /\ UNCHANGED <<enable, indicate_seq, rx_seq, others>>

(* The second half of the lock holder's read-modify-write of indicate_seq. *)
(* The contexts that store to it without the lock may come in between.     *)
WriteBack ==
  /\ indicate_seq' = wr
  /\ wr' = NoSeq
  /\ UNCHANGED <<enable, pending, lock, armed, timer_pc, rx_pc, rx_seq, last, stale, others>>

RxWrite == lock = "rx" /\ wr # NoSeq /\ WriteBack

RxIndicate ==
  /\ rx_pc = "indicate"
  /\ IndicateHead
  /\ UNCHANGED <<lock, armed, timer_pc, rx_pc>>

(* s4, frames left behind: arm the timer and unlock.                       *)
RxArm ==
  /\ rx_pc = "indicate" /\ wr = NoSeq /\ pending # <<>> /\ ~HeadDue
  /\ armed' = TRUE
  /\ lock' = "none"
  /\ rx_pc' = "idle"
  /\ UNCHANGED <<ctrl, timer_pc, rx_seq, last, stale, others>>

(* s4, buffer empty: unlock first, then del_timer_sync.                    *)
RxEmpty ==
  /\ rx_pc = "indicate" /\ wr = NoSeq /\ pending = <<>>
  /\ lock' = "none"
  /\ rx_pc' = "cancel"
  /\ UNCHANGED <<ctrl, armed, timer_pc, rx_seq, last, stale, others>>

RxCancel ==
  /\ rx_pc = "cancel" /\ timer_pc = "idle"
  /\ armed' = FALSE
  /\ rx_pc' = "idle"
  /\ UNCHANGED <<ctrl, lock, timer_pc, rx_seq, last, stale, others>>

(* OnAction_back, ADDBA request: process_addba_req; ok is bAcceptAddbaReq. *)
RxAddba(ok) ==
  /\ rx_pc = "idle" /\ hash_lock = "none" /\ free_pc = "idle"
  /\ indicate_seq' = SeqInit
  /\ enable' = ok
  /\ stale' = (pending # <<>>)
  /\ last' = NoSeq
  /\ UNCHANGED <<wr, pending, lock, armed, timer_pc, rx_pc, rx_seq, others>>

(* OnAction_back, DELBA from the originator.                               *)
RxDelba ==
  /\ rx_pc = "idle" /\ hash_lock = "none" /\ free_pc = "idle"
  /\ enable' = FALSE
  /\ indicate_seq' = SeqInit
  /\ stale' = (pending # <<>>)
  /\ last' = NoSeq
  /\ UNCHANGED <<wr, pending, lock, armed, timer_pc, rx_pc, rx_seq, others>>

(***************************************************************************)
(* reordering_ctrl_timer.                                                  *)
(***************************************************************************)
TimerFire ==
  /\ armed /\ timer_pc = "idle"
  /\ armed' = FALSE
  /\ timer_pc' = IF stopped THEN "idle" ELSE "lock"
  /\ UNCHANGED <<ctrl, lock, rx_pc, rx_seq, last, stale, others>>

(* recv_indicatepkts_in_order(bforced): the window start jumps to the head *)
(* of the list; an empty list returns _TRUE, so the handler arms again.    *)
TimerForceNot ==                       \* mutant: bforced ignored
  /\ timer_pc = "lock" /\ lock = "none"
  /\ lock' = "timer"
  /\ timer_pc' = "indicate"
  /\ UNCHANGED <<enable, indicate_seq, wr, pending, armed, rx_pc, rx_seq, last, stale, others>>

TimerForce ==
  /\ timer_pc = "lock" /\ lock = "none"
  /\ \/ /\ pending = <<>>
        /\ armed' = TRUE
        /\ timer_pc' = "idle"
        /\ UNCHANGED <<indicate_seq, lock>>
     \/ /\ pending # <<>>
        /\ indicate_seq' = Head(pending)
        /\ lock' = "timer"
        /\ timer_pc' = "indicate"
        /\ UNCHANGED armed
  /\ UNCHANGED <<enable, wr, pending, rx_pc, rx_seq, last, stale, others>>

TimerWrite == lock = "timer" /\ wr # NoSeq /\ WriteBack

TimerIndicate ==
  /\ timer_pc = "indicate"
  /\ IndicateHead
  /\ UNCHANGED <<lock, armed, timer_pc, rx_pc>>

TimerDoneNoArm ==                      \* mutant: remaining frames forgotten
  /\ timer_pc = "indicate" /\ wr = NoSeq /\ ~HeadDue
  /\ lock' = "none"
  /\ timer_pc' = "idle"
  /\ UNCHANGED <<ctrl, armed, rx_pc, rx_seq, last, stale, others>>

TimerDone ==
  /\ timer_pc = "indicate" /\ wr = NoSeq /\ ~HeadDue
  /\ armed' = (armed \/ pending # <<>>)
  /\ lock' = "none"
  /\ timer_pc' = "idle"
  /\ UNCHANGED <<ctrl, rx_pc, rx_seq, last, stale, others>>

(***************************************************************************)
(* send_delba(initiator = 0), process context of an access point: two      *)
(* stores without the lock.                                                *)
(***************************************************************************)
DelbaDisable ==
  /\ ApMode /\ delba_pc = "idle" /\ free_pc = "idle" /\ enable
  /\ enable' = FALSE
  /\ delba_pc' = "reset"
  /\ UNCHANGED <<indicate_seq, wr, pending, lock, hash_lock, armed, timer_pc,
                 rx_pc, rx_seq, free_pc, stopped, last, stale>>

DelbaReset ==
  /\ delba_pc = "reset"
  /\ indicate_seq' = SeqInit
  /\ stale' = (pending # <<>> \/ rx_pc = "enqueue")
  /\ last' = NoSeq
  /\ delba_pc' = "idle"
  /\ UNCHANGED <<enable, wr, pending, lock, hash_lock, armed, timer_pc,
                 rx_pc, rx_seq, free_pc, stopped>>

(***************************************************************************)
(* rtw_free_stainfo, under sta_hash_lock: unlink the station, cancel the   *)
(* timer synchronously, then empty the list under its lock.                *)
(***************************************************************************)
FreeEnter ==
  /\ free_pc = "idle" /\ hash_lock = "none" /\ delba_pc = "idle"
  /\ hash_lock' = "free"
  /\ free_pc' = "cancel"
  /\ UNCHANGED <<ctrl, lock, armed, timer_pc, rx_pc, rx_seq, delba_pc, stopped, last, stale>>

FreeCancel ==
  /\ free_pc = "cancel" /\ timer_pc = "idle"
  /\ armed' = FALSE
  /\ free_pc' = "drain"
  /\ UNCHANGED <<ctrl, lock, hash_lock, timer_pc, rx_pc, rx_seq, delba_pc, stopped, last, stale>>

FreeDrain ==
  /\ free_pc = "drain" /\ lock = "none"
  /\ pending' = <<>>
  /\ hash_lock' = "none"
  /\ free_pc' = "freed"
  /\ last' = NoSeq
  /\ stale' = FALSE
  /\ UNCHANGED <<enable, indicate_seq, wr, lock, armed, timer_pc, rx_pc, rx_seq,
                 delba_pc, stopped>>

(* rtw_alloc_stainfo hands the structure to the next station.  Followed    *)
(* only when no handler of the old station is still inside it; a timer     *)
(* such a handler left queued stays queued.                                *)
StaAlloc ==
  /\ free_pc = "freed" /\ hash_lock = "none"
  /\ rx_pc = "idle" /\ timer_pc = "idle"
  /\ enable' = FALSE
  /\ indicate_seq' = SeqInit
  /\ pending' = <<>>
  /\ free_pc' = "idle"
  /\ last' = NoSeq
  /\ stale' = FALSE
  /\ UNCHANGED <<wr, lock, hash_lock, armed, timer_pc, rx_pc, rx_seq, delba_pc, stopped>>

(* Device removal, an I/O error or the interface going down.               *)
Stop ==
  /\ ~stopped
  /\ stopped' = TRUE
  /\ UNCHANGED <<ctrl, lock, hash_lock, armed, timer_pc, rx_pc, rx_seq,
                 delba_pc, free_pc, last, stale>>

-----------------------------------------------------------------------------
Rx ==
  \/ RxDirect \/ RxLoad \/ RxStore
  \/ RxCheck \/ RxWrite \/ RxEnqueue \/ RxIndicate \/ RxArm \/ RxEmpty \/ RxCancel

Timer == TimerFire \/ TimerForce \/ TimerWrite \/ TimerIndicate \/ TimerDone

Next ==
  \/ \E s \in Seqs : RxFrame(s)
  \/ \E ok \in BOOLEAN : RxAddba(ok)
  \/ RxDelba
  \/ Rx
  \/ Timer
  \/ DelbaDisable \/ DelbaReset
  \/ FreeEnter \/ FreeCancel \/ FreeDrain \/ StaAlloc
  \/ Stop

Spec == Init /\ [][Next]_vars

(***************************************************************************)
(* Softirqs run to completion and kernel timers expire.  Strong fairness   *)
(* where a context waits for another: spin locks are ticket locks, and     *)
(* del_timer_sync returns between two runs of a handler 50 ms apart.       *)
(* Frames and process-context calls may never come.                        *)
(***************************************************************************)
Fairness == SF_vars(Rx) /\ SF_vars(Timer) /\ SF_vars(FreeCancel \/ FreeDrain)

FairSpec == Spec /\ Fairness

-----------------------------------------------------------------------------
(* The state is well-typed: indicate_seq is a 12-bit number or 0xFFFF, and *)
(* only 12-bit numbers are buffered.                                       *)
TypeOK ==
  /\ enable \in BOOLEAN
  /\ indicate_seq \in SeqNum \cup {SeqInit}
  /\ wr \in SeqNum \cup {NoSeq}
  /\ pending \in Seq(SeqNum)
  /\ lock \in {"none", "rx", "timer"}
  /\ hash_lock \in {"none", "free"}
  /\ armed \in BOOLEAN
  /\ timer_pc \in {"idle", "lock", "indicate"}
  /\ rx_pc \in {"idle", "direct", "load", "store", "lock", "enqueue", "indicate", "cancel"}
  /\ rx_seq \in SeqNum \cup {SeqInit}
  /\ delba_pc \in {"idle", "reset"}
  /\ free_pc \in {"idle", "cancel", "drain", "freed"}
  /\ stopped \in BOOLEAN
  /\ last \in SeqNum \cup {NoSeq}
  /\ stale \in BOOLEAN

(* Signed distance of s from a window start.                              *)
Off(start, s) == ((s - start + 2048) % 4096) - 2048

Within(start, q, lo, hi) ==
  \A i \in 1 .. Len(q) : lo <= Off(start, q[i]) /\ Off(start, q[i]) <= hi
Sorted(start, q) ==
  \A i, j \in 1 .. Len(q) : i < j => Off(start, q[i]) < Off(start, q[j])

(* Whenever the lock is free and no reset left old frames behind, the list *)
(* of pending_recvframe_queue is strictly sorted modulo 4096 and lies      *)
(* inside the 64-frame window, past its start: what the insertion scan and *)
(* the indication loop take for granted, across every wrap of the number,  *)
(* every window shift and every forced indication.                         *)
WindowSorted ==
  lock = "none" /\ ~stale /\ pending # <<>> =>
    /\ indicate_seq # SeqInit
    /\ Within(indicate_seq, pending, 1, WSize - 1)
    /\ Sorted(indicate_seq, pending)

(* The buffer implements RxDelivery: whichever of the tasklet and the      *)
(* timer hands it up, a frame leaves the list of one block-ack session     *)
(* once, after all earlier ones, and one that comes after a later one was  *)
(* handed up is not taken in.                                              *)
Delivery == INSTANCE RxDelivery
  WITH Frames <- Seqs, held <- {pending[i] : i \in 1 .. Len(pending)}, mixed <- stale
DeliversInOrder == Delivery!Spec

(* A frame may only wait in the buffer while something will come for it:   *)
(* the timer is queued or its handler is about to take the lock, or the    *)
(* station is being freed, or the driver is stopped.                       *)
TimerCoversPending ==
  pending # <<>> /\ lock = "none" =>
    armed \/ timer_pc = "lock" \/ free_pc = "drain" \/ stopped

(* rtw_free_stainfo holds sta_hash_lock and waits for a handler that needs *)
(* this lock to relay the frame at the head of the list.                   *)
LockCycle ==
  /\ HeadDue /\ ~CanIndicate(Head(pending))
  /\ \/ free_pc = "cancel" /\ timer_pc # "idle"
     \/ free_pc = "drain" /\ lock # "none"

(* A gap in the numbers delays a frame, it never strands it: every         *)
(* buffered frame leaves the buffer, unless the driver is stopped, the     *)
(* session is reset under it (ADDBA and DELBA do not touch the buffer) or  *)
(* relaying and rtw_free_stainfo wait for each other.                      *)
Buffered(s) == \E i \in 1 .. Len(pending) : pending[i] = s
EveryFrameLeaves ==
  \A s \in Seqs : Buffered(s) ~> (~Buffered(s) \/ stale \/ stopped \/ LockCycle)

-----------------------------------------------------------------------------
(***************************************************************************)
(* The inductive invariant behind WindowSorted, DeliversInOrder and        *)
(* TimerCoversPending.  Start is the window start as its owner sees it.    *)
(***************************************************************************)
Start == IF wr # NoSeq THEN wr ELSE indicate_seq
Pos(s) == Off(Start, s)

(* Which control points own the lock, and what they carry.                 *)
LockInv ==
  /\ lock = "rx" <=> rx_pc \in {"enqueue", "indicate"}
  /\ lock = "timer" <=> timer_pc = "indicate"
  /\ wr # NoSeq => lock # "none"
  /\ rx_pc \in {"direct", "load", "lock", "enqueue"} => rx_seq \in SeqNum
  /\ stale => last = NoSeq

(* The three ways check_indicate_seq accepts rx_seq: at the start, inside  *)
(* the window, or beyond it.                                               *)
EnqueueInv ==
  \/ Pos(rx_seq) = -1 /\ Within(Start, pending, 0, 63)
  \/ 1 <= Pos(rx_seq) /\ Pos(rx_seq) <= 63 /\ Within(Start, pending, 1, 63)
  \/ Pos(rx_seq) = 63 /\ Within(Start, pending, -1983, 62)

(* The list is sorted by position; how far behind the start it may reach   *)
(* depends on who is working on it.                                        *)
SortedInv ==
  ~stale =>
    /\ pending # <<>> \/ rx_pc = "enqueue" => Start # SeqInit
    /\ Sorted(Start, pending)
    /\ Within(Start, pending, -1983, 63)
    /\ lock = "none" => Within(Start, pending, 1, 63)
    /\ lock = "timer" => Within(Start, pending, 0, 63)
    /\ rx_pc = "indicate" /\ pending # <<>> => Pos(pending[Len(pending)]) >= -1
    /\ rx_pc = "enqueue" => EnqueueInv

(* How far the last frame handed up lies behind the start and the head of  *)
(* the list: never so far that SN_LESS would turn around.                  *)
Gap == Dist(last, Start)
OrderInv ==
  last # NoSeq =>
    /\ Start # SeqInit
    /\ Gap >= 1
    /\ pending # <<>> => 1 <= Gap + Pos(pending[1]) /\ Gap + Pos(pending[1]) <= 2048
    /\ rx_pc = "enqueue" => Gap + Pos(rx_seq) >= 1
    /\ rx_pc = "enqueue" /\ pending = <<>> => Gap + Pos(rx_seq) <= 2048
    /\ rx_pc # "enqueue" /\ pending = <<>> => Gap = 1

(* Something will come for a buffered frame, also while the tasklet holds  *)
(* the lock to insert another one.                                         *)
CoverInv ==
  /\ pending # <<>> /\ (lock = "none" \/ rx_pc = "enqueue") =>
       armed \/ timer_pc = "lock" \/ free_pc = "drain" \/ stopped
  /\ rx_pc = "cancel" => pending = <<>>

(* What is buffered, or about to be, arrived.                              *)
SeenInv ==
  /\ \A i \in 1 .. Len(pending) : pending[i] \in Seqs
  /\ rx_pc \in {"direct", "load", "lock", "enqueue"} => rx_seq \in Seqs

IInv == TypeOK /\ LockInv /\ SortedInv /\ OrderInv /\ CoverInv /\ SeenInv
=============================================================================
