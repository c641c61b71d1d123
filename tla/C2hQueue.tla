------------------------------ MODULE C2hQueue ------------------------------
(***************************************************************************)
(* Firmware events (C2H): the interrupt URB's completion pushes them into  *)
(* the lock-free ring evtpriv.c2h_queue and schedules c2h_wk, whose        *)
(* callback pops them, closes the firmware's mailbox and passes them on to *)
(* the command thread; the teardown ends that thread, cancels the work and *)
(* drains the ring.                                                        *)
(*                                                                         *)
(* An event is its number in the order of posting; its kind says how the   *)
(* completion treats it: a ccx report is handled at once and leaves the    *)
(* special pointer in the ring, a normal event is copied to a buffer of    *)
(* its own, and when that allocation fails ("nomem") NULL is pushed and    *)
(* the worker reads the mailbox itself.                                    *)
(***************************************************************************)
EXTENDS Integers, Sequences

CONSTANTS
  Size,      \* C2H_QUEUE_MAX_LEN + 1
  MaxEvents, \* bound on the events the firmware posts
  Kinds,     \* kinds of events, as the completion treats them
  Burst      \* events the interrupt pipe delivers ahead of the worker

ASSUME SizeAssumption == Size \in Nat /\ Size > 1
ASSUME MaxEventsAssumption == MaxEvents \in Nat
ASSUME KindsAssumption == Kinds \subseteq {"ccx", "normal", "nomem"}
ASSUME BurstAssumption == Burst \in Nat \ {0}

VARIABLES
  bufs, read, write,  \* the rtw_cbuf
  gated,              \* the firmware waits for its mailbox to be closed
  mailbox,            \* REG_C2HEVT_CLEAR: "host" (closed by the host) or "fw"
  sent,               \* events posted so far; the mailbox holds the last one
  irq_pc, ev, ev_kind,\* the interrupt completion and the event it carries
  work,               \* c2h_wk is pending
  wk_pc, got,         \* the worker and the entry it popped
  handled,            \* history: events the worker was done with, in order
  cmd_pc,             \* rtw_cmd_thread: "run", "drain" (its loop has ended) or "gone"
  passed,             \* events that wait as C2H_WK_CID commands in cmd_queue
  live,               \* events whose 16-byte buffer is allocated
  leaked,             \* history: buffers whose command was never handled
  stored,             \* history: entries pushed and not popped
  lost,               \* history: no room in the ring, or mailbox read too late
  stopped,            \* bDriverStopped or bSurpriseRemoved
  down                \* _rtw_free_evt_priv has begun

ring_vars == <<bufs, read, write, stored, lost>>
irq_vars == <<irq_pc, ev, ev_kind>>
cmd_vars == <<cmd_pc, passed, leaked>>
vars == <<ring_vars, irq_vars, cmd_vars, mailbox, sent, work, wk_pc, got, handled, live, stopped,
          down, gated>>

-----------------------------------------------------------------------------
Init ==
  /\ bufs = [i \in 0 .. Size - 1 |-> 0]
  /\ read = 0 /\ write = 0 /\ stored = 0 /\ lost = FALSE
  /\ gated \in BOOLEAN /\ mailbox = "host" /\ sent = 0
  /\ irq_pc = "idle" /\ ev = 0 /\ ev_kind = "normal"
  /\ work = FALSE /\ wk_pc = "idle" /\ got = 0
  /\ handled = <<>> /\ live = {}
  /\ cmd_pc = "run" /\ passed = <<>> /\ leaked = {}
  /\ stopped = FALSE /\ down = FALSE

(* Entries of the ring: the buffer of an event n is n, the special pointer *)
(* is -1 and NULL is 0.                                                    *)
SpecialPtr == -1
Null == 0

(* rtw_cbuf.  The indices are u32: for read = 0, read-1 is 2^32 - 1, which *)
(* no index equals.                                                        *)
CbufFull == read > 0 /\ write = read - 1
CbufEmpty == write = read

(***************************************************************************)
(* The firmware and usb_read_interrupt_complete.                           *)
(***************************************************************************)

(* The interrupt transfer of an event completes.                           *)
Post(k) ==
  /\ irq_pc = "idle" /\ sent < MaxEvents /\ ~stopped
  /\ stored < Burst
  /\ gated => mailbox = "host"
  /\ sent' = sent + 1
  /\ mailbox' = "fw"
  /\ ev' = sent + 1
  /\ ev_kind' = k
  /\ irq_pc' = "check"
  /\ UNCHANGED <<cmd_vars, ring_vars, work, wk_pc, got, handled, live, stopped, down,
                 gated>>

(* A completion that finds the driver stopped returns, and its URB is not  *)
(* submitted again.                                                        *)
IrqCheck ==
  /\ irq_pc = "check"
  /\ \/ /\ stopped
        /\ irq_pc' = "idle"
        /\ UNCHANGED live
     \/ /\ ~stopped
        /\ irq_pc' = "push"
        /\ live' = IF ev_kind = "normal" THEN live \cup {ev} ELSE live
  /\ UNCHANGED <<ring_vars, ev, ev_kind, cmd_vars, mailbox, sent, work, wk_pc, got,
                 handled, stopped, down, gated>>

Entry == IF ev_kind = "ccx" THEN SpecialPtr
         ELSE IF ev_kind = "normal" THEN ev ELSE Null

(* rtw_cbuf_push, up to the store of the entry.                            *)
IrqPush ==
  /\ irq_pc = "push"
  /\ \/ /\ CbufFull
        /\ irq_pc' = "sched" /\ lost' = TRUE
        /\ UNCHANGED bufs
     \/ /\ ~CbufFull
        /\ bufs' = [bufs EXCEPT ![write] = Entry]
        /\ irq_pc' = "bump"
        /\ UNCHANGED lost
  /\ UNCHANGED <<read, write, stored, ev, ev_kind, cmd_vars, mailbox, sent, work,
                 wk_pc, got, handled, live, stopped, down, gated>>

IrqBump ==
  /\ irq_pc = "bump"
  /\ write' = (write + 1) % Size
  /\ stored' = stored + 1
  /\ lost' = (lost \/ stored' = Size)
  /\ irq_pc' = "sched"
  /\ UNCHANGED <<bufs, read, ev, ev_kind, cmd_vars, mailbox, sent, work, wk_pc, got,
                 handled, live, stopped, down, gated>>

(* schedule_work, and the URB is submitted again.                          *)
IrqSchedule ==
  /\ irq_pc = "sched"
  /\ work' = TRUE
  /\ irq_pc' = "idle"
  /\ UNCHANGED <<ring_vars, ev, ev_kind, cmd_vars, mailbox, sent, wk_pc, got,
                 handled, live, stopped, down, gated>>

(***************************************************************************)
(* c2h_wk_callback.                                                        *)
(***************************************************************************)
WkStart ==
  /\ wk_pc = "idle" /\ work
  /\ work' = FALSE
  /\ wk_pc' = "test"
  /\ UNCHANGED <<ring_vars, irq_vars, cmd_vars, mailbox, sent, got, handled, live,
                 stopped, down, gated>>

WkTest ==
  /\ wk_pc = "test"
  /\ wk_pc' = IF CbufEmpty THEN "end" ELSE "pop"
  /\ UNCHANGED <<ring_vars, irq_vars, cmd_vars, mailbox, sent, work, got, handled,
                 live, stopped, down, gated>>

(* The callback returns: until then a schedule_work makes it run again.    *)
WkEnd ==
  /\ wk_pc = "end"
  /\ wk_pc' = "idle"
  /\ UNCHANGED <<ring_vars, irq_vars, cmd_vars, mailbox, sent, work, got, handled,
                 live, stopped, down, gated>>

(* rtw_cbuf_pop.                                                           *)
WkPop ==
  /\ wk_pc = "pop"
  /\ got' = bufs[read]
  /\ wk_pc' = "bump"
  /\ UNCHANGED <<ring_vars, irq_vars, cmd_vars, mailbox, sent, work, handled, live,
                 stopped, down, gated>>

WkBump ==
  /\ wk_pc = "bump"
  /\ read' = (read + 1) % Size
  /\ stored' = stored - 1
  /\ wk_pc' = "clear"
  /\ UNCHANGED <<bufs, write, lost, irq_vars, cmd_vars, mailbox, sent, work, got,
                 handled, live, stopped, down, gated>>

(* c2h_evt_clear for an entry that was read.  For NULL the worker          *)
(* allocates a buffer and calls c2h_evt_read, which fails on a closed      *)
(* mailbox: the buffer (0 in live) is then left behind.                    *)
Newer == stored > 0 \/ irq_pc \in {"check", "push", "bump"}  \* events after this one

WkClearKeeps ==                    \* mutant: a special entry returns without closing
  /\ wk_pc = "clear"
  /\ mailbox' = IF got = SpecialPtr THEN mailbox ELSE "host"
  /\ \/ /\ got # Null
        /\ wk_pc' = IF got = SpecialPtr THEN "test" ELSE "pass"
        /\ UNCHANGED <<got, live, lost>>
     \/ /\ got = Null /\ mailbox = "fw"
        /\ got' = sent
        /\ live' = live \cup {sent}
        /\ lost' = (lost \/ Newer)
        /\ wk_pc' = IF ev_kind = "ccx" THEN "handle" ELSE "pass"
     \/ /\ got = Null /\ mailbox = "host"
        /\ live' = live \cup {Null}
        /\ lost' = TRUE
        /\ wk_pc' = "test"
        /\ UNCHANGED got
  /\ UNCHANGED <<bufs, read, write, stored, irq_vars, cmd_vars, sent, work, handled,
                 stopped, down, gated>>

WkClear ==
  /\ wk_pc = "clear"
  /\ mailbox' = "host"
  /\ \/ /\ got # Null
        /\ wk_pc' = IF got = SpecialPtr THEN "test" ELSE "pass"
        /\ UNCHANGED <<got, live, lost>>
     \/ /\ got = Null /\ mailbox = "fw"
        /\ got' = sent
        /\ live' = live \cup {sent}
        /\ lost' = (lost \/ Newer)
        /\ wk_pc' = IF ev_kind = "ccx" THEN "handle" ELSE "pass"
     \/ /\ got = Null /\ mailbox = "host"
        /\ live' = live \cup {Null}
        /\ lost' = TRUE
        /\ wk_pc' = "test"
        /\ UNCHANGED got
  /\ UNCHANGED <<bufs, read, write, stored, irq_vars, cmd_vars, sent, work, handled,
                 stopped, down, gated>>

(* A ccx report found in the mailbox is handled here, its buffer freed.    *)
WkHandle ==
  /\ wk_pc = "handle"
  /\ handled' = Append(handled, got)
  /\ live' = live \ {got}
  /\ wk_pc' = "test"
  /\ UNCHANGED <<ring_vars, irq_vars, cmd_vars, mailbox, sent, work, got, stopped, down, gated>>

(* Every other event goes to the command thread: rtw_c2h_wk_cmd, whose     *)
(* command rtw_cmd_filter lets through while the thread runs, or refuses   *)
(* (the hardware is not initialised, or the thread has ended).  The        *)
(* command is then freed, or was not allocated, and pbuf left behind.      *)
WkPass ==
  /\ wk_pc = "pass" /\ cmd_pc = "run"
  /\ wk_pc' = "enqueue"
  /\ UNCHANGED <<ring_vars, irq_vars, cmd_vars, mailbox, sent, work, got, handled, live,
                 stopped, down, gated>>

WkRefuse ==
  /\ wk_pc = "pass"
  /\ handled' = Append(handled, got)
  /\ leaked' = leaked \cup {got}
  /\ wk_pc' = "test"
  /\ UNCHANGED <<ring_vars, irq_vars, cmd_pc, passed, mailbox, sent, work, got, live,
                 stopped, down, gated>>

(* _rtw_enqueue_cmd: the thread may have ended since the filter, and the   *)
(* queue is then never emptied.                                            *)
WkEnqueueTwice ==                  \* mutant: queues the command a second time
  /\ wk_pc = "enqueue" /\ cmd_pc # "gone"
  /\ handled' = handled \o <<got, got>>
  /\ passed' = passed \o <<got, got>>
  /\ wk_pc' = "test"
  /\ UNCHANGED <<ring_vars, irq_vars, cmd_pc, leaked, mailbox, sent, work, got, live,
                 stopped, down, gated>>

WkEnqueue ==
  /\ wk_pc = "enqueue"
  /\ handled' = Append(handled, got)
  /\ \/ /\ cmd_pc # "gone"
        /\ passed' = Append(passed, got)
        /\ UNCHANGED leaked
     \/ /\ cmd_pc = "gone"
        /\ leaked' = leaked \cup {got}
        /\ UNCHANGED passed
  /\ wk_pc' = "test"
  /\ UNCHANGED <<ring_vars, irq_vars, cmd_pc, mailbox, sent, work, got, live,
                 stopped, down, gated>>

(***************************************************************************)
(* rtw_cmd_thread, as far as it concerns these commands.                   *)
(***************************************************************************)

(* rtw_drvextra_cmd_hdl handles the event and frees its buffer.            *)
CmdHandle ==
  /\ cmd_pc = "run" /\ passed # <<>>
  /\ live' = live \ {Head(passed)}
  /\ passed' = Tail(passed)
  /\ UNCHANGED <<ring_vars, irq_vars, cmd_pc, leaked, mailbox, sent, work, wk_pc, got, handled,
                 stopped, down, gated>>

(* A command that the filter refuses now, or that is left in the queue     *)
(* when the loop has ended, is freed without the event's buffer.           *)
CmdDrop ==
  /\ cmd_pc \in {"run", "drain"} /\ passed # <<>>
  /\ leaked' = leaked \cup {Head(passed)}
  /\ passed' = Tail(passed)
  /\ UNCHANGED <<ring_vars, irq_vars, cmd_pc, mailbox, sent, work, wk_pc, got, handled, live,
                 stopped, down, gated>>

(* The thread leaves its loop: cmdthd_running = _FALSE.                    *)
CmdStop ==
  /\ cmd_pc = "run" /\ stopped
  /\ cmd_pc' = "drain"
  /\ UNCHANGED <<ring_vars, irq_vars, passed, leaked, mailbox, sent, work, wk_pc, got, handled,
                 live, stopped, down, gated>>

CmdEnd ==
  /\ cmd_pc = "drain" /\ passed = <<>>
  /\ cmd_pc' = "gone"
  /\ UNCHANGED <<ring_vars, irq_vars, passed, leaked, mailbox, sent, work, wk_pc, got, handled,
                 live, stopped, down, gated>>

(***************************************************************************)
(* Teardown.                                                               *)
(***************************************************************************)

(* The driver stops; usb_read_port_cancel kills the interrupt URB, whose   *)
(* completion has run to its end, as the command thread has                *)
(* (rtw_stop_drv_threads), when _rtw_free_evt_priv is reached.             *)
Stop ==
  /\ ~stopped
  /\ stopped' = TRUE
  /\ UNCHANGED <<ring_vars, irq_vars, cmd_vars, mailbox, sent, work, wk_pc, got,
                 handled, live, down, gated>>

(* cancel_work_sync, which waits for a callback that is running.           *)
FreeCancelNoWait ==                \* mutant: cancel_work instead of cancel_work_sync
  /\ stopped /\ irq_pc = "idle" /\ cmd_pc = "gone" /\ ~down
  /\ work' = FALSE
  /\ down' = TRUE
  /\ UNCHANGED <<ring_vars, irq_vars, cmd_vars, mailbox, sent, wk_pc, got, handled,
                 live, stopped, gated>>

FreeCancel ==
  /\ stopped /\ irq_pc = "idle" /\ cmd_pc = "gone" /\ ~down
  /\ wk_pc = "idle"
  /\ work' = FALSE
  /\ down' = TRUE
  /\ UNCHANGED <<ring_vars, irq_vars, cmd_vars, mailbox, sent, wk_pc, got, handled,
                 live, stopped, gated>>

(* One turn of the loop that frees what is left in the ring.               *)
FreeDrain ==
  /\ down /\ ~CbufEmpty
  /\ live' = live \ {bufs[read]}
  /\ read' = (read + 1) % Size
  /\ stored' = stored - 1
  /\ UNCHANGED <<bufs, write, lost, irq_vars, cmd_vars, mailbox, sent, work, wk_pc,
                 got, handled, stopped, down, gated>>

-----------------------------------------------------------------------------
Irq == IrqCheck \/ IrqPush \/ IrqBump \/ IrqSchedule
Worker == WkStart \/ WkTest \/ WkEnd \/ WkPop \/ WkBump \/ WkClear \/ WkHandle \/ WkPass
          \/ WkRefuse \/ WkEnqueue
Cmd == CmdHandle \/ CmdDrop \/ CmdStop \/ CmdEnd
Free == FreeCancel \/ FreeDrain

Next == (\E k \in Kinds : Post(k)) \/ Irq \/ Worker \/ Cmd \/ Stop \/ Free

Spec == Init /\ [][Next]_vars

(* The completion runs in interrupt context, the worker in the kernel's    *)
(* shared workqueue, the command thread in its own.                        *)
FairSpec == Spec /\ WF_vars(Irq) /\ WF_vars(Worker) /\ WF_vars(Cmd) /\ WF_vars(Free)

-----------------------------------------------------------------------------
TypeOK ==
  /\ bufs \in [0 .. Size - 1 -> -1 .. MaxEvents]
  /\ read \in 0 .. Size - 1 /\ write \in 0 .. Size - 1
  /\ stored \in Int /\ lost \in BOOLEAN
  /\ gated \in BOOLEAN /\ mailbox \in {"host", "fw"}
  /\ sent \in 0 .. MaxEvents
  /\ irq_pc \in {"idle", "check", "push", "bump", "sched"}
  /\ ev \in 0 .. MaxEvents /\ ev_kind \in {"ccx", "normal", "nomem"}
  /\ work \in BOOLEAN
  /\ wk_pc \in {"idle", "test", "end", "pop", "bump", "clear", "handle", "pass", "enqueue"}
  /\ got \in -1 .. MaxEvents
  /\ handled \in Seq(1 .. MaxEvents)
  /\ cmd_pc \in {"run", "drain", "gone"}
  /\ passed \in Seq(1 .. MaxEvents) /\ leaked \subseteq 1 .. MaxEvents
  /\ live \subseteq 0 .. MaxEvents
  /\ stopped \in BOOLEAN /\ down \in BOOLEAN

InRing(n) == \E i \in 0 .. Size - 1 : i < stored /\ bufs[(read + i) % Size] = n

Owned(n) ==
  \/ ev = n /\ ev_kind = "normal" /\ irq_pc \in {"push", "bump"}
  \/ InRing(n)
  \/ got = n /\ wk_pc \in {"clear", "handle", "pass", "enqueue"}
  \/ \E i \in 1 .. Len(passed) : passed[i] = n

(* Every allocated buffer is held by the completion, an occupied slot of   *)
(* the ring, the worker or a queued command, or is one of those left       *)
(* behind with a command that was refused, dropped or drained; and what is *)
(* held is allocated, so that nobody handles or frees a buffer twice,      *)
(* through every teardown, as long as no event was lost: the completion    *)
(* does not free the buffer of an entry that rtw_cbuf_push refuses, with   *)
(* read at 0 rtw_cbuf_full does not see a full ring, so that the next push *)
(* makes it look empty, and the worker leaves behind the buffer for which  *)
(* c2h_evt_read found nothing.  The state has its types, the indices wrap. *)
BuffersOwned ==
  /\ TypeOK
  /\ ~lost => /\ 0 \notin live
              /\ \A n \in 1 .. MaxEvents :
                   /\ n \in live <=> Owned(n) \/ n \in leaked
                   /\ ~(Owned(n) /\ n \in leaked)

(* The worker handles events once each and in the order in which the       *)
(* firmware posted them, although a failed allocation makes it read the    *)
(* mailbox later and the ring wraps, as long as no event was lost.  (ccx   *)
(* reports, which the completion handles at once, do overtake them.)       *)
HandledInOrder ==
  ~lost => \A i, j \in 1 .. Len(handled) : i < j => handled[i] < handled[j]

(* The firmware gets its mailbox back ("If this field isn't clear, the FW  *)
(* won't update the next command message"), unless the driver stops or a   *)
(* firmware that does not wait has overrun the ring.                       *)
MailboxReturned ==
  mailbox = "fw" ~> (mailbox = "host" \/ stopped \/ (lost /\ ~gated))
=============================================================================
