------------------------------ MODULE CmdThread ------------------------------
(***************************************************************************)
(* The command queue of the driver and the thread that serves it: struct   *)
(* cmd_priv, rtw_enqueue_cmd, rtw_cmd_thread, and the two paths that start *)
(* and stop the thread (netdev_open / rtw_resume_process, rtw_dev_unload   *)
(* from rtw_suspend and from the USB disconnect).                          *)
(*                                                                         *)
(* Callers are the contexts that build commands: ioctls, timers, the       *)
(* receive tasklet and handlers of the thread itself.  Each has one        *)
(* command object at a time, named after it: a caller builds its next one  *)
(* when the last one has been freed.                                       *)
(*                                                                         *)
(* Kinds of commands, by what the queue does with them:                    *)
(*   plain       freed by the thread or by its callback                    *)
(*   chplan      _SetChannelPlan, let through while the hardware is off    *)
(*   disconnect  _DisConnect, whose callback frees it on success only      *)
(*   ps          POWER_SAVING_CTRL_WK_CID: may call ips_enter, which takes *)
(*               pwrpriv->lock                                             *)
(*   reset       DYNAMIC_CHK_WK_CID: may call sreset_reset, which enters   *)
(*               and leaves IPS                                            *)
(***************************************************************************)
EXTENDS Integers, Sequences

CONSTANTS
  Callers,   \* contexts that enqueue commands
  Kinds,     \* the kinds of commands each of them enqueues
  MaxSema    \* bound on cmd_queue_sema, which the code does not bound

ASSUME CallersAssumption == Callers # {} /\ "none" \notin Callers
ASSUME KindsAssumption ==
  Kinds \in [Callers -> (SUBSET {"plain", "chplan", "disconnect", "ps", "reset"}) \ {{}}]
ASSUME MaxSemaAssumption == MaxSema \in Nat \ {0}

VARIABLES
  running,    \* cmdthd_running
  hw_init,    \* hw_init_completed
  dstopped,   \* bDriverStopped
  removed,    \* bSurpriseRemoved
  queue,      \* cmd_queue
  sema,       \* cmd_queue_sema
  term,       \* terminate_cmdthread_sema
  thread_pc,  \* control point of rtw_cmd_thread
  cur,        \* pcmd of the thread, or "none"
  dropped,    \* pcmd->res == H2C_DROPPED
  pc,         \* control point of each caller in rtw_enqueue_cmd
  kind,       \* kind of each command object
  alive,      \* command objects that are allocated
  admin_pc,   \* control point of the open/unload paths
  pm,         \* the open or unload in progress is a resume or a suspend
  suspended,  \* bInSuspend
  rf_off,     \* rf_pwrstate is rf_off
  pwr_lock,   \* who holds pwrpriv->lock
  undone      \* history: a silent reset has taken bDriverStopped back

caller_vars == <<pc, kind, alive>>
thread_vars == <<running, thread_pc, cur, dropped>>
hw_vars == <<hw_init, rf_off, pwr_lock, undone>>
admin_vars == <<dstopped, removed, admin_pc, pm, suspended>>
vars == <<caller_vars, thread_vars, admin_vars, queue, sema, term, hw_vars>>

Stopped == dstopped \/ removed
ThreadGone == thread_pc \in {"none", "dead"}

-----------------------------------------------------------------------------
Init ==
  /\ running = FALSE /\ hw_init = FALSE /\ dstopped = FALSE /\ removed = FALSE
  /\ queue = <<>> /\ sema = 0 /\ term = 0
  /\ thread_pc = "none" /\ cur = "none" /\ dropped = FALSE
  /\ pc = [c \in Callers |-> "idle"]
  /\ kind = [c \in Callers |-> CHOOSE k \in Kinds[c] : TRUE]
  /\ alive = [c \in Callers |-> FALSE]
  /\ admin_pc = "down" /\ pm = FALSE /\ suspended = FALSE
  /\ rf_off = FALSE /\ pwr_lock = "none" /\ undone = FALSE

(***************************************************************************)
(* rtw_enqueue_cmd.                                                        *)
(***************************************************************************)

(* A constructor allocates a command object and its parameter.             *)
Issue(c, k) ==
  /\ pc[c] = "idle" /\ ~alive[c] /\ admin_pc # "gone"
  /\ pc' = [pc EXCEPT ![c] = "filter"]
  /\ kind' = [kind EXCEPT ![c] = k]
  /\ alive' = [alive EXCEPT ![c] = TRUE]
  /\ UNCHANGED <<thread_vars, admin_vars, queue, sema, term, hw_vars>>

(* rtw_cmd_filter.                                                         *)
FilterPasses(k) == (hw_init \/ k = "chplan") /\ running

FilterNoReturn(c) ==               \* mutant: a rejected command is queued all the same
  /\ pc[c] = "filter"
  /\ pc' = [pc EXCEPT ![c] = "add"]
  /\ alive' = [alive EXCEPT ![c] = FilterPasses(kind[c])]
  /\ UNCHANGED <<kind, thread_vars, admin_vars, queue, sema, term, hw_vars>>

(* Rejected commands are freed, with rtw_free_cmd_obj.                     *)
Filter(c) ==
  /\ pc[c] = "filter"
  /\ \/ /\ FilterPasses(kind[c])
        /\ pc' = [pc EXCEPT ![c] = "add"]
        /\ UNCHANGED alive
     \/ /\ ~FilterPasses(kind[c])
        /\ pc' = [pc EXCEPT ![c] = "idle"]
        /\ alive' = [alive EXCEPT ![c] = FALSE]
  /\ UNCHANGED <<kind, thread_vars, admin_vars, queue, sema, term, hw_vars>>

Add(c) ==
  /\ pc[c] = "add"
  /\ queue' = Append(queue, c)
  /\ pc' = [pc EXCEPT ![c] = "up"]
  /\ UNCHANGED <<kind, alive, thread_vars, admin_vars, sema, term, hw_vars>>

Up(c) ==
  /\ pc[c] = "up" /\ sema < MaxSema
  /\ sema' = sema + 1
  /\ pc' = [pc EXCEPT ![c] = "idle"]
  /\ UNCHANGED <<kind, alive, thread_vars, admin_vars, queue, term, hw_vars>>

(***************************************************************************)
(* rtw_cmd_thread.                                                         *)
(***************************************************************************)
ThreadEntry ==
  /\ thread_pc = "entry"
  /\ running' = TRUE
  /\ term' = term + 1
  /\ thread_pc' = "down"
  /\ UNCHANGED <<cur, dropped, caller_vars, admin_vars, queue, sema, hw_vars>>

ThreadDown ==
  /\ thread_pc = "down" /\ sema > 0
  /\ sema' = sema - 1
  /\ thread_pc' = "check"
  /\ UNCHANGED <<running, cur, dropped, caller_vars, admin_vars, queue, term, hw_vars>>

(* thread_enter allows SIGTERM, which ends down_interruptible.             *)
ThreadSignal ==
  /\ thread_pc = "down"
  /\ thread_pc' = "exit"
  /\ UNCHANGED <<running, cur, dropped, caller_vars, admin_vars, queue, sema, term, hw_vars>>

ThreadCheck ==
  /\ thread_pc = "check"
  /\ thread_pc' = IF Stopped THEN "exit" ELSE "deq"
  /\ UNCHANGED <<running, cur, dropped, caller_vars, admin_vars, queue, sema, term, hw_vars>>

ThreadDequeueOne ==                \* mutant: one command per wakeup token lost
  /\ thread_pc = "deq"
  /\ \/ /\ Len(queue) < 2
        /\ thread_pc' = "down"
        /\ UNCHANGED <<queue, cur>>
     \/ /\ Len(queue) >= 2
        /\ cur' = Head(queue)
        /\ queue' = Tail(queue)
        /\ thread_pc' = "filter"
  /\ UNCHANGED <<running, dropped, caller_vars, admin_vars, sema, term, hw_vars>>

ThreadDequeue ==
  /\ thread_pc = "deq"
  /\ \/ /\ queue = <<>>
        /\ thread_pc' = "down"
        /\ UNCHANGED <<queue, cur>>
     \/ /\ queue # <<>>
        /\ cur' = Head(queue)
        /\ queue' = Tail(queue)
        /\ thread_pc' = "filter"
  /\ UNCHANGED <<running, dropped, caller_vars, admin_vars, sema, term, hw_vars>>

ThreadFilterRetry ==               \* mutant: a refused command is queued again
  /\ thread_pc = "filter"
  /\ dropped' = FALSE
  /\ IF FilterPasses(kind[cur])
       THEN thread_pc' = "exec" /\ UNCHANGED <<queue, cur>>
       ELSE thread_pc' = "check" /\ queue' = Append(queue, cur) /\ cur' = "none"
  /\ UNCHANGED <<running, caller_vars, admin_vars, sema, term, hw_vars>>

ThreadFilter ==
  /\ thread_pc = "filter"
  /\ dropped' = ~FilterPasses(kind[cur])
  /\ thread_pc' = IF FilterPasses(kind[cur]) THEN "exec" ELSE "post"
  /\ UNCHANGED <<running, cur, caller_vars, admin_vars, queue, sema, term, hw_vars>>

(* The handler.  rtw_ps_processor returns early or calls ips_enter, the    *)
(* dynamic check finds nothing or calls sreset_reset.                      *)
ThreadExec ==
  /\ thread_pc = "exec"
  /\ \/ thread_pc' = "post"
     \/ kind[cur] \in {"ps", "reset"} /\ thread_pc' = "ips"
  /\ UNCHANGED <<running, cur, dropped, caller_vars, admin_vars, queue, sema, term, hw_vars>>

(* ips_enter, under pwrpriv->lock.                                         *)
ThreadIps ==
  /\ thread_pc = "ips" /\ pwr_lock = "none"
  /\ hw_init' = (hw_init /\ removed)
  /\ rf_off' = TRUE
  /\ thread_pc' = IF kind[cur] = "reset" THEN "leave" ELSE "post"
  /\ UNCHANGED <<running, cur, dropped, caller_vars, admin_vars, queue, sema, term, pwr_lock, undone>>

(* ips_leave, under pwrpriv->lock: rtw_ips_pwr_up clears both stop flags   *)
(* and initializes the hardware, which may fail.                           *)
LeaveIps(ok) ==
  /\ pwr_lock = "none" /\ rf_off
  /\ dstopped' = FALSE /\ removed' = FALSE
  /\ hw_init' = ok
  /\ rf_off' = ~ok

(* The rest of sreset_reset; ips_leave does nothing when a user's request  *)
(* has left IPS in between.                                                *)
ThreadLeave(ok) ==
  /\ thread_pc = "leave" /\ pwr_lock = "none"
  /\ \/ LeaveIps(ok)
     \/ ~rf_off /\ UNCHANGED <<dstopped, removed, hw_init, rf_off>>
  /\ undone' = (undone \/ (dstopped /\ rf_off))
  /\ thread_pc' = "post"
  /\ UNCHANGED <<running, cur, dropped, caller_vars, admin_pc, pm, suspended, queue, sema,
                 term, pwr_lock>>

(* post_process: the callback, or rtw_free_cmd_obj when there is none.     *)
ThreadPost ==
  /\ thread_pc = "post"
  /\ alive' = [alive EXCEPT ![cur] = (kind[cur] = "disconnect" /\ dropped)]
  /\ cur' = "none"
  /\ dropped' = FALSE
  /\ thread_pc' = "check"
  /\ UNCHANGED <<running, pc, kind, admin_vars, queue, sema, term, hw_vars>>

ThreadExit ==
  /\ thread_pc = "exit"
  /\ running' = FALSE
  /\ thread_pc' = "drain"
  /\ UNCHANGED <<cur, dropped, caller_vars, admin_vars, queue, sema, term, hw_vars>>

ThreadDrain ==
  /\ thread_pc = "drain"
  /\ \/ /\ queue # <<>>
        /\ alive' = [alive EXCEPT ![Head(queue)] = FALSE]
        /\ queue' = Tail(queue)
        /\ UNCHANGED thread_pc
     \/ /\ queue = <<>>
        /\ thread_pc' = "term"
        /\ UNCHANGED <<alive, queue>>
  /\ UNCHANGED <<running, cur, dropped, pc, kind, admin_vars, sema, term, hw_vars>>

ThreadTerm ==
  /\ thread_pc = "term"
  /\ term' = term + 1
  /\ thread_pc' = "dead"
  /\ UNCHANGED <<running, cur, dropped, caller_vars, admin_vars, queue, sema, hw_vars>>

(***************************************************************************)
(* netdev_open, or rtw_resume_process with pwrpriv->lock held.             *)
(***************************************************************************)
OpenBegin(resume) ==
  /\ admin_pc = "down" /\ suspended = resume
  /\ resume => pwr_lock = "none"
  /\ pwr_lock' = IF resume THEN "admin" ELSE pwr_lock
  /\ pm' = resume
  /\ admin_pc' = "hal"
  /\ UNCHANGED <<dstopped, removed, suspended, caller_vars, thread_vars, queue, sema, term, hw_init, rf_off, undone>>

(* rtw_hal_init, with its two outcomes.  A resume that fails here or at    *)
(* the creation of the thread returns without releasing pwrpriv->lock.     *)
OpenHal(ok) ==
  /\ admin_pc = "hal"
  /\ dstopped' = FALSE /\ removed' = FALSE
  /\ hw_init' = ok
  /\ admin_pc' = IF ok THEN "create" ELSE "down"
  /\ suspended' = (suspended /\ ok)
  /\ undone' = FALSE
  /\ UNCHANGED <<pm, caller_vars, thread_vars, queue, sema, term, rf_off, pwr_lock>>

(* rtw_start_drv_threads.                                                  *)
OpenCreate(ok) ==
  /\ admin_pc = "create"
  /\ thread_pc' = IF ok THEN "entry" ELSE thread_pc
  /\ admin_pc' = IF ok THEN "wait_start" ELSE "down"
  /\ suspended' = (suspended /\ ok)
  /\ UNCHANGED <<dstopped, removed, pm, running, cur, dropped, caller_vars, queue,
                 sema, term, hw_vars>>

OpenWaitNot ==                     \* mutant: does not wait for the thread
  /\ admin_pc = "wait_start"
  /\ admin_pc' = "up"
  /\ pwr_lock' = IF pm THEN "none" ELSE pwr_lock
  /\ suspended' = FALSE
  /\ UNCHANGED <<dstopped, removed, pm, caller_vars, thread_vars, queue, sema, term, hw_init, rf_off, undone>>

OpenWait ==
  /\ admin_pc = "wait_start" /\ term > 0
  /\ term' = term - 1
  /\ admin_pc' = "up"
  /\ pwr_lock' = IF pm THEN "none" ELSE pwr_lock
  /\ suspended' = FALSE
  /\ UNCHANGED <<dstopped, removed, pm, caller_vars, thread_vars, queue, sema, hw_init, rf_off, undone>>

(***************************************************************************)
(* rtw_suspend, and rtw_dev_unload from it or from the USB disconnect.     *)
(***************************************************************************)
SuspendLock ==
  /\ admin_pc = "up" /\ ~Stopped /\ pwr_lock = "none"
  /\ pwr_lock' = "admin"
  /\ pm' = TRUE
  /\ suspended' = TRUE
  /\ admin_pc' = "unload"
  /\ UNCHANGED <<dstopped, removed, caller_vars, thread_vars, queue, sema, term, hw_init, rf_off, undone>>

Disconnect ==
  /\ admin_pc = "up"
  /\ pm' = FALSE
  /\ admin_pc' = "unload"
  /\ UNCHANGED <<dstopped, removed, suspended, caller_vars, thread_vars, queue, sema,
                 term, hw_vars>>

UnloadStop ==
  /\ admin_pc = "unload"
  /\ dstopped' = TRUE
  /\ admin_pc' = "stop_up"
  /\ UNCHANGED <<removed, pm, suspended, caller_vars, thread_vars, queue, sema, term,
                 hw_vars>>

(* rtw_stop_drv_threads.                                                   *)
StopUpNot ==                       \* mutant: the thread is not woken up
  /\ admin_pc = "stop_up"
  /\ admin_pc' = "stop_wait"
  /\ UNCHANGED <<dstopped, removed, pm, suspended, caller_vars, thread_vars, queue, sema,
                 term, hw_vars>>

StopUp ==
  /\ admin_pc = "stop_up" /\ sema < MaxSema
  /\ sema' = sema + 1
  /\ admin_pc' = "stop_wait"
  /\ UNCHANGED <<dstopped, removed, pm, suspended, caller_vars, thread_vars, queue,
                 term, hw_vars>>

StopWait ==
  /\ admin_pc = "stop_wait" /\ term > 0
  /\ term' = term - 1
  /\ admin_pc' = "deinit"
  /\ UNCHANGED <<dstopped, removed, pm, suspended, caller_vars, thread_vars, queue,
                 sema, hw_vars>>

(* rtw_hal_deinit unless the device is gone; rtw_suspend then releases the *)
(* lock.                                                                   *)
UnloadDeinit ==
  /\ admin_pc = "deinit"
  /\ hw_init' = (hw_init /\ removed)
  /\ removed' = TRUE
  /\ admin_pc' = IF pm THEN "down" ELSE "free"
  /\ pwr_lock' = IF pm THEN "none" ELSE pwr_lock
  /\ UNCHANGED <<dstopped, pm, suspended, caller_vars, thread_vars, queue, sema, term, rf_off, undone>>

(* rtw_free_drv_sw at the end of the USB disconnect, which finds nothing   *)
(* to unload when the interface is not up.                                 *)
FreeDrvSw ==
  /\ admin_pc \in {"down", "free"}
  /\ admin_pc' = "gone"
  /\ UNCHANGED <<dstopped, removed, pm, suspended, caller_vars, thread_vars, queue, sema,
                 term, hw_vars>>

(* A USB transfer finds the device gone.                                   *)
SurpriseRemove ==
  /\ admin_pc \in {"wait_start", "up", "unload", "stop_up", "stop_wait"} /\ ~removed
  /\ removed' = TRUE
  /\ UNCHANGED <<dstopped, admin_pc, pm, suspended, caller_vars, thread_vars, queue, sema,
                 term, hw_vars>>

(* _rtw_pwr_wakeup of a user's request on the open interface.              *)
PwrWakeup(ok) ==
  /\ admin_pc = "up"
  /\ LeaveIps(ok)
  /\ UNCHANGED <<admin_pc, pm, suspended, caller_vars, thread_vars, queue, sema, term, pwr_lock, undone>>

-----------------------------------------------------------------------------
Enqueue(c) == Filter(c) \/ Add(c) \/ Up(c)

Thread ==
  \/ ThreadEntry \/ ThreadDown \/ ThreadCheck \/ ThreadDequeue \/ ThreadFilter
  \/ ThreadExec \/ ThreadIps \/ (\E ok \in BOOLEAN : ThreadLeave(ok))
  \/ ThreadPost \/ ThreadExit \/ ThreadDrain \/ ThreadTerm

Admin ==
  \/ \E ok \in BOOLEAN : OpenHal(ok) \/ OpenCreate(ok)
  \/ OpenWait \/ UnloadStop \/ StopUp \/ StopWait \/ UnloadDeinit

Next ==
  \/ \E c \in Callers : \E k \in Kinds[c] : Issue(c, k)
  \/ \E c \in Callers : Enqueue(c)
  \/ Thread
  \/ ThreadSignal
  \/ \E resume \in BOOLEAN : OpenBegin(resume)
  \/ Admin
  \/ SuspendLock \/ Disconnect \/ FreeDrvSw \/ SurpriseRemove
  \/ \E ok \in BOOLEAN : PwrWakeup(ok)

Spec == Init /\ [][Next]_vars

(* Callers, the thread and an open or unload that has begun are scheduled; *)
(* nobody has to issue a command, open, suspend or send a signal.          *)
Fairness ==
  /\ \A c \in Callers : WF_vars(Enqueue(c))
  /\ WF_vars(Thread)
  /\ WF_vars(Admin)

FairSpec == Spec /\ Fairness

-----------------------------------------------------------------------------
TypeOK ==
  /\ running \in BOOLEAN /\ hw_init \in BOOLEAN /\ dstopped \in BOOLEAN /\ removed \in BOOLEAN
  /\ queue \in Seq(Callers)
  /\ sema \in Nat /\ term \in Nat
  /\ thread_pc \in {"none", "entry", "down", "check", "deq", "filter", "exec", "ips", "leave", "post",
                    "exit", "drain", "term", "dead"}
  /\ cur \in Callers \cup {"none"}
  /\ dropped \in BOOLEAN
  /\ pc \in [Callers -> {"idle", "filter", "add", "up"}]
  /\ DOMAIN kind = Callers /\ \A c \in Callers : kind[c] \in Kinds[c]
  /\ alive \in [Callers -> BOOLEAN]
  /\ admin_pc \in {"down", "hal", "create", "wait_start", "up", "unload", "stop_up",
                   "stop_wait", "deinit", "free", "gone"}
  /\ pm \in BOOLEAN /\ suspended \in BOOLEAN
  /\ rf_off \in BOOLEAN /\ undone \in BOOLEAN
  /\ pwr_lock \in {"none", "admin"}

Queued(c) == \E i \in 1 .. Len(queue) : queue[i] = c

(* No wakeup is lost: while the thread waits on cmd_queue_sema and a       *)
(* command is queued, the semaphore is up or the caller that queued the    *)
(* command is about to raise it, although one wakeup serves many commands  *)
(* and leaves the semaphore ahead of the queue.                            *)
NoLostWakeup ==
  thread_pc = "down" /\ queue # <<>> => sema > 0 \/ \E c \in Callers : pc[c] = "up"

(* A command object is in one place: with the caller that builds it, once  *)
(* in the queue, or with the thread; what is queued or served has not been *)
(* freed, and what is not freed is in one of these places, on any path     *)
(* through the filters, the callbacks and the final drain.  The exception  *)
(* is a _DisConnect command that the thread drops, which rtw_disassoc_cmd_ *)
(* callback leaks.  The state has its types.                               *)
OneOwner ==
  /\ TypeOK
  /\ \A i, j \in 1 .. Len(queue) : queue[i] = queue[j] => i = j
  /\ \A c \in Callers :
       /\ Queued(c) => alive[c] /\ cur # c /\ pc[c] \in {"idle", "up"}
       /\ cur = c => alive[c] /\ pc[c] \in {"idle", "up"}
       /\ pc[c] \in {"filter", "add"} => alive[c]
       /\ alive[c] => pc[c] # "idle" \/ Queued(c) \/ cur = c \/ kind[c] = "disconnect"

(* One semaphore serves two handshakes: rtw_start_drv_threads returns only *)
(* after the thread has run ("wait for cmd_thread to run"), and the        *)
(* hardware is turned off, the buffers are freed and a new thread is       *)
(* created only when the old one has ended, across restarts, signals and   *)
(* surprise removal.                                                       *)
Handshake ==
  /\ admin_pc \in {"up", "unload", "stop_up", "stop_wait"} => thread_pc \notin {"none", "entry"}
  /\ admin_pc \in {"down", "hal", "create", "deinit", "free", "gone"} => ThreadGone

(* The thread waits for pwrpriv->lock, held by a suspend that waits for    *)
(* the thread or left behind by a resume that failed.                      *)
PwrStuck == thread_pc \in {"ips", "leave"} /\ pwr_lock = "admin"

(* A queued command is served or dropped for good while the thread lives,  *)
(* unless the thread is stuck behind pwrpriv->lock.                        *)
Served ==
  \A c \in Callers : Queued(c) ~> (~Queued(c) /\ cur # c) \/ ThreadGone \/ PwrStuck

(* rtw_stop_drv_threads ("Below is to termindate rtw_cmd_thread", in       *)
(* os_intfs.c) returns: the thread sees the stop flag and answers.  Two    *)
(* states are the exception: a thread stuck behind pwrpriv->lock, and a    *)
(* silent reset whose ips_netdrv_open has taken the stop flag back.        *)
StopReturns == admin_pc = "stop_wait" ~> (admin_pc # "stop_wait" \/ PwrStuck \/ undone)
=============================================================================
