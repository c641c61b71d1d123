------------------------------ MODULE PwrCtrl ------------------------------
(***************************************************************************)
(* Inactive power save: the radio is switched off while nothing is going   *)
(* on and switched on again by _rtw_pwr_wakeup, with a silent reset and a  *)
(* system suspend in between.                                              *)
(*                                                                         *)
(* Contexts: the command thread (rtw_ps_processor, sreset_reset, the       *)
(* commands users queue), users (ioctls that call rtw_pwr_wakeup) and the  *)
(* suspend and resume callbacks.  pwrpriv->lock is taken only around the   *)
(* changes of power; ps_processing and ips_deny_time keep the check and    *)
(* the wake-up apart without it.                                           *)
(***************************************************************************)
EXTENDS Integers, Sequences

CONSTANTS
  Users,       \* processes that call an ioctl
  None,
  MaxQueue     \* bound: commands in the queue at a time

ASSUME UsersAssumption ==
  None \notin Users \cup {"cmd", "sus"} /\ Users \cap {"cmd", "sus"} = {}
ASSUME QueueAssumption == MaxQueue \in Nat \ {0}

VARIABLES
  chip,        \* the chip is initialised (hw_init_completed)
  up,          \* bup: the threads run
  rf,          \* rf_pwrstate is rf_on
  to_off,      \* change_rfpwrstate is rf_off
  ips_processing, ps_processing,
  lock,        \* owner of pwrpriv->lock
  timer,       \* pwr_state_check_timer is armed
  queue,       \* commands: "ps" (power_saving_wk_hdl) and "op" (a user's)
  cmd_pc,
  resetting,   \* silent_reset_inprogress
  start_failed, \* history: the last start of the chip in ips_leave failed
  linked,      \* _FW_LINKED
  busy,        \* _FW_UNDER_SURVEY or _FW_UNDER_LINKING
  deny,        \* ips_deny_time lies in the future
  bInSuspend, sus_pc,
  user_pc,
  late,        \* history: users whose call took longer than ips_deny_time
               \* lasts, or than one of its waits
  stranded,    \* history: a resume started the chip with rf_pwrstate rf_off
  no_check     \* history: the check could not be queued for want of memory,
               \* and the timer has not been armed since

power_vars == <<chip, up, rf, to_off, ips_processing, stranded>>
cmd_vars == <<cmd_pc, queue, ps_processing, resetting, start_failed>>
mlme_vars == <<linked, busy>>
user_vars == <<user_pc, late, deny>>
sus_vars == <<bInSuspend, sus_pc>>
vars == <<power_vars, cmd_vars, mlme_vars, user_vars, sus_vars, lock, timer, no_check>>

Init ==
  /\ chip = TRUE /\ up = TRUE /\ rf = TRUE /\ to_off = FALSE
  /\ ips_processing = FALSE /\ ps_processing = FALSE /\ lock = None
  /\ timer = TRUE /\ queue = <<>> /\ cmd_pc = "idle"
  /\ resetting = FALSE /\ start_failed = FALSE
  /\ linked = FALSE /\ busy = FALSE /\ deny = FALSE
  /\ bInSuspend = FALSE /\ sus_pc = "awake"
  /\ user_pc = [u \in Users |-> "idle"] /\ late = {} /\ stranded = FALSE /\ no_check = FALSE

(* rtw_cmd_filter, asked when a command is queued and when it is taken.    *)
Filter == chip /\ up
HasRoom == Len(queue) < MaxQueue

(* An armed timer gives the check another try.                             *)
NoCheck == no_check' = (no_check /\ ~timer')

(* rtw_cmd_thread takes no command once rtw_dev_unload has set             *)
(* bDriverStopped.                                                         *)
Takes == cmd_pc = "idle" /\ queue # <<>> /\ sus_pc # "unload"

-----------------------------------------------------------------------------
(***************************************************************************)
(* The check and the way into power save.                                  *)
(***************************************************************************)
(* pwr_state_check_handler, rtw_ps_cmd.  The timer is armed again only by  *)
(* the command; a command that is not accepted ends the chain until the    *)
(* chip is started.                                                        *)
TimerFires ==
  /\ timer /\ timer' = FALSE /\ HasRoom
  /\ \/ /\ queue' = IF Filter THEN Append(queue, "ps") ELSE queue
        /\ UNCHANGED no_check
     \/ no_check' = TRUE /\ UNCHANGED queue
  /\ UNCHANGED <<power_vars, cmd_pc, ps_processing, resetting, start_failed, mlme_vars, user_vars, sus_vars, lock>>

PsStartLate ==                  \* mutant: the flag is set after the check
  /\ Takes /\ Head(queue) = "ps" /\ Filter
  /\ queue' = Tail(queue)
  /\ cmd_pc' = "ps_check" /\ UNCHANGED ps_processing
  /\ UNCHANGED <<power_vars, resetting, start_failed, mlme_vars, user_vars, sus_vars, lock, timer, no_check>>

PsStart ==
  /\ Takes /\ Head(queue) = "ps" /\ Filter
  /\ queue' = Tail(queue)
  /\ ps_processing' = TRUE /\ cmd_pc' = "ps_check"
  /\ UNCHANGED <<power_vars, resetting, start_failed, mlme_vars, user_vars, sus_vars, lock, timer, no_check>>

(* rtw_pwr_unassociated_idle.                                              *)
UnassociatedIdle == ~deny /\ ~linked /\ ~busy

(* rtw_ps_processor decides, and ends up in ips_enter or at its exit.      *)
PsCheck ==
  /\ cmd_pc = "ps_check"
  /\ IF ~ips_processing /\ UnassociatedIdle /\ rf
     THEN to_off' = TRUE /\ cmd_pc' = "ps_enter"
     ELSE cmd_pc' = "ps_exit" /\ UNCHANGED to_off
  /\ UNCHANGED <<chip, up, rf, ips_processing, stranded, queue, ps_processing, resetting, start_failed, mlme_vars, user_vars, sus_vars, lock, timer, no_check>>

(* ips_enter, for the check or for a reset.                                *)
IpsEnterLock ==
  /\ cmd_pc \in {"ps_enter", "rs_enter"} /\ lock = None
  /\ lock' = "cmd" /\ ips_processing' = TRUE
  /\ cmd_pc' = IF cmd_pc = "ps_enter" THEN "ps_down" ELSE "rs_down"
  /\ UNCHANGED <<chip, up, rf, to_off, stranded, queue, ps_processing, resetting, start_failed, mlme_vars, user_vars, sus_vars, timer, no_check>>

IpsEnterHalf ==                 \* mutant: rf_pwrstate is not written
  /\ cmd_pc \in {"ps_down", "rs_down"}
  /\ IF to_off THEN chip' = FALSE /\ stranded' = FALSE /\ UNCHANGED rf ELSE UNCHANGED <<chip, rf, stranded>>
  /\ ips_processing' = FALSE /\ lock' = None
  /\ cmd_pc' = IF cmd_pc = "ps_down" THEN "ps_exit" ELSE "rs_leave"
  /\ UNCHANGED <<up, to_off, queue, ps_processing, resetting, start_failed, mlme_vars, user_vars, sus_vars, timer, no_check>>

(* Nothing happens when a user asked for rf_on while ips_enter waited.     *)
IpsEnter ==
  /\ cmd_pc \in {"ps_down", "rs_down"}
  /\ IF to_off THEN chip' = FALSE /\ rf' = FALSE /\ stranded' = FALSE
               ELSE UNCHANGED <<chip, rf, stranded>>
  /\ ips_processing' = FALSE /\ lock' = None
  /\ cmd_pc' = IF cmd_pc = "ps_down" THEN "ps_exit" ELSE "rs_leave"
  /\ UNCHANGED <<up, to_off, queue, ps_processing, resetting, start_failed, mlme_vars, user_vars, sus_vars, timer, no_check>>

PsExit ==
  /\ cmd_pc = "ps_exit" /\ cmd_pc' = "idle"
  /\ timer' = TRUE /\ ps_processing' = FALSE /\ NoCheck
  /\ UNCHANGED <<power_vars, queue, resetting, start_failed, mlme_vars, user_vars, sus_vars, lock>>

-----------------------------------------------------------------------------
(***************************************************************************)
(* The way out of power save: ips_leave by context c.                      *)
(***************************************************************************)
(* rtw_reset_drv_sw, which also ends silent_reset_inprogress.              *)
ResetDrvSw == busy' = FALSE /\ resetting' = FALSE

MustLeave == ~rf /\ ~ips_processing

IpsLeaveLock(c) ==
  /\ lock = None
  /\ IF MustLeave
     THEN /\ lock' = c /\ ips_processing' = TRUE /\ to_off' = FALSE
          /\ ResetDrvSw
     ELSE UNCHANGED <<lock, ips_processing, to_off, busy, resetting>>
  /\ UNCHANGED <<chip, up, rf, stranded, linked, queue, ps_processing, sus_vars, deny, timer, no_check>>


(* ips_netdrv_open succeeds or not.                                        *)
IpsLeave(ok) ==
  /\ ips_processing' = FALSE /\ lock' = None
  /\ chip' = ok /\ rf' = ok /\ stranded' = FALSE
  /\ timer' = (timer \/ ok) /\ NoCheck
  /\ UNCHANGED <<up, to_off, mlme_vars, queue, ps_processing, resetting, sus_vars>>

-----------------------------------------------------------------------------
(***************************************************************************)
(* sreset_reset, in the command thread.                                    *)
(***************************************************************************)
(* All timers are cancelled; a scan is aborted, a join timed out.          *)
ResetStart ==
  /\ cmd_pc = "idle" /\ up /\ sus_pc # "unload"
  /\ cmd_pc' = "rs_enter" /\ resetting' = TRUE /\ to_off' = TRUE
  /\ timer' = FALSE /\ busy' = FALSE
  /\ UNCHANGED <<chip, up, rf, ips_processing, stranded, queue, ps_processing, start_failed, linked, user_vars, sus_vars, lock, no_check>>

ResetLeaveLock ==
  /\ cmd_pc = "rs_leave" /\ IpsLeaveLock("cmd")
  /\ cmd_pc' = IF MustLeave THEN "rs_up" ELSE "rs_end"
  /\ UNCHANGED <<start_failed, user_pc, late>>

ResetLeave ==
  /\ cmd_pc = "rs_up" /\ cmd_pc' = "rs_end"
  /\ \E ok \in BOOLEAN : IpsLeave(ok) /\ start_failed' = ~ok
  /\ UNCHANGED user_vars

ResetEnd ==
  /\ cmd_pc = "rs_end" /\ cmd_pc' = "idle" /\ resetting' = FALSE
  /\ UNCHANGED <<power_vars, queue, ps_processing, start_failed, mlme_vars, user_vars, sus_vars, lock, timer, no_check>>

-----------------------------------------------------------------------------
(* rtw_cmd_thread drops a command while the chip is off; the callback of a *)
(* scan or a join then ends it.                                            *)
FilterDrop ==
  /\ Takes /\ ~Filter
  /\ queue' = Tail(queue)
  /\ busy' = (busy /\ Head(queue) # "op")
  /\ UNCHANGED <<power_vars, cmd_pc, ps_processing, resetting, start_failed, linked, user_vars, sus_vars, lock, timer, no_check>>

(* A user's command: a scan or a join.                                     *)
OpStart ==
  /\ Takes /\ Head(queue) = "op" /\ Filter
  /\ queue' = Tail(queue) /\ cmd_pc' = "op"
  /\ UNCHANGED <<power_vars, ps_processing, resetting, start_failed, mlme_vars, user_vars, sus_vars, lock, timer, no_check>>

OpEnd ==
  /\ cmd_pc = "op" /\ cmd_pc' = "idle"
  /\ busy' = FALSE /\ linked' \in {TRUE, linked}
  /\ UNCHANGED <<power_vars, queue, ps_processing, resetting, start_failed, user_vars, sus_vars, lock, timer, no_check>>

(* rtw_indicate_disconnect puts power save off for a while.                *)
Unlink ==
  /\ cmd_pc = "idle" /\ linked /\ linked' = FALSE /\ deny' = TRUE
  /\ UNCHANGED <<power_vars, cmd_vars, busy, user_pc, late, sus_vars, lock, timer, no_check>>

-----------------------------------------------------------------------------
(***************************************************************************)
(* _rtw_pwr_wakeup.  It puts power save off when it begins and again when  *)
(* it returns, whatever it returns; in between ips_deny_time may pass.     *)
(***************************************************************************)
Goes(u, pc) == user_pc' = [user_pc EXCEPT ![u] = pc]

(* late ends with the call it is about.                                    *)
Late(us) == late' = {u \in us : user_pc'[u] # "idle"}

WakeStart(u) ==
  /\ user_pc[u] = "idle" /\ Goes(u, "wait_ps")
  /\ deny' = TRUE
  /\ UNCHANGED <<power_vars, cmd_vars, mlme_vars, late, sus_vars, lock, timer, no_check>>

(* Each wait ends with the flag or with its time.                          *)
WaitPs(u) ==
  /\ user_pc[u] = "wait_ps" /\ Goes(u, "wait_reset")
  /\ Late(IF ps_processing THEN late \cup {u} ELSE late)
  /\ UNCHANGED <<power_vars, cmd_vars, mlme_vars, deny, sus_vars, lock, timer, no_check>>

WaitReset(u) ==
  /\ user_pc[u] = "wait_reset" /\ Goes(u, "wait_suspend")
  /\ Late(IF resetting THEN late \cup {u} ELSE late)
  /\ UNCHANGED <<power_vars, cmd_vars, mlme_vars, deny, sus_vars, lock, timer, no_check>>

WaitSuspend(u) ==
  /\ user_pc[u] = "wait_suspend" /\ Goes(u, IF bInSuspend THEN "idle" ELSE "check")
  /\ deny' = (deny \/ bInSuspend) /\ Late(late)
  /\ UNCHANGED <<power_vars, cmd_vars, mlme_vars, sus_vars, lock, timer, no_check>>

(* A linked adapter is taken to be awake.                                  *)
WakeCheck(u) ==
  /\ user_pc[u] = "check"
  /\ Goes(u, IF linked THEN "awake" ELSE IF ~rf THEN "leave" ELSE "ready")
  /\ deny' = (deny \/ linked)
  /\ UNCHANGED <<power_vars, cmd_vars, mlme_vars, late, sus_vars, lock, timer, no_check>>

WakeLeaveLock(u) ==
  /\ user_pc[u] = "leave" /\ IpsLeaveLock(u)
  /\ Goes(u, IF MustLeave THEN "up" ELSE "ready")
  /\ UNCHANGED <<cmd_pc, start_failed, late>>

WakeLeave(u) ==
  /\ user_pc[u] = "up"
  /\ \E ok \in BOOLEAN :
       /\ IpsLeave(ok) /\ Goes(u, IF ok THEN "ready" ELSE "idle")
       /\ start_failed' = ~ok /\ deny' = (deny \/ ~ok)
  /\ Late(late) /\ UNCHANGED cmd_pc

WakeReady(u) ==
  /\ user_pc[u] = "ready" /\ Goes(u, IF up /\ chip THEN "awake" ELSE "idle")
  /\ deny' = TRUE /\ Late(late)
  /\ UNCHANGED <<power_vars, cmd_vars, mlme_vars, sus_vars, lock, timer, no_check>>

(* The caller queues a scan or a join, or is done with reading registers.  *)
UserOp(u) ==
  /\ user_pc[u] = "awake" /\ Goes(u, "idle") /\ HasRoom
  /\ IF Filter THEN busy' = TRUE /\ queue' = Append(queue, "op")
     ELSE UNCHANGED <<busy, queue>>
  /\ Late(late)
  /\ UNCHANGED <<power_vars, cmd_pc, ps_processing, resetting, start_failed, linked, deny, sus_vars, lock, timer, no_check>>

UserDone(u) ==
  /\ user_pc[u] = "awake" /\ Goes(u, "idle") /\ Late(late)
  /\ UNCHANGED <<power_vars, cmd_vars, mlme_vars, deny, sus_vars, lock, timer, no_check>>

(* ips_deny_time passes: two seconds, while a wake-up may wait for three   *)
(* and four, and its caller may work as long as it likes.                  *)
DenyEnds ==
  /\ deny /\ deny' = FALSE
  /\ UNCHANGED user_pc /\ Late(Users)
  /\ UNCHANGED <<power_vars, cmd_vars, mlme_vars, sus_vars, lock, timer, no_check>>

-----------------------------------------------------------------------------
(***************************************************************************)
(* rtw_suspend and rtw_resume_process.                                     *)
(***************************************************************************)
SuspendStart ==
  /\ sus_pc = "awake" /\ up
  /\ bInSuspend' = TRUE /\ timer' = FALSE /\ sus_pc' = "lock"
  /\ UNCHANGED <<power_vars, cmd_vars, mlme_vars, user_vars, lock, no_check>>

SuspendLock ==
  /\ sus_pc = "lock" /\ lock = None
  /\ lock' = "sus" /\ linked' = FALSE /\ deny' = TRUE /\ sus_pc' = "unload"
  /\ UNCHANGED <<power_vars, cmd_vars, busy, user_pc, late, bInSuspend, timer, no_check>>

(* rtw_dev_unload stops the command thread, and waits for the end of the   *)
(* command it runs, with pwrpriv->lock held.                               *)
SuspendUnload ==
  /\ sus_pc = "unload" /\ cmd_pc = "idle"
  /\ chip' = FALSE /\ up' = FALSE /\ stranded' = FALSE /\ queue' = <<>>
  /\ lock' = None /\ sus_pc' = "asleep"
  /\ UNCHANGED <<rf, to_off, ips_processing, cmd_pc, ps_processing, resetting, start_failed, mlme_vars, user_vars, bInSuspend, timer, no_check>>

ResumeLock ==
  /\ sus_pc = "asleep" /\ lock = None
  /\ lock' = "sus" /\ sus_pc' = "open" /\ ResetDrvSw
  /\ UNCHANGED <<power_vars, cmd_pc, queue, ps_processing, start_failed, linked, user_vars, bInSuspend, timer, no_check>>

ResumeOpenKeeps ==              \* mutant: the lock is never given back
  /\ sus_pc = "open" /\ bInSuspend' = FALSE
  /\ \/ /\ chip' = TRUE /\ up' = TRUE /\ ips_processing' = FALSE /\ timer' = TRUE
        /\ stranded' = ~rf
        /\ sus_pc' = "awake" /\ start_failed' = FALSE
     \/ sus_pc' = "failed" /\ UNCHANGED <<chip, up, ips_processing, stranded, timer, start_failed>>
  /\ UNCHANGED <<rf, to_off, cmd_pc, queue, ps_processing, resetting, mlme_vars, user_vars, lock>>
  /\ NoCheck

(* netdev_open: it starts the chip and leaves rf_pwrstate as it is.  When  *)
(* it fails pwrpriv->lock is not given back.                               *)
ResumeOpen ==
  /\ sus_pc = "open" /\ bInSuspend' = FALSE
  /\ \/ /\ chip' = TRUE /\ up' = TRUE /\ ips_processing' = FALSE /\ timer' = TRUE
        /\ stranded' = ~rf
        /\ lock' = None /\ sus_pc' = "awake" /\ start_failed' = FALSE
     \/ sus_pc' = "failed" /\ UNCHANGED <<chip, up, ips_processing, stranded, timer, lock, start_failed>>
  /\ NoCheck
  /\ UNCHANGED <<rf, to_off, cmd_pc, queue, ps_processing, resetting, mlme_vars, user_vars>>

-----------------------------------------------------------------------------
CmdStep ==
  \/ PsStart \/ PsCheck \/ IpsEnterLock \/ IpsEnter \/ PsExit
  \/ ResetLeaveLock \/ ResetLeave \/ ResetEnd
  \/ FilterDrop \/ OpStart \/ OpEnd
WakeStep(u) ==
  \/ WaitPs(u) \/ WaitReset(u) \/ WaitSuspend(u) \/ WakeCheck(u)
  \/ WakeLeaveLock(u) \/ WakeLeave(u) \/ WakeReady(u)
SuspendStep == SuspendLock \/ SuspendUnload \/ ResumeLock \/ ResumeOpen

Next ==
  \/ TimerFires \/ CmdStep \/ ResetStart \/ Unlink \/ DenyEnds
  \/ SuspendStart \/ SuspendStep
  \/ \E u \in Users : WakeStart(u) \/ WakeStep(u) \/ UserOp(u) \/ UserDone(u)

Spec == Init /\ [][Next]_vars

(* The threads run on, timers fire and callers return.                     *)
FairSpec ==
  /\ Spec /\ WF_vars(CmdStep) /\ WF_vars(TimerFires) /\ WF_vars(DenyEnds) /\ WF_vars(SuspendStep)
  /\ \A u \in Users : SF_vars(WakeStep(u)) /\ WF_vars(UserDone(u))

-----------------------------------------------------------------------------
TypeOK ==
  /\ \A b \in {chip, up, rf, to_off, ips_processing, ps_processing, timer, resetting,
               start_failed, linked, busy, deny, bInSuspend, stranded, no_check} : b \in BOOLEAN
  /\ late \subseteq Users
  /\ lock \in Users \cup {"cmd", "sus", None}
  /\ lock = "cmd" <=> cmd_pc \in {"ps_down", "rs_down", "rs_up"}
  /\ \A u \in Users : lock = u <=> user_pc[u] = "up"
  /\ queue \in Seq({"ps", "op"}) /\ Len(queue) <= MaxQueue
  /\ cmd_pc \in {"idle", "ps_check", "ps_enter", "ps_down", "ps_exit",
                 "rs_enter", "rs_down", "rs_leave", "rs_up", "rs_end", "op"}
  /\ sus_pc \in {"awake", "lock", "unload", "asleep", "open", "failed"}
  /\ user_pc \in [Users -> {"idle", "wait_ps", "wait_reset", "wait_suspend", "check",
                            "leave", "up", "ready", "awake"}]

Resetting == cmd_pc \in {"rs_enter", "rs_down", "rs_leave", "rs_up", "rs_end"}
Suspending == sus_pc # "awake"

(* Whenever nobody holds pwrpriv->lock, rf_pwrstate says rf_on only if the *)
(* chip is running, outside a suspend (ips_enter, ips_leave).  The state   *)
(* has its types, and the lock is with the process that took it.           *)
RfTruthful ==
  /\ TypeOK
  /\ lock = None /\ rf /\ ~Suspending => chip

(* A caller that rtw_pwr_wakeup told it is awake works on a running chip   *)
(* until it is done: the check in rtw_ps_processor and the wake-up see     *)
(* each other through ps_processing and ips_deny_time, whatever the order  *)
(* of their steps.  Left out is the caller (not the others) whose call     *)
(* took longer than ips_deny_time lasts or than a wait of its wake-up, and *)
(* a silent reset, a suspend or a failed start meanwhile.                  *)
AwakeWorks ==
  \A u \in Users : user_pc[u] = "awake" =>
    chip \/ u \in late \/ Resetting \/ start_failed \/ Suspending

(* Suspend holds pwrpriv->lock and waits for the command thread, which     *)
(* waits for the lock in ips_enter or ips_leave.                           *)
Wedged == sus_pc = "unload" /\ cmd_pc \in {"ps_enter", "rs_enter", "rs_leave"}

(* Every wake-up returns, unless suspend is wedged or resume has failed    *)
(* and kept the lock.                                                      *)
WakeReturns ==
  \A u \in Users : []<>(user_pc[u] = "idle" \/ Wedged \/ sus_pc = "failed")

====
