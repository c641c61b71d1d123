---------------------------- MODULE PwrCtrlProofs ----------------------------
(***************************************************************************)
(* Proofs about PwrCtrl, for any number of users and any bound on the      *)
(* queue.                                                                  *)
(*                                                                         *)
(* RfTruthful and AwakeWorks follow from one inductive invariant.          *)
(* AwakeWorks rests on a handshake: ips_deny_time lies in the future while *)
(* a caller is in the wake-up or at work, unless it passes meanwhile and   *)
(* makes the caller late (DenyInv); so rtw_ps_processor decides to power   *)
(* down only when every caller there is late.  A caller that begins after  *)
(* the decision finds ps_processing set, and passes that wait only by its  *)
(* time limit, which makes it late too (HandshakeInv).                     *)
(***************************************************************************)
EXTENDS PwrCtrl, TLAPS

PowerFlags ==
  /\ chip \in BOOLEAN /\ up \in BOOLEAN /\ rf \in BOOLEAN
  /\ to_off \in BOOLEAN /\ ips_processing \in BOOLEAN
CmdFlags ==
  /\ ps_processing \in BOOLEAN /\ resetting \in BOOLEAN
  /\ start_failed \in BOOLEAN /\ timer \in BOOLEAN
MlmeFlags == linked \in BOOLEAN /\ busy \in BOOLEAN /\ deny \in BOOLEAN
OtherFlags == bInSuspend \in BOOLEAN /\ stranded \in BOOLEAN /\ no_check \in BOOLEAN
Flags == PowerFlags /\ CmdFlags /\ MlmeFlags /\ OtherFlags

(* The control points and the owner of pwrpriv->lock at each of them.      *)
Points ==
  /\ lock \in Users \cup {"cmd", "sus", None}
  /\ lock = "cmd" <=> cmd_pc \in {"ps_down", "rs_down", "rs_up"}
  /\ \A u \in Users : lock = u <=> user_pc[u] = "up"
  /\ lock = "sus" <=> sus_pc \in {"unload", "open", "failed"}
  /\ cmd_pc \in {"idle", "ps_check", "ps_enter", "ps_down", "ps_exit",
                 "rs_enter", "rs_down", "rs_leave", "rs_up", "rs_end", "op"}
  /\ sus_pc \in {"awake", "lock", "unload", "asleep", "open", "failed"}
  /\ user_pc \in [Users -> {"idle", "wait_ps", "wait_reset", "wait_suspend", "check",
                            "leave", "up", "ready", "awake"}]

QueueOK == queue \in Seq({"ps", "op"}) /\ Len(queue) <= MaxQueue

(* The chip runs whenever rf_pwrstate says so, also while a change of      *)
(* power waits for the lock; bips_processing is set under the lock only.   *)
RfInv ==
  /\ rf /\ ~Suspending => chip
  /\ ips_processing => lock \in Users \cup {"cmd"}

(* ps_processing spans the check, ips_deny_time the call of a user that is *)
(* not late.                                                               *)
DenyInv ==
  /\ ps_processing <=> cmd_pc \in {"ps_check", "ps_enter", "ps_down", "ps_exit"}
  /\ \A u \in Users : user_pc[u] # "idle" => deny \/ u \in late
  /\ late \subseteq Users

(* Once the check has decided, the adapter stays unlinked and a caller     *)
(* passes its wait for ps_processing only late.                            *)
HandshakeInv ==
  cmd_pc \in {"ps_enter", "ps_down"} =>
    /\ ~linked
    /\ \A u \in Users : user_pc[u] \notin {"idle", "wait_ps"} => u \in late

(* Where the chip is taken to run: it does, or it failed to start, or a    *)
(* reset or a suspend will start it again.                                 *)
Excused == chip \/ Resetting \/ start_failed \/ Suspending
WorkInv ==
  /\ linked => Excused
  /\ cmd_pc = "op" => Excused
  /\ cmd_pc = "rs_end" => chip \/ start_failed \/ Suspending
  /\ \A u \in Users : user_pc[u] = "awake" => Excused \/ u \in late

IInv == Flags /\ Points /\ QueueOK /\ RfInv /\ DenyInv /\ HandshakeInv /\ WorkInv

-----------------------------------------------------------------------------
(* The step relation as the disjunction of its actions.                    *)
LEMMA NextCases ==
  ASSUME [Next]_vars
  PROVE  \/ TimerFires \/ PsStart \/ PsCheck \/ IpsEnterLock \/ IpsEnter \/ PsExit
         \/ ResetLeaveLock \/ ResetLeave \/ ResetEnd \/ FilterDrop \/ OpStart
         \/ OpEnd \/ ResetStart \/ Unlink \/ DenyEnds \/ SuspendStart \/ SuspendLock
         \/ SuspendUnload \/ ResumeLock \/ ResumeOpen
         \/ (\E u \in Users : WakeStart(u)) \/ (\E u \in Users : WaitPs(u))
         \/ (\E u \in Users : WaitReset(u)) \/ (\E u \in Users : WaitSuspend(u))
         \/ (\E u \in Users : WakeCheck(u)) \/ (\E u \in Users : WakeLeaveLock(u))
         \/ (\E u \in Users : WakeLeave(u)) \/ (\E u \in Users : WakeReady(u))
         \/ (\E u \in Users : UserOp(u)) \/ (\E u \in Users : UserDone(u))
         \/ UNCHANGED vars
  BY Zenon DEF Next, CmdStep, WakeStep, SuspendStep

(* Every step keeps the flags of power Boolean.                            *)
LEMMA PowerFlagsStep == PowerFlags /\ [Next]_vars => PowerFlags'
<1> SUFFICES ASSUME PowerFlags, [Next]_vars PROVE PowerFlags'
  OBVIOUS
<1> USE DEF PowerFlags, power_vars, cmd_vars, mlme_vars, user_vars, sus_vars
<1>1. CASE PsCheck
  BY <1>1, Zenon DEF PsCheck
<1>2. CASE IpsEnterLock
  BY <1>2, Zenon DEF IpsEnterLock
<1>3. CASE IpsEnter
  BY <1>3, Zenon DEF IpsEnter
<1>4. CASE ResetLeaveLock
  BY <1>4, Zenon DEF ResetLeaveLock, IpsLeaveLock, ResetDrvSw
<1>5. CASE ResetLeave
  BY <1>5, Zenon DEF ResetLeave, IpsLeave, NoCheck
<1>6. CASE ResetStart
  BY <1>6, Zenon DEF ResetStart
<1>7. CASE SuspendUnload
  BY <1>7, Zenon DEF SuspendUnload
<1>8. CASE ResumeOpen
  BY <1>8, Zenon DEF ResumeOpen, NoCheck
<1>9. ASSUME NEW u \in Users, WakeLeaveLock(u) PROVE PowerFlags'
  BY <1>9, Zenon DEF WakeLeaveLock, IpsLeaveLock, ResetDrvSw, Goes
<1>10. ASSUME NEW u \in Users, WakeLeave(u) PROVE PowerFlags'
  BY <1>10, Zenon DEF WakeLeave, IpsLeave, NoCheck, Goes, Late
<1>11. CASE TimerFires \/ PsStart \/ PsExit \/ ResetEnd \/ FilterDrop \/ OpStart
   \/ OpEnd \/ Unlink \/ DenyEnds \/ SuspendStart \/ SuspendLock \/ ResumeLock
   \/ UNCHANGED vars
  BY <1>11, Zenon DEF TimerFires, PsStart, PsExit, NoCheck, ResetEnd,
     FilterDrop, OpStart, OpEnd, Unlink, DenyEnds, Late, SuspendStart,
     SuspendLock, ResumeLock, ResetDrvSw, vars
<1>12. ASSUME NEW u \in Users, WakeStart(u) \/ WaitPs(u) \/ WaitReset(u) \/
   WaitSuspend(u) \/ WakeCheck(u) \/ WakeReady(u) \/ UserOp(u) \/ UserDone(u)
   PROVE PowerFlags'
  BY <1>12, Zenon DEF WakeStart, Goes, WaitPs, Late, WaitReset, WaitSuspend,
     WakeCheck, WakeReady, UserOp, UserDone
<1> HIDE DEF PowerFlags
<1> QED
  BY NextCases, <1>1, <1>2, <1>3, <1>4, <1>5, <1>6, <1>7, <1>8, <1>9, <1>10,
     <1>11, <1>12

(* Every step keeps the flags of the commands and of the timer Boolean.    *)
LEMMA CmdFlagsStep == CmdFlags /\ [Next]_vars => CmdFlags'
<1> SUFFICES ASSUME CmdFlags, [Next]_vars PROVE CmdFlags'
  OBVIOUS
<1> USE DEF CmdFlags, power_vars, cmd_vars, mlme_vars, user_vars, sus_vars
<1>1. CASE TimerFires
  BY <1>1, Zenon DEF TimerFires
<1>2. CASE PsStart
  BY <1>2, Zenon DEF PsStart
<1>3. CASE PsExit
  BY <1>3, Zenon DEF PsExit, NoCheck
<1>4. CASE ResetLeaveLock
  BY <1>4, Zenon DEF ResetLeaveLock, IpsLeaveLock, ResetDrvSw
<1>5. CASE ResetLeave
  BY <1>5, Zenon DEF ResetLeave, IpsLeave, NoCheck
<1>6. CASE ResetEnd
  BY <1>6, Zenon DEF ResetEnd
<1>7. CASE ResetStart
  BY <1>7, Zenon DEF ResetStart
<1>8. CASE SuspendStart
  BY <1>8, Zenon DEF SuspendStart
<1>9. CASE ResumeLock
  BY <1>9, Zenon DEF ResumeLock, ResetDrvSw
<1>10. CASE ResumeOpen
  BY <1>10, Zenon DEF ResumeOpen, NoCheck
<1>11. ASSUME NEW u \in Users, WakeLeaveLock(u) PROVE CmdFlags'
  BY <1>11, Zenon DEF WakeLeaveLock, IpsLeaveLock, ResetDrvSw, Goes
<1>12. ASSUME NEW u \in Users, WakeLeave(u) PROVE CmdFlags'
  BY <1>12, Zenon DEF WakeLeave, IpsLeave, NoCheck, Goes, Late
<1>13. CASE PsCheck \/ IpsEnterLock \/ IpsEnter \/ FilterDrop \/ OpStart \/
   OpEnd \/ Unlink \/ DenyEnds \/ SuspendLock \/ SuspendUnload \/ UNCHANGED vars
  BY <1>13, Zenon DEF PsCheck, IpsEnterLock, IpsEnter, FilterDrop, OpStart,
     OpEnd, Unlink, DenyEnds, Late, SuspendLock, SuspendUnload, vars
<1>14. ASSUME NEW u \in Users, WakeStart(u) \/ WaitPs(u) \/ WaitReset(u) \/
   WaitSuspend(u) \/ WakeCheck(u) \/ WakeReady(u) \/ UserOp(u) \/ UserDone(u)
   PROVE CmdFlags'
  BY <1>14, Zenon DEF WakeStart, Goes, WaitPs, Late, WaitReset, WaitSuspend,
     WakeCheck, WakeReady, UserOp, UserDone
<1> HIDE DEF CmdFlags
<1> QED
  BY NextCases, <1>1, <1>2, <1>3, <1>4, <1>5, <1>6, <1>7, <1>8, <1>9, <1>10,
     <1>11, <1>12, <1>13, <1>14

(* Every step keeps the flags of the link Boolean.                         *)
LEMMA MlmeFlagsStep == MlmeFlags /\ [Next]_vars => MlmeFlags'
<1> SUFFICES ASSUME MlmeFlags, [Next]_vars PROVE MlmeFlags'
  OBVIOUS
<1> USE DEF MlmeFlags, power_vars, cmd_vars, mlme_vars, user_vars, sus_vars
<1>1. CASE ResetLeaveLock
  BY <1>1, Zenon DEF ResetLeaveLock, IpsLeaveLock, ResetDrvSw
<1>2. CASE FilterDrop
  BY <1>2, Zenon DEF FilterDrop
<1>3. CASE OpEnd
  BY <1>3, Zenon DEF OpEnd
<1>4. CASE ResetStart
  BY <1>4, Zenon DEF ResetStart
<1>5. CASE Unlink
  BY <1>5, Zenon DEF Unlink
<1>6. CASE DenyEnds
  BY <1>6, Zenon DEF DenyEnds, Late
<1>7. CASE SuspendLock
  BY <1>7, Zenon DEF SuspendLock
<1>8. CASE ResumeLock
  BY <1>8, Zenon DEF ResumeLock, ResetDrvSw
<1>9. ASSUME NEW u \in Users, WakeStart(u) PROVE MlmeFlags'
  BY <1>9, Zenon DEF WakeStart, Goes
<1>10. ASSUME NEW u \in Users, WaitSuspend(u) PROVE MlmeFlags'
  BY <1>10, Zenon DEF WaitSuspend, Goes, Late
<1>11. ASSUME NEW u \in Users, WakeCheck(u) PROVE MlmeFlags'
  BY <1>11, Zenon DEF WakeCheck, Goes
<1>12. ASSUME NEW u \in Users, WakeLeaveLock(u) PROVE MlmeFlags'
  BY <1>12, Zenon DEF WakeLeaveLock, IpsLeaveLock, ResetDrvSw, Goes
<1>13. ASSUME NEW u \in Users, WakeLeave(u) PROVE MlmeFlags'
  BY <1>13, Zenon DEF WakeLeave, IpsLeave, NoCheck, Goes, Late
<1>14. ASSUME NEW u \in Users, WakeReady(u) PROVE MlmeFlags'
  BY <1>14, Zenon DEF WakeReady, Goes, Late
<1>15. ASSUME NEW u \in Users, UserOp(u) PROVE MlmeFlags'
  BY <1>15, Zenon DEF UserOp, Goes, Late
<1>16. CASE TimerFires \/ PsStart \/ PsCheck \/ IpsEnterLock \/ IpsEnter \/
   PsExit \/ ResetLeave \/ ResetEnd \/ OpStart \/ SuspendStart \/ SuspendUnload
   \/ ResumeOpen \/ UNCHANGED vars
  BY <1>16, Zenon DEF TimerFires, PsStart, PsCheck, IpsEnterLock, IpsEnter,
     PsExit, NoCheck, ResetLeave, IpsLeave, ResetEnd, OpStart, SuspendStart,
     SuspendUnload, ResumeOpen, vars
<1>17. ASSUME NEW u \in Users, WaitPs(u) \/ WaitReset(u) \/ UserDone(u) PROVE
   MlmeFlags'
  BY <1>17, Zenon DEF WaitPs, Goes, Late, WaitReset, UserDone
<1> HIDE DEF MlmeFlags
<1> QED
  BY NextCases, <1>1, <1>2, <1>3, <1>4, <1>5, <1>6, <1>7, <1>8, <1>9, <1>10,
     <1>11, <1>12, <1>13, <1>14, <1>15, <1>16, <1>17

(* Every step keeps the flags of suspend and of the history Boolean.       *)
LEMMA OtherFlagsStep == OtherFlags /\ [Next]_vars => OtherFlags'
<1> SUFFICES ASSUME OtherFlags, [Next]_vars PROVE OtherFlags'
  OBVIOUS
<1> USE DEF OtherFlags, power_vars, cmd_vars, mlme_vars, user_vars, sus_vars
<1>1. CASE TimerFires
  BY <1>1, Zenon DEF TimerFires
<1>2. CASE IpsEnter
  BY <1>2, Zenon DEF IpsEnter
<1>3. CASE PsExit
  BY <1>3, Zenon DEF PsExit, NoCheck
<1>4. CASE ResetLeave
  BY <1>4, Zenon DEF ResetLeave, IpsLeave, NoCheck
<1>5. CASE SuspendStart
  BY <1>5, Zenon DEF SuspendStart
<1>6. CASE SuspendUnload
  BY <1>6, Zenon DEF SuspendUnload
<1>7. CASE ResumeOpen
  BY <1>7, Zenon DEF ResumeOpen, NoCheck
<1>8. ASSUME NEW u \in Users, WakeLeave(u) PROVE OtherFlags'
  BY <1>8, Zenon DEF WakeLeave, IpsLeave, NoCheck, Goes, Late
<1>9. CASE PsStart \/ PsCheck \/ IpsEnterLock \/ ResetLeaveLock \/ ResetEnd \/
   FilterDrop \/ OpStart \/ OpEnd \/ ResetStart \/ Unlink \/ DenyEnds \/
   SuspendLock \/ ResumeLock \/ UNCHANGED vars
  BY <1>9, Zenon DEF PsStart, PsCheck, IpsEnterLock, ResetLeaveLock,
     IpsLeaveLock, ResetDrvSw, ResetEnd, FilterDrop, OpStart, OpEnd, ResetStart,
     Unlink, DenyEnds, Late, SuspendLock, ResumeLock, vars
<1>10. ASSUME NEW u \in Users, WakeStart(u) \/ WaitPs(u) \/ WaitReset(u) \/
   WaitSuspend(u) \/ WakeCheck(u) \/ WakeLeaveLock(u) \/ WakeReady(u) \/
   UserOp(u) \/ UserDone(u) PROVE OtherFlags'
  BY <1>10, Zenon DEF WakeStart, Goes, WaitPs, Late, WaitReset, WaitSuspend,
     WakeCheck, WakeLeaveLock, IpsLeaveLock, ResetDrvSw, WakeReady, UserOp,
     UserDone
<1> HIDE DEF OtherFlags
<1> QED
  BY NextCases, <1>1, <1>2, <1>3, <1>4, <1>5, <1>6, <1>7, <1>8, <1>9, <1>10

(* The queue of commands stays within its bound.                           *)
LEMMA QueueStep == QueueOK /\ [Next]_vars => QueueOK'
<1> SUFFICES ASSUME QueueOK, [Next]_vars PROVE QueueOK'
  OBVIOUS
<1> USE QueueAssumption DEF QueueOK, HasRoom, Takes, power_vars, cmd_vars,
   mlme_vars, user_vars, sus_vars
<1>0. ASSUME NEW q \in Seq({"ps", "op"}), Len(q) <= MaxQueue, q # <<>>
      PROVE  Tail(q) \in Seq({"ps", "op"}) /\ Len(Tail(q)) <= MaxQueue
  BY <1>0, QueueAssumption
<1>1. CASE TimerFires
  BY <1>1 DEF TimerFires
<1>2. CASE PsStart
  BY <1>2, <1>0 DEF PsStart
<1>3. CASE FilterDrop
  BY <1>3, <1>0 DEF FilterDrop
<1>4. CASE OpStart
  BY <1>4, <1>0 DEF OpStart
<1>5. CASE SuspendUnload
  BY <1>5 DEF SuspendUnload
<1>6. ASSUME NEW u \in Users, UserOp(u) PROVE QueueOK'
  BY <1>6 DEF UserOp, Goes, Late
<1>7. CASE PsCheck \/ IpsEnterLock \/ IpsEnter \/ PsExit \/ ResetLeaveLock \/
   ResetLeave \/ ResetEnd \/ OpEnd \/ ResetStart \/ Unlink \/ DenyEnds \/
   SuspendStart \/ SuspendLock \/ ResumeLock \/ ResumeOpen \/ UNCHANGED vars
  <2>1. UNCHANGED queue
    BY <1>7, Zenon DEF PsCheck, IpsEnterLock, IpsEnter, PsExit, NoCheck,
       ResetLeaveLock, IpsLeaveLock, ResetDrvSw, ResetLeave, IpsLeave, ResetEnd,
       OpEnd, ResetStart, Unlink, DenyEnds, Late, SuspendStart, SuspendLock,
       ResumeLock, ResumeOpen, vars
  <2> QED BY <2>1
<1>8. ASSUME NEW u \in Users, WakeStart(u) \/ WaitPs(u) \/ WaitReset(u) \/
   WaitSuspend(u) \/ WakeCheck(u) \/ WakeLeaveLock(u) \/ WakeLeave(u) \/
   WakeReady(u) \/ UserDone(u) PROVE QueueOK'
  <2>1. UNCHANGED queue
    BY <1>8, Zenon DEF WakeStart, Goes, WaitPs, Late, WaitReset, WaitSuspend,
       WakeCheck, WakeLeaveLock, IpsLeaveLock, ResetDrvSw, WakeLeave, IpsLeave,
       NoCheck, WakeReady, UserDone
  <2> QED BY <2>1
<1> HIDE DEF QueueOK
<1> QED
  BY NextCases, <1>1, <1>2, <1>3, <1>4, <1>5, <1>6, <1>7, <1>8

(* Every step leaves the lock with the process at a point that holds it.   *)
LEMMA PointsStep == Points /\ [Next]_vars => Points'
<1> SUFFICES ASSUME Points, [Next]_vars PROVE Points'
  OBVIOUS
<1> USE UsersAssumption DEF Points, Takes, power_vars, cmd_vars, mlme_vars,
   user_vars, sus_vars
<1>1. CASE PsStart
  BY <1>1 DEF PsStart
<1>2. CASE PsCheck
  BY <1>2 DEF PsCheck
<1>3. CASE IpsEnterLock
  BY <1>3 DEF IpsEnterLock
<1>4. CASE IpsEnter
  BY <1>4 DEF IpsEnter
<1>5. CASE PsExit
  BY <1>5 DEF PsExit, NoCheck
<1>6. CASE ResetLeaveLock
  BY <1>6 DEF ResetLeaveLock, IpsLeaveLock, ResetDrvSw
<1>7. CASE ResetLeave
  BY <1>7 DEF ResetLeave, IpsLeave, NoCheck
<1>8. CASE ResetEnd
  BY <1>8 DEF ResetEnd
<1>9. CASE OpStart
  BY <1>9 DEF OpStart
<1>10. CASE OpEnd
  BY <1>10 DEF OpEnd
<1>11. CASE ResetStart
  BY <1>11 DEF ResetStart
<1>12. CASE DenyEnds
  BY <1>12 DEF DenyEnds, Late
<1>13. CASE SuspendStart
  BY <1>13 DEF SuspendStart
<1>14. CASE SuspendLock
  BY <1>14 DEF SuspendLock
<1>15. CASE SuspendUnload
  BY <1>15 DEF SuspendUnload
<1>16. CASE ResumeLock
  BY <1>16 DEF ResumeLock, ResetDrvSw
<1>17. CASE ResumeOpen
  BY <1>17 DEF ResumeOpen, NoCheck
<1>18. ASSUME NEW u \in Users, WakeStart(u) PROVE Points'
  BY <1>18 DEF WakeStart, Goes
<1>19. ASSUME NEW u \in Users, WaitPs(u) PROVE Points'
  BY <1>19 DEF WaitPs, Goes, Late
<1>20. ASSUME NEW u \in Users, WaitReset(u) PROVE Points'
  BY <1>20 DEF WaitReset, Goes, Late
<1>21. ASSUME NEW u \in Users, WaitSuspend(u) PROVE Points'
  BY <1>21 DEF WaitSuspend, Goes, Late
<1>22. ASSUME NEW u \in Users, WakeCheck(u) PROVE Points'
  BY <1>22 DEF WakeCheck, Goes
<1>23. ASSUME NEW u \in Users, WakeLeaveLock(u) PROVE Points'
  BY <1>23 DEF WakeLeaveLock, IpsLeaveLock, ResetDrvSw, Goes
<1>24. ASSUME NEW u \in Users, WakeLeave(u) PROVE Points'
  BY <1>24 DEF WakeLeave, IpsLeave, NoCheck, Goes, Late
<1>25. ASSUME NEW u \in Users, WakeReady(u) PROVE Points'
  BY <1>25 DEF WakeReady, Goes, Late
<1>26. ASSUME NEW u \in Users, UserOp(u) PROVE Points'
  BY <1>26 DEF UserOp, Goes, Late
<1>27. ASSUME NEW u \in Users, UserDone(u) PROVE Points'
  BY <1>27 DEF UserDone, Goes, Late
<1>28. CASE TimerFires \/ FilterDrop \/ Unlink \/ UNCHANGED vars
  <2>1. UNCHANGED <<lock, cmd_pc, sus_pc, user_pc>>
    BY <1>28, Zenon DEF TimerFires, FilterDrop, Unlink, vars
  <2> QED BY <2>1
<1> HIDE DEF Points
<1> QED
  BY NextCases, <1>1, <1>2, <1>3, <1>4, <1>5, <1>6, <1>7, <1>8, <1>9, <1>10,
     <1>11, <1>12, <1>13, <1>14, <1>15, <1>16, <1>17, <1>18, <1>19, <1>20,
     <1>21, <1>22, <1>23, <1>24, <1>25, <1>26, <1>27, <1>28

(* rf_pwrstate is never on over a dead chip: a suspend, which takes the    *)
(* chip away, is not over before resume has started it.                    *)
LEMMA RfStep == RfInv /\ Points /\ Points' /\ [Next]_vars => RfInv'
<1> SUFFICES ASSUME RfInv, Points, Points', [Next]_vars PROVE RfInv'
  OBVIOUS
<1> USE UsersAssumption DEF RfInv, Points, Suspending, power_vars, cmd_vars,
   mlme_vars, user_vars, sus_vars
<1>1. CASE IpsEnterLock
  BY <1>1 DEF IpsEnterLock
<1>2. CASE IpsEnter
  BY <1>2 DEF IpsEnter
<1>3. CASE ResetLeaveLock
  BY <1>3 DEF ResetLeaveLock, IpsLeaveLock, ResetDrvSw, MustLeave
<1>4. CASE ResetLeave
  BY <1>4 DEF ResetLeave, IpsLeave, NoCheck
<1>5. CASE SuspendStart
  BY <1>5 DEF SuspendStart
<1>6. CASE SuspendLock
  BY <1>6 DEF SuspendLock
<1>7. CASE SuspendUnload
  BY <1>7 DEF SuspendUnload
<1>8. CASE ResumeLock
  BY <1>8 DEF ResumeLock, ResetDrvSw
<1>9. CASE ResumeOpen
  BY <1>9 DEF ResumeOpen, NoCheck
<1>10. ASSUME NEW u \in Users, WakeLeaveLock(u) PROVE RfInv'
  BY <1>10 DEF WakeLeaveLock, IpsLeaveLock, ResetDrvSw, Goes, MustLeave
<1>11. ASSUME NEW u \in Users, WakeLeave(u) PROVE RfInv'
  BY <1>11 DEF WakeLeave, IpsLeave, NoCheck, Goes, Late
<1>12. CASE TimerFires \/ PsStart \/ PsCheck \/ PsExit \/ ResetEnd \/ FilterDrop
   \/ OpStart \/ OpEnd \/ ResetStart \/ Unlink \/ DenyEnds \/ UNCHANGED vars
  <2>1. UNCHANGED <<rf, chip, lock, ips_processing, sus_pc>>
    BY <1>12, Zenon DEF TimerFires, PsStart, PsCheck, PsExit, NoCheck, ResetEnd,
       FilterDrop, OpStart, OpEnd, ResetStart, Unlink, DenyEnds, Late, vars
  <2> QED BY <2>1
<1>13. ASSUME NEW u \in Users, WakeStart(u) \/ WaitPs(u) \/ WaitReset(u) \/
   WaitSuspend(u) \/ WakeCheck(u) \/ WakeReady(u) \/ UserOp(u) \/ UserDone(u)
   PROVE RfInv'
  <2>1. UNCHANGED <<rf, chip, lock, ips_processing, sus_pc>>
    BY <1>13, Zenon DEF WakeStart, Goes, WaitPs, Late, WaitReset, WaitSuspend,
       WakeCheck, WakeReady, UserOp, UserDone
  <2> QED BY <2>1
<1> HIDE DEF RfInv
<1> QED
  BY NextCases, <1>1, <1>2, <1>3, <1>4, <1>5, <1>6, <1>7, <1>8, <1>9, <1>10,
     <1>11, <1>12, <1>13

(* Whoever is inside the wake-up has put power save off.                   *)
LEMMA DenyStep == DenyInv /\ Points /\ [Next]_vars => DenyInv'
<1> SUFFICES ASSUME DenyInv, Points, [Next]_vars PROVE DenyInv'
  OBVIOUS
<1> USE DEF DenyInv, Points, Takes, Goes, Late, power_vars, cmd_vars, mlme_vars,
   user_vars, sus_vars
<1>1. CASE PsStart
  BY <1>1 DEF PsStart
<1>2. CASE PsCheck
  BY <1>2 DEF PsCheck
<1>3. CASE IpsEnterLock
  BY <1>3 DEF IpsEnterLock
<1>4. CASE IpsEnter
  BY <1>4 DEF IpsEnter
<1>5. CASE PsExit
  BY <1>5 DEF PsExit, NoCheck
<1>6. CASE ResetLeaveLock
  BY <1>6 DEF ResetLeaveLock, IpsLeaveLock, ResetDrvSw
<1>7. CASE ResetLeave
  BY <1>7 DEF ResetLeave, IpsLeave, NoCheck
<1>8. CASE ResetEnd
  BY <1>8 DEF ResetEnd
<1>9. CASE OpStart
  BY <1>9 DEF OpStart
<1>10. CASE OpEnd
  BY <1>10 DEF OpEnd
<1>11. CASE ResetStart
  BY <1>11 DEF ResetStart
<1>12. CASE Unlink
  BY <1>12 DEF Unlink
<1>13. CASE DenyEnds
  BY <1>13 DEF DenyEnds, Late
<1>14. CASE SuspendLock
  BY <1>14 DEF SuspendLock
<1>15. ASSUME NEW u \in Users, WakeStart(u) PROVE DenyInv'
  BY <1>15 DEF WakeStart, Goes
<1>16. ASSUME NEW u \in Users, WaitPs(u) PROVE DenyInv'
  BY <1>16 DEF WaitPs, Goes, Late
<1>17. ASSUME NEW u \in Users, WaitReset(u) PROVE DenyInv'
  BY <1>17 DEF WaitReset, Goes, Late
<1>18. ASSUME NEW u \in Users, WaitSuspend(u) PROVE DenyInv'
  BY <1>18 DEF WaitSuspend, Goes, Late
<1>19. ASSUME NEW u \in Users, WakeCheck(u) PROVE DenyInv'
  BY <1>19 DEF WakeCheck, Goes
<1>20. ASSUME NEW u \in Users, WakeLeaveLock(u) PROVE DenyInv'
  BY <1>20 DEF WakeLeaveLock, IpsLeaveLock, ResetDrvSw, Goes
<1>21. ASSUME NEW u \in Users, WakeLeave(u) PROVE DenyInv'
  <2>0. PICK ok \in BOOLEAN : Goes(u, IF ok THEN "ready" ELSE "idle") /\ deny' = (deny \/ ~ok)
    BY <1>21, Zenon DEF WakeLeave
  <2>1. user_pc[u] = "up" /\ Late(late) /\ UNCHANGED <<cmd_pc, ps_processing>>
    BY <1>21 DEF WakeLeave, IpsLeave
  <2>2. CASE ok = TRUE
    <3>1. Goes(u, "ready") /\ (deny => deny')
      BY <2>0, <2>2, Zenon
    <3> QED BY <2>1, <3>1 DEF DenyInv, Points, Goes, Late
  <2>3. CASE ok = FALSE
    <3>1. Goes(u, "idle") /\ deny'
      BY <2>0, <2>3, Zenon
    <3> QED BY <2>1, <3>1 DEF DenyInv, Points, Goes, Late
  <2> QED BY <2>2, <2>3, Zenon
<1>22. ASSUME NEW u \in Users, WakeReady(u) PROVE DenyInv'
  BY <1>22 DEF WakeReady, Goes, Late
<1>23. ASSUME NEW u \in Users, UserOp(u) PROVE DenyInv'
  BY <1>23 DEF UserOp, Goes, Late
<1>24. ASSUME NEW u \in Users, UserDone(u) PROVE DenyInv'
  BY <1>24 DEF UserDone, Goes, Late
<1>25. CASE TimerFires \/ FilterDrop \/ SuspendStart \/ SuspendUnload \/
   ResumeLock \/ ResumeOpen \/ UNCHANGED vars
  <2>1. UNCHANGED <<ps_processing, cmd_pc, user_pc, deny, late>>
    BY <1>25, Zenon DEF TimerFires, FilterDrop, SuspendStart, SuspendUnload,
       ResumeLock, ResetDrvSw, ResumeOpen, NoCheck, vars
  <2> QED BY <2>1
<1> HIDE DEF DenyInv
<1> QED
  BY NextCases, <1>1, <1>2, <1>3, <1>4, <1>5, <1>6, <1>7, <1>8, <1>9, <1>10,
     <1>11, <1>12, <1>13, <1>14, <1>15, <1>16, <1>17, <1>18, <1>19, <1>20,
     <1>21, <1>22, <1>23, <1>24, <1>25

(* A caller that begins after the check has decided is late or waits.      *)
LEMMA HandshakeStep ==
  HandshakeInv /\ DenyInv /\ Points /\ [Next]_vars => HandshakeInv'
<1> SUFFICES ASSUME HandshakeInv, DenyInv, Points, [Next]_vars PROVE HandshakeInv'
  OBVIOUS
<1> USE DEF HandshakeInv, DenyInv, Points, Takes, UnassociatedIdle, Goes, Late,
   power_vars, cmd_vars, mlme_vars, user_vars, sus_vars
<1>1. CASE PsStart
  BY <1>1 DEF PsStart
<1>2. CASE PsCheck
  BY <1>2 DEF PsCheck
<1>3. CASE IpsEnterLock
  BY <1>3 DEF IpsEnterLock
<1>4. CASE IpsEnter
  BY <1>4 DEF IpsEnter
<1>5. CASE PsExit
  BY <1>5 DEF PsExit, NoCheck
<1>6. CASE ResetLeaveLock
  BY <1>6 DEF ResetLeaveLock, IpsLeaveLock, ResetDrvSw, MustLeave
<1>7. CASE ResetLeave
  BY <1>7 DEF ResetLeave, IpsLeave, NoCheck
<1>8. CASE ResetEnd
  BY <1>8 DEF ResetEnd
<1>9. CASE OpStart
  BY <1>9 DEF OpStart
<1>10. CASE OpEnd
  BY <1>10 DEF OpEnd
<1>11. CASE ResetStart
  BY <1>11 DEF ResetStart
<1>12. CASE Unlink
  BY <1>12 DEF Unlink
<1>13. CASE DenyEnds
  BY <1>13 DEF DenyEnds, Late
<1>14. CASE SuspendLock
  BY <1>14 DEF SuspendLock
<1>15. ASSUME NEW u \in Users, WakeStart(u) PROVE HandshakeInv'
  BY <1>15 DEF WakeStart, Goes
<1>16. ASSUME NEW u \in Users, WaitPs(u) PROVE HandshakeInv'
  BY <1>16 DEF WaitPs, Goes, Late
<1>17. ASSUME NEW u \in Users, WaitReset(u) PROVE HandshakeInv'
  BY <1>17 DEF WaitReset, Goes, Late
<1>18. ASSUME NEW u \in Users, WaitSuspend(u) PROVE HandshakeInv'
  BY <1>18 DEF WaitSuspend, Goes, Late
<1>19. ASSUME NEW u \in Users, WakeCheck(u) PROVE HandshakeInv'
  BY <1>19 DEF WakeCheck, Goes
<1>20. ASSUME NEW u \in Users, WakeLeaveLock(u) PROVE HandshakeInv'
  BY <1>20 DEF WakeLeaveLock, IpsLeaveLock, ResetDrvSw, Goes, MustLeave
<1>21. ASSUME NEW u \in Users, WakeLeave(u) PROVE HandshakeInv'
  BY <1>21 DEF WakeLeave, IpsLeave, NoCheck, Goes, Late
<1>22. ASSUME NEW u \in Users, WakeReady(u) PROVE HandshakeInv'
  BY <1>22 DEF WakeReady, Goes, Late
<1>23. ASSUME NEW u \in Users, UserOp(u) PROVE HandshakeInv'
  BY <1>23 DEF UserOp, Goes, Late
<1>24. ASSUME NEW u \in Users, UserDone(u) PROVE HandshakeInv'
  BY <1>24 DEF UserDone, Goes, Late
<1>25. CASE TimerFires \/ FilterDrop \/ SuspendStart \/ SuspendUnload \/
   ResumeLock \/ ResumeOpen \/ UNCHANGED vars
  <2>1. UNCHANGED <<cmd_pc, linked, user_pc, late>>
    BY <1>25, Zenon DEF TimerFires, FilterDrop, SuspendStart, SuspendUnload,
       ResumeLock, ResetDrvSw, ResumeOpen, NoCheck, vars
  <2> QED BY <2>1
<1> HIDE DEF HandshakeInv
<1> QED
  BY NextCases, <1>1, <1>2, <1>3, <1>4, <1>5, <1>6, <1>7, <1>8, <1>9, <1>10,
     <1>11, <1>12, <1>13, <1>14, <1>15, <1>16, <1>17, <1>18, <1>19, <1>20,
     <1>21, <1>22, <1>23, <1>24, <1>25

(* A caller that was told it is awake works on a running chip.             *)
LEMMA WorkStep ==
  WorkInv /\ HandshakeInv /\ RfInv /\ DenyInv /\ Points /\ [Next]_vars => WorkInv'
<1> SUFFICES ASSUME WorkInv, HandshakeInv, RfInv, DenyInv, Points, [Next]_vars PROVE WorkInv'
  OBVIOUS
<1> USE UsersAssumption DEF WorkInv, HandshakeInv, RfInv, DenyInv, Points,
   Takes, Filter, Excused, Resetting, Suspending, Goes, Late, power_vars,
   cmd_vars, mlme_vars, user_vars, sus_vars
<1>1. CASE PsStart
  BY <1>1 DEF PsStart
<1>2. CASE PsCheck
  BY <1>2 DEF PsCheck
<1>3. CASE IpsEnterLock
  BY <1>3 DEF IpsEnterLock
<1>4. CASE IpsEnter
  BY <1>4 DEF IpsEnter
<1>5. CASE PsExit
  BY <1>5 DEF PsExit, NoCheck
<1>6. CASE ResetLeaveLock
  BY <1>6 DEF ResetLeaveLock, IpsLeaveLock, ResetDrvSw, MustLeave
<1>7. CASE ResetLeave
  <2>0. PICK ok \in BOOLEAN : chip' = ok /\ start_failed' = ~ok
    BY <1>7, Zenon DEF ResetLeave, IpsLeave
  <2>1. chip' \/ start_failed'
    <3>1. CASE ok = TRUE BY <2>0, <3>1, Zenon
    <3>2. CASE ok = FALSE BY <2>0, <3>2, Zenon
    <3> QED BY <3>1, <3>2, Zenon
  <2>2. cmd_pc' = "rs_end" /\ UNCHANGED <<linked, user_pc, late, sus_pc>>
    BY <1>7 DEF ResetLeave, IpsLeave, user_vars
  <2> QED BY <2>1, <2>2
<1>8. CASE ResetEnd
  BY <1>8 DEF ResetEnd
<1>9. CASE OpStart
  BY <1>9 DEF OpStart
<1>10. CASE OpEnd
  BY <1>10 DEF OpEnd
<1>11. CASE ResetStart
  BY <1>11 DEF ResetStart
<1>12. CASE Unlink
  BY <1>12 DEF Unlink
<1>13. CASE DenyEnds
  BY <1>13 DEF DenyEnds, Late
<1>14. CASE SuspendStart
  BY <1>14 DEF SuspendStart
<1>15. CASE SuspendLock
  BY <1>15 DEF SuspendLock
<1>16. CASE SuspendUnload
  BY <1>16 DEF SuspendUnload
<1>17. CASE ResumeLock
  BY <1>17 DEF ResumeLock, ResetDrvSw
<1>18. CASE ResumeOpen
  BY <1>18 DEF ResumeOpen, NoCheck
<1>19. ASSUME NEW u \in Users, WakeStart(u) PROVE WorkInv'
  BY <1>19 DEF WakeStart, Goes
<1>20. ASSUME NEW u \in Users, WaitPs(u) PROVE WorkInv'
  BY <1>20 DEF WaitPs, Goes, Late
<1>21. ASSUME NEW u \in Users, WaitReset(u) PROVE WorkInv'
  BY <1>21 DEF WaitReset, Goes, Late
<1>22. ASSUME NEW u \in Users, WaitSuspend(u) PROVE WorkInv'
  BY <1>22 DEF WaitSuspend, Goes, Late
<1>23. ASSUME NEW u \in Users, WakeCheck(u) PROVE WorkInv'
  BY <1>23 DEF WakeCheck, Goes
<1>24. ASSUME NEW u \in Users, WakeLeaveLock(u) PROVE WorkInv'
  BY <1>24 DEF WakeLeaveLock, IpsLeaveLock, ResetDrvSw, Goes, MustLeave
<1>25. ASSUME NEW u \in Users, WakeLeave(u) PROVE WorkInv'
  <2>0. PICK ok \in BOOLEAN : chip' = ok /\ start_failed' = ~ok
    BY <1>25, Zenon DEF WakeLeave, IpsLeave
  <2>1. chip' \/ start_failed'
    <3>1. CASE ok = TRUE BY <2>0, <3>1, Zenon
    <3>2. CASE ok = FALSE BY <2>0, <3>2, Zenon
    <3> QED BY <3>1, <3>2, Zenon
  <2>2. /\ \E pc \in {"ready", "idle"} : Goes(u, pc)
        /\ UNCHANGED <<linked, cmd_pc, sus_pc>> /\ Late(late)
    BY <1>25 DEF WakeLeave, IpsLeave
  <2> QED BY <2>1, <2>2 DEF Goes
<1>26. ASSUME NEW u \in Users, WakeReady(u) PROVE WorkInv'
  BY <1>26 DEF WakeReady, Goes, Late
<1>27. ASSUME NEW u \in Users, UserOp(u) PROVE WorkInv'
  BY <1>27 DEF UserOp, Goes, Late
<1>28. ASSUME NEW u \in Users, UserDone(u) PROVE WorkInv'
  BY <1>28 DEF UserDone, Goes, Late
<1>29. CASE TimerFires \/ FilterDrop \/ UNCHANGED vars
  <2>1. UNCHANGED <<cmd_pc, linked, user_pc, late, chip, start_failed, sus_pc>>
    BY <1>29, Zenon DEF TimerFires, FilterDrop, vars
  <2> QED BY <2>1
<1> HIDE DEF WorkInv
<1> QED
  BY NextCases, <1>1, <1>2, <1>3, <1>4, <1>5, <1>6, <1>7, <1>8, <1>9, <1>10,
     <1>11, <1>12, <1>13, <1>14, <1>15, <1>16, <1>17, <1>18, <1>19, <1>20,
     <1>21, <1>22, <1>23, <1>24, <1>25, <1>26, <1>27, <1>28, <1>29

-----------------------------------------------------------------------------
(* The initial state satisfies the invariant.                              *)
LEMMA InitInv == Init => IInv
<1> SUFFICES ASSUME Init PROVE IInv
  OBVIOUS
<1>1. Flags
  BY Zenon DEF Init, Flags, PowerFlags, CmdFlags, MlmeFlags, OtherFlags
<1>2. Points
  BY UsersAssumption DEF Init, Points
<1>3. QueueOK
  BY QueueAssumption DEF Init, QueueOK
<1>4. RfInv /\ DenyInv /\ HandshakeInv /\ WorkInv
  BY DEF Init, RfInv, DenyInv, HandshakeInv, WorkInv
<1> QED BY <1>1, <1>2, <1>3, <1>4 DEF IInv

(* Every step keeps the invariant.                                         *)
LEMMA StepInv == IInv /\ [Next]_vars => IInv'
<1> SUFFICES ASSUME IInv, [Next]_vars PROVE IInv'
  OBVIOUS
<1>1. Flags'
  BY PowerFlagsStep, CmdFlagsStep, MlmeFlagsStep, OtherFlagsStep DEF IInv, Flags
<1>2. Points' /\ QueueOK'
  BY PointsStep, QueueStep DEF IInv
<1>3. RfInv' /\ DenyInv' /\ HandshakeInv' /\ WorkInv'
  BY <1>2, RfStep, DenyStep, HandshakeStep, WorkStep DEF IInv
<1> QED BY <1>1, <1>2, <1>3 DEF IInv

(* The invariant holds at every state of every behaviour.                  *)
THEOREM Inductive == Spec => []IInv
  BY InitInv, StepInv, PTL DEF Spec

(* ips_enter, ips_leave and the suspend path: whenever nobody holds        *)
(* pwrpriv->lock, rf_pwrstate says rf_on only over a running chip, and the *)
(* lock is with the process that took it.                                  *)
THEOREM RfTruthfulHolds == Spec => []RfTruthful
<1>1. Flags => \A b \in {chip, up, rf, to_off, ips_processing, ps_processing,
                         timer, resetting, start_failed, linked, busy, deny,
                         bInSuspend, stranded, no_check} : b \in BOOLEAN
  BY DEF Flags, PowerFlags, CmdFlags, MlmeFlags, OtherFlags
<1>2. IInv => RfTruthful
  BY <1>1 DEF IInv, Points, QueueOK, RfInv, DenyInv, RfTruthful, TypeOK
<1> QED BY <1>2, Inductive, PTL

(* _rtw_pwr_wakeup and rtw_ps_processor: a caller that was told the        *)
(* adapter is awake works on a running chip until it is done, unless  *)
(* its own call took too long or a reset, a suspend or a failed start came *)
(* between.                                                                *)
THEOREM AwakeWorksHolds == Spec => []AwakeWorks
<1>1. IInv => AwakeWorks
  BY DEF IInv, WorkInv, Excused, AwakeWorks
<1> QED BY <1>1, Inductive, PTL

=============================================================================
