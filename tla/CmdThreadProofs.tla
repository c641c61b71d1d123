--------------------------- MODULE CmdThreadProofs ---------------------------
(***************************************************************************)
(* Proofs about CmdThread, for every set of callers, kinds of commands and *)
(* bound on the semaphore.                                                 *)
(*                                                                         *)
(* Handshake is not inductive: what terminate_cmdthread_sema holds has to  *)
(* be accounted for at each control point of the open and unload paths     *)
(* (TermInv).  NoLostWakeup is strengthened to the control points from     *)
(* which the thread reaches its wait without looking at the queue          *)
(* (WakeInv): a queue left non-empty by a late caller carries its token    *)
(* over to the next thread.                                                *)
(***************************************************************************)
EXTENDS CmdThread, TLAPS

(* The part of TypeOK that the induction needs.                            *)
QueueTypes ==
  /\ queue \in Seq(Callers)
  /\ sema \in Nat /\ term \in Nat
  /\ pc \in [Callers -> {"idle", "filter", "add", "up"}]

(* What is left in terminate_cmdthread_sema: the start token until         *)
(* rtw_start_drv_threads takes it, the end token until                     *)
(* rtw_stop_drv_threads does.                                              *)
TermInv ==
  /\ admin_pc \in {"down", "hal", "create", "deinit", "free", "gone"} => ThreadGone /\ term = 0
  /\ admin_pc = "wait_start" =>
       /\ thread_pc # "none"
       /\ thread_pc = "entry" => term = 0
       /\ thread_pc = "dead" => term = 2
       /\ thread_pc \notin {"entry", "dead"} => term = 1
  /\ admin_pc \in {"up", "unload", "stop_up", "stop_wait"} =>
       /\ thread_pc \notin {"none", "entry"}
       /\ thread_pc = "dead" => term = 1
       /\ thread_pc # "dead" => term = 0
  /\ admin_pc \in {"down", "hal", "create", "wait_start", "up", "unload", "stop_up",
                   "stop_wait", "deinit", "free", "gone"}

SomeoneUp == \E c \in Callers : pc[c] = "up"

WakeInv ==
  thread_pc \in {"none", "entry", "down", "term", "dead"} /\ queue # <<>>
    => sema > 0 \/ SomeoneUp

IInv == QueueTypes /\ TermInv /\ WakeInv

-----------------------------------------------------------------------------
(* The step relation as the disjunction of its actions.                    *)
LEMMA NextCases ==
  ASSUME [Next]_vars
  PROVE  \/ \E c \in Callers : \E k \in Kinds[c] : Issue(c, k)
         \/ \E c \in Callers : Filter(c) \/ Add(c) \/ Up(c)
         \/ ThreadEntry \/ ThreadDown \/ ThreadSignal \/ ThreadCheck \/ ThreadDequeue
         \/ ThreadFilter \/ ThreadExec \/ ThreadIps
         \/ (\E ok \in BOOLEAN : ThreadLeave(ok))
         \/ ThreadPost \/ ThreadExit \/ ThreadDrain \/ ThreadTerm
         \/ (\E resume \in BOOLEAN : OpenBegin(resume))
         \/ (\E ok \in BOOLEAN : OpenHal(ok) \/ OpenCreate(ok))
         \/ OpenWait \/ SuspendLock \/ Disconnect \/ UnloadStop \/ StopUp \/ StopWait
         \/ UnloadDeinit \/ FreeDrvSw \/ SurpriseRemove
         \/ (\E ok \in BOOLEAN : PwrWakeup(ok))
         \/ UNCHANGED vars
  BY Zenon DEF Next, Enqueue, Thread, Admin

(* What is left of a queue is a queue.                                     *)
LEMMA TailType ==
  ASSUME NEW q \in Seq(Callers), q # <<>>
  PROVE  Tail(q) \in Seq(Callers)
  OBVIOUS

(* The queue, the semaphores and the callers keep their types.             *)
LEMMA TypesStep == QueueTypes /\ [Next]_vars => QueueTypes'
<1> SUFFICES ASSUME QueueTypes, [Next]_vars PROVE QueueTypes'
  OBVIOUS
<1> USE DEF QueueTypes, caller_vars, thread_vars, admin_vars, hw_vars
<1>1. ASSUME NEW c \in Callers, NEW k \in Kinds[c], Issue(c, k) PROVE QueueTypes'
  BY <1>1 DEF Issue
<1>2. ASSUME NEW c \in Callers, Filter(c) PROVE QueueTypes'
  BY <1>2 DEF Filter
<1>3. ASSUME NEW c \in Callers, Add(c) PROVE QueueTypes'
  BY <1>3 DEF Add
<1>4. ASSUME NEW c \in Callers, Up(c) PROVE QueueTypes'
  BY <1>4 DEF Up
<1>5. CASE ThreadEntry BY <1>5 DEF ThreadEntry
<1>6. CASE ThreadDown BY <1>6 DEF ThreadDown
<1>7. CASE ThreadSignal BY <1>7 DEF ThreadSignal
<1>8. CASE ThreadCheck BY <1>8 DEF ThreadCheck
<1>9. CASE ThreadDequeue BY <1>9, TailType DEF ThreadDequeue
<1>10. CASE ThreadFilter BY <1>10 DEF ThreadFilter
<1>11. CASE ThreadExec BY <1>11 DEF ThreadExec
<1>12. CASE ThreadIps BY <1>12 DEF ThreadIps
<1>13. ASSUME NEW ok \in BOOLEAN, ThreadLeave(ok) PROVE QueueTypes'
  BY <1>13 DEF ThreadLeave
<1>14. CASE ThreadPost BY <1>14 DEF ThreadPost
<1>15. CASE ThreadExit BY <1>15 DEF ThreadExit
<1>16. CASE ThreadDrain BY <1>16, TailType DEF ThreadDrain
<1>17. CASE ThreadTerm BY <1>17 DEF ThreadTerm
<1>18. ASSUME NEW resume \in BOOLEAN, OpenBegin(resume) PROVE QueueTypes'
  BY <1>18 DEF OpenBegin
<1>19. ASSUME NEW ok \in BOOLEAN, OpenHal(ok) PROVE QueueTypes'
  BY <1>19 DEF OpenHal
<1>20. ASSUME NEW ok \in BOOLEAN, OpenCreate(ok) PROVE QueueTypes'
  BY <1>20 DEF OpenCreate
<1>21. CASE OpenWait BY <1>21 DEF OpenWait
<1>22. CASE SuspendLock BY <1>22 DEF SuspendLock
<1>23. CASE Disconnect BY <1>23 DEF Disconnect
<1>24. CASE UnloadStop BY <1>24 DEF UnloadStop
<1>25. CASE StopUp BY <1>25 DEF StopUp
<1>26. CASE StopWait BY <1>26 DEF StopWait
<1>27. CASE UnloadDeinit BY <1>27 DEF UnloadDeinit
<1>28. CASE FreeDrvSw BY <1>28 DEF FreeDrvSw
<1>29. CASE SurpriseRemove BY <1>29 DEF SurpriseRemove
<1>30. ASSUME NEW ok \in BOOLEAN, PwrWakeup(ok) PROVE QueueTypes'
  BY <1>30 DEF PwrWakeup
<1>31. CASE UNCHANGED vars BY <1>31 DEF vars
<1> HIDE DEF QueueTypes
<1> QED
  BY NextCases, <1>1, <1>2, <1>3, <1>4, <1>5, <1>6, <1>7, <1>8, <1>9, <1>10, <1>11, <1>12,
     <1>13, <1>14, <1>15, <1>16, <1>17, <1>18, <1>19, <1>20, <1>21, <1>22, <1>23, <1>24,
     <1>25, <1>26, <1>27, <1>28, <1>29, <1>30, <1>31

(* Every step keeps the account of terminate_cmdthread_sema.               *)
LEMMA TermStep == QueueTypes /\ TermInv /\ [Next]_vars => TermInv'
<1> SUFFICES ASSUME QueueTypes, TermInv, [Next]_vars PROVE TermInv'
  OBVIOUS
<1> USE DEF TermInv, ThreadGone, QueueTypes, caller_vars, thread_vars, admin_vars, hw_vars
<1>1. ASSUME NEW c \in Callers, NEW k \in Kinds[c], Issue(c, k) PROVE TermInv'
  BY <1>1 DEF Issue
<1>2. ASSUME NEW c \in Callers, Filter(c) PROVE TermInv'
  BY <1>2 DEF Filter
<1>3. ASSUME NEW c \in Callers, Add(c) PROVE TermInv'
  BY <1>3 DEF Add
<1>4. ASSUME NEW c \in Callers, Up(c) PROVE TermInv'
  BY <1>4 DEF Up
<1>5. CASE ThreadEntry BY <1>5 DEF ThreadEntry
<1>6. CASE ThreadDown BY <1>6 DEF ThreadDown
<1>7. CASE ThreadSignal BY <1>7 DEF ThreadSignal
<1>8. CASE ThreadCheck BY <1>8 DEF ThreadCheck
<1>9. CASE ThreadDequeue BY <1>9 DEF ThreadDequeue
<1>10. CASE ThreadFilter BY <1>10 DEF ThreadFilter
<1>11. CASE ThreadExec BY <1>11 DEF ThreadExec
<1>12. CASE ThreadIps BY <1>12 DEF ThreadIps
<1>13. ASSUME NEW ok \in BOOLEAN, ThreadLeave(ok) PROVE TermInv'
  BY <1>13 DEF ThreadLeave
<1>14. CASE ThreadPost BY <1>14 DEF ThreadPost
<1>15. CASE ThreadExit BY <1>15 DEF ThreadExit
<1>16. CASE ThreadDrain BY <1>16 DEF ThreadDrain
<1>17. CASE ThreadTerm BY <1>17 DEF ThreadTerm
<1>18. ASSUME NEW resume \in BOOLEAN, OpenBegin(resume) PROVE TermInv'
  BY <1>18 DEF OpenBegin
<1>19. ASSUME NEW ok \in BOOLEAN, OpenHal(ok) PROVE TermInv'
  BY <1>19 DEF OpenHal
<1>20. ASSUME NEW ok \in BOOLEAN, OpenCreate(ok) PROVE TermInv'
  BY <1>20 DEF OpenCreate
<1>21. CASE OpenWait BY <1>21 DEF OpenWait
<1>22. CASE SuspendLock BY <1>22 DEF SuspendLock
<1>23. CASE Disconnect BY <1>23 DEF Disconnect
<1>24. CASE UnloadStop BY <1>24 DEF UnloadStop
<1>25. CASE StopUp BY <1>25 DEF StopUp
<1>26. CASE StopWait BY <1>26 DEF StopWait
<1>27. CASE UnloadDeinit BY <1>27 DEF UnloadDeinit
<1>28. CASE FreeDrvSw BY <1>28 DEF FreeDrvSw
<1>29. CASE SurpriseRemove BY <1>29 DEF SurpriseRemove
<1>30. ASSUME NEW ok \in BOOLEAN, PwrWakeup(ok) PROVE TermInv'
  BY <1>30 DEF PwrWakeup
<1>31. CASE UNCHANGED vars BY <1>31 DEF vars
<1> HIDE DEF TermInv
<1> QED
  BY NextCases, <1>1, <1>2, <1>3, <1>4, <1>5, <1>6, <1>7, <1>8, <1>9, <1>10, <1>11, <1>12,
     <1>13, <1>14, <1>15, <1>16, <1>17, <1>18, <1>19, <1>20, <1>21, <1>22, <1>23, <1>24,
     <1>25, <1>26, <1>27, <1>28, <1>29, <1>30, <1>31

(* No step leaves the thread asleep over a command without a token.        *)
LEMMA WakeStep == QueueTypes /\ TermInv /\ WakeInv /\ [Next]_vars => WakeInv'
<1> SUFFICES ASSUME QueueTypes, TermInv, WakeInv, [Next]_vars PROVE WakeInv'
  OBVIOUS
<1> USE DEF WakeInv, SomeoneUp, QueueTypes, caller_vars, thread_vars, admin_vars, hw_vars
<1>1. ASSUME NEW c \in Callers, NEW k \in Kinds[c], Issue(c, k) PROVE WakeInv'
  BY <1>1 DEF Issue
<1>2. ASSUME NEW c \in Callers, Filter(c) PROVE WakeInv'
  BY <1>2 DEF Filter
<1>3. ASSUME NEW c \in Callers, Add(c) PROVE WakeInv'
  BY <1>3 DEF Add
<1>4. ASSUME NEW c \in Callers, Up(c) PROVE WakeInv'
  BY <1>4 DEF Up
<1>5. CASE ThreadEntry BY <1>5 DEF ThreadEntry
<1>6. CASE ThreadDown BY <1>6 DEF ThreadDown
<1>7. CASE ThreadSignal BY <1>7 DEF ThreadSignal
<1>8. CASE ThreadCheck BY <1>8 DEF ThreadCheck
<1>9. CASE ThreadDequeue BY <1>9 DEF ThreadDequeue
<1>10. CASE ThreadFilter BY <1>10 DEF ThreadFilter
<1>11. CASE ThreadExec BY <1>11 DEF ThreadExec
<1>12. CASE ThreadIps BY <1>12 DEF ThreadIps
<1>13. ASSUME NEW ok \in BOOLEAN, ThreadLeave(ok) PROVE WakeInv'
  BY <1>13 DEF ThreadLeave
<1>14. CASE ThreadPost BY <1>14 DEF ThreadPost
<1>15. CASE ThreadExit BY <1>15 DEF ThreadExit
<1>16. CASE ThreadDrain BY <1>16 DEF ThreadDrain
<1>17. CASE ThreadTerm BY <1>17 DEF ThreadTerm
<1>18. ASSUME NEW resume \in BOOLEAN, OpenBegin(resume) PROVE WakeInv'
  BY <1>18 DEF OpenBegin
<1>19. ASSUME NEW ok \in BOOLEAN, OpenHal(ok) PROVE WakeInv'
  BY <1>19 DEF OpenHal
<1>20. ASSUME NEW ok \in BOOLEAN, OpenCreate(ok) PROVE WakeInv'
  BY <1>20 DEF OpenCreate, TermInv, ThreadGone
<1>21. CASE OpenWait BY <1>21 DEF OpenWait
<1>22. CASE SuspendLock BY <1>22 DEF SuspendLock
<1>23. CASE Disconnect BY <1>23 DEF Disconnect
<1>24. CASE UnloadStop BY <1>24 DEF UnloadStop
<1>25. CASE StopUp BY <1>25 DEF StopUp
<1>26. CASE StopWait BY <1>26 DEF StopWait
<1>27. CASE UnloadDeinit BY <1>27 DEF UnloadDeinit
<1>28. CASE FreeDrvSw BY <1>28 DEF FreeDrvSw
<1>29. CASE SurpriseRemove BY <1>29 DEF SurpriseRemove
<1>30. ASSUME NEW ok \in BOOLEAN, PwrWakeup(ok) PROVE WakeInv'
  BY <1>30 DEF PwrWakeup
<1>31. CASE UNCHANGED vars BY <1>31 DEF vars
<1> HIDE DEF WakeInv
<1> QED
  BY NextCases, <1>1, <1>2, <1>3, <1>4, <1>5, <1>6, <1>7, <1>8, <1>9, <1>10, <1>11, <1>12,
     <1>13, <1>14, <1>15, <1>16, <1>17, <1>18, <1>19, <1>20, <1>21, <1>22, <1>23, <1>24,
     <1>25, <1>26, <1>27, <1>28, <1>29, <1>30, <1>31

(* Spec => []IInv: the three invariants together.                          *)
THEOREM Inductive == Spec => []IInv
<1>1. Init => IInv
  BY SMT DEF Init, IInv, QueueTypes, TermInv, ThreadGone, WakeInv
<1>2. IInv /\ [Next]_vars => IInv'
  BY TypesStep, TermStep, WakeStep DEF IInv
<1> QED
  BY <1>1, <1>2, PTL DEF Spec

(* Both handshakes over terminate_cmdthread_sema hold across restarts,     *)
(* signals and surprise removal: start returns after the thread has run,   *)
(* and the hardware is turned off, and the next thread created, only after *)
(* the thread has ended.                                                   *)
THEOREM HandshakeHolds == Spec => []Handshake
<1>1. IInv => Handshake
  BY DEF IInv, TermInv, Handshake
<1> QED
  BY <1>1, Inductive, PTL

(* A thread that sleeps on cmd_queue_sema over a queued command is woken.  *)
THEOREM WakeupKept == Spec => []NoLostWakeup
<1>1. IInv => NoLostWakeup
  BY DEF IInv, WakeInv, SomeoneUp, NoLostWakeup
<1> QED
  BY <1>1, Inductive, PTL

-----------------------------------------------------------------------------
(***************************************************************************)
(* Who owns a command object.  OneOwner is made inductive by two facts:    *)
(* the thread has a command in hand exactly at the control points that     *)
(* work on one, and a caller that is about to raise the semaphore has      *)
(* handed its object over already.                                         *)
(***************************************************************************)
Distinct(q) == \A i, j \in 1 .. Len(q) : q[i] = q[j] => i = j
Listed(q, c) == \E i \in 1 .. Len(q) : q[i] = c

Serving == {"filter", "exec", "ips", "leave", "post"}

Owned(c) ==
  /\ Listed(queue, c) => alive[c] /\ cur # c /\ pc[c] \in {"idle", "up"}
  /\ cur = c => alive[c] /\ pc[c] \in {"idle", "up"}
  /\ pc[c] \in {"filter", "add"} => alive[c]
  /\ alive[c] =>
       pc[c] \in {"filter", "add"} \/ Listed(queue, c) \/ cur = c \/ kind[c] = "disconnect"

OwnerInv ==
  /\ Distinct(queue)
  /\ thread_pc \in Serving <=> cur # "none"
  /\ \A c \in Callers : Owned(c)

(* The flags, and what the thread and the open and unload paths hold.      *)
FlagsOK ==
  /\ running \in BOOLEAN /\ hw_init \in BOOLEAN /\ dstopped \in BOOLEAN /\ removed \in BOOLEAN
  /\ dropped \in BOOLEAN /\ pm \in BOOLEAN /\ suspended \in BOOLEAN
  /\ rf_off \in BOOLEAN /\ undone \in BOOLEAN
  /\ alive \in [Callers -> BOOLEAN]

(* A queue with one more command.                                          *)
LEMMA AppendQueue ==
  ASSUME NEW q \in Seq(Callers), NEW c \in Callers, Distinct(q), ~Listed(q, c)
  PROVE  /\ Distinct(Append(q, c))
         /\ \A d \in Callers : Listed(Append(q, c), d) <=> Listed(q, d) \/ d = c
<1> DEFINE r == Append(q, c)
<1>1. /\ Len(q) \in Nat /\ Len(r) = Len(q) + 1
      /\ \A i \in 1 .. Len(q) : r[i] = q[i]
      /\ r[Len(q) + 1] = c
  OBVIOUS
<1> HIDE DEF r
<1>2. Distinct(r)
  BY <1>1 DEF Distinct, Listed
<1>3. ASSUME NEW d \in Callers PROVE Listed(r, d) <=> Listed(q, d) \/ d = c
  BY <1>1 DEF Listed
<1> QED  BY <1>2, <1>3 DEF r

(* A queue without its head.                                               *)
LEMMA TailQueue ==
  ASSUME NEW q \in Seq(Callers), q # <<>>, Distinct(q)
  PROVE  /\ Distinct(Tail(q))
         /\ Head(q) \in Callers /\ Listed(q, Head(q))
         /\ \A d \in Callers : Listed(Tail(q), d) <=> Listed(q, d) /\ d # Head(q)
<1>1. /\ Len(q) \in Nat \ {0} /\ Len(Tail(q)) = Len(q) - 1
      /\ \A i \in 1 .. Len(Tail(q)) : Tail(q)[i] = q[i + 1]
      /\ Head(q) = q[1] /\ q[1] \in Callers
  OBVIOUS
<1> DEFINE r == Tail(q)
<1> HIDE DEF r
<1>2. Distinct(r)
  BY <1>1 DEF Distinct, r
<1>3. Listed(q, Head(q))
  BY <1>1 DEF Listed
<1>4. ASSUME NEW d \in Callers, Listed(r, d) PROVE Listed(q, d) /\ d # Head(q)
  <2>1. PICK i \in 1 .. Len(r) : r[i] = d
    BY <1>4 DEF Listed
  <2>2. i + 1 \in 1 .. Len(q) /\ q[i + 1] = d /\ 1 \in 1 .. Len(q) /\ i + 1 # 1
    BY <1>1, <2>1 DEF r
  <2> QED  BY <1>1, <2>2 DEF Listed, Distinct
<1>5. ASSUME NEW d \in Callers, Listed(q, d), d # Head(q) PROVE Listed(r, d)
  <2>1. PICK i \in 1 .. Len(q) : q[i] = d
    BY <1>5 DEF Listed
  <2>2. i - 1 \in 1 .. Len(r) /\ r[i - 1] = d
    BY <1>1, <1>5, <2>1 DEF r
  <2> QED  BY <2>2 DEF Listed
<1> QED  BY <1>1, <1>2, <1>3, <1>4, <1>5 DEF r

(* Marking one command object keeps the marks Boolean.                     *)
LEMMA MarkType ==
  ASSUME NEW f \in [Callers -> BOOLEAN], NEW c \in Callers, NEW b \in BOOLEAN
  PROVE  /\ [f EXCEPT ![c] = b] \in [Callers -> BOOLEAN]
         /\ [f EXCEPT ![c] = b][c] = b
         /\ \A d \in Callers \ {c} : [f EXCEPT ![c] = b][d] = f[d]
  OBVIOUS

(* Every step keeps the flags Boolean.                                     *)
LEMMA FlagsStep == FlagsOK /\ [Next]_vars => FlagsOK'
<1> SUFFICES ASSUME FlagsOK, [Next]_vars PROVE FlagsOK'
  OBVIOUS
<1> USE DEF FlagsOK, caller_vars, thread_vars, admin_vars, hw_vars
<1>1. ASSUME NEW c \in Callers, NEW k \in Kinds[c], Issue(c, k) PROVE FlagsOK'
  BY <1>1, MarkType DEF Issue
<1>2. ASSUME NEW c \in Callers, Filter(c) PROVE FlagsOK'
  BY <1>2, MarkType DEF Filter
<1>3. ASSUME NEW c \in Callers, Add(c) PROVE FlagsOK'
  BY <1>3, Zenon DEF Add
<1>4. ASSUME NEW c \in Callers, Up(c) PROVE FlagsOK'
  BY <1>4, Zenon DEF Up
<1>5. CASE ThreadEntry BY <1>5, Zenon DEF ThreadEntry
<1>6. CASE ThreadDown BY <1>6, Zenon DEF ThreadDown
<1>7. CASE ThreadSignal BY <1>7, Zenon DEF ThreadSignal
<1>8. CASE ThreadCheck BY <1>8, Zenon DEF ThreadCheck
<1>9. CASE ThreadDequeue BY <1>9, Zenon DEF ThreadDequeue
<1>10. CASE ThreadFilter BY <1>10, Zenon DEF ThreadFilter
<1>11. CASE ThreadExec BY <1>11, Zenon DEF ThreadExec
<1>12. CASE ThreadIps BY <1>12, Zenon DEF ThreadIps
<1>13. ASSUME NEW ok \in BOOLEAN, ThreadLeave(ok) PROVE FlagsOK'
  BY <1>13, Zenon DEF ThreadLeave, LeaveIps
<1>14. CASE ThreadPost BY <1>14, Zenon DEF ThreadPost
<1>15. CASE ThreadExit BY <1>15, Zenon DEF ThreadExit
<1>16. CASE ThreadDrain BY <1>16, Zenon DEF ThreadDrain
<1>17. CASE ThreadTerm BY <1>17, Zenon DEF ThreadTerm
<1>18. ASSUME NEW resume \in BOOLEAN, OpenBegin(resume) PROVE FlagsOK'
  BY <1>18, Zenon DEF OpenBegin
<1>19. ASSUME NEW ok \in BOOLEAN, OpenHal(ok) PROVE FlagsOK'
  BY <1>19, Zenon DEF OpenHal
<1>20. ASSUME NEW ok \in BOOLEAN, OpenCreate(ok) PROVE FlagsOK'
  BY <1>20, Zenon DEF OpenCreate
<1>21. CASE OpenWait BY <1>21, Zenon DEF OpenWait
<1>22. CASE SuspendLock BY <1>22, Zenon DEF SuspendLock
<1>23. CASE Disconnect BY <1>23, Zenon DEF Disconnect
<1>24. CASE UnloadStop BY <1>24, Zenon DEF UnloadStop
<1>25. CASE StopUp BY <1>25, Zenon DEF StopUp
<1>26. CASE StopWait BY <1>26, Zenon DEF StopWait
<1>27. CASE UnloadDeinit BY <1>27, Zenon DEF UnloadDeinit
<1>28. CASE FreeDrvSw BY <1>28, Zenon DEF FreeDrvSw
<1>29. CASE SurpriseRemove BY <1>29, Zenon DEF SurpriseRemove
<1>30. ASSUME NEW ok \in BOOLEAN, PwrWakeup(ok) PROVE FlagsOK'
  BY <1>30, Zenon DEF PwrWakeup, LeaveIps
<1>31. CASE UNCHANGED vars BY <1>31, Zenon DEF vars
<1> HIDE DEF FlagsOK
<1> QED
  BY NextCases, <1>1, <1>2, <1>3, <1>4, <1>5, <1>6, <1>7, <1>8, <1>9, <1>10,
     <1>11, <1>12, <1>13, <1>14, <1>15, <1>16, <1>17, <1>18, <1>19, <1>20, <1>21,
     <1>22, <1>23, <1>24, <1>25, <1>26, <1>27, <1>28, <1>29, <1>30, <1>31

(* The control points, and what the thread and the callers hold.           *)
PointsOK ==
  /\ thread_pc \in {"none", "entry", "down", "check", "deq", "filter", "exec", "ips", "leave", "post",
                    "exit", "drain", "term", "dead"}
  /\ cur \in Callers \cup {"none"}
  /\ DOMAIN kind = Callers /\ \A c \in Callers : kind[c] \in Kinds[c]
  /\ pwr_lock \in {"none", "admin"}

(* The head of a queue is a caller.                                        *)
LEMMA HeadType ==
  ASSUME NEW q \in Seq(Callers), q # <<>>
  PROVE  Head(q) \in Callers
  OBVIOUS

(* Every step keeps them.                                                  *)
LEMMA PointsStep == QueueTypes /\ PointsOK /\ [Next]_vars => PointsOK'
<1> SUFFICES ASSUME QueueTypes, PointsOK, [Next]_vars PROVE PointsOK'
  OBVIOUS
<1> USE DEF PointsOK, caller_vars, thread_vars, admin_vars, hw_vars
<1>1. ASSUME NEW c \in Callers, NEW k \in Kinds[c], Issue(c, k) PROVE PointsOK'
  BY <1>1 DEF Issue
<1>2. ASSUME NEW c \in Callers, Filter(c) PROVE PointsOK'
  BY <1>2 DEF Filter
<1>3. ASSUME NEW c \in Callers, Add(c) PROVE PointsOK'
  BY <1>3 DEF Add
<1>4. ASSUME NEW c \in Callers, Up(c) PROVE PointsOK'
  BY <1>4 DEF Up
<1>5. CASE ThreadEntry BY <1>5 DEF ThreadEntry
<1>6. CASE ThreadDown BY <1>6 DEF ThreadDown
<1>7. CASE ThreadSignal BY <1>7 DEF ThreadSignal
<1>8. CASE ThreadCheck BY <1>8 DEF ThreadCheck
<1>9. CASE ThreadDequeue
  <2>1. queue # <<>> => Head(queue) \in Callers
    BY HeadType DEF QueueTypes
  <2> QED  BY <1>9, <2>1 DEF ThreadDequeue
<1>10. CASE ThreadFilter BY <1>10 DEF ThreadFilter
<1>11. CASE ThreadExec BY <1>11 DEF ThreadExec
<1>12. CASE ThreadIps BY <1>12 DEF ThreadIps
<1>13. ASSUME NEW ok \in BOOLEAN, ThreadLeave(ok) PROVE PointsOK'
  BY <1>13 DEF ThreadLeave, LeaveIps
<1>14. CASE ThreadPost BY <1>14 DEF ThreadPost
<1>15. CASE ThreadExit BY <1>15 DEF ThreadExit
<1>16. CASE ThreadDrain BY <1>16 DEF ThreadDrain
<1>17. CASE ThreadTerm BY <1>17 DEF ThreadTerm
<1>18. ASSUME NEW resume \in BOOLEAN, OpenBegin(resume) PROVE PointsOK'
  BY <1>18 DEF OpenBegin
<1>19. ASSUME NEW ok \in BOOLEAN, OpenHal(ok) PROVE PointsOK'
  BY <1>19 DEF OpenHal
<1>20. ASSUME NEW ok \in BOOLEAN, OpenCreate(ok) PROVE PointsOK'
  BY <1>20 DEF OpenCreate
<1>21. CASE OpenWait BY <1>21 DEF OpenWait
<1>22. CASE SuspendLock BY <1>22 DEF SuspendLock
<1>23. CASE Disconnect BY <1>23 DEF Disconnect
<1>24. CASE UnloadStop BY <1>24 DEF UnloadStop
<1>25. CASE StopUp BY <1>25 DEF StopUp
<1>26. CASE StopWait BY <1>26 DEF StopWait
<1>27. CASE UnloadDeinit BY <1>27 DEF UnloadDeinit
<1>28. CASE FreeDrvSw BY <1>28 DEF FreeDrvSw
<1>29. CASE SurpriseRemove BY <1>29 DEF SurpriseRemove
<1>30. ASSUME NEW ok \in BOOLEAN, PwrWakeup(ok) PROVE PointsOK'
  BY <1>30 DEF PwrWakeup, LeaveIps
<1>31. CASE UNCHANGED vars BY <1>31 DEF vars
<1> HIDE DEF PointsOK
<1> QED
  BY NextCases, <1>1, <1>2, <1>3, <1>4, <1>5, <1>6, <1>7, <1>8, <1>9, <1>10,
     <1>11, <1>12, <1>13, <1>14, <1>15, <1>16, <1>17, <1>18, <1>19, <1>20, <1>21,
     <1>22, <1>23, <1>24, <1>25, <1>26, <1>27, <1>28, <1>29, <1>30, <1>31

(* Steps that leave the objects with their owners keep OwnerInv.           *)
LEMMA OwnerFrame ==
  ASSUME OwnerInv, UNCHANGED <<queue, cur, alive, pc, kind>>,
         thread_pc' \in Serving <=> thread_pc \in Serving
  PROVE  OwnerInv'
<1>1. \A c \in Callers : Owned(c)'
  BY DEF OwnerInv, Owned
<1>2. Distinct(queue')
  BY DEF OwnerInv
<1> QED  BY <1>1, <1>2 DEF OwnerInv

(* Every step hands an object over to one owner.                           *)
LEMMA OwnerStep ==
  QueueTypes /\ FlagsOK /\ PointsOK /\ TermInv /\ OwnerInv /\ [Next]_vars => OwnerInv'
<1> SUFFICES ASSUME QueueTypes, FlagsOK, PointsOK, TermInv, OwnerInv, [Next]_vars
             PROVE  OwnerInv'
  OBVIOUS
<1>0. /\ queue \in Seq(Callers) /\ alive \in [Callers -> BOOLEAN]
      /\ pc \in [Callers -> {"idle", "filter", "add", "up"}]
      /\ cur \in Callers \cup {"none"} /\ DOMAIN kind = Callers
      /\ "none" \notin Callers
      /\ Distinct(queue) /\ (thread_pc \in Serving <=> cur # "none")
      /\ \A c \in Callers : Owned(c)
  BY CallersAssumption DEF QueueTypes, FlagsOK, PointsOK, OwnerInv
<1> USE DEF caller_vars, thread_vars, admin_vars, hw_vars
<1>1. ASSUME NEW c \in Callers, NEW k \in Kinds[c], Issue(c, k) PROVE OwnerInv'
  <2>1. /\ queue' = queue /\ cur' = cur /\ thread_pc' = thread_pc
        /\ ~alive[c] /\ alive'[c] /\ pc'[c] = "filter"
        /\ \A d \in Callers \ {c} : alive'[d] = alive[d] /\ pc'[d] = pc[d] /\ kind'[d] = kind[d]
    BY <1>1, <1>0 DEF Issue
  <2>2. ASSUME NEW d \in Callers PROVE Owned(d)'
    BY <1>0, <2>1 DEF Owned
  <2> QED  BY <1>0, <2>1, <2>2 DEF OwnerInv
<1>2. ASSUME NEW c \in Callers, Filter(c) PROVE OwnerInv'
  <2>1. /\ queue' = queue /\ cur' = cur /\ thread_pc' = thread_pc /\ kind' = kind
        /\ pc[c] = "filter"
        /\ \/ pc'[c] = "add" /\ alive' = alive
           \/ pc'[c] = "idle" /\ ~alive'[c]
        /\ \A d \in Callers \ {c} : alive'[d] = alive[d] /\ pc'[d] = pc[d]
    BY <1>2, <1>0 DEF Filter
  <2>2. ASSUME NEW d \in Callers PROVE Owned(d)'
    BY <1>0, <2>1 DEF Owned
  <2> QED  BY <1>0, <2>1, <2>2 DEF OwnerInv
<1>3. ASSUME NEW c \in Callers, Add(c) PROVE OwnerInv'
  <2>1. /\ queue' = Append(queue, c) /\ cur' = cur /\ thread_pc' = thread_pc
        /\ kind' = kind /\ alive' = alive /\ pc[c] = "add" /\ pc'[c] = "up"
        /\ \A d \in Callers \ {c} : pc'[d] = pc[d]
    BY <1>3, <1>0 DEF Add
  <2>2. ~Listed(queue, c)
    BY <1>0, <2>1 DEF Owned
  <2>3. /\ Distinct(queue')
        /\ \A d \in Callers : Listed(queue', d) <=> Listed(queue, d) \/ d = c
    BY <1>0, <2>1, <2>2, AppendQueue
  <2>4. ASSUME NEW d \in Callers PROVE Owned(d)'
    BY <1>0, <2>1, <2>3 DEF Owned
  <2> QED  BY <1>0, <2>1, <2>3, <2>4 DEF OwnerInv
<1>4. ASSUME NEW c \in Callers, Up(c) PROVE OwnerInv'
  <2>1. /\ queue' = queue /\ cur' = cur /\ thread_pc' = thread_pc
        /\ kind' = kind /\ alive' = alive /\ pc[c] = "up" /\ pc'[c] = "idle"
        /\ \A d \in Callers \ {c} : pc'[d] = pc[d]
    BY <1>4, <1>0 DEF Up
  <2>2. ASSUME NEW d \in Callers PROVE Owned(d)'
    BY <1>0, <2>1 DEF Owned
  <2> QED  BY <1>0, <2>1, <2>2 DEF OwnerInv
<1>5. CASE ThreadEntry BY <1>5, OwnerFrame DEF ThreadEntry, Serving
<1>6. CASE ThreadDown BY <1>6, OwnerFrame DEF ThreadDown, Serving
<1>7. CASE ThreadSignal BY <1>7, OwnerFrame DEF ThreadSignal, Serving
<1>8. CASE ThreadCheck BY <1>8, OwnerFrame DEF ThreadCheck, Serving
<1>9. CASE ThreadDequeue
  <2>1. thread_pc = "deq" /\ cur = "none" /\ pc' = pc /\ kind' = kind /\ alive' = alive
    BY <1>9, <1>0 DEF ThreadDequeue, Serving
  <2>2. CASE queue' = queue /\ cur' = cur /\ thread_pc' = "down"
    BY <2>1, <2>2, OwnerFrame DEF Serving
  <2>3. CASE queue # <<>> /\ cur' = Head(queue) /\ queue' = Tail(queue) /\ thread_pc' = "filter"
    <3>1. /\ Distinct(queue') /\ cur' \in Callers /\ Listed(queue, cur')
          /\ \A d \in Callers : Listed(queue', d) <=> Listed(queue, d) /\ d # cur'
      BY <1>0, <2>3, TailQueue
    <3>2. ASSUME NEW d \in Callers PROVE Owned(d)'
      BY <1>0, <2>1, <3>1 DEF Owned
    <3>3. cur' # "none" /\ thread_pc' \in Serving
      BY <1>0, <2>3, <3>1 DEF Serving
    <3> QED  BY <3>1, <3>2, <3>3 DEF OwnerInv
  <2> QED  BY <1>9, <2>2, <2>3 DEF ThreadDequeue
<1>10. CASE ThreadFilter BY <1>10, OwnerFrame DEF ThreadFilter, Serving
<1>11. CASE ThreadExec BY <1>11, OwnerFrame DEF ThreadExec, Serving
<1>12. CASE ThreadIps BY <1>12, OwnerFrame DEF ThreadIps, Serving
<1>13. ASSUME NEW ok \in BOOLEAN, ThreadLeave(ok) PROVE OwnerInv'
  BY <1>13, OwnerFrame DEF ThreadLeave, Serving
<1>14. CASE ThreadPost
  <2>1. /\ thread_pc = "post" /\ thread_pc' = "check" /\ cur' = "none"
        /\ queue' = queue /\ pc' = pc /\ kind' = kind /\ cur \in Callers
    BY <1>14, <1>0 DEF ThreadPost, Serving
  <2>2. /\ alive'[cur] => kind[cur] = "disconnect"
        /\ \A d \in Callers \ {cur} : alive'[d] = alive[d]
    BY <1>14, <1>0, <2>1 DEF ThreadPost
  <2>3. ASSUME NEW d \in Callers PROVE Owned(d)'
    BY <1>0, <2>1, <2>2 DEF Owned
  <2> QED  BY <1>0, <2>1, <2>3 DEF OwnerInv, Serving
<1>15. CASE ThreadExit BY <1>15, OwnerFrame DEF ThreadExit, Serving
<1>16. CASE ThreadDrain
  <2>1. thread_pc = "drain" /\ cur = "none" /\ cur' = cur /\ pc' = pc /\ kind' = kind
    BY <1>16, <1>0 DEF ThreadDrain, Serving
  <2>2. CASE queue' = queue /\ alive' = alive /\ thread_pc' = "term"
    BY <2>1, <2>2, OwnerFrame DEF Serving
  <2>3. CASE /\ queue # <<>> /\ queue' = Tail(queue) /\ thread_pc' = thread_pc
             /\ alive' = [alive EXCEPT ![Head(queue)] = FALSE]
    <3>1. /\ Distinct(queue') /\ Head(queue) \in Callers /\ Listed(queue, Head(queue))
          /\ \A d \in Callers : Listed(queue', d) <=> Listed(queue, d) /\ d # Head(queue)
      BY <1>0, <2>3, TailQueue
    <3>2. /\ ~alive'[Head(queue)]
          /\ \A d \in Callers \ {Head(queue)} : alive'[d] = alive[d]
      BY <1>0, <2>3, <3>1
    <3>3. ASSUME NEW d \in Callers PROVE Owned(d)'
      BY <1>0, <2>1, <3>1, <3>2 DEF Owned
    <3> QED  BY <1>0, <2>1, <2>3, <3>1, <3>3 DEF OwnerInv
  <2> QED  BY <1>16, <2>2, <2>3 DEF ThreadDrain
<1>17. CASE ThreadTerm BY <1>17, OwnerFrame DEF ThreadTerm, Serving
<1>18. ASSUME NEW resume \in BOOLEAN, OpenBegin(resume) PROVE OwnerInv'
  BY <1>18, OwnerFrame DEF OpenBegin
<1>19. ASSUME NEW ok \in BOOLEAN, OpenHal(ok) PROVE OwnerInv'
  BY <1>19, OwnerFrame DEF OpenHal
<1>20. ASSUME NEW ok \in BOOLEAN, OpenCreate(ok) PROVE OwnerInv'
  BY <1>20, OwnerFrame DEF OpenCreate, Serving, TermInv, ThreadGone
<1>21. CASE OpenWait BY <1>21, OwnerFrame DEF OpenWait
<1>22. CASE SuspendLock BY <1>22, OwnerFrame DEF SuspendLock
<1>23. CASE Disconnect BY <1>23, OwnerFrame DEF Disconnect
<1>24. CASE UnloadStop BY <1>24, OwnerFrame DEF UnloadStop
<1>25. CASE StopUp BY <1>25, OwnerFrame DEF StopUp
<1>26. CASE StopWait BY <1>26, OwnerFrame DEF StopWait
<1>27. CASE UnloadDeinit BY <1>27, OwnerFrame DEF UnloadDeinit
<1>28. CASE FreeDrvSw BY <1>28, OwnerFrame DEF FreeDrvSw
<1>29. CASE SurpriseRemove BY <1>29, OwnerFrame DEF SurpriseRemove
<1>30. ASSUME NEW ok \in BOOLEAN, PwrWakeup(ok) PROVE OwnerInv'
  BY <1>30, OwnerFrame DEF PwrWakeup
<1>31. CASE UNCHANGED vars BY <1>31, OwnerFrame DEF vars
<1> QED
  BY NextCases, <1>1, <1>2, <1>3, <1>4, <1>5, <1>6, <1>7, <1>8, <1>9, <1>10,
     <1>11, <1>12, <1>13, <1>14, <1>15, <1>16, <1>17, <1>18, <1>19, <1>20, <1>21,
     <1>22, <1>23, <1>24, <1>25, <1>26, <1>27, <1>28, <1>29, <1>30, <1>31

(* The initial state owns nothing.                                         *)
LEMMA InitOwner == Init => FlagsOK /\ PointsOK /\ OwnerInv
<1> SUFFICES ASSUME Init PROVE FlagsOK /\ PointsOK /\ OwnerInv
  OBVIOUS
<1>1. FlagsOK
  BY Zenon DEF Init, FlagsOK
<1>2. PointsOK
  <2>1. \A c \in Callers : kind[c] \in Kinds[c]
    <3> TAKE c \in Callers
    <3>1. Kinds[c] # {}
      BY KindsAssumption, Zenon
    <3>2. kind[c] = CHOOSE k \in Kinds[c] : TRUE
      BY DEF Init
    <3> QED  BY <3>1, <3>2, Zenon
  <2> QED  BY <2>1 DEF Init, PointsOK
<1>3. OwnerInv
  <2>1. 1 .. Len(queue) = {}
    BY DEF Init
  <2>2. Distinct(queue) /\ \A c \in Callers : ~Listed(queue, c)
    BY <2>1 DEF Distinct, Listed
  <2>3. cur = "none" /\ thread_pc = "none"
    BY DEF Init
  <2>4. ASSUME NEW c \in Callers PROVE Owned(c)
    <3>1. pc[c] = "idle" /\ ~alive[c] /\ cur # c
      BY CallersAssumption DEF Init
    <3> QED  BY <2>2, <3>1 DEF Owned
  <2> QED  BY <2>2, <2>3, <2>4 DEF OwnerInv, Serving
<1> QED  BY <1>1, <1>2, <1>3

(* Every command object is in one place, and nothing that is queued or     *)
(* served has been freed, for any number of callers.                       *)
THEOREM OneOwnerHolds == Spec => []OneOwner
<1> DEFINE Inv == FlagsOK /\ PointsOK /\ OwnerInv
<1>1. Init => Inv
  BY InitOwner
<1>2. IInv /\ Inv /\ [Next]_vars => Inv'
  BY FlagsStep, PointsStep, OwnerStep DEF IInv
<1>3. IInv /\ Inv => OneOwner
  <2> SUFFICES ASSUME IInv, Inv PROVE OneOwner
    OBVIOUS
  <2>1. TypeOK
    BY DEF IInv, QueueTypes, TermInv, FlagsOK, PointsOK, TypeOK
  <2>2. \A i, j \in 1 .. Len(queue) : queue[i] = queue[j] => i = j
    BY DEF OwnerInv, Distinct
  <2>3. ASSUME NEW c \in Callers
        PROVE  /\ Queued(c) => alive[c] /\ cur # c /\ pc[c] \in {"idle", "up"}
               /\ cur = c => alive[c] /\ pc[c] \in {"idle", "up"}
               /\ pc[c] \in {"filter", "add"} => alive[c]
               /\ alive[c] => pc[c] # "idle" \/ Queued(c) \/ cur = c \/ kind[c] = "disconnect"
    <3>1. Owned(c) /\ (Queued(c) <=> Listed(queue, c))
      BY DEF OwnerInv, Queued, Listed
    <3> QED  BY <3>1 DEF Owned
  <2> QED  BY <2>1, <2>2, <2>3 DEF OneOwner
<1> HIDE DEF Inv
<1> QED
  BY <1>1, <1>2, <1>3, Inductive, PTL DEF Spec
=============================================================================
