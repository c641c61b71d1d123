--------------------------- MODULE RecvPathProofs ---------------------------
(***************************************************************************)
(* Proofs about RecvPath, for any number of buffers, frames and fragments. *)
(*                                                                         *)
(* FramesAccounted speaks of the pairs of places a frame can be in; the    *)
(* proof says it of one frame at a time (Located), which turns the moves   *)
(* of whole lists into set equations about ToSet.                          *)
(***************************************************************************)
EXTENDS RecvPath, WellFoundedInduction, TLAPS

Statuses == {"proto", "dead", "other"}

FlagsA ==
  /\ sched \in BOOLEAN /\ stopped \in BOOLEAN /\ removed \in BOOLEAN
  /\ cancelled \in BOOLEAN /\ leftover \in BOOLEAN
FlagsB == sta \in BOOLEAN /\ ht \in BOOLEAN /\ key \in BOOLEAN /\ short \in BOOLEAN

Types ==
  /\ urb \in [Bufs -> {"off", "bus", "queued"}]
  /\ rxq \in 0 .. MaxRxq
  /\ phase \in {"run", "stopping", "down", "ips", "opening"}
  /\ pc \in {"idle", "deq", "parse", "entry", "post", "ind"} /\ pkts \in 0 .. MaxPkts
  /\ leave \in {"no", "drain", "free"}

(* A driver that counted too many errors is gone for good.                 *)
ErrInv ==
  /\ errs \in 0 .. MAX_CONTINUAL_URB_ERR + 1
  /\ errs > MAX_CONTINUAL_URB_ERR => removed /\ phase = "run"

(* The port is cancelled with the interface down, and only a driver that   *)
(* runs has its URBs; those given up are remembered.                       *)
PortInv ==
  /\ cancelled => phase \in {"down", "ips"}
  /\ phase = "stopping" => stopped
  /\ phase = "run" /\ ~Gone /\ ~short => \A b \in Bufs : urb[b] # "off"
  /\ phase # "run" /\ phase # "stopping" => \A b \in Bufs : urb[b] = "off"

(* A completion that has queued its skb has still to schedule the tasklet. *)
AwakeInv ==
  /\ \A b, c \in Bufs : urb[b] = "queued" /\ urb[c] = "queued" => b = c
  /\ ~Gone /\ ~leftover /\ ~sched /\ pc = "idle" =>
       rxq = 0 \/ (rxq = 1 /\ \E b \in Bufs : urb[b] = "queued")

(* The tasklet's hands.                                                    *)
HandInv ==
  /\ cur # NoFrame => pc \in {"entry", "post", "ind"}
  /\ pc = "entry" => cur # NoFrame /\ work = NoFrame
  /\ work # NoFrame <=> pc \in {"post", "ind"}

(* Frame f is in exactly one place.                                        *)
Located(f, fr, c, w, p, d, h, l, k) ==
  /\ f \in fr \/ f = c \/ f = w \/ f \in p \/ f \in d \/ f \in h \/ f \in l \/ f \in k
  /\ f \in fr => f # c /\ f # w /\ f \notin p /\ f \notin d /\ f \notin h /\ f \notin l /\ f \notin k
  /\ f = c => f # w /\ f \notin p /\ f \notin d /\ f \notin h /\ f \notin l /\ f \notin k
  /\ f = w => f \notin p /\ f \notin d /\ f \notin h /\ f \notin l /\ f \notin k
  /\ f \in p => f \notin d /\ f \notin h /\ f \notin l /\ f \notin k
  /\ f \in d => f \notin h /\ f \notin l /\ f \notin k
  /\ f \in h => f \notin l /\ f \notin k
  /\ f \in l => f \notin k

Sets ==
  /\ free \subseteq Frames /\ held \subseteq Frames /\ limbo \subseteq Frames
  /\ leaked \subseteq Frames
  /\ cur \in Frames \cup {NoFrame} /\ work \in Frames \cup {NoFrame}
  /\ orig \in Frames \cup {NoFrame}
  /\ pend \in Seq(Frames) /\ IsInjective(pend)
  /\ defrag \in Seq(Frames) /\ IsInjective(defrag)

Here(f) == Located(f, free, cur, work, ToSet(pend), ToSet(defrag), held, limbo, leaked)

FrameInv == Sets /\ \A f \in Frames : Here(f)

AttInv == att \in [Frames -> Attrs]

IInv ==
  /\ FlagsA /\ FlagsB /\ Types /\ ErrInv /\ PortInv /\ AwakeInv
  /\ HandInv /\ FrameInv /\ AttInv

-----------------------------------------------------------------------------
(* The step relation as the disjunction of its actions.                    *)
LEMMA NextCases ==
  ASSUME [Next]_vars
  PROVE  \/ (\E b \in Bufs : UrbStopped(b)) \/ (\E b \in Bufs : UrbGood(b))
         \/ (\E b \in Bufs : UrbQueued(b)) \/ (\E b \in Bufs : UrbShort(b))
         \/ (\E b \in Bufs : \E status \in Statuses : UrbError(b, status))
         \/ TaskStart \/ TaskDeq \/ ParseEnd \/ ParseOk \/ DrainTake \/ PreDrop
         \/ (\E num \in 0 .. MaxFrag : \E more \in BOOLEAN : PreWait(num, more))
         \/ (\E num \in 0 .. MaxFrag : \E more \in BOOLEAN : PreData(num, more))
         \/ PostRefused \/ PostWhole \/ PostFragment \/ PostJoin \/ IndUp \/ IndFail
         \/ IndForget \/ IndReorder \/ ReorderTimer \/ Join \/ Rekey \/ SetKey
         \/ LeaveStart \/ LeaveDrain \/ LeaveFree \/ Stop \/ StopKill \/ IpsDown
         \/ Open \/ Start \/ UNCHANGED vars
  BY Zenon DEF Next, UrbStep, TaskStep, PreStep, PostStep, MlmeStep, PowerStep, Statuses

(***************************************************************************)
(* Sets and lists.                                                         *)
(***************************************************************************)
(* A comparison is TRUE or FALSE.                                          *)
LEMMA Compared == \A x, y \in Int : (x > y) \in BOOLEAN /\ (x < y) \in BOOLEAN
  OBVIOUS

(* rtw_alloc_recvframe finds a frame in a list that is not empty.          *)
LEMMA MinFacts ==
  ASSUME NEW S, S \subseteq Nat, S # {}
  PROVE  Min(S) \in S
<1>1. PICK x \in S : \A y \in S : ~(<<y, x>> \in OpToRel(<, Nat))
  BY NatLessThanWellFounded, WFMin, Zenon
<1>2. ASSUME NEW y \in S PROVE x =< y
  <2>1. x \in Nat /\ y \in Nat
    OBVIOUS
  <2>2. y < x => <<y, x>> \in OpToRel(<, Nat)
    BY <2>1 DEF OpToRel
  <2>3. ~(y < x)
    BY <1>1, <2>2, Zenon
  <2> QED BY <2>1, <2>3
<1> QED BY <1>2 DEF Min

(* A frame at the end of a list.                                           *)
LEMMA AppendFacts ==
  ASSUME NEW S, NEW q \in Seq(S), NEW x \in S
  PROVE /\ Append(q, x) \in Seq(S) /\ Append(q, x) # <<>>
        /\ ToSet(Append(q, x)) = ToSet(q) \cup {x}
        /\ IsInjective(q) /\ x \notin ToSet(q) => IsInjective(Append(q, x))
<1> DEFINE a == Append(q, x)
<1>1. /\ DOMAIN a = 1 .. Len(q) + 1 /\ DOMAIN q = 1 .. Len(q) /\ Len(q) \in Nat
      /\ a[Len(q) + 1] = x /\ \A i \in 1 .. Len(q) : a[i] = q[i]
  <2>1. /\ a \in Seq(S) /\ Len(a) = Len(q) + 1 /\ Len(q) \in Nat
        /\ a[Len(q) + 1] = x /\ \A i \in 1 .. Len(q) : a[i] = q[i]
    OBVIOUS
  <2> HIDE DEF a
  <2> QED BY <2>1
<1> HIDE DEF a
<1>2. ToSet(a) = ToSet(q) \cup {x}
  <2>1. ToSet(a) \subseteq ToSet(q) \cup {x}
    BY <1>1 DEF ToSet
  <2>2. ASSUME NEW y \in ToSet(q) PROVE y \in ToSet(a)
    <3> PICK i \in 1 .. Len(q) : y = q[i]
      BY <1>1 DEF ToSet
    <3>1. i \in 1 .. Len(q) + 1 /\ a[i] = y
      BY <1>1
    <3> QED BY <1>1, <3>1 DEF ToSet
  <2>3. x \in ToSet(a)
    <3>1. Len(q) + 1 \in 1 .. Len(q) + 1
      BY <1>1
    <3> QED BY <1>1, <3>1 DEF ToSet
  <2> QED BY <2>1, <2>2, <2>3
<1>3. IsInjective(q) /\ x \notin ToSet(q) => IsInjective(a)
  <2> SUFFICES ASSUME IsInjective(q), x \notin ToSet(q), NEW i \in 1 .. Len(q) + 1,
                      NEW j \in 1 .. Len(q) + 1, a[i] = a[j]
               PROVE  i = j
    BY <1>1 DEF IsInjective
  <2>1. CASE i \in 1 .. Len(q) /\ j \in 1 .. Len(q)
    BY <1>1, <2>1 DEF IsInjective
  <2>2. CASE i = Len(q) + 1 /\ j = Len(q) + 1
    BY <2>2
  <2>3. CASE (i = Len(q) + 1 /\ j \in 1 .. Len(q)) \/ (j = Len(q) + 1 /\ i \in 1 .. Len(q))
    BY <1>1, <2>3 DEF ToSet
  <2> QED BY <1>1, <2>1, <2>2, <2>3
<1>4. a \in Seq(S) /\ a # <<>>
  <2>1. a \in Seq(S)
    BY DEF a
  <2> QED BY <1>1, <2>1
<1> QED BY <1>4, <1>2, <1>3 DEF a

(* A frame taken off a list.                                               *)
LEMMA TailFacts ==
  ASSUME NEW S, NEW q \in Seq(S), q # <<>>
  PROVE /\ Head(q) \in S /\ Tail(q) \in Seq(S)
        /\ ToSet(q) = {Head(q)} \cup ToSet(Tail(q))
        /\ IsInjective(q) => IsInjective(Tail(q)) /\ Head(q) \notin ToSet(Tail(q))
<1>1. Head(q) \in S /\ Tail(q) \in Seq(S)
  OBVIOUS
<1>2. ToSet(q) \subseteq {Head(q)} \cup ToSet(Tail(q))
  <2> SUFFICES ASSUME NEW i \in 1 .. Len(q) PROVE q[i] \in {Head(q)} \cup ToSet(Tail(q))
    BY DEF ToSet
  <2>1. CASE i = 1
    BY <2>1
  <2>2. CASE i > 1
    <3> DEFINE t == Tail(q)
    <3>1. t \in Seq(S) /\ i - 1 \in 1 .. Len(t) /\ t[i - 1] = q[i]
      BY <2>2
    <3> HIDE DEF t
    <3>2. i - 1 \in DOMAIN t
      BY <3>1
    <3>3. q[i] \in ToSet(t)
      BY <3>1, <3>2 DEF ToSet
    <3> QED BY <3>3 DEF t
  <2> QED BY <2>1, <2>2
<1>3. {Head(q)} \cup ToSet(Tail(q)) \subseteq ToSet(q)
  BY DEF ToSet
<1>4. IsInjective(q) => IsInjective(Tail(q)) /\ Head(q) \notin ToSet(Tail(q))
  BY DEF ToSet, IsInjective
<1> QED BY <1>1, <1>2, <1>3, <1>4

(* A list without frames, and one of one frame.                            *)
LEMMA ShortFacts ==
  /\ ToSet(<<>>) = {} /\ IsInjective(<<>>)
  /\ \A S : \A x \in S : ToSet(<<x>>) = {x} /\ IsInjective(<<x>>) /\ <<x>> \in Seq(S)
  BY DEF ToSet, IsInjective

(* Every step keeps the flags of the driver Boolean.                       *)
LEMMA FlagsAStep == FlagsA /\ ErrInv /\ [Next]_vars => FlagsA'
<1> SUFFICES ASSUME FlagsA, ErrInv, [Next]_vars PROVE FlagsA'
  OBVIOUS
<1> USE DEF FlagsA, urb_vars, ctl_vars, hand_vars, list_vars, pool_vars,
   mlme_vars
<1>1. ASSUME NEW b \in Bufs, UrbQueued(b) PROVE FlagsA'
  BY <1>1, Zenon DEF UrbQueued, ReadPort
<1>2. ASSUME NEW b \in Bufs, NEW status \in Statuses, UrbError(b, status) PROVE FlagsA'
  <2>1. /\ removed' = (errs' > MAX_CONTINUAL_URB_ERR) /\ stopped' = (status = "dead")
        /\ UNCHANGED <<sched, cancelled, leftover>>
    BY <1>2, Zenon DEF UrbError, ReadPort
  <2>2. errs' \in Int /\ MAX_CONTINUAL_URB_ERR \in Int
    BY <1>2, ErrAssumption DEF UrbError, ErrInv
  <2>3. (errs' > MAX_CONTINUAL_URB_ERR) \in BOOLEAN
    BY <2>2, Compared
  <2>4. (status = "dead") \in BOOLEAN
    BY Zenon
  <2> QED BY <2>1, <2>3, <2>4, Zenon
<1>3. CASE TaskStart
  BY <1>3, Zenon DEF TaskStart
<1>4. CASE Stop
  BY <1>4, Zenon DEF Stop
<1>5. CASE StopKill
  BY <1>5, Zenon DEF StopKill, Kill
<1>6. CASE IpsDown
  BY <1>6, Zenon DEF IpsDown, Kill
<1>7. CASE Open
  BY <1>7, Zenon DEF Open
<1>8. ASSUME NEW b \in Bufs, UrbStopped(b) \/ UrbGood(b) \/ UrbShort(b) PROVE
   FlagsA'
  BY <1>8, Zenon DEF UrbStopped, UrbGood, UrbShort, ReadPort
<1>9. CASE TaskDeq \/ ParseEnd \/ ParseOk \/ DrainTake \/ PreDrop \/ PostRefused
  BY <1>9, Zenon DEF TaskDeq, ParseEnd, ParseOk, DrainTake, PreDrop, Free,
     PostRefused, PostDone, SetAtt
<1>10. CASE PostWhole \/ PostFragment \/ PostJoin \/ IndUp \/ IndFail \/
   IndForget
  BY <1>10, Zenon DEF PostWhole, PostFragment, Free, PostDone, SetAtt, PostJoin,
     IndUp, IndFail, Leak, IndForget
<1>11. CASE IndReorder \/ ReorderTimer \/ Join \/ Rekey \/ SetKey \/ LeaveStart
  BY <1>11, Zenon DEF IndReorder, Leak, Free, PostDone, SetAtt, ReorderTimer,
     Join, Rekey, SetKey, LeaveStart
<1>12. CASE LeaveDrain \/ LeaveFree \/ Start \/ UNCHANGED vars
  BY <1>12, Zenon DEF LeaveDrain, Free, SetAtt, LeaveFree, Start, vars
<1>13. ASSUME NEW num \in 0 .. MaxFrag, NEW more \in BOOLEAN, PreWait(num, more)
   \/ PreData(num, more) PROVE FlagsA'
  BY <1>13, Zenon DEF PreWait, PreData
<1> HIDE DEF FlagsA
<1> QED
  BY NextCases, <1>1, <1>2, <1>3, <1>4, <1>5, <1>6, <1>7, <1>8, <1>9, <1>10,
     <1>11, <1>12, <1>13

(* Every step keeps the flags of the station Boolean.                      *)
LEMMA FlagsBStep == FlagsB /\ [Next]_vars => FlagsB'
<1> SUFFICES ASSUME FlagsB, [Next]_vars PROVE FlagsB'
  OBVIOUS
<1> USE DEF FlagsB, urb_vars, ctl_vars, hand_vars, list_vars, pool_vars,
   mlme_vars
<1>1. ASSUME NEW b \in Bufs, UrbQueued(b) PROVE FlagsB'
  BY <1>1, Zenon DEF UrbQueued, ReadPort
<1>2. ASSUME NEW b \in Bufs, UrbShort(b) PROVE FlagsB'
  BY <1>2, Zenon DEF UrbShort, ReadPort
<1>3. ASSUME NEW b \in Bufs, NEW status \in Statuses, UrbError(b, status) PROVE FlagsB'
  BY <1>3, Zenon DEF UrbError, ReadPort
<1>4. CASE Join
  BY <1>4, Zenon DEF Join, Leak
<1>5. CASE Rekey
  BY <1>5, Zenon DEF Rekey
<1>6. CASE SetKey
  BY <1>6, Zenon DEF SetKey
<1>7. CASE LeaveFree
  BY <1>7, Zenon DEF LeaveFree, SetAtt
<1>8. CASE Start
  <2>1. UNCHANGED <<sta, ht, key>>
    BY <1>8, Zenon DEF Start
  <2> PICK n \in 0 .. NR_RECVBUFF : short' = (n < NR_RECVBUFF)
    BY <1>8, Zenon DEF Start
  <2>2. (n < NR_RECVBUFF) \in BOOLEAN
    BY Compared, PoolsAssumption
  <2> QED BY <2>1, <2>2, Zenon
<1>9. ASSUME NEW b \in Bufs, UrbStopped(b) \/ UrbGood(b) PROVE FlagsB'
  BY <1>9, Zenon DEF UrbStopped, UrbGood
<1>10. CASE TaskStart \/ TaskDeq \/ ParseEnd \/ ParseOk \/ DrainTake \/ PreDrop
  BY <1>10, Zenon DEF TaskStart, TaskDeq, ParseEnd, ParseOk, DrainTake, PreDrop,
     Free
<1>11. CASE PostRefused \/ PostWhole \/ PostFragment \/ PostJoin \/ IndUp \/
   IndFail
  BY <1>11, Zenon DEF PostRefused, Free, PostDone, SetAtt, PostWhole,
     PostFragment, PostJoin, IndUp, IndFail, Leak
<1>12. CASE IndForget \/ IndReorder \/ ReorderTimer \/ LeaveStart \/ LeaveDrain
   \/ Stop
  BY <1>12, Zenon DEF IndForget, Leak, PostDone, SetAtt, IndReorder, Free,
     ReorderTimer, LeaveStart, LeaveDrain, Stop
<1>13. CASE StopKill \/ IpsDown \/ Open \/ UNCHANGED vars
  BY <1>13, Zenon DEF StopKill, Kill, IpsDown, Open, vars
<1>14. ASSUME NEW num \in 0 .. MaxFrag, NEW more \in BOOLEAN, PreWait(num, more)
   \/ PreData(num, more) PROVE FlagsB'
  BY <1>14, Zenon DEF PreWait, PreData
<1> HIDE DEF FlagsB
<1> QED
  BY NextCases, <1>1, <1>2, <1>3, <1>4, <1>5, <1>6, <1>7, <1>8, <1>9, <1>10,
     <1>11, <1>12, <1>13, <1>14

(* Every step keeps the types of the queue and of the control points.      *)
LEMMA TypesStep == Types /\ [Next]_vars => Types'
<1> SUFFICES ASSUME Types, [Next]_vars PROVE Types'
  OBVIOUS
<1> USE BoundsAssumption DEF Types, urb_vars, ctl_vars, hand_vars, list_vars,
   pool_vars, mlme_vars
<1>1. ASSUME NEW b \in Bufs, UrbStopped(b) PROVE Types'
  BY <1>1 DEF UrbStopped
<1>2. ASSUME NEW b \in Bufs, UrbGood(b) PROVE Types'
  BY <1>2 DEF UrbGood
<1>3. ASSUME NEW b \in Bufs, UrbQueued(b) PROVE Types'
  BY <1>3 DEF UrbQueued, ReadPort
<1>4. ASSUME NEW b \in Bufs, UrbShort(b) PROVE Types'
  BY <1>4 DEF UrbShort, ReadPort
<1>5. ASSUME NEW b \in Bufs, NEW status \in Statuses, UrbError(b, status) PROVE Types'
  BY <1>5 DEF UrbError, ReadPort
<1>6. CASE TaskStart
  BY <1>6 DEF TaskStart
<1>7. CASE TaskDeq
  BY <1>7 DEF TaskDeq
<1>8. CASE ParseEnd
  BY <1>8 DEF ParseEnd
<1>9. CASE ParseOk
  BY <1>9 DEF ParseOk
<1>10. CASE DrainTake
  BY <1>10 DEF DrainTake
<1>11. CASE PreDrop
  BY <1>11 DEF PreDrop, Free
<1>12. ASSUME NEW num \in 0 .. MaxFrag, NEW more \in BOOLEAN, PreWait(num, more) PROVE Types'
  BY <1>12 DEF PreWait
<1>13. ASSUME NEW num \in 0 .. MaxFrag, NEW more \in BOOLEAN, PreData(num, more) PROVE Types'
  BY <1>13 DEF PreData
<1>14. CASE PostRefused
  BY <1>14 DEF PostRefused, Free, PostDone, SetAtt
<1>15. CASE PostWhole
  BY <1>15 DEF PostWhole
<1>16. CASE PostFragment
  BY <1>16 DEF PostFragment, Free, PostDone, SetAtt
<1>17. CASE PostJoin
  BY <1>17 DEF PostJoin, Free, PostDone, SetAtt
<1>18. CASE IndUp
  BY <1>18 DEF IndUp, Free, PostDone, SetAtt
<1>19. CASE IndFail
  BY <1>19 DEF IndFail, Free, Leak, PostDone, SetAtt
<1>20. CASE IndForget
  BY <1>20 DEF IndForget, Leak, PostDone, SetAtt
<1>21. CASE IndReorder
  BY <1>21 DEF IndReorder, Leak, Free, PostDone, SetAtt
<1>22. CASE LeaveStart
  BY <1>22 DEF LeaveStart
<1>23. CASE LeaveDrain
  BY <1>23 DEF LeaveDrain, Free, SetAtt
<1>24. CASE LeaveFree
  BY <1>24 DEF LeaveFree, SetAtt
<1>25. CASE Stop
  BY <1>25 DEF Stop
<1>26. CASE StopKill
  BY <1>26 DEF StopKill, Kill
<1>27. CASE IpsDown
  BY <1>27 DEF IpsDown, Kill
<1>28. CASE Open
  BY <1>28 DEF Open
<1>29. CASE Start
  BY <1>29 DEF Start
<1>30. CASE ReorderTimer \/ Join \/ Rekey \/ SetKey \/ UNCHANGED vars
  <2>1. UNCHANGED <<urb, rxq, phase, pc, pkts, leave>>
    BY <1>30, Zenon DEF ReorderTimer, Free, SetAtt, Join, Leak, Rekey, SetKey,
       vars
  <2> QED BY <2>1
<1> HIDE DEF Types
<1> QED
  BY NextCases, <1>1, <1>2, <1>3, <1>4, <1>5, <1>6, <1>7, <1>8, <1>9, <1>10,
     <1>11, <1>12, <1>13, <1>14, <1>15, <1>16, <1>17, <1>18, <1>19, <1>20,
     <1>21, <1>22, <1>23, <1>24, <1>25, <1>26, <1>27, <1>28, <1>29, <1>30

(* Every step keeps the count of errors in its bounds.                     *)
LEMMA ErrStep == ErrInv /\ Types /\ PortInv /\ [Next]_vars => ErrInv'
<1> SUFFICES ASSUME ErrInv, Types, PortInv, [Next]_vars PROVE ErrInv'
  OBVIOUS
<1> USE ErrAssumption DEF ErrInv, urb_vars, ctl_vars, hand_vars, list_vars,
   pool_vars, mlme_vars
<1>1. ASSUME NEW b \in Bufs, UrbGood(b) PROVE ErrInv'
  BY <1>1 DEF UrbGood
<1>2. ASSUME NEW b \in Bufs, NEW status \in Statuses, UrbError(b, status) PROVE ErrInv'
  <2>1. /\ urb[b] = "bus" /\ ~stopped /\ ~removed /\ errs' = errs + 1
        /\ removed' = (errs' > MAX_CONTINUAL_URB_ERR) /\ phase' = phase
    BY <1>2 DEF UrbError, Completing, Gone
  <2>2. phase = "run" /\ errs \in 0 .. MAX_CONTINUAL_URB_ERR
    BY <2>1 DEF PortInv, Types
  <2>3. errs' > MAX_CONTINUAL_URB_ERR => removed'
    BY <2>1, Zenon
  <2> QED BY <2>1, <2>2, <2>3
<1>3. CASE Stop
  BY <1>3 DEF Stop, Gone
<1>4. CASE StopKill
  BY <1>4 DEF StopKill, Kill
<1>5. CASE IpsDown
  BY <1>5 DEF IpsDown, Kill, Gone
<1>6. CASE Open
  BY <1>6 DEF Open
<1>7. CASE Start
  BY <1>7 DEF Start
<1>8. ASSUME NEW b \in Bufs, UrbStopped(b) \/ UrbQueued(b) \/ UrbShort(b) PROVE
   ErrInv'
  <2>1. UNCHANGED <<errs, removed, phase>>
    BY <1>8, Zenon DEF UrbStopped, UrbQueued, ReadPort, UrbShort
  <2> QED BY <2>1
<1>9. CASE TaskStart \/ TaskDeq \/ ParseEnd \/ ParseOk \/ DrainTake \/ PreDrop
   \/ PostRefused \/ PostWhole \/ PostFragment \/ PostJoin \/ IndUp \/ IndFail
   \/ IndForget \/ IndReorder \/ ReorderTimer \/ Join \/ Rekey \/ SetKey \/
   LeaveStart \/ LeaveDrain \/ LeaveFree \/ UNCHANGED vars
  <2>1. UNCHANGED <<errs, removed, phase>>
    BY <1>9, Zenon DEF TaskStart, TaskDeq, ParseEnd, ParseOk, DrainTake,
       PreDrop, Free, PostRefused, PostDone, SetAtt, PostWhole, PostFragment,
       PostJoin, IndUp, IndFail, Leak, IndForget, IndReorder, ReorderTimer,
       Join, Rekey, SetKey, LeaveStart, LeaveDrain, LeaveFree, vars
  <2> QED BY <2>1
<1>10. ASSUME NEW num \in 0 .. MaxFrag, NEW more \in BOOLEAN, PreWait(num, more)
   \/ PreData(num, more) PROVE ErrInv'
  <2>1. UNCHANGED <<errs, removed, phase>>
    BY <1>10, Zenon DEF PreWait, PreData
  <2> QED BY <2>1
<1> HIDE DEF ErrInv
<1> QED
  BY NextCases, <1>1, <1>2, <1>3, <1>4, <1>5, <1>6, <1>7, <1>8, <1>9, <1>10

(* Every step keeps the port cancelled, and the URBs given up, in step with*)
(* the phase of the interface.                                             *)
LEMMA PortStep == PortInv /\ Types /\ [Next]_vars => PortInv'
<1> SUFFICES ASSUME PortInv, Types, [Next]_vars PROVE PortInv'
  OBVIOUS
<1> USE DEF PortInv, Types, Gone, urb_vars, ctl_vars, hand_vars, list_vars,
   pool_vars, mlme_vars
<1>1. ASSUME NEW b \in Bufs, UrbStopped(b) PROVE PortInv'
  BY <1>1 DEF UrbStopped, Completing
<1>2. ASSUME NEW b \in Bufs, UrbGood(b) PROVE PortInv'
  BY <1>2 DEF UrbGood, Completing
<1>3. ASSUME NEW b \in Bufs, UrbQueued(b) PROVE PortInv'
  BY <1>3 DEF UrbQueued, ReadPort
<1>4. ASSUME NEW b \in Bufs, UrbShort(b) PROVE PortInv'
  BY <1>4 DEF UrbShort, ReadPort, Completing
<1>5. ASSUME NEW b \in Bufs, NEW status \in Statuses, UrbError(b, status) PROVE PortInv'
  BY <1>5 DEF UrbError, ReadPort, Completing
<1>6. CASE Stop
  BY <1>6 DEF Stop
<1>7. CASE StopKill
  BY <1>7 DEF StopKill, Kill
<1>8. CASE IpsDown
  BY <1>8 DEF IpsDown, Kill
<1>9. CASE Open
  BY <1>9 DEF Open
<1>10. CASE Start
  <2> PICK n \in 0 .. NR_RECVBUFF : /\ urb' = [b \in Bufs |-> IF b <= n THEN "bus" ELSE "off"]
                                    /\ short' = (n < NR_RECVBUFF)
    BY <1>10 DEF Start
  <2>1. phase' = "run" /\ cancelled' = cancelled /\ ~cancelled
    BY <1>10 DEF Start
  <2>2. ~short' => \A b \in Bufs : urb'[b] # "off"
    <3>1. ~short' => ~(n < NR_RECVBUFF)
      BY Zenon
    <3> QED BY <3>1, PoolsAssumption DEF Bufs
  <2> QED BY <2>1, <2>2
<1>11. CASE TaskStart \/ TaskDeq \/ ParseEnd \/ ParseOk \/ DrainTake \/ PreDrop
   \/ PostRefused \/ PostWhole \/ PostFragment \/ PostJoin \/ IndUp \/ IndFail
   \/ IndForget \/ IndReorder \/ ReorderTimer \/ Join \/ Rekey \/ SetKey \/
   LeaveStart \/ LeaveDrain \/ LeaveFree \/ UNCHANGED vars
  <2>1. UNCHANGED <<cancelled, phase, stopped, removed, short, urb>>
    BY <1>11, Zenon DEF TaskStart, TaskDeq, ParseEnd, ParseOk, DrainTake,
       PreDrop, Free, PostRefused, PostDone, SetAtt, PostWhole, PostFragment,
       PostJoin, IndUp, IndFail, Leak, IndForget, IndReorder, ReorderTimer,
       Join, Rekey, SetKey, LeaveStart, LeaveDrain, LeaveFree, vars
  <2> QED BY <2>1
<1>12. ASSUME NEW num \in 0 .. MaxFrag, NEW more \in BOOLEAN, PreWait(num, more)
   \/ PreData(num, more) PROVE PortInv'
  <2>1. UNCHANGED <<cancelled, phase, stopped, removed, short, urb>>
    BY <1>12, Zenon DEF PreWait, PreData
  <2> QED BY <2>1
<1> HIDE DEF PortInv
<1> QED
  BY NextCases, <1>1, <1>2, <1>3, <1>4, <1>5, <1>6, <1>7, <1>8, <1>9, <1>10,
     <1>11, <1>12

(* Every step keeps a tasklet, or a completion about to schedule it, for the*)
(* queue.                                                                  *)
LEMMA AwakeStep ==
  AwakeInv /\ Types /\ FlagsA /\ PortInv /\ [Next]_vars => AwakeInv'
<1> SUFFICES ASSUME AwakeInv, Types, FlagsA, PortInv, [Next]_vars PROVE AwakeInv'
  OBVIOUS
<1> USE BoundsAssumption DEF AwakeInv, Types, Gone, urb_vars, ctl_vars,
   hand_vars, list_vars, pool_vars, mlme_vars
<1>1. ASSUME NEW b \in Bufs, UrbStopped(b) PROVE AwakeInv'
  BY <1>1 DEF UrbStopped, Completing
<1>2. ASSUME NEW b \in Bufs, UrbGood(b) PROVE AwakeInv'
  BY <1>2 DEF UrbGood, Completing
<1>3. ASSUME NEW b \in Bufs, UrbQueued(b) PROVE AwakeInv'
  <2>1. sched' = (sched \/ rxq <= 1)
    BY <1>3, Zenon DEF UrbQueued
  <2>2. sched \/ rxq <= 1 => sched'
    BY <2>1, Zenon
  <2>3. /\ UNCHANGED <<stopped, removed, leftover, pc, rxq>>
        /\ \A c \in Bufs : urb'[c] = "queued" => c # b /\ urb[c] = "queued"
    BY <1>3 DEF UrbQueued, ReadPort
  <2> QED BY <2>2, <2>3
<1>4. ASSUME NEW b \in Bufs, UrbShort(b) PROVE AwakeInv'
  BY <1>4 DEF UrbShort, ReadPort, Completing
<1>5. ASSUME NEW b \in Bufs, NEW status \in Statuses, UrbError(b, status) PROVE AwakeInv'
  BY <1>5 DEF UrbError, ReadPort, Completing
<1>6. CASE TaskStart
  BY <1>6 DEF TaskStart
<1>7. CASE TaskDeq
  BY <1>7 DEF TaskDeq
<1>8. CASE ParseEnd
  BY <1>8 DEF ParseEnd
<1>9. CASE ParseOk
  BY <1>9 DEF ParseOk
<1>10. CASE DrainTake
  BY <1>10 DEF DrainTake
<1>11. CASE PreDrop
  BY <1>11 DEF PreDrop, Free
<1>12. ASSUME NEW num \in 0 .. MaxFrag, NEW more \in BOOLEAN, PreWait(num, more) PROVE AwakeInv'
  BY <1>12 DEF PreWait
<1>13. ASSUME NEW num \in 0 .. MaxFrag, NEW more \in BOOLEAN, PreData(num, more) PROVE AwakeInv'
  BY <1>13 DEF PreData
<1>14. CASE PostRefused
  BY <1>14 DEF PostRefused, Free, PostDone, SetAtt
<1>15. CASE PostWhole
  BY <1>15 DEF PostWhole
<1>16. CASE PostFragment
  BY <1>16 DEF PostFragment, Free, PostDone, SetAtt
<1>17. CASE PostJoin
  BY <1>17 DEF PostJoin, Free, PostDone, SetAtt
<1>18. CASE IndUp
  BY <1>18 DEF IndUp, Free, PostDone, SetAtt
<1>19. CASE IndFail
  BY <1>19 DEF IndFail, Free, Leak, PostDone, SetAtt
<1>20. CASE IndForget
  BY <1>20 DEF IndForget, Leak, PostDone, SetAtt
<1>21. CASE IndReorder
  BY <1>21 DEF IndReorder, Leak, Free, PostDone, SetAtt
<1>22. CASE Stop
  BY <1>22 DEF Stop
<1>23. CASE StopKill
  BY <1>23 DEF StopKill, Kill
<1>24. CASE IpsDown
  BY <1>24 DEF IpsDown, Kill
<1>25. CASE Open
  <2>1. leftover' = (rxq > 0 /\ ~sched /\ pc = "idle") /\ UNCHANGED <<urb, rxq, sched, pc>>
    BY <1>25, Zenon DEF Open
  <2>2. rxq > 0 /\ ~sched /\ pc = "idle" => leftover'
    BY <2>1, Zenon
  <2> QED BY <2>1, <2>2
<1>26. CASE Start
  <2>1. /\ UNCHANGED <<stopped, removed, leftover, sched, pc, rxq>>
        /\ \A b \in Bufs : urb'[b] # "queued"
    BY <1>26 DEF Start
  <2>2. \A b \in Bufs : urb[b] = "off"
    BY <1>26 DEF Start, PortInv
  <2> QED BY <2>1, <2>2
<1>27. CASE ReorderTimer \/ Join \/ Rekey \/ SetKey \/ LeaveStart \/ LeaveDrain
   \/ LeaveFree \/ UNCHANGED vars
  <2>1. UNCHANGED <<urb, stopped, removed, leftover, sched, pc, rxq>>
    BY <1>27, Zenon DEF ReorderTimer, Free, SetAtt, Join, Leak, Rekey, SetKey,
       LeaveStart, LeaveDrain, LeaveFree, vars
  <2> QED BY <2>1
<1> HIDE DEF AwakeInv
<1> QED
  BY NextCases, <1>1, <1>2, <1>3, <1>4, <1>5, <1>6, <1>7, <1>8, <1>9, <1>10,
     <1>11, <1>12, <1>13, <1>14, <1>15, <1>16, <1>17, <1>18, <1>19, <1>20,
     <1>21, <1>22, <1>23, <1>24, <1>25, <1>26, <1>27

(* The attributes of the frames stay records.                              *)
LEMMA SetAttType ==
  ASSUME NEW a \in [Frames -> Attrs], SetAtt(a)
  PROVE  AttInv'
<1>1. Blank \in Attrs
  BY BoundsAssumption DEF Blank, Attrs
<1> QED BY <1>1 DEF SetAtt, AttInv

(* Every step keeps each frame in one place.                               *)
LEMMA FrameStep == FrameInv /\ HandInv /\ Types /\ [Next]_vars => FrameInv'
<1> SUFFICES ASSUME FrameInv, HandInv, Types, [Next]_vars PROVE FrameInv'
  OBVIOUS
<1> USE DEF urb_vars, ctl_vars, hand_vars, list_vars, pool_vars, mlme_vars
<1>0. Sets /\ \A f \in Frames : Here(f)
  BY DEF FrameInv
<1>1. NoFrame \notin Frames /\ Frames \subseteq Nat
  BY DEF NoFrame, Frames
<1>2. ToSet(<<>>) = {} /\ IsInjective(<<>>) /\ <<>> \in Seq(Frames)
  BY ShortFacts
<1>3. CASE ParseOk
  <2>1. /\ cur' = Min(free)
       /\ free' = free \ {cur'}
       /\ free # {}
       /\ UNCHANGED <<work, orig, pend, defrag, held, limbo, leaked>>
    BY <1>3 DEF ParseOk
  <2>2. Min(free) \in free /\ cur = NoFrame
    BY <1>3, <1>0, <1>1, MinFacts DEF ParseOk, Sets, HandInv
  <2>8. Sets'
    BY <1>0, <1>1, <2>1, <2>2 DEF Sets
  <2>9. ASSUME NEW f \in Frames PROVE Here(f)'
    <3>1. Here(f)
      BY <1>0
    <3> QED BY <3>1, <1>0, <1>1, <2>1, <2>2 DEF Here, Located, Sets
  <2> QED BY <2>8, <2>9 DEF FrameInv
<1>4. CASE DrainTake
  <2>1. /\ pend # <<>> /\ pend' = Tail(pend)
       /\ work' = Head(pend) /\ orig' = Head(pend)
       /\ UNCHANGED <<free, cur, defrag, held, limbo, leaked>>
    BY <1>4 DEF DrainTake, MustDrain
  <2>2. /\ Head(pend) \in Frames /\ Tail(pend) \in Seq(Frames) /\ IsInjective(Tail(pend))
        /\ ToSet(pend) = {Head(pend)} \cup ToSet(Tail(pend)) /\ Head(pend) \notin ToSet(Tail(pend))
    BY <1>0, <2>1, TailFacts DEF Sets
  <2>3. work = NoFrame
    BY <1>4 DEF DrainTake, HandInv
  <2>8. Sets'
    BY <1>0, <1>1, <2>1, <2>2, <2>3 DEF Sets
  <2>9. ASSUME NEW f \in Frames PROVE Here(f)'
    <3>1. Here(f)
      BY <1>0
    <3> QED BY <3>1, <1>0, <1>1, <2>1, <2>2, <2>3 DEF Here, Located, Sets
  <2> QED BY <2>8, <2>9 DEF FrameInv
<1>5. CASE PreDrop
  <2>1. /\ cur' = NoFrame /\ free' = free \cup {cur}
       /\ UNCHANGED <<work, orig, pend, defrag, held, limbo, leaked>>
    BY <1>5 DEF PreDrop, Free, AtPre
  <2>2. cur \in Frames
    BY <1>5, <1>0 DEF PreDrop, AtPre, HandInv, Sets
  <2>8. Sets'
    BY <1>0, <1>1, <2>1, <2>2 DEF Sets
  <2>9. ASSUME NEW f \in Frames PROVE Here(f)'
    <3>1. Here(f)
      BY <1>0
    <3> QED BY <3>1, <1>0, <1>1, <2>1, <2>2 DEF Here, Located, Sets
  <2> QED BY <2>8, <2>9 DEF FrameInv
<1>6. ASSUME NEW num \in 0 .. MaxFrag, NEW more \in BOOLEAN, PreWait(num, more) PROVE FrameInv'
  <2>1. /\ cur' = NoFrame /\ pend' = Append(pend, cur)
       /\ UNCHANGED <<free, work, orig, defrag, held, limbo, leaked>>
    BY <1>6 DEF PreWait, AtPre
  <2>2. cur \in Frames
    BY <1>6, <1>0 DEF PreWait, AtPre, HandInv, Sets
  <2>4. Here(cur)
    BY <1>0, <2>2
  <2>3. /\ Append(pend, cur) \in Seq(Frames) /\ IsInjective(Append(pend, cur))
        /\ ToSet(Append(pend, cur)) = ToSet(pend) \cup {cur}
    BY <1>0, <2>2, <2>4, AppendFacts DEF Sets, Here, Located
  <2>8. Sets'
    BY <1>0, <1>1, <2>1, <2>2, <2>3 DEF Sets
  <2>9. ASSUME NEW f \in Frames PROVE Here(f)'
    <3>1. Here(f)
      BY <1>0
    <3> QED BY <3>1, <1>0, <1>1, <2>1, <2>2, <2>3 DEF Here, Located, Sets
  <2> QED BY <2>8, <2>9 DEF FrameInv
<1>7. ASSUME NEW num \in 0 .. MaxFrag, NEW more \in BOOLEAN, PreData(num, more) PROVE FrameInv'
  <2>1. /\ cur' = NoFrame /\ work' = cur /\ orig' = cur
       /\ UNCHANGED <<free, pend, defrag, held, limbo, leaked>>
    BY <1>7 DEF PreData, AtPre
  <2>2. work = NoFrame
    BY <1>7 DEF PreData, AtPre, HandInv
  <2>8. Sets'
    BY <1>0, <1>1, <2>1, <2>2 DEF Sets
  <2>9. ASSUME NEW f \in Frames PROVE Here(f)'
    <3>1. Here(f)
      BY <1>0
    <3> QED BY <3>1, <1>0, <1>1, <2>1, <2>2 DEF Here, Located, Sets
  <2> QED BY <2>8, <2>9 DEF FrameInv
<1>8. CASE PostRefused
  <2>1. /\ work' = NoFrame /\ orig' = NoFrame
       /\ free' = free \cup {work}
       /\ UNCHANGED <<cur, pend, defrag, held, limbo, leaked>>
    BY <1>8 DEF PostRefused, Free, PostDone
  <2>2. work \in Frames
    BY <1>8, <1>0 DEF PostRefused, HandInv, Sets
  <2>8. Sets'
    BY <1>0, <1>1, <2>1, <2>2 DEF Sets
  <2>9. ASSUME NEW f \in Frames PROVE Here(f)'
    <3>1. Here(f)
      BY <1>0
    <3> QED BY <3>1, <1>0, <1>1, <2>1, <2>2 DEF Here, Located, Sets
  <2> QED BY <2>8, <2>9 DEF FrameInv
<1>9. CASE PostFragment
  <2>2. work \in Frames
    BY <1>9, <1>0 DEF PostFragment, HandInv, Sets
  <2>3. Here(work)
    BY <1>0, <2>2
  <2>4. CASE free' = free \cup ToSet(defrag) /\ defrag' = <<work>>
    <3>1. /\ work' = NoFrame /\ orig' = NoFrame
         /\ UNCHANGED <<cur, pend, held, limbo, leaked>>
      BY <1>9 DEF PostFragment, Free, PostDone
    <3>3. ToSet(defrag) \subseteq Frames
      BY <1>0 DEF Sets, ToSet
    <3>2. ToSet(<<work>>) = {work} /\ IsInjective(<<work>>) /\ <<work>> \in Seq(Frames)
      BY <2>2, ShortFacts
    <3>8. Sets'
      BY <1>0, <1>1, <3>1, <2>2, <2>4, <3>2, <3>3 DEF Sets
    <3>9. ASSUME NEW f \in Frames PROVE Here(f)'
      <4>1. Here(f)
        BY <1>0
      <4> QED BY <4>1, <1>0, <1>1, <3>1, <2>2, <2>4, <3>2, <3>3 DEF Here, Located, Sets
    <3> QED BY <3>8, <3>9 DEF FrameInv
  <2>5. CASE UNCHANGED free /\ defrag' = Append(defrag, work)
    <3>1. /\ work' = NoFrame /\ orig' = NoFrame
         /\ UNCHANGED <<cur, pend, held, limbo, leaked>>
      BY <1>9 DEF PostFragment, Free, PostDone
    <3>2. /\ Append(defrag, work) \in Seq(Frames) /\ IsInjective(Append(defrag, work))
          /\ ToSet(Append(defrag, work)) = ToSet(defrag) \cup {work}
      BY <1>0, <2>2, <2>3, AppendFacts DEF Sets, Here, Located
    <3>8. Sets'
      BY <1>0, <1>1, <3>1, <2>2, <2>5, <3>2 DEF Sets
    <3>9. ASSUME NEW f \in Frames PROVE Here(f)'
      <4>1. Here(f)
        BY <1>0
      <4> QED BY <4>1, <1>0, <1>1, <3>1, <2>2, <2>5, <3>2 DEF Here, Located, Sets
    <3> QED BY <3>8, <3>9 DEF FrameInv
  <2> QED BY <1>9, <2>4, <2>5 DEF PostFragment, Free
<1>10. CASE PostJoin
  <2> DEFINE q == Append(defrag, work)
  <2>2. work \in Frames
    BY <1>10, <1>0 DEF PostJoin, AtPre, HandInv, Sets
  <2>3. Here(work)
    BY <1>0, <2>2
  <2>4. /\ q \in Seq(Frames) /\ q # <<>> /\ IsInjective(q) /\ ToSet(q) = ToSet(defrag) \cup {work}
    BY <1>0, <2>2, <2>3, AppendFacts DEF Sets, Here, Located
  <2>5. /\ Head(q) \in Frames /\ ToSet(q) = {Head(q)} \cup ToSet(Tail(q))
        /\ Head(q) \notin ToSet(Tail(q)) /\ ToSet(Tail(q)) \subseteq Frames
    <3> HIDE DEF q
    <3>1. Tail(q) \in Seq(Frames)
      BY <2>4, TailFacts
    <3>2. ToSet(Tail(q)) \subseteq Frames
      BY <3>1 DEF ToSet
    <3> QED BY <2>4, <3>2, TailFacts
  <2>6. ToSet(defrag) \subseteq Frames
    BY <1>0 DEF Sets, ToSet
  <2>7. CASE free' = free \cup ToSet(Tail(q)) /\ work' = Head(q) /\ UNCHANGED orig
    <3> HIDE DEF q
    <3>1. /\ defrag' = <<>>
         /\ UNCHANGED <<cur, pend, held, limbo, leaked>>
      BY <1>10 DEF PostJoin, Free, PostDone
    <3>8. Sets'
      BY <1>0, <1>1, <3>1, <2>2, <2>4, <2>5, <2>6, <2>7, <1>2 DEF Sets
    <3>9. ASSUME NEW f \in Frames PROVE Here(f)'
      <4>1. Here(f)
        BY <1>0
      <4> QED BY <4>1, <1>0, <1>1, <3>1, <2>2, <2>4, <2>5, <2>6, <2>7, <1>2 DEF Here, Located, Sets
    <3> QED BY <3>8, <3>9 DEF FrameInv
  <2>8. CASE free' = free \cup ToSet(q) /\ work' = NoFrame /\ orig' = NoFrame
    <3> HIDE DEF q
    <3>1. /\ defrag' = <<>>
         /\ UNCHANGED <<cur, pend, held, limbo, leaked>>
      BY <1>10 DEF PostJoin, Free, PostDone
    <3>8. Sets'
      BY <1>0, <1>1, <3>1, <2>2, <2>4, <2>5, <2>6, <2>8, <1>2 DEF Sets
    <3>9. ASSUME NEW f \in Frames PROVE Here(f)'
      <4>1. Here(f)
        BY <1>0
      <4> QED BY <4>1, <1>0, <1>1, <3>1, <2>2, <2>4, <2>5, <2>6, <2>8, <1>2 DEF Here, Located, Sets
    <3> QED BY <3>8, <3>9 DEF FrameInv
  <2> QED BY <1>10, <2>7, <2>8 DEF PostJoin, Free, PostDone
<1>11. CASE IndUp
  <2>1. /\ work' = NoFrame /\ orig' = NoFrame
       /\ free' = free \cup {work}
       /\ UNCHANGED <<cur, pend, defrag, held, limbo, leaked>>
    BY <1>11 DEF IndUp, Free, PostDone
  <2>2. work \in Frames
    BY <1>11, <1>0 DEF IndUp, HandInv, Sets
  <2>8. Sets'
    BY <1>0, <1>1, <2>1, <2>2 DEF Sets
  <2>9. ASSUME NEW f \in Frames PROVE Here(f)'
    <3>1. Here(f)
      BY <1>0
    <3> QED BY <3>1, <1>0, <1>1, <2>1, <2>2 DEF Here, Located, Sets
  <2> QED BY <2>8, <2>9 DEF FrameInv
<1>12. CASE IndFail
  <2>1. /\ work' = NoFrame /\ orig' = NoFrame
       /\ UNCHANGED <<cur, pend, defrag, held, limbo>>
    BY <1>12 DEF IndFail, Free, Leak, PostDone
  <2>2. work \in Frames
    BY <1>12, <1>0 DEF IndFail, HandInv, Sets
  <2>3. \/ free' = free \cup {work} /\ leaked' = leaked
        \/ leaked' = leaked \cup {work} /\ free' = free
    BY <1>12 DEF IndFail, Free, Leak
  <2>8. Sets'
    BY <1>0, <1>1, <2>1, <2>2, <2>3 DEF Sets
  <2>9. ASSUME NEW f \in Frames PROVE Here(f)'
    <3>1. Here(f)
      BY <1>0
    <3> QED BY <3>1, <1>0, <1>1, <2>1, <2>2, <2>3 DEF Here, Located, Sets
  <2> QED BY <2>8, <2>9 DEF FrameInv
<1>13. CASE IndForget
  <2>1. /\ work' = NoFrame /\ orig' = NoFrame
       /\ leaked' = leaked \cup {work}
       /\ UNCHANGED <<free, cur, pend, defrag, held, limbo>>
    BY <1>13 DEF IndForget, Leak, PostDone
  <2>2. work \in Frames
    BY <1>13, <1>0 DEF IndForget, HandInv, Sets
  <2>8. Sets'
    BY <1>0, <1>1, <2>1, <2>2 DEF Sets
  <2>9. ASSUME NEW f \in Frames PROVE Here(f)'
    <3>1. Here(f)
      BY <1>0
    <3> QED BY <3>1, <1>0, <1>1, <2>1, <2>2 DEF Here, Located, Sets
  <2> QED BY <2>8, <2>9 DEF FrameInv
<1>14. CASE IndReorder
  <2>2. work \in Frames
    BY <1>14, <1>0 DEF IndReorder, HandInv, Sets
  <2> DEFINE list == {work} \cup (IF att[work].old THEN limbo ELSE held)
  <2>3. PICK due \in SUBSET list :
          /\ \/ leaked' = leaked \cup due /\ free' = free
             \/ free' = free \cup due /\ leaked' = leaked
          /\ \/ limbo' = ({work} \cup limbo) \ due /\ held' = held /\ due \subseteq {work} \cup limbo
             \/ held' = ({work} \cup held) \ due /\ limbo' = limbo /\ due \subseteq {work} \cup held
    BY <1>14 DEF IndReorder, Free, Leak
  <2> HIDE DEF list
  <2>1. /\ work' = NoFrame /\ orig' = NoFrame
       /\ UNCHANGED <<cur, pend, defrag>>
    BY <1>14 DEF IndReorder, Free, Leak, PostDone
  <2>8. Sets'
    BY <1>0, <1>1, <2>1, <2>2, <2>3 DEF Sets
  <2>9. ASSUME NEW f \in Frames PROVE Here(f)'
    <3>1. Here(f)
      BY <1>0
    <3> QED BY <3>1, <1>0, <1>1, <2>1, <2>2, <2>3 DEF Here, Located, Sets
  <2> QED BY <2>8, <2>9 DEF FrameInv
<1>15. CASE ReorderTimer
  <2>2. \/ \E due \in SUBSET held : free' = free \cup due /\ held' = held \ due /\ limbo' = limbo
        \/ \E due \in SUBSET limbo : free' = free \cup due /\ limbo' = limbo \ due /\ held' = held
    BY <1>15 DEF ReorderTimer, Free
  <2>1. /\ leaked' = leaked
       /\ UNCHANGED <<cur, work, orig, pend, defrag>>
    BY <1>15 DEF ReorderTimer, Free
  <2>8. Sets'
    BY <1>0, <1>1, <2>1, <2>2 DEF Sets
  <2>9. ASSUME NEW f \in Frames PROVE Here(f)'
    <3>1. Here(f)
      BY <1>0
    <3> QED BY <3>1, <1>0, <1>1, <2>1, <2>2 DEF Here, Located, Sets
  <2> QED BY <2>8, <2>9 DEF FrameInv
<1>16. CASE Join
  <2>1. /\ limbo' = {} \/ limbo' = limbo
       /\ leaked' = leaked \cup (limbo \ limbo')
       /\ UNCHANGED <<free, cur, work, orig, pend, defrag, held>>
    BY <1>16 DEF Join, Leak
  <2>8. Sets'
    BY <1>0, <1>1, <2>1 DEF Sets
  <2>9. ASSUME NEW f \in Frames PROVE Here(f)'
    <3>1. Here(f)
      BY <1>0
    <3> QED BY <3>1, <1>0, <1>1, <2>1 DEF Here, Located, Sets
  <2> QED BY <2>8, <2>9 DEF FrameInv
<1>17. CASE LeaveDrain
  <2>2. CASE UNCHANGED <<free, leaked, pend>>
    <3>1. /\ TRUE
         /\ UNCHANGED <<cur, work, orig, defrag, held, limbo>>
      BY <1>17 DEF LeaveDrain, Free
    <3>8. Sets'
      BY <1>0, <1>1, <3>1, <2>2 DEF Sets
    <3>9. ASSUME NEW f \in Frames PROVE Here(f)'
      <4>1. Here(f)
        BY <1>0
      <4> QED BY <4>1, <1>0, <1>1, <3>1, <2>2 DEF Here, Located, Sets
    <3> QED BY <3>8, <3>9 DEF FrameInv
  <2>3. CASE /\ pend # <<>> /\ free' = free \cup {Head(pend)} /\ pend' = Tail(pend)
             /\ leaked' = leaked
    <3>1. /\ TRUE
         /\ UNCHANGED <<cur, work, orig, defrag, held, limbo>>
      BY <1>17 DEF LeaveDrain, Free
    <3>2. /\ Head(pend) \in Frames /\ Tail(pend) \in Seq(Frames) /\ IsInjective(Tail(pend))
          /\ ToSet(pend) = {Head(pend)} \cup ToSet(Tail(pend)) /\ Head(pend) \notin ToSet(Tail(pend))
      BY <1>0, <2>3, TailFacts DEF Sets
    <3>8. Sets'
      BY <1>0, <1>1, <3>1, <2>3, <3>2 DEF Sets
    <3>9. ASSUME NEW f \in Frames PROVE Here(f)'
      <4>1. Here(f)
        BY <1>0
      <4> QED BY <4>1, <1>0, <1>1, <3>1, <2>3, <3>2 DEF Here, Located, Sets
    <3> QED BY <3>8, <3>9 DEF FrameInv
  <2> QED BY <1>17, <2>2, <2>3 DEF LeaveDrain, Free
<1>18. CASE LeaveFree
  <2>1. /\ free' = free \cup held /\ held' = {}
       /\ leaked' = leaked \cup ToSet(defrag) /\ defrag' = <<>>
       /\ UNCHANGED <<cur, work, orig, pend, limbo>>
    BY <1>18 DEF LeaveFree
  <2>2. ToSet(defrag) \subseteq Frames
    BY <1>0 DEF Sets, ToSet
  <2>8. Sets'
    BY <1>0, <1>1, <2>1, <2>2, <1>2 DEF Sets
  <2>9. ASSUME NEW f \in Frames PROVE Here(f)'
    <3>1. Here(f)
      BY <1>0
    <3> QED BY <3>1, <1>0, <1>1, <2>1, <2>2, <1>2 DEF Here, Located, Sets
  <2> QED BY <2>8, <2>9 DEF FrameInv
<1>19. ASSUME NEW b \in Bufs, UrbStopped(b) \/ UrbGood(b) \/ UrbQueued(b) \/
   UrbShort(b) PROVE FrameInv'
  <2>1. UNCHANGED <<free, cur, work, orig, pend, defrag, held, limbo, leaked>>
    BY <1>19, Zenon DEF UrbStopped, UrbGood, UrbQueued, ReadPort, UrbShort
  <2> QED BY <1>0, <2>1 DEF FrameInv, Sets, Here
<1>20. ASSUME NEW b \in Bufs, NEW status \in Statuses, UrbError(b, status) PROVE
   FrameInv'
  <2>1. UNCHANGED <<free, cur, work, orig, pend, defrag, held, limbo, leaked>>
    BY <1>20, Zenon DEF UrbError, ReadPort
  <2> QED BY <1>0, <2>1 DEF FrameInv, Sets, Here
<1>21. CASE TaskStart \/ TaskDeq \/ ParseEnd \/ PostWhole \/ Rekey \/ SetKey
  <2>1. UNCHANGED <<free, cur, work, orig, pend, defrag, held, limbo, leaked>>
    BY <1>21, Zenon DEF TaskStart, TaskDeq, ParseEnd, PostWhole, Rekey, SetKey
  <2> QED BY <1>0, <2>1 DEF FrameInv, Sets, Here
<1>22. CASE LeaveStart \/ Stop \/ StopKill \/ IpsDown \/ Open \/ Start
  <2>1. UNCHANGED <<free, cur, work, orig, pend, defrag, held, limbo, leaked>>
    BY <1>22, Zenon DEF LeaveStart, Stop, StopKill, Kill, IpsDown, Open, Start
  <2> QED BY <1>0, <2>1 DEF FrameInv, Sets, Here
<1>23. CASE UNCHANGED vars
  <2>1. UNCHANGED <<free, cur, work, orig, pend, defrag, held, limbo, leaked>>
    BY <1>23, Zenon DEF vars
  <2> QED BY <1>0, <2>1 DEF FrameInv, Sets, Here
<1> QED
  BY NextCases, <1>3, <1>4, <1>5, <1>6, <1>7, <1>8, <1>9, <1>10, <1>11, <1>12,
     <1>13, <1>14, <1>15, <1>16, <1>17, <1>18, <1>19, <1>20, <1>21, <1>22, <1>23

(* Every step keeps the hands of the tasklet with its control point.       *)
LEMMA HandStep == HandInv /\ Types /\ FrameInv /\ [Next]_vars => HandInv'
<1> SUFFICES ASSUME HandInv, Types, FrameInv, [Next]_vars PROVE HandInv'
  OBVIOUS
<1> USE DEF HandInv, Types, urb_vars, ctl_vars, hand_vars, list_vars, pool_vars,
   mlme_vars
<1>1. CASE TaskStart
  BY <1>1 DEF TaskStart
<1>2. CASE TaskDeq
  BY <1>2 DEF TaskDeq
<1>3. CASE ParseEnd
  BY <1>3 DEF ParseEnd
<1>4. CASE ParseOk
  <2>1. cur' \in Frames /\ pc' = "entry" /\ work' = work
    <3>1. Frames \subseteq Nat /\ free \subseteq Frames
      BY DEF Frames, FrameInv, Sets
    <3> QED BY <1>4, <3>1, MinFacts DEF ParseOk
  <2> QED BY <1>4, <2>1 DEF ParseOk, Frames, NoFrame
<1>5. CASE DrainTake
  <2>1. work' \in Frames /\ pc' = "post" /\ cur' = cur
    <3>1. pend \in Seq(Frames)
      BY DEF FrameInv, Sets
    <3> QED BY <1>5, <3>1, TailFacts DEF DrainTake, MustDrain
  <2> QED BY <1>5, <2>1 DEF DrainTake, Frames, NoFrame
<1>6. CASE PreDrop
  BY <1>6 DEF PreDrop, Free, AtPre
<1>7. ASSUME NEW num \in 0 .. MaxFrag, NEW more \in BOOLEAN, PreWait(num, more) PROVE HandInv'
  BY <1>7 DEF PreWait, AtPre
<1>8. ASSUME NEW num \in 0 .. MaxFrag, NEW more \in BOOLEAN, PreData(num, more) PROVE HandInv'
  <2> QED BY <1>8 DEF PreData, AtPre
<1>9. CASE PostRefused
  BY <1>9 DEF PostRefused, Free, PostDone, SetAtt
<1>10. CASE PostWhole
  BY <1>10 DEF PostWhole
<1>11. CASE PostFragment
  BY <1>11 DEF PostFragment, Free, PostDone, SetAtt
<1>12. CASE PostJoin
  <2>1. work \in Frames /\ defrag \in Seq(Frames) /\ cur' = cur /\ pc = "post"
    BY <1>12 DEF PostJoin, FrameInv, Sets
  <2>2. CASE work' = Head(Append(defrag, work)) /\ pc' = "ind"
    <3>1. work' \in Frames
      BY <2>1, <2>2, AppendFacts, TailFacts
    <3> QED BY <2>1, <2>2, <3>1 DEF Frames, NoFrame
  <2>3. CASE PostDone
    BY <2>1, <2>3 DEF PostDone
  <2> QED BY <1>12, <2>2, <2>3 DEF PostJoin
<1>13. CASE IndUp
  BY <1>13 DEF IndUp, Free, PostDone, SetAtt
<1>14. CASE IndFail
  BY <1>14 DEF IndFail, Free, Leak, PostDone, SetAtt
<1>15. CASE IndForget
  BY <1>15 DEF IndForget, Leak, PostDone, SetAtt
<1>16. CASE IndReorder
  BY <1>16 DEF IndReorder, Leak, Free, PostDone, SetAtt
<1>17. ASSUME NEW b \in Bufs, UrbStopped(b) \/ UrbGood(b) \/ UrbQueued(b) \/
   UrbShort(b) PROVE HandInv'
  <2>1. UNCHANGED <<cur, work, pc>>
    BY <1>17, Zenon DEF UrbStopped, UrbGood, UrbQueued, ReadPort, UrbShort
  <2> QED BY <2>1
<1>18. ASSUME NEW b \in Bufs, NEW status \in Statuses, UrbError(b, status) PROVE
   HandInv'
  <2>1. UNCHANGED <<cur, work, pc>>
    BY <1>18, Zenon DEF UrbError, ReadPort
  <2> QED BY <2>1
<1>19. CASE ReorderTimer \/ Join \/ Rekey \/ SetKey \/ LeaveStart \/ LeaveDrain
   \/ LeaveFree \/ Stop \/ StopKill \/ IpsDown \/ Open \/ Start \/ UNCHANGED
   vars
  <2>1. UNCHANGED <<cur, work, pc>>
    BY <1>19, Zenon DEF ReorderTimer, Free, SetAtt, Join, Leak, Rekey, SetKey,
       LeaveStart, LeaveDrain, LeaveFree, Stop, StopKill, Kill, IpsDown, Open,
       Start, vars
  <2> QED BY <2>1
<1> HIDE DEF HandInv
<1> QED
  BY NextCases, <1>1, <1>2, <1>3, <1>4, <1>5, <1>6, <1>7, <1>8, <1>9, <1>10,
     <1>11, <1>12, <1>13, <1>14, <1>15, <1>16, <1>17, <1>18, <1>19

(* Every step keeps the attributes of the frames in their types.           *)
LEMMA AttStep == AttInv /\ [Next]_vars => AttInv'
<1> SUFFICES ASSUME AttInv, [Next]_vars PROVE AttInv'
  OBVIOUS
<1> USE DEF urb_vars, ctl_vars, hand_vars, list_vars, pool_vars, mlme_vars
<1>0. att \in [Frames -> Attrs]
  BY DEF AttInv
<1>1. ASSUME NEW num \in 0 .. MaxFrag, NEW more \in BOOLEAN, PreWait(num, more) PROVE AttInv'
  <2> DEFINE new == [num |-> num, more |-> more, old |-> FALSE]
  <2>1. new \in Attrs
    BY BoundsAssumption DEF Attrs
  <2>2. att' = [att EXCEPT ![cur] = new]
    BY <1>1 DEF PreWait
  <2> HIDE DEF new
  <2> QED BY <1>0, <2>1, <2>2 DEF AttInv
<1>2. ASSUME NEW num \in 0 .. MaxFrag, NEW more \in BOOLEAN, PreData(num, more) PROVE AttInv'
  <2> DEFINE new == [num |-> num, more |-> more, old |-> FALSE]
  <2>1. new \in Attrs
    BY BoundsAssumption DEF Attrs
  <2>2. att' = [att EXCEPT ![cur] = new]
    BY <1>2 DEF PreData
  <2> HIDE DEF new
  <2> QED BY <1>0, <2>1, <2>2 DEF AttInv
<1>3. CASE PostRefused
  BY <1>3, <1>0, SetAttType DEF PostRefused
<1>4. CASE PostFragment
  BY <1>4, <1>0, SetAttType DEF PostFragment
<1>5. CASE PostJoin
  BY <1>5, <1>0, SetAttType DEF PostJoin
<1>6. CASE IndUp
  BY <1>6, <1>0, SetAttType DEF IndUp
<1>7. CASE IndFail
  BY <1>7, <1>0, SetAttType DEF IndFail
<1>8. CASE IndForget
  BY <1>8, <1>0, SetAttType DEF IndForget
<1>9. CASE IndReorder
  BY <1>9, <1>0, SetAttType DEF IndReorder
<1>10. CASE ReorderTimer
  BY <1>10, <1>0, SetAttType DEF ReorderTimer
<1>11. CASE LeaveDrain
  BY <1>11, <1>0, SetAttType DEF LeaveDrain
<1>12. CASE LeaveFree
  <2> DEFINE gone(f) == f \in ToSet(pend) \cup {work}
             a == [f \in Frames |-> [att[f] EXCEPT !.old = att[f].old \/ gone(f)]]
  <2>1. ASSUME NEW f \in Frames PROVE [att[f] EXCEPT !.old = att[f].old \/ gone(f)] \in Attrs
    <3>1. att[f] \in Attrs
      BY <1>0
    <3>2. (att[f].old \/ gone(f)) \in BOOLEAN
      BY Zenon
    <3> HIDE DEF gone
    <3> QED BY <3>1, <3>2 DEF Attrs
  <2>2. SetAtt(a)
    BY <1>12, Zenon DEF LeaveFree
  <2> HIDE DEF gone
  <2>3. a \in [Frames -> Attrs]
    BY <2>1
  <2> HIDE DEF a
  <2> QED BY <2>2, <2>3, SetAttType
<1>13. ASSUME NEW b \in Bufs, UrbStopped(b) \/ UrbGood(b) \/ UrbQueued(b) \/
   UrbShort(b) PROVE AttInv'
  <2>1. UNCHANGED att
    BY <1>13, Zenon DEF UrbStopped, UrbGood, UrbQueued, ReadPort, UrbShort
  <2> QED BY <2>1 DEF AttInv
<1>14. ASSUME NEW b \in Bufs, NEW status \in Statuses, UrbError(b, status) PROVE
   AttInv'
  <2>1. UNCHANGED att
    BY <1>14, Zenon DEF UrbError, ReadPort
  <2> QED BY <2>1 DEF AttInv
<1>15. CASE TaskStart \/ TaskDeq \/ ParseEnd \/ ParseOk \/ DrainTake \/ PreDrop
  <2>1. UNCHANGED att
    BY <1>15, Zenon DEF TaskStart, TaskDeq, ParseEnd, ParseOk, DrainTake,
       PreDrop, Free
  <2> QED BY <2>1 DEF AttInv
<1>16. CASE PostWhole \/ Join \/ Rekey \/ SetKey \/ LeaveStart \/ Stop
  <2>1. UNCHANGED att
    BY <1>16, Zenon DEF PostWhole, Join, Leak, Rekey, SetKey, LeaveStart, Stop
  <2> QED BY <2>1 DEF AttInv
<1>17. CASE StopKill \/ IpsDown \/ Open \/ Start \/ UNCHANGED vars
  <2>1. UNCHANGED att
    BY <1>17, Zenon DEF StopKill, Kill, IpsDown, Open, Start, vars
  <2> QED BY <2>1 DEF AttInv
<1> QED
  BY NextCases, <1>1, <1>2, <1>3, <1>4, <1>5, <1>6, <1>7, <1>8, <1>9, <1>10,
     <1>11, <1>12, <1>13, <1>14, <1>15, <1>16, <1>17

-----------------------------------------------------------------------------
(* The invariant holds initially.                                          *)
LEMMA InitInv == Init => IInv
<1> SUFFICES ASSUME Init PROVE IInv
  OBVIOUS
<1>1. FlagsA /\ FlagsB
  BY Zenon DEF Init, FlagsA, FlagsB
<1>2. Types /\ ErrInv
  BY BoundsAssumption, ErrAssumption DEF Init, Types, ErrInv
<1>3. PortInv /\ AwakeInv /\ HandInv
  BY DEF Init, PortInv, AwakeInv, HandInv, Gone
<1>4. FrameInv
  <2>1. NoFrame \notin Frames
    BY DEF NoFrame, Frames
  <2>2. Sets
    BY ShortFacts DEF Init, Sets
  <2>3. ASSUME NEW f \in Frames PROVE Here(f)
    BY <2>1, ShortFacts DEF Init, Here, Located
  <2> QED BY <2>2, <2>3 DEF FrameInv
<1>5. AttInv
  BY BoundsAssumption DEF Init, AttInv, Blank, Attrs
<1> QED BY <1>1, <1>2, <1>3, <1>4, <1>5 DEF IInv

(* Every step keeps the invariant.                                         *)
LEMMA StepInv == IInv /\ [Next]_vars => IInv'
  BY FlagsAStep, FlagsBStep, TypesStep, ErrStep, PortStep, AwakeStep, HandStep, FrameStep, AttStep
     DEF IInv

(* IInv is an inductive invariant of the specification.                    *)
THEOREM Inductive == Spec => []IInv
<1>1. Init => IInv
  BY InitInv
<1>2. IInv /\ [Next]_vars => IInv'
  BY StepInv
<1> QED BY <1>1, <1>2, PTL DEF Spec

(* Buffers in rx_skb_queue have a tasklet that will look at them.          *)
THEOREM TaskletAwakeHolds == Spec => []TaskletAwake
<1>1. IInv => TaskletAwake
  <2> SUFFICES ASSUME IInv PROVE TaskletAwake
    OBVIOUS
  <2> QED BY DEF IInv, AwakeInv, Types, TaskletAwake
<1> QED BY <1>1, Inductive, PTL

(* No buffer is off the bus while the interface runs.                      *)
THEOREM BusFedHolds == Spec => []BusFed
<1>1. IInv => BusFed
  BY DEF IInv, PortInv, BusFed
<1> QED BY <1>1, Inductive, PTL

(* The lists of Places are disjoint and hold all frames.                   *)
LEMMA PlacesPartition ==
  ASSUME FrameInv
  PROVE  /\ UNION ToSet(Places) = Frames
         /\ \A i, j \in DOMAIN Places : i # j => Places[i] \cap Places[j] = {}
<1>1. Sets /\ \A f \in Frames : Here(f)
  BY DEF FrameInv
<1>2. NoFrame \notin Frames
  BY DEF NoFrame, Frames
<1>3. /\ DOMAIN Places = 1 .. 7 /\ Places[1] = free /\ Places[2] = {cur, work} \ {NoFrame}
      /\ Places[3] = ToSet(pend) /\ Places[4] = ToSet(defrag) /\ Places[5] = held
      /\ Places[6] = limbo /\ Places[7] = leaked
  BY DEF Places
<1>4. ToSet(pend) \subseteq Frames /\ ToSet(defrag) \subseteq Frames
  BY <1>1 DEF Sets, ToSet
<1>5. \A i \in 1 .. 7 : i = 1 \/ i = 2 \/ i = 3 \/ i = 4 \/ i = 5 \/ i = 6 \/ i = 7
  OBVIOUS
<1>6. \A i \in 1 .. 7 : Places[i] \subseteq Frames
  BY <1>1, <1>3, <1>4, <1>5 DEF Sets
<1>7. ASSUME NEW f \in Frames PROVE \E i \in 1 .. 7 : f \in Places[i]
  <2>1. Here(f)
    BY <1>1
  <2> QED BY <1>2, <1>3, <2>1 DEF Here, Located
<1>8. ASSUME NEW i \in 1 .. 7, NEW j \in 1 .. 7, i # j, NEW f \in Frames,
             f \in Places[i], f \in Places[j]
      PROVE  FALSE
  <2>1. Here(f)
    BY <1>1
  <2> HIDE DEF Here
  <2>2. /\ f \in Places[1] => f \in free
        /\ f \in Places[2] => f = cur \/ f = work
        /\ f \in Places[3] => f \in ToSet(pend)
        /\ f \in Places[4] => f \in ToSet(defrag)
        /\ f \in Places[5] => f \in held
        /\ f \in Places[6] => f \in limbo
        /\ f \in Places[7] => f \in leaked
    BY <1>3
  <2> QED BY <1>5, <1>8, <2>1, <2>2 DEF Here, Located
<1>9. UNION ToSet(Places) = Frames
  <2>1. ToSet(Places) = {Places[i] : i \in 1 .. 7}
    BY <1>3 DEF ToSet
  <2> QED BY <1>6, <1>7, <2>1
<1> QED BY <1>3, <1>6, <1>8, <1>9

(* Every recv_frame is in exactly one place, or was lost where the model   *)
(* says so.                                                                *)
THEOREM FramesAccountedHolds == Spec => []FramesAccounted
<1>1. IInv => FramesAccounted
  <2> SUFFICES ASSUME IInv PROVE FramesAccounted
    OBVIOUS
  <2>1. {sched, stopped, removed, cancelled, sta, ht, key, leftover, short} \subseteq BOOLEAN
    <3>1. {sched, stopped, removed, cancelled, leftover} \subseteq BOOLEAN
      BY Zenon DEF IInv, FlagsA
    <3>2. {sta, ht, key, short} \subseteq BOOLEAN
      BY Zenon DEF IInv, FlagsB
    <3> QED BY <3>1, <3>2, Zenon
  <2>2. Sets /\ FrameInv
    BY DEF IInv, FrameInv
  <2>3. TypeOK
    BY <2>1, <2>2 DEF IInv, Sets, Types, ErrInv, AttInv, TypeOK
  <2>4. cur # work \/ cur = NoFrame
    <3>1. CASE cur \in Frames
      <4>1. Here(cur)
        BY <2>2, <3>1 DEF FrameInv
      <4> QED BY <4>1 DEF Here, Located
    <3> QED BY <2>2, <3>1 DEF Sets
  <2> QED BY <2>2, <2>3, <2>4, PlacesPartition DEF FramesAccounted, Sets
<1> QED BY <1>1, Inductive, PTL

=============================================================================
