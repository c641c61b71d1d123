--------------------------- MODULE RxReorderProofs ---------------------------
(***************************************************************************)
(* Proofs about RxReorder, for every set of arriving sequence numbers,     *)
(* every pool size and both modes of the interface.                        *)
(***************************************************************************)
EXTENDS RxReorder, SequenceTheorems, TLAPS

(* The Boolean part of TypeOK, which goes to a prover of its own.          *)
BoolOK ==
  enable \in BOOLEAN /\ armed \in BOOLEAN /\ stopped \in BOOLEAN /\ stale \in BOOLEAN

TInv == TypeOK /\ LockInv

-----------------------------------------------------------------------------
(* Remainders modulo 4096 are sequence numbers.                            *)
LEMMA ModType == \A x \in Int : x % 4096 \in SeqNum
BY DEF SeqNum

(* ... and so are the successors of sequence numbers.                      *)
LEMMA SuccType == \A x \in SeqNum : (x + 1) % 4096 \in SeqNum
BY DEF SeqNum

(* A number is neither of the two markers.                                 *)
LEMMA SeqNumProper == \A x \in SeqNum : x # NoSeq /\ x # SeqInit
<1> SUFFICES ASSUME NEW x \in SeqNum PROVE x # NoSeq /\ x # SeqInit
  OBVIOUS
<1>1. x \in Int /\ 0 <= x /\ x <= 4095
  BY DEF SeqNum
<1>2. x # -1 /\ x # 65535
  BY <1>1
<1> QED  BY <1>2 DEF NoSeq, SeqInit

(* The elements of a list of numbers are numbers, and so are its head and  *)
(* the elements of its tail.                                               *)
LEMMA SeqElements ==
  ASSUME NEW q \in Seq(SeqNum)
  PROVE  /\ \A i \in 1 .. Len(q) : q[i] \in SeqNum
         /\ q # <<>> => Head(q) \in SeqNum /\ Head(q) = q[1]
         /\ q # <<>> => Tail(q) \in Seq(SeqNum)
OBVIOUS

(* Inserting a number at any place of a list of numbers gives such a list. *)
LEMMA InsertType ==
  ASSUME NEW q \in Seq(SeqNum), NEW s \in SeqNum, NEW k \in 1 .. Len(q) + 1
  PROVE  /\ Insert(q, s, k) \in Seq(SeqNum)
         /\ Len(Insert(q, s, k)) = Len(q) + 1
         /\ \A i \in 1 .. Len(q) + 1 :
              Insert(q, s, k)[i] = IF i < k THEN q[i] ELSE IF i = k THEN s ELSE q[i - 1]
<1>1. Len(q) \in Nat
  OBVIOUS
<1>2. \A i \in 1 .. Len(q) + 1 :
        (IF i < k THEN q[i] ELSE IF i = k THEN s ELSE q[i - 1]) \in SeqNum
  BY <1>1
<1>3. Insert(q, s, k) \in [1 .. Len(q) + 1 -> SeqNum]
  BY <1>2 DEF Insert
<1> QED  BY <1>1, <1>3 DEF Insert

(* check_indicate_seq always leaves a 12-bit window start.                 *)
LEMMA NextIndicateType ==
  ASSUME NEW ind \in SeqNum \cup {SeqInit}, NEW s \in SeqNum
  PROVE  NextIndicate(ind, s) \in SeqNum
<1>1. InitSeq(ind, s) \in SeqNum
  BY DEF InitSeq
<1>2. ShiftTo(s) \in SeqNum
  BY DEF ShiftTo, SeqNum, WSize
<1>3. (InitSeq(ind, s) + 1) % 4096 \in SeqNum
  BY <1>1, SuccType
<1> QED  BY <1>1, <1>2, <1>3 DEF NextIndicate

-----------------------------------------------------------------------------
(* The initial state is well-typed and owns no lock.                       *)
LEMMA InitTInv == Init => TInv
<1> SUFFICES ASSUME Init PROVE TInv
  OBVIOUS
<1>1. 0 \in SeqNum /\ <<>> \in Seq(SeqNum)
  BY DEF SeqNum
<1>2. TypeOK
  BY <1>1 DEF Init, TypeOK
<1>3. LockInv
  BY DEF Init, LockInv
<1> QED  BY <1>2, <1>3 DEF TInv

(* Every step keeps the flags Boolean.                                     *)
LEMMA NextBool == BoolOK /\ [Next]_vars => BoolOK'
<1> SUFFICES ASSUME BoolOK, [Next]_vars PROVE BoolOK'
  OBVIOUS
<1> USE DEF BoolOK, ctrl, others
<1>1. ASSUME NEW s \in Seqs, RxFrame(s) PROVE BoolOK'
  BY <1>1, Zenon DEF RxFrame
<1>2. ASSUME NEW ok \in BOOLEAN, RxAddba(ok) PROVE BoolOK'
  BY <1>2, Zenon DEF RxAddba
<1>3. CASE RxDelba
  BY <1>3, Zenon DEF RxDelba
<1>4. CASE Rx
  <2>1. CASE RxDirect
    BY <2>1, Zenon DEF RxDirect
  <2>6. CASE RxLoad
    BY <2>6, Zenon DEF RxLoad
  <2>7. CASE RxStore
    BY <2>7 DEF RxStore
  <2>2. CASE RxCheck \/ RxWrite
    BY <2>2, Zenon DEF RxCheck, RxWrite, WriteBack
  <2>3. CASE RxEnqueue
    BY <2>3, Zenon DEF RxEnqueue
  <2>4. CASE RxIndicate
    BY <2>4, Zenon DEF RxIndicate, IndicateHead
  <2>5. CASE RxArm \/ RxEmpty \/ RxCancel
    BY <2>5, Zenon DEF RxArm, RxEmpty, RxCancel
  <2> QED  BY <1>4, <2>1, <2>2, <2>3, <2>4, <2>5, <2>6, <2>7, Zenon DEF Rx
<1>5. CASE Timer
  BY <1>5, Zenon DEF Timer, TimerFire, TimerForce, TimerWrite, TimerIndicate,
                     TimerDone, IndicateHead, WriteBack
<1>6. CASE DelbaDisable \/ DelbaReset
  BY <1>6, Zenon DEF DelbaDisable, DelbaReset
<1>7. CASE FreeEnter \/ FreeCancel \/ FreeDrain \/ StaAlloc
  BY <1>7, Zenon DEF FreeEnter, FreeCancel, FreeDrain, StaAlloc
<1>8. CASE Stop
  BY <1>8, Zenon DEF Stop
<1>9. CASE UNCHANGED vars
  BY <1>9, Zenon DEF vars
<1> QED
  BY <1>1, <1>2, <1>3, <1>4, <1>5, <1>6, <1>7, <1>8, <1>9, Zenon DEF Next

(* Every step keeps the state well-typed and the lock with its owner.      *)
LEMMA NextTInv == TInv /\ [Next]_vars => TInv'
<1> SUFFICES ASSUME TInv, [Next]_vars PROVE TInv'
  OBVIOUS
<1>0. TypeOK /\ LockInv
  BY DEF TInv
<1> SUFFICES TypeOK' /\ LockInv'
  BY DEF TInv
<1>b. BoolOK'
  BY <1>0, NextBool DEF BoolOK, TypeOK
<1> USE <1>0, <1>b, SeqsAssumption DEF BoolOK, NoSeq
<1>1. ASSUME NEW s \in Seqs, RxFrame(s) PROVE TypeOK' /\ LockInv'
  <2>1. s \in SeqNum
    BY DEF SeqNum
  <2> QED  BY <1>1, <2>1 DEF RxFrame, TypeOK, LockInv, ctrl, others
<1>2. ASSUME NEW ok \in BOOLEAN, RxAddba(ok) PROVE TypeOK' /\ LockInv'
  BY <1>2 DEF RxAddba, TypeOK, LockInv, others
<1>3. CASE RxDelba
  BY <1>3 DEF RxDelba, TypeOK, LockInv, others
<1>4. CASE RxDirect
  BY <1>4 DEF RxDirect, TypeOK, LockInv, others
<1>5. CASE RxLoad
  BY <1>5 DEF RxLoad, TypeOK, LockInv, ctrl, others
<1>6. CASE RxStore
  <2>1. (rx_seq + 1) % 4096 \in SeqNum
    <3>1. rx_seq + 1 \in Int
      BY DEF TypeOK, SeqNum, SeqInit
    <3> QED  BY <3>1, ModType
  <2> QED  BY <1>6, <2>1 DEF RxStore, TypeOK, LockInv, others
<1>7. CASE RxCheck
  <2>1. rx_seq \in SeqNum
    BY <1>7 DEF RxCheck, LockInv
  <2>2. NextIndicate(indicate_seq, rx_seq) \in SeqNum
    BY <2>1, NextIndicateType DEF TypeOK
  <2>3. wr' \in SeqNum \cup {NoSeq}
    BY <1>7, <2>2 DEF RxCheck, TypeOK
  <2> QED  BY <1>7, <2>1, <2>3 DEF RxCheck, TypeOK, LockInv, others
<1>8. CASE RxWrite
  BY <1>8 DEF RxWrite, WriteBack, TypeOK, LockInv, others
<1>9. CASE RxEnqueue
  <2>1. rx_seq \in SeqNum /\ Len(pending) \in Nat
    BY <1>9 DEF RxEnqueue, LockInv, TypeOK
  <2>2. pending' \in Seq(SeqNum)
    BY <1>9, <2>1, InsertType DEF RxEnqueue, TypeOK
  <2>3. \/ lock' = "none" /\ rx_pc' = "idle"
        \/ lock' = lock /\ rx_pc' = "indicate"
    BY <1>9 DEF RxEnqueue
  <2>4. rx_pc = "enqueue" /\ wr = NoSeq
    BY <1>9 DEF RxEnqueue
  <2>5. UNCHANGED <<enable, indicate_seq, wr, armed, timer_pc, rx_seq, last, stale, others>>
    BY <1>9 DEF RxEnqueue
  <2> QED  BY <2>1, <2>2, <2>3, <2>4, <2>5 DEF TypeOK, LockInv, others
<1>10. CASE RxIndicate
  <2>1. pending' \in Seq(SeqNum) /\ last' \in SeqNum \cup {NoSeq}
    <3>1. pending \in Seq(SeqNum) /\ pending # <<>>
      BY <1>10 DEF RxIndicate, IndicateHead, HeadDue, TypeOK
    <3>2. Head(pending) \in SeqNum /\ Tail(pending) \in Seq(SeqNum)
      BY <3>1, SeqElements
    <3> QED  BY <1>10, <3>2 DEF RxIndicate, IndicateHead
  <2>2. wr' \in SeqNum \cup {NoSeq}
    <3>1. indicate_seq + 1 \in Int
      BY DEF TypeOK, SeqNum, SeqInit
    <3>2. (indicate_seq + 1) % 4096 \in SeqNum
      BY <3>1, ModType
    <3> QED  BY <1>10, <3>2 DEF RxIndicate, IndicateHead
  <2> QED  BY <1>10, <2>1, <2>2 DEF RxIndicate, IndicateHead, TypeOK, LockInv, others
<1>11. CASE RxArm
  BY <1>11 DEF RxArm, TypeOK, LockInv, ctrl, others
<1>12. CASE RxEmpty
  BY <1>12 DEF RxEmpty, TypeOK, LockInv, ctrl, others
<1>13. CASE RxCancel
  BY <1>13 DEF RxCancel, TypeOK, LockInv, ctrl, others
<1>14. CASE TimerFire
  BY <1>14 DEF TimerFire, TypeOK, LockInv, ctrl, others
<1>15. CASE TimerForce
  <2>1. pending # <<>> => Head(pending) \in SeqNum
    BY DEF TypeOK
  <2> QED  BY <1>15, <2>1 DEF TimerForce, TypeOK, LockInv, others
<1>16. CASE TimerWrite
  BY <1>16 DEF TimerWrite, WriteBack, TypeOK, LockInv, others
<1>17. CASE TimerIndicate
  <2>1. pending' \in Seq(SeqNum) /\ last' \in SeqNum \cup {NoSeq}
    <3>1. pending \in Seq(SeqNum) /\ pending # <<>>
      BY <1>17 DEF TimerIndicate, IndicateHead, HeadDue, TypeOK
    <3>2. Head(pending) \in SeqNum /\ Tail(pending) \in Seq(SeqNum)
      BY <3>1, SeqElements
    <3> QED  BY <1>17, <3>2 DEF TimerIndicate, IndicateHead
  <2>2. wr' \in SeqNum \cup {NoSeq}
    <3>1. indicate_seq + 1 \in Int
      BY DEF TypeOK, SeqNum, SeqInit
    <3>2. (indicate_seq + 1) % 4096 \in SeqNum
      BY <3>1, ModType
    <3> QED  BY <1>17, <3>2 DEF TimerIndicate, IndicateHead
  <2> QED  BY <1>17, <2>1, <2>2 DEF TimerIndicate, IndicateHead, TypeOK, LockInv, others
<1>18. CASE TimerDone
  BY <1>18 DEF TimerDone, TypeOK, LockInv, ctrl, others
<1>19. CASE DelbaDisable
  BY <1>19 DEF DelbaDisable, TypeOK, LockInv
<1>20. CASE DelbaReset
  BY <1>20 DEF DelbaReset, TypeOK, LockInv
<1>21. CASE FreeEnter
  BY <1>21 DEF FreeEnter, TypeOK, LockInv, ctrl
<1>22. CASE FreeCancel
  BY <1>22 DEF FreeCancel, TypeOK, LockInv, ctrl
<1>23. CASE FreeDrain
  BY <1>23 DEF FreeDrain, TypeOK, LockInv
<1>24. CASE StaAlloc
  BY <1>24 DEF StaAlloc, TypeOK, LockInv
<1>25. CASE Stop
  BY <1>25 DEF Stop, TypeOK, LockInv, ctrl
<1>26. CASE UNCHANGED vars
  BY <1>26 DEF vars, TypeOK, LockInv
<1> QED
  BY <1>1, <1>2, <1>3, <1>4, <1>5, <1>6, <1>7, <1>8, <1>9, <1>10, <1>11, <1>12,
     <1>13, <1>14, <1>15, <1>16, <1>17, <1>18, <1>19, <1>20, <1>21, <1>22, <1>23,
     <1>24, <1>25, <1>26 DEF Next, Rx, Timer

(* The state stays well-typed: in particular indicate_seq never leaves the *)
(* 12-bit numbers and its sentinel, whatever the racing stores do.         *)
THEOREM TypeCorrect == Spec => []TypeOK
<1>1. Spec => []TInv
  BY InitTInv, NextTInv, PTL DEF Spec
<1>2. TInv => TypeOK
  BY DEF TInv
<1> QED  BY <1>1, <1>2, PTL

-----------------------------------------------------------------------------
(* Every step keeps a buffered frame covered by the timer, the freeing of  *)
(* its station or the stop of the driver.                                  *)
LEMMA NextCover == TInv /\ CoverInv /\ [Next]_vars => CoverInv'
<1> SUFFICES ASSUME TInv, CoverInv, [Next]_vars PROVE CoverInv'
  OBVIOUS
<1>0. TypeOK /\ LockInv
  BY DEF TInv
<1> USE <1>0 DEF CoverInv
<1>1. ASSUME NEW s \in Seqs, RxFrame(s) PROVE CoverInv'
  BY <1>1 DEF RxFrame, ctrl, others
<1>2. ASSUME NEW ok \in BOOLEAN, RxAddba(ok) PROVE CoverInv'
  BY <1>2 DEF RxAddba, others
<1>3. CASE RxDelba
  BY <1>3 DEF RxDelba, others
<1>4. CASE RxDirect \/ RxLoad \/ RxStore
  BY <1>4 DEF RxDirect, RxLoad, RxStore, ctrl, others
<1>5. CASE RxCheck
  BY <1>5 DEF RxCheck, LockInv, others
<1>6. CASE RxWrite \/ TimerWrite
  BY <1>6 DEF RxWrite, TimerWrite, WriteBack, others
<1>7. CASE RxEnqueue
  <2>1. rx_pc = "enqueue" /\ lock = "rx"
    BY <1>7 DEF RxEnqueue, LockInv
  <2>2. \/ pending' = pending /\ rx_pc' = "idle"
        \/ lock' = lock /\ rx_pc' = "indicate"
    BY <1>7 DEF RxEnqueue
  <2>3. UNCHANGED <<armed, timer_pc, free_pc, stopped>>
    BY <1>7 DEF RxEnqueue, others
  <2> QED  BY <2>1, <2>2, <2>3
<1>8. CASE RxIndicate
  BY <1>8 DEF RxIndicate, LockInv
<1>9. CASE RxArm \/ RxEmpty
  BY <1>9 DEF RxArm, RxEmpty, ctrl, others
<1>10. CASE RxCancel
  BY <1>10 DEF RxCancel, ctrl, others
<1>11. CASE TimerFire
  BY <1>11 DEF TimerFire, ctrl, others
<1>12. CASE TimerForce
  BY <1>12 DEF TimerForce, LockInv, others
<1>13. CASE TimerIndicate
  <2>1. lock' = "timer" /\ rx_pc' = rx_pc /\ rx_pc # "enqueue" /\ HeadDue
    BY <1>13 DEF TimerIndicate, LockInv, IndicateHead
  <2>2. rx_pc # "cancel"
    BY <2>1 DEF HeadDue
  <2> QED  BY <2>1, <2>2
<1>14. CASE TimerDone
  BY <1>14 DEF TimerDone, LockInv, ctrl, others
<1>15. CASE DelbaDisable \/ DelbaReset
  BY <1>15 DEF DelbaDisable, DelbaReset
<1>16. CASE FreeEnter \/ FreeCancel
  BY <1>16 DEF FreeEnter, FreeCancel, ctrl
<1>17. CASE FreeDrain \/ StaAlloc
  BY <1>17 DEF FreeDrain, StaAlloc
<1>18. CASE Stop
  BY <1>18 DEF Stop, ctrl
<1>19. CASE UNCHANGED vars
  BY <1>19 DEF vars
<1> QED
  BY <1>1, <1>2, <1>3, <1>4, <1>5, <1>6, <1>7, <1>8, <1>9, <1>10, <1>11, <1>12,
     <1>13, <1>14, <1>15, <1>16, <1>17, <1>18, <1>19 DEF Next, Rx, Timer

(* No exit of recv_indicatepkt_reorder or of the timer handler leaves a    *)
(* frame in the buffer with nothing to come for it.                        *)
THEOREM FramesCovered == Spec => []TimerCoversPending
<1>1. Init => CoverInv
  BY DEF Init, CoverInv
<1>2. Spec => [](TInv /\ CoverInv)
  BY <1>1, InitTInv, NextTInv, NextCover, PTL DEF Spec
<1>3. CoverInv => TimerCoversPending
  BY DEF CoverInv, TimerCoversPending
<1> QED  BY <1>2, <1>3, PTL

-----------------------------------------------------------------------------
(***************************************************************************)
(* Arithmetic modulo 4096.  Off(a, s) is the representative of s - a       *)
(* between -2048 and 2047.                                                 *)
(***************************************************************************)
Wraps(d, o) ==
  o \in Int /\ -2048 <= o /\ o <= 2047 /\ (d = o \/ d = o + 4096 \/ d = o - 4096)

(* The remainder of a number that is at most one period off.               *)
LEMMA ModCases ==
  ASSUME NEW x \in Int, -4096 <= x, x <= 8191
  PROVE  /\ x < 0 => x % 4096 = x + 4096
         /\ 0 <= x /\ x < 4096 => x % 4096 = x
         /\ 4096 <= x => x % 4096 = x - 4096
OBVIOUS

LEMMA OffWraps == \A a, s \in SeqNum : Wraps(s - a, Off(a, s))
<1> SUFFICES ASSUME NEW a \in SeqNum, NEW s \in SeqNum PROVE Wraps(s - a, Off(a, s))
  OBVIOUS
<1> DEFINE x == s - a + 2048
<1>1. x \in Int /\ -4096 <= x /\ x <= 8191
  BY DEF SeqNum
<1>2. /\ x < 0 => x % 4096 = x + 4096
      /\ 0 <= x /\ x < 4096 => x % 4096 = x
      /\ 4096 <= x => x % 4096 = x - 4096
  BY <1>1, ModCases
<1> QED  BY <1>1, <1>2 DEF Off, SeqNum, Wraps

(* Offsets are integers between -2048 and 2047.                            *)
LEMMA OffRange == \A a, s \in SeqNum : Off(a, s) \in Int /\ -2048 <= Off(a, s) /\ Off(a, s) <= 2047
BY OffWraps DEF Wraps

(* ... also those of the elements of a list.                               *)
LEMMA OffElements ==
  ASSUME NEW a \in SeqNum, NEW q \in Seq(SeqNum), NEW i \in 1 .. Len(q)
  PROVE  /\ q[i] \in SeqNum
         /\ Off(a, q[i]) \in Int /\ -2048 <= Off(a, q[i]) /\ Off(a, q[i]) <= 2047
<1>1. q[i] \in SeqNum
  BY SeqElements
<1> QED  BY <1>1, OffRange

(* Offsets from one start determine those from another.                    *)
LEMMA OffMove ==
  ASSUME NEW a \in SeqNum, NEW b \in SeqNum, NEW s \in SeqNum,
         -2048 <= Off(a, s) - Off(a, b), Off(a, s) - Off(a, b) <= 2047
  PROVE  Off(b, s) = Off(a, s) - Off(a, b)
<1>1. Wraps(s - a, Off(a, s)) /\ Wraps(b - a, Off(a, b)) /\ Wraps(s - b, Off(b, s))
  BY OffWraps
<1> QED  BY <1>1 DEF Wraps, SeqNum

LEMMA OffZero == \A a, s \in SeqNum : Off(a, s) = 0 <=> s = a
<1> SUFFICES ASSUME NEW a \in SeqNum, NEW s \in SeqNum PROVE Off(a, s) = 0 <=> s = a
  OBVIOUS
<1>1. Wraps(s - a, Off(a, s))
  BY OffWraps
<1>2. ASSUME Off(a, s) = 0 PROVE s = a
  <2>1. s - a = 0 \/ s - a = 0 + 4096 \/ s - a = 0 - 4096
    BY <1>1, <1>2 DEF Wraps
  <2>2. a \in Int /\ s \in Int /\ 0 <= a /\ a <= 4095 /\ 0 <= s /\ s <= 4095
    BY DEF SeqNum
  <2> QED  BY <2>1, <2>2
<1>3. ASSUME s = a PROVE Off(a, s) = 0
  <2>1. s - a = 0
    BY <1>3 DEF SeqNum
  <2> QED  BY <1>1, <2>1 DEF Wraps
<1> QED  BY <1>2, <1>3

(* The offset of a number that is known to lie at distance d.              *)
LEMMA OffIs ==
  ASSUME NEW a \in SeqNum, NEW s \in SeqNum, NEW d \in Int, -2048 <= d, d <= 2047,
         s - a = d \/ s - a = d + 4096 \/ s - a = d - 4096
  PROVE  Off(a, s) = d
<1>1. Wraps(s - a, Off(a, s))
  BY OffWraps
<1> QED  BY <1>1 DEF Wraps, SeqNum

(* SN_LESS compares offsets from any start that sees both numbers.         *)
LEMMA LessIsNegative == \A x, y \in SeqNum : SN_LESS(x, y) <=> Off(y, x) < 0
<1> SUFFICES ASSUME NEW x \in SeqNum, NEW y \in SeqNum PROVE SN_LESS(x, y) <=> Off(y, x) < 0
  OBVIOUS
<1> DEFINE d == x - y
<1>1. d \in Int /\ -4096 <= d /\ d <= 8191 /\ -4095 <= d /\ d <= 4095
  BY DEF SeqNum
<1>2. /\ d < 0 => d % 4096 = d + 4096
      /\ 0 <= d /\ d < 4096 => d % 4096 = d
  BY <1>1, ModCases
<1>3. Wraps(d, Off(y, x))
  BY OffWraps
<1> QED  BY <1>1, <1>2, <1>3 DEF SN_LESS, Wraps

LEMMA LessByOffset ==
  ASSUME NEW a \in SeqNum, NEW x \in SeqNum, NEW y \in SeqNum,
         -2048 <= Off(a, x) - Off(a, y), Off(a, x) - Off(a, y) <= 2047
  PROVE  /\ SN_LESS(x, y) <=> Off(a, x) < Off(a, y)
         /\ x = y <=> Off(a, x) = Off(a, y)
<1>1. Off(y, x) = Off(a, x) - Off(a, y)
  BY OffMove
<1>2. Off(a, x) \in Int /\ Off(a, y) \in Int
  BY OffRange
<1>3. SN_LESS(x, y) <=> Off(y, x) < 0
  BY LessIsNegative
<1>4. Off(y, x) = 0 <=> x = y
  BY OffZero
<1> QED  BY <1>1, <1>2, <1>3, <1>4

(* The next number is at offset one.                                       *)
LEMMA OffSucc == \A a \in SeqNum : (a + 1) % 4096 \in SeqNum /\ Off(a, (a + 1) % 4096) = 1
<1> SUFFICES ASSUME NEW a \in SeqNum
             PROVE  (a + 1) % 4096 \in SeqNum /\ Off(a, (a + 1) % 4096) = 1
  OBVIOUS
<1>1. (a + 1) % 4096 \in SeqNum
  BY SuccType
<1>2. (a + 1) % 4096 = a + 1 \/ (a + 1) % 4096 = a + 1 - 4096
  BY DEF SeqNum
<1>3. \/ ((a + 1) % 4096) - a = 1
      \/ ((a + 1) % 4096) - a = 1 - 4096
  BY <1>1, <1>2 DEF SeqNum
<1> QED  BY <1>1, <1>3, OffIs

(* check_indicate_seq in terms of offsets: an accepted number is at the    *)
(* start, inside the window or beyond it, and the start moves accordingly. *)
LEMMA CheckCases ==
  ASSUME NEW E \in SeqNum, NEW s \in SeqNum, Accepts(E, s)
  PROVE  \/ Off(E, s) = 0 /\ NextIndicate(E, s) = (E + 1) % 4096
         \/ Off(E, s) >= 1 /\ Off(E, s) <= 63 /\ NextIndicate(E, s) = E
         \/ Off(E, s) >= 64 /\ Off(E, NextIndicate(E, s)) = Off(E, s) - 63
<1>1. InitSeq(E, s) = E
  BY DEF InitSeq, SeqInit, SeqNum
<1>2. Off(E, s) \in Int /\ 0 <= Off(E, s) /\ Off(E, s) <= 2047
  BY <1>1, OffRange, LessIsNegative DEF Accepts
<1>3. Off(E, s) = 0 <=> s = E
  BY OffZero
<1> DEFINE w == Wend(E)
<1>4. w \in SeqNum /\ Off(E, w) = 63
  <2>3. E + 63 \in Int /\ -4096 <= E + 63 /\ E + 63 <= 8191 /\ 0 <= E + 63
    BY DEF SeqNum
  <2>4. w = (E + 63) % 4096
    BY DEF Wend, WSize, SeqNum
  <2>1. w \in SeqNum /\ (w = E + 63 \/ w = E + 63 - 4096)
    <3> DEFINE x == E + 63
    <3>1. /\ 0 <= x /\ x < 4096 => x % 4096 = x
          /\ 4096 <= x => x % 4096 = x - 4096
      BY <2>3, ModCases
    <3>2. x % 4096 \in SeqNum
      BY <2>3, ModType
    <3>3. x % 4096 = x \/ x % 4096 = x - 4096
      BY <2>3, <3>1
    <3>4. w = x % 4096
      BY <2>4
    <3>5. x = E + 63 /\ E \in Int
      BY DEF SeqNum
    <3> HIDE DEF w, x
    <3>6. w \in SeqNum
      BY <3>2, <3>4
    <3> QED  BY <3>3, <3>4, <3>5, <3>6
  <2>2. w - E = 63 \/ w - E = 63 - 4096
    BY <2>1 DEF SeqNum
  <2> HIDE DEF w
  <2> QED  BY <2>1, <2>2, OffIs
<1> HIDE DEF w
<1>5. SN_LESS(w, s) <=> 63 < Off(E, s)
  BY <1>2, <1>4, LessByOffset
<1>6. NextIndicate(E, s) = IF s = E THEN (E + 1) % 4096
                           ELSE IF SN_LESS(w, s) THEN ShiftTo(s) ELSE E
  BY <1>1 DEF NextIndicate, SN_EQUAL, w
<1>7. ShiftTo(s) \in SeqNum /\ (s - ShiftTo(s) = 63 \/ s - ShiftTo(s) = 63 - 4096)
  BY DEF ShiftTo, WSize, SeqNum
<1>8. ASSUME Off(E, s) >= 64 PROVE Off(E, ShiftTo(s)) = Off(E, s) - 63
  <2> DEFINE f == ShiftTo(s)
  <2>1. Wraps(s - E, Off(E, s)) /\ Wraps(f - E, Off(E, f))
    BY <1>7, OffWraps
  <2>2. f \in SeqNum /\ (s - f = 63 \/ s - f = 63 - 4096)
    BY <1>7
  <2> HIDE DEF f
  <2>3. Off(E, f) = Off(E, s) - 63
    BY <1>2, <1>8, <2>1, <2>2 DEF Wraps, SeqNum
  <2> QED  BY <2>3 DEF f
<1> QED  BY <1>2, <1>3, <1>5, <1>6, <1>8

-----------------------------------------------------------------------------
(* Moving the start moves every offset by the same amount.                 *)
LEMMA MoveList ==
  ASSUME NEW E \in SeqNum, NEW F \in SeqNum, NEW q \in Seq(SeqNum),
         NEW lo \in Int, NEW hi \in Int, Within(E, q, lo, hi),
         -2048 <= lo - Off(E, F), hi - Off(E, F) <= 2047
  PROVE  /\ \A i \in 1 .. Len(q) : Off(F, q[i]) = Off(E, q[i]) - Off(E, F)
         /\ Within(F, q, lo - Off(E, F), hi - Off(E, F))
         /\ Sorted(E, q) => Sorted(F, q)
<1>1. Off(E, F) \in Int
  BY OffRange
<1>2. ASSUME NEW i \in 1 .. Len(q)
      PROVE  /\ Off(E, q[i]) \in Int /\ lo <= Off(E, q[i]) /\ Off(E, q[i]) <= hi
             /\ Off(F, q[i]) = Off(E, q[i]) - Off(E, F)
  <2>1. q[i] \in SeqNum
    BY SeqElements
  <2>4. Off(E, q[i]) \in Int
    BY OffElements
  <2>2. Off(E, q[i]) \in Int /\ lo <= Off(E, q[i]) /\ Off(E, q[i]) <= hi
    BY <2>4 DEF Within
  <2>3. -2048 <= Off(E, q[i]) - Off(E, F) /\ Off(E, q[i]) - Off(E, F) <= 2047
    BY <1>1, <2>2
  <2> QED  BY <2>1, <2>2, <2>3, OffMove
<1>3. Within(F, q, lo - Off(E, F), hi - Off(E, F))
  BY <1>1, <1>2 DEF Within
<1>4. Sorted(E, q) => Sorted(F, q)
  BY <1>1, <1>2 DEF Sorted
<1> QED  BY <1>2, <1>3, <1>4

(* What is left of a sorted list lies beyond the head that was taken off.  *)
LEMMA TailList ==
  ASSUME NEW E \in SeqNum, NEW q \in Seq(SeqNum), q # <<>>, Sorted(E, q),
         NEW lo \in Int, NEW hi \in Int, Within(E, q, lo, hi)
  PROVE  /\ Sorted(E, Tail(q))
         /\ Within(E, Tail(q), lo, hi)
         /\ \A i \in 1 .. Len(Tail(q)) : Off(E, Tail(q)[i]) > Off(E, q[1])
         /\ Tail(q) # <<>> => Tail(q)[Len(Tail(q))] = q[Len(q)]
<1>1. Len(q) \in Nat \ {0} /\ Len(Tail(q)) = Len(q) - 1
  OBVIOUS
<1>2. \A i \in 1 .. Len(Tail(q)) : Tail(q)[i] = q[i + 1]
  OBVIOUS
<1>3. Sorted(E, Tail(q))
  BY <1>1, <1>2 DEF Sorted
<1>4. Within(E, Tail(q), lo, hi)
  BY <1>1, <1>2 DEF Within
<1>5. \A i \in 1 .. Len(Tail(q)) : Off(E, Tail(q)[i]) > Off(E, q[1])
  <2> TAKE i \in 1 .. Len(Tail(q))
  <2>1. 1 \in 1 .. Len(q) /\ i + 1 \in 1 .. Len(q) /\ 1 < i + 1
    BY <1>1
  <2>2. Off(E, q[1]) < Off(E, q[i + 1])
    BY <2>1 DEF Sorted
  <2>4. Tail(q)[i] = q[i + 1]
    BY <1>2
  <2>5. Off(E, q[1]) \in Int /\ Off(E, q[i + 1]) \in Int
    BY <2>1, OffElements
  <2> QED  BY <2>2, <2>4, <2>5
<1> QED  BY <1>1, <1>2, <1>3, <1>4, <1>5

(* Inserting where the scan of enqueue_reorder_recvframe stops keeps the   *)
(* list sorted.                                                            *)
LEMMA InsertList ==
  ASSUME NEW E \in SeqNum, NEW q \in Seq(SeqNum), NEW s \in SeqNum,
         NEW k \in 1 .. Len(q) + 1, ScanStop(q, s, k), k <= Len(q) => q[k] # s,
         Sorted(E, q), Within(E, q, -1983, 63), -1 <= Off(E, s), Off(E, s) <= 63
  PROVE  LET r == Insert(q, s, k) IN
         /\ r \in Seq(SeqNum) /\ r # <<>>
         /\ Sorted(E, r)
         /\ Within(E, r, -1983, 63)
         /\ Off(E, r[Len(r)]) >= -1
         /\ r[1] = s /\ q # <<>> => Off(E, s) < Off(E, q[1])
         /\ r[1] # s => q # <<>> /\ r[1] = q[1]
<1> DEFINE r == Insert(q, s, k)
<1>1. Len(q) \in Nat /\ \A i \in 1 .. Len(q) : q[i] \in SeqNum
  OBVIOUS
<1>2. /\ r \in Seq(SeqNum) /\ Len(r) = Len(q) + 1
      /\ \A i \in 1 .. Len(q) + 1 :
           r[i] = IF i < k THEN q[i] ELSE IF i = k THEN s ELSE q[i - 1]
  <2>1. Insert(q, s, k) \in Seq(SeqNum) /\ Len(Insert(q, s, k)) = Len(q) + 1
    BY InsertType
  <2>2. \A i \in 1 .. Len(q) + 1 :
          Insert(q, s, k)[i] = IF i < k THEN q[i] ELSE IF i = k THEN s ELSE q[i - 1]
    BY DEF Insert
  <2> QED  BY <2>1, <2>2
<1>3. /\ Off(E, s) \in Int
      /\ \A i \in 1 .. Len(q) :
           Off(E, q[i]) \in Int /\ -1983 <= Off(E, q[i]) /\ Off(E, q[i]) <= 63
  <2>1. Off(E, s) \in Int
    BY OffRange
  <2>2. ASSUME NEW i \in 1 .. Len(q) PROVE Off(E, q[i]) \in Int
    BY OffElements
  <2> QED  BY <2>1, <2>2 DEF Within
<1>4. \A i \in 1 .. Len(q) :
        /\ SN_LESS(q[i], s) <=> Off(E, q[i]) < Off(E, s)
        /\ q[i] = s <=> Off(E, q[i]) = Off(E, s)
  <2> TAKE i \in 1 .. Len(q)
  <2>1. -2048 <= Off(E, q[i]) - Off(E, s) /\ Off(E, q[i]) - Off(E, s) <= 2047
    BY <1>3
  <2> QED  BY <1>1, <2>1, LessByOffset
<1>5. \A i \in 1 .. Len(q) : i < k => Off(E, q[i]) < Off(E, s)
  BY <1>1, <1>4 DEF ScanStop
<1>6. k <= Len(q) => Off(E, s) < Off(E, q[k])
  BY <1>1, <1>3, <1>4 DEF ScanStop
<1>7. \A i \in 1 .. Len(q) : k <= i => Off(E, s) < Off(E, q[i])
  BY <1>1, <1>3, <1>6 DEF Sorted
<1> HIDE DEF r
<1>8. Sorted(E, r)
  <2> SUFFICES ASSUME NEW i \in 1 .. Len(q) + 1, NEW j \in 1 .. Len(q) + 1, i < j
               PROVE  Off(E, r[i]) < Off(E, r[j])
    BY <1>1, <1>2 DEF Sorted
  <2>1. CASE j < k
    BY <1>1, <1>2, <2>1 DEF Sorted
  <2>2. CASE j = k
    BY <1>1, <1>2, <1>5, <2>2
  <2>3. CASE i = k
    BY <1>1, <1>2, <1>7, <2>3
  <2>4. CASE i < k /\ k < j
    <3>1. i \in 1 .. Len(q) /\ j - 1 \in 1 .. Len(q) /\ k <= j - 1
      BY <1>1, <2>4
    <3>2. Off(E, q[i]) < Off(E, s) /\ Off(E, s) < Off(E, q[j - 1])
      BY <1>5, <1>7, <2>4, <3>1
    <3>3. r[i] = q[i] /\ r[j] = q[j - 1]
      BY <1>2, <2>4
    <3> QED  BY <1>3, <3>1, <3>2, <3>3
  <2>5. CASE k < i
    <3>1. i - 1 \in 1 .. Len(q) /\ j - 1 \in 1 .. Len(q) /\ i - 1 < j - 1
      BY <1>1, <2>5
    <3>2. r[i] = q[i - 1] /\ r[j] = q[j - 1]
      BY <1>2, <2>5
    <3> QED  BY <3>1, <3>2 DEF Sorted
  <2> QED  BY <2>1, <2>2, <2>3, <2>4, <2>5
<1>9. Within(E, r, -1983, 63)
  <2> SUFFICES ASSUME NEW i \in 1 .. Len(q) + 1 PROVE -1983 <= Off(E, r[i]) /\ Off(E, r[i]) <= 63
    BY <1>2 DEF Within
  <2>1. CASE i < k
    BY <1>1, <1>2, <1>3, <2>1
  <2>2. CASE i = k
    BY <1>2, <1>3, <2>2
  <2>3. CASE k < i
    <3>1. i - 1 \in 1 .. Len(q) /\ r[i] = q[i - 1]
      BY <1>1, <1>2, <2>3
    <3> QED  BY <1>3, <3>1
  <2> QED  BY <2>1, <2>2, <2>3
<1>10. Off(E, r[Len(r)]) >= -1
  <2>1. CASE k = Len(q) + 1
    BY <1>1, <1>2, <1>3, <2>1
  <2>2. CASE k <= Len(q)
    <3>1. r[Len(r)] = q[Len(q)] /\ Len(q) \in 1 .. Len(q)
      BY <1>1, <1>2, <2>2
    <3>2. Off(E, s) < Off(E, q[Len(q)])
      BY <1>7, <2>2, <3>1
    <3> QED  BY <1>3, <3>1, <3>2
  <2> QED  BY <1>1, <2>1, <2>2
<1>11. r # <<>>
  BY <1>1, <1>2
<1>12. r[1] = s /\ q # <<>> => Off(E, s) < Off(E, q[1])
  <2> SUFFICES ASSUME r[1] = s, q # <<>> PROVE Off(E, s) < Off(E, q[1])
    OBVIOUS
  <2>1. 1 \in 1 .. Len(q)
    BY <1>1
  <2>2. 1 < k => r[1] = q[1] /\ q[1] # s
    BY <1>2, <1>3, <1>4, <1>5, <2>1
  <2> QED  BY <1>7, <2>1, <2>2
<1>13. r[1] # s => q # <<>> /\ r[1] = q[1]
  BY <1>1, <1>2
<1> QED  BY <1>2, <1>8, <1>9, <1>10, <1>11, <1>12, <1>13 DEF r

(* Bounds may be widened.                                                  *)
LEMMA Widen ==
  ASSUME NEW E \in SeqNum, NEW q \in Seq(SeqNum), NEW lo \in Int, NEW hi \in Int,
         NEW l \in Int, NEW h \in Int, Within(E, q, lo, hi), l <= lo, hi <= h
  PROVE  Within(E, q, l, h)
<1> SUFFICES ASSUME NEW i \in 1 .. Len(q) PROVE l <= Off(E, q[i]) /\ Off(E, q[i]) <= h
  BY DEF Within
<1>1. q[i] \in SeqNum
  BY SeqElements
<1>2. Off(E, q[i]) \in Int
  BY OffElements
<1>3. lo <= Off(E, q[i]) /\ Off(E, q[i]) <= hi
  BY DEF Within
<1> QED  BY <1>2, <1>3

(* The head of the list is due exactly when it is not past the start.      *)
LEMMA DueByOffset ==
  ASSUME NEW E \in SeqNum, NEW h \in SeqNum, -1983 <= Off(E, h)
  PROVE  /\ Off(E, h) \in Int
         /\ SN_LESS(E, h) <=> 0 < Off(E, h)
         /\ E = h <=> Off(E, h) = 0
<1>1. Off(E, E) = 0
  BY OffZero
<1>2. Off(E, h) \in Int /\ Off(E, h) <= 2047
  BY OffRange
<1>3. -2048 <= Off(E, E) - Off(E, h) /\ Off(E, E) - Off(E, h) <= 2047
  BY <1>1, <1>2
<1>4. /\ SN_LESS(E, h) <=> Off(E, E) < Off(E, h)
      /\ E = h <=> Off(E, E) = Off(E, h)
  BY <1>3, LessByOffset
<1> QED  BY <1>1, <1>2, <1>4

(* The window after check_indicate_seq accepted s: the list and s as seen  *)
(* from the new start.                                                     *)
LEMMA CheckMoves ==
  ASSUME NEW E \in SeqNum, NEW s \in SeqNum, NEW q \in Seq(SeqNum), Accepts(E, s),
         Sorted(E, q), Within(E, q, 1, 63)
  PROVE  LET N == NextIndicate(E, s) IN
         /\ N \in SeqNum
         /\ Sorted(N, q) /\ Within(N, q, -1983, 63)
         /\ Off(N, s) = Off(E, s) - Off(E, N)
         /\ Off(E, N) \in Int /\ 0 <= Off(E, N) /\ Off(E, N) <= 1984
         /\ \A i \in 1 .. Len(q) : Off(N, q[i]) = Off(E, q[i]) - Off(E, N)
         /\ \/ Off(N, s) = -1 /\ Within(N, q, 0, 63)
            \/ 1 <= Off(N, s) /\ Off(N, s) <= 63 /\ Within(N, q, 1, 63) /\ Off(E, N) = 0
            \/ Off(N, s) = 63 /\ Within(N, q, -1983, 62)
<1> DEFINE N == NextIndicate(E, s)
<1> DEFINE k == Off(E, N)
<1>1. N \in SeqNum
  BY NextIndicateType
<1>2. Off(E, s) \in Int /\ Off(E, s) <= 2047
  BY OffRange
<1>3. \/ Off(E, s) = 0 /\ k = 1
      \/ Off(E, s) >= 1 /\ Off(E, s) <= 63 /\ k = 0
      \/ Off(E, s) >= 64 /\ k = Off(E, s) - 63
  BY CheckCases, OffSucc, OffZero
<1> HIDE DEF N
<1>4. k \in Int /\ 0 <= k /\ k <= 1984
  BY <1>2, <1>3
<1>5. Off(N, s) = Off(E, s) - k
  <2>1. -2048 <= Off(E, s) - k /\ Off(E, s) - k <= 2047
    BY <1>2, <1>3, <1>4
  <2> QED  BY <1>1, <2>1, OffMove
<1>6. /\ \A i \in 1 .. Len(q) : Off(N, q[i]) = Off(E, q[i]) - k
      /\ Within(N, q, 1 - k, 63 - k)
      /\ Sorted(N, q)
  <2>1. -2048 <= 1 - k /\ 63 - k <= 2047
    BY <1>4
  <2> QED  BY <1>1, <2>1, MoveList
<1>7. Within(N, q, -1983, 63)
  BY <1>1, <1>4, <1>6, Widen
<1>8. CASE Off(E, s) = 0 /\ k = 1
  <2>1. Within(N, q, 0, 63)
    BY <1>1, <1>6, <1>8, Widen
  <2>2. Off(N, s) = -1
    BY <1>5, <1>8
  <2> QED  BY <1>1, <1>4, <1>5, <1>6, <1>7, <2>1, <2>2 DEF N
<1>9. CASE Off(E, s) >= 1 /\ Off(E, s) <= 63 /\ k = 0
  <2>1. Within(N, q, 1, 63)
    BY <1>1, <1>6, <1>9, Widen
  <2>2. 1 <= Off(N, s) /\ Off(N, s) <= 63
    <3> HIDE DEF k
    <3>1. Off(N, s) = Off(E, s)
      BY <1>2, <1>5, <1>9
    <3> QED  BY <1>2, <1>9, <3>1
  <2> QED  BY <1>1, <1>4, <1>5, <1>6, <1>7, <1>9, <2>1, <2>2 DEF N
<1>10. CASE Off(E, s) >= 64 /\ k = Off(E, s) - 63
  <2> HIDE DEF k
  <2>1. Within(N, q, -1983, 62)
    <3>1. 1 <= k
      BY <1>2, <1>10
    <3>2. 1 - k \in Int /\ 63 - k \in Int /\ -1983 <= 1 - k /\ 63 - k <= 62
      BY <1>4, <3>1
    <3> QED  BY <1>1, <1>6, <3>2, Widen
  <2>2. Off(N, s) = 63
    BY <1>2, <1>5, <1>10
  <2> QED  BY <1>1, <1>4, <1>5, <1>6, <1>7, <2>1, <2>2 DEF N, k
<1> QED  BY <1>3, <1>8, <1>9, <1>10

(* The first frame of a session puts the start right behind itself.        *)
LEMMA FirstCheck ==
  ASSUME NEW s \in SeqNum
  PROVE  /\ NextIndicate(SeqInit, s) = (s + 1) % 4096
         /\ Off((s + 1) % 4096, s) = -1
<1>1. NextIndicate(SeqInit, s) = (s + 1) % 4096
  BY DEF NextIndicate, InitSeq, SN_EQUAL
<1> DEFINE N == (s + 1) % 4096
<1>2. N \in SeqNum /\ Off(s, N) = 1 /\ Off(s, s) = 0
  BY OffSucc, OffZero
<1> HIDE DEF N
<1>3. Off(N, s) = Off(s, s) - Off(s, N)
  <2>1. -2048 <= Off(s, s) - Off(s, N) /\ Off(s, s) - Off(s, N) <= 2047
    BY <1>2
  <2> QED  BY <1>2, <2>1, OffMove
<1>4. Off(N, s) = -1
  BY <1>2, <1>3
<1> QED  BY <1>1, <1>4 DEF N

-----------------------------------------------------------------------------
(* Steps that leave the list, its start and the lock alone, and do not     *)
(* begin to work on the list, keep SortedInv.                              *)
LEMMA KeepSorted ==
  ASSUME SortedInv, stale' = stale, pending' = pending, Start' = Start, lock' = lock,
         \/ rx_pc' = rx_pc /\ rx_seq' = rx_seq
         \/ rx_pc' # "enqueue" /\ rx_pc' # "indicate"
  PROVE  SortedInv'
BY DEF SortedInv, EnqueueInv, Pos

(* So do steps that empty the list or mark its content as left behind.     *)
LEMMA ResetSorted ==
  ASSUME stale' \/ (pending' = <<>> /\ rx_pc' # "enqueue")
  PROVE  SortedInv'
<1>1. CASE stale'
  BY <1>1 DEF SortedInv
<1>2. CASE pending' = <<>> /\ rx_pc' # "enqueue"
  <2>1. 1 .. Len(pending') = {}
    BY <1>2
  <2> QED  BY <1>2, <2>1 DEF SortedInv, Sorted, Within
<1> QED  BY <1>1, <1>2

(* The window start is a number whenever the list is in order.             *)
LEMMA StartType ==
  ASSUME TInv, SortedInv, ~stale, pending # <<>> \/ rx_pc = "enqueue"
  PROVE  Start \in SeqNum
BY DEF TInv, TypeOK, SortedInv, Start

(* When the head is not due, the whole list is past the start.             *)
LEMMA NotDueSorted ==
  ASSUME TInv, SortedInv, ~stale, pending # <<>>, wr = NoSeq, ~HeadDue
  PROVE  Within(Start, pending, 1, 63)
<1>1. Start \in SeqNum /\ Start = indicate_seq
  BY StartType DEF Start
<1>2. pending \in Seq(SeqNum) /\ Len(pending) \in Nat \ {0} /\ Head(pending) = pending[1]
  BY DEF TInv, TypeOK
<1>3. Sorted(Start, pending) /\ Within(Start, pending, -1983, 63)
  BY DEF SortedInv
<1>4. 0 < Off(Start, pending[1])
  <2>1. pending[1] \in SeqNum /\ -1983 <= Off(Start, pending[1])
    BY <1>2, <1>3 DEF Within
  <2>2. SN_LESS(Start, pending[1])
    BY <1>1, <1>2 DEF HeadDue
  <2> QED  BY <1>1, <2>1, <2>2, DueByOffset
<1> SUFFICES ASSUME NEW i \in 1 .. Len(pending)
             PROVE  1 <= Off(Start, pending[i]) /\ Off(Start, pending[i]) <= 63
  BY DEF Within
<1>5. /\ pending[i] \in SeqNum /\ pending[1] \in SeqNum
      /\ Off(Start, pending[i]) <= 63
      /\ 1 \in 1 .. Len(pending)
  BY <1>2, <1>3 DEF Within
<1>6. Off(Start, pending[i]) \in Int /\ Off(Start, pending[1]) \in Int
  BY <1>1, <1>2, <1>5, OffElements
<1>7. CASE i = 1
  BY <1>4, <1>5, <1>6, <1>7
<1>8. CASE i # 1
  <2>1. Off(Start, pending[1]) < Off(Start, pending[i])
    BY <1>2, <1>3, <1>5, <1>8 DEF Sorted
  <2> QED  BY <1>4, <1>5, <1>6, <2>1
<1> QED  BY <1>7, <1>8

(* A list past the start, seen from the next number.                       *)
LEMMA ShiftOne ==
  ASSUME NEW E \in SeqNum, NEW F \in SeqNum, Off(E, F) = 1,
         NEW r \in Seq(SeqNum), r # <<>>, Sorted(E, r), Within(E, r, 1, 63)
  PROVE  /\ Sorted(F, r) /\ Within(F, r, 0, 63) /\ Within(F, r, -1983, 63)
         /\ Off(F, r[Len(r)]) >= -1
<1>1. -2048 <= 1 - Off(E, F) /\ 63 - Off(E, F) <= 2047
  OBVIOUS
<1>2. Within(F, r, 1 - Off(E, F), 63 - Off(E, F)) /\ Sorted(F, r)
  BY <1>1, MoveList
<1>3. 1 - Off(E, F) = 0 /\ 63 - Off(E, F) = 62
  OBVIOUS
<1>4. Within(F, r, 0, 62)
  BY <1>2, <1>3
<1>5. Within(F, r, 0, 63)
  BY <1>4, Widen
<1>6. Within(F, r, -1983, 63)
  <2>1. -1983 \in Int /\ -1983 <= 0
    OBVIOUS
  <2> QED  BY <1>5, <2>1, Widen
<1>7. Off(F, r[Len(r)]) >= -1
  <2>0. Len(r) \in 1 .. Len(r)
    OBVIOUS
  <2>1. Len(r) \in 1 .. Len(r) /\ r[Len(r)] \in SeqNum
    BY <2>0, SeqElements
  <2>2. 0 <= Off(F, r[Len(r)])
    BY <1>5, <2>1 DEF Within
  <2>3. Off(F, r[Len(r)]) \in Int
    BY <2>1, OffElements
  <2> QED  BY <2>2, <2>3
<1> QED  BY <1>2, <1>5, <1>6, <1>7

(* The list after its head, when that was at the start, was taken off.     *)
LEMMA PopStart ==
  ASSUME NEW E \in SeqNum, NEW q \in Seq(SeqNum), Tail(q) # <<>>, q # <<>>,
         Sorted(E, q), Within(E, q, -1983, 63), Off(E, q[1]) = 0
  PROVE  LET F == (E + 1) % 4096 IN
         /\ F \in SeqNum /\ Off(E, F) = 1
         /\ Sorted(F, Tail(q)) /\ Within(F, Tail(q), 0, 63) /\ Within(F, Tail(q), -1983, 63)
         /\ Off(F, Tail(q)[Len(Tail(q))]) >= -1
<1> DEFINE F == (E + 1) % 4096
<1> DEFINE r == Tail(q)
<1>1. F \in SeqNum /\ Off(E, F) = 1
  BY OffSucc
<1>2. /\ Sorted(E, r) /\ Within(E, r, -1983, 63)
      /\ \A i \in 1 .. Len(r) : Off(E, r[i]) > Off(E, q[1])
  <2>1. -1983 \in Int
    OBVIOUS
  <2> QED  BY <2>1, TailList
<1>3. r \in Seq(SeqNum) /\ r # <<>>
  OBVIOUS
<1> HIDE DEF F, r
<1>4. Within(E, r, 1, 63)
  <2> SUFFICES ASSUME NEW i \in 1 .. Len(r)
               PROVE  1 <= Off(E, r[i]) /\ Off(E, r[i]) <= 63
    BY DEF Within
  <2>1. r[i] \in SeqNum /\ Off(E, r[i]) <= 63
    BY <1>2, <1>3 DEF Within
  <2>2. Off(E, r[i]) \in Int
    BY <1>3, OffElements
  <2>3. Off(E, r[i]) > 0
    BY <1>2
  <2> QED  BY <2>1, <2>2, <2>3
<1>5. /\ Sorted(F, r) /\ Within(F, r, 0, 63) /\ Within(F, r, -1983, 63)
      /\ Off(F, r[Len(r)]) >= -1
  BY <1>1, <1>2, <1>3, <1>4, ShiftOne
<1> QED  BY <1>1, <1>5 DEF F, r

(* Taking the head off the list keeps SortedInv for tasklet and timer.     *)
LEMMA IndicateSorted ==
  ASSUME TInv, SortedInv, IndicateHead, lock' = lock, rx_pc' = rx_pc,
         rx_pc = "indicate" \/ timer_pc = "indicate"
  PROVE  SortedInv'
<1>1. /\ wr = NoSeq /\ pending # <<>> /\ ~SN_LESS(indicate_seq, Head(pending))
      /\ pending' = Tail(pending) /\ indicate_seq' = indicate_seq
      /\ wr' = IF indicate_seq = Head(pending) THEN (indicate_seq + 1) % 4096 ELSE NoSeq
      /\ ~stale' => ~stale \/ pending' = <<>>
  BY DEF IndicateHead, HeadDue, SN_EQUAL
<1>2. rx_pc' # "enqueue" /\ lock # "none"
  BY DEF TInv, LockInv
<1>3. CASE stale' \/ pending' = <<>>
  BY <1>2, <1>3, ResetSorted
<1>4. CASE ~stale' /\ pending' # <<>>
  <2>1. ~stale /\ Tail(pending) # <<>>
    BY <1>1, <1>4
  <2>2. Start \in SeqNum /\ Start = indicate_seq
    BY <1>1, <2>1, StartType DEF Start
  <2>3. /\ pending \in Seq(SeqNum) /\ Len(pending) \in Nat \ {0}
        /\ Head(pending) = pending[1] /\ pending[1] \in SeqNum
    BY <1>1 DEF TInv, TypeOK
  <2>4. Sorted(Start, pending) /\ Within(Start, pending, -1983, 63)
    BY <2>1 DEF SortedInv
  <2>5. -1983 <= Off(Start, pending[1])
    BY <2>3, <2>4 DEF Within
  <2>6. /\ Off(Start, pending[1]) \in Int /\ Off(Start, pending[1]) <= 0
        /\ Start = pending[1] <=> Off(Start, pending[1]) = 0
    BY <1>1, <2>2, <2>3, <2>5, DueByOffset
  <2>7. lock = "timer" => Start = pending[1]
    <3>1. lock = "timer" => Within(Start, pending, 0, 63)
      BY <2>1 DEF SortedInv
    <3>2. lock = "timer" => 0 <= Off(Start, pending[1])
      BY <2>3, <3>1 DEF Within
    <3> QED  BY <2>6, <3>2
  <2>8. CASE Start = pending[1]
    <3>1. LET F == (Start + 1) % 4096 IN
          /\ F \in SeqNum
          /\ Sorted(F, pending') /\ Within(F, pending', 0, 63) /\ Within(F, pending', -1983, 63)
          /\ Off(F, pending'[Len(pending')]) >= -1
      BY <1>1, <2>1, <2>2, <2>3, <2>4, <2>6, <2>8, PopStart
    <3>2. wr' = (Start + 1) % 4096
      BY <1>1, <2>2, <2>3, <2>8
    <3>3. (Start + 1) % 4096 # NoSeq /\ (Start + 1) % 4096 # SeqInit
      BY <3>1, SeqNumProper
    <3>4. Start' = (Start + 1) % 4096
      BY <3>2, <3>3 DEF Start
    <3> QED  BY <1>2, <3>1, <3>3, <3>4 DEF SortedInv, Pos
  <2>9. CASE Start # pending[1]
    <3>1. Start' = Start /\ lock # "timer" /\ Start # SeqInit
      <4>1. wr' = NoSeq
        BY <1>1, <2>2, <2>3, <2>9
      <4>2. Start' = Start
        BY <1>1, <4>1 DEF Start
      <4> QED  BY <2>2, <2>7, <2>9, <4>2, SeqNumProper
    <3>2. rx_pc = "indicate" => Off(Start, pending[Len(pending)]) >= -1
      BY <1>1, <2>1 DEF SortedInv, Pos
    <3>3. /\ Sorted(Start, pending') /\ Within(Start, pending', -1983, 63)
          /\ pending'[Len(pending')] = pending[Len(pending)]
      <4>1. -1983 \in Int
        OBVIOUS
      <4> QED  BY <1>1, <2>1, <2>2, <2>3, <2>4, <4>1, TailList
    <3> QED  BY <1>2, <3>1, <3>2, <3>3 DEF SortedInv, Pos
  <2> QED  BY <2>8, <2>9
<1> QED  BY <1>3, <1>4

(* check_indicate_seq keeps SortedInv.                                     *)
LEMMA CheckSorted == TInv /\ SortedInv /\ RxCheck => SortedInv'
<1> SUFFICES ASSUME TInv, SortedInv, RxCheck PROVE SortedInv'
  OBVIOUS
<1>1. /\ rx_pc = "lock" /\ lock = "none" /\ wr = NoSeq /\ Start = indicate_seq
      /\ rx_seq \in SeqNum /\ pending \in Seq(SeqNum)
      /\ indicate_seq \in SeqNum \cup {SeqInit}
  BY DEF TInv, TypeOK, LockInv, RxCheck, Start
<1>2. /\ pending' = pending /\ rx_seq' = rx_seq /\ stale' = stale
      /\ indicate_seq' = indicate_seq
  BY DEF RxCheck
<1> DEFINE N == NextIndicate(indicate_seq, rx_seq)
<1>3. CASE rx_pc' = "idle" /\ wr' = wr /\ lock' = lock
  <2>1. Start' = Start
    BY <1>2, <1>3 DEF Start
  <2> QED  BY <1>2, <1>3, <2>1, KeepSorted
<1>4. CASE /\ Accepts(indicate_seq, rx_seq) /\ lock' = "rx" /\ rx_pc' = "enqueue"
           /\ wr' = IF N = indicate_seq THEN NoSeq ELSE N
  <2>1. N \in SeqNum /\ N # NoSeq /\ N # SeqInit
    BY <1>1, NextIndicateType, SeqNumProper
  <2>2. Start' = N
    BY <1>2, <1>4, <2>1 DEF Start
  <2>3. CASE stale
    BY <1>2, <2>3, ResetSorted
  <2>4. CASE ~stale /\ indicate_seq \in SeqNum
    <3>1. Sorted(indicate_seq, pending) /\ Within(indicate_seq, pending, 1, 63)
      BY <1>1, <2>4 DEF SortedInv
    <3>2. /\ Sorted(N, pending) /\ Within(N, pending, -1983, 63)
          /\ \/ Off(N, rx_seq) = -1 /\ Within(N, pending, 0, 63)
             \/ 1 <= Off(N, rx_seq) /\ Off(N, rx_seq) <= 63 /\ Within(N, pending, 1, 63)
             \/ Off(N, rx_seq) = 63 /\ Within(N, pending, -1983, 62)
      BY <1>1, <1>4, <2>4, <3>1, CheckMoves
    <3> HIDE DEF N
    <3> QED  BY <1>2, <1>4, <2>1, <2>2, <3>2 DEF SortedInv, EnqueueInv, Pos
  <2>5. CASE ~stale /\ indicate_seq = SeqInit
    <3>1. pending = <<>>
      BY <1>1, <2>5 DEF SortedInv
    <3>2. Off(N, rx_seq) = -1
      BY <1>1, <2>5, FirstCheck
    <3>3. 1 .. Len(pending') = {}
      BY <1>2, <3>1
    <3> HIDE DEF N
    <3> QED
      BY <1>2, <1>4, <2>1, <2>2, <3>1, <3>2, <3>3 DEF SortedInv, EnqueueInv, Pos, Sorted, Within
  <2> QED  BY <1>1, <2>3, <2>4, <2>5
<1> QED  BY <1>3, <1>4 DEF RxCheck

(* enqueue_reorder_recvframe keeps SortedInv.                              *)
LEMMA EnqueueSorted == TInv /\ SortedInv /\ RxEnqueue => SortedInv'
<1> SUFFICES ASSUME TInv, SortedInv, RxEnqueue PROVE SortedInv'
  OBVIOUS
<1>1. /\ rx_pc = "enqueue" /\ wr = NoSeq /\ lock = "rx"
      /\ rx_seq \in SeqNum /\ pending \in Seq(SeqNum) /\ Len(pending) \in Nat
      /\ indicate_seq' = indicate_seq /\ wr' = wr /\ stale' = stale
  BY DEF TInv, TypeOK, LockInv, RxEnqueue
<1>2. Start' = Start
  BY <1>1 DEF Start
<1>3. CASE stale
  BY <1>1, <1>3, ResetSorted
<1>4. CASE ~stale
  <2>1. /\ Start \in SeqNum /\ Sorted(Start, pending) /\ Within(Start, pending, -1983, 63)
        /\ EnqueueInv /\ Start # SeqInit
    BY <1>1, <1>4, StartType DEF SortedInv
  <2>2. Pos(rx_seq) \in Int /\ -1 <= Pos(rx_seq) /\ Pos(rx_seq) <= 63
    <3>1. Pos(rx_seq) \in Int
      BY <1>1, <2>1, OffRange DEF Pos
    <3> QED  BY <2>1, <3>1 DEF EnqueueInv
  <2>3. PICK k \in 1 .. Len(pending) + 1 :
          /\ ScanStop(pending, rx_seq, k)
          /\ \/ /\ k <= Len(pending) /\ pending[k] = rx_seq
                /\ lock' = "none" /\ rx_pc' = "idle" /\ pending' = pending
             \/ /\ k <= Len(pending) => pending[k] # rx_seq
                /\ pending' = Insert(pending, rx_seq, k)
                /\ rx_pc' = "indicate" /\ lock' = lock
    BY DEF RxEnqueue, SN_EQUAL
  <2>4. CASE k <= Len(pending) /\ pending[k] = rx_seq /\ lock' = "none"
             /\ rx_pc' = "idle" /\ pending' = pending
    <3>1. k \in 1 .. Len(pending) /\ Off(Start, pending[k]) = Pos(rx_seq)
      BY <1>1, <2>4 DEF Pos
    <3>2. ~(Pos(rx_seq) = -1 /\ Within(Start, pending, 0, 63))
      BY <3>1 DEF Within
    <3>3. ~(Pos(rx_seq) = 63 /\ Within(Start, pending, -1983, 62))
      BY <3>1 DEF Within
    <3>4. Within(Start, pending, 1, 63)
      BY <2>1, <3>2, <3>3 DEF EnqueueInv
    <3> QED  BY <1>2, <2>1, <2>4, <3>4 DEF SortedInv
  <2>5. CASE /\ k <= Len(pending) => pending[k] # rx_seq
             /\ pending' = Insert(pending, rx_seq, k)
             /\ rx_pc' = "indicate" /\ lock' = lock
    <3>1. -1 <= Off(Start, rx_seq) /\ Off(Start, rx_seq) <= 63
      BY <2>2 DEF Pos
    <3>2. /\ Sorted(Start, pending') /\ Within(Start, pending', -1983, 63)
          /\ Off(Start, pending'[Len(pending')]) >= -1
      BY <1>1, <2>1, <2>3, <2>5, <3>1, InsertList
    <3> QED  BY <1>1, <1>2, <2>1, <2>5, <3>2 DEF SortedInv, Pos
  <2> QED  BY <2>3, <2>4, <2>5
<1> QED  BY <1>3, <1>4

(* A list past the start, seen from its own head.                          *)
LEMMA MoveToHead ==
  ASSUME NEW E \in SeqNum, NEW q \in Seq(SeqNum), q # <<>>, Sorted(E, q), Within(E, q, 1, 63)
  PROVE  /\ q[1] \in SeqNum
         /\ Sorted(q[1], q) /\ Within(q[1], q, 0, 63) /\ Within(q[1], q, -1983, 63)
         /\ \A i \in 1 .. Len(q) : Off(q[1], q[i]) = Off(E, q[i]) - Off(E, q[1])
<1> DEFINE F == q[1]
<1>1. F \in SeqNum /\ Len(q) \in Nat \ {0} /\ 1 \in 1 .. Len(q)
  OBVIOUS
<1>2. Off(E, F) \in Int /\ 1 <= Off(E, F) /\ Off(E, F) <= 63
  BY <1>1, OffRange DEF Within
<1>3. \A i \in 1 .. Len(q) : Off(E, F) <= Off(E, q[i])
  <2> TAKE i \in 1 .. Len(q)
  <2>1. Off(E, q[i]) \in Int
    BY OffElements
  <2>2. CASE i = 1
    BY <1>2, <2>2
  <2>3. CASE i # 1
    <3>1. 1 < i
      BY <1>1, <2>3
    <3>2. Off(E, q[1]) < Off(E, q[i])
      BY <1>1, <3>1 DEF Sorted
    <3> QED  BY <1>2, <2>1, <3>2
  <2> QED  BY <2>2, <2>3
<1> HIDE DEF F
<1>4. /\ \A i \in 1 .. Len(q) : Off(F, q[i]) = Off(E, q[i]) - Off(E, F)
      /\ Sorted(F, q)
  <2>1. -2048 <= 1 - Off(E, F) /\ 63 - Off(E, F) <= 2047
    BY <1>2
  <2> QED  BY <1>1, <2>1, MoveList
<1>5. Within(F, q, 0, 63)
  <2> SUFFICES ASSUME NEW i \in 1 .. Len(q) PROVE 0 <= Off(F, q[i]) /\ Off(F, q[i]) <= 63
    BY DEF Within
  <2>0. q[i] \in SeqNum
    BY SeqElements
  <2>1. q[i] \in SeqNum /\ Off(E, q[i]) <= 63 /\ Off(F, q[i]) = Off(E, q[i]) - Off(E, F)
    BY <1>4, <2>0 DEF Within
  <2>2. Off(E, q[i]) \in Int
    BY OffElements
  <2>3. Off(E, F) <= Off(E, q[i])
    BY <1>3
  <2> QED  BY <1>2, <2>1, <2>2, <2>3
<1>6. Within(F, q, -1983, 63)
  <2>1. -1983 \in Int /\ -1983 <= 0
    OBVIOUS
  <2> QED  BY <1>1, <1>5, <2>1, Widen
<1> QED  BY <1>1, <1>4, <1>5, <1>6 DEF F

(* The forced indication moves the start onto the head and keeps SortedInv.*)
LEMMA ForceSorted == TInv /\ SortedInv /\ TimerForce => SortedInv'
<1> SUFFICES ASSUME TInv, SortedInv, TimerForce PROVE SortedInv'
  OBVIOUS
<1>1. /\ lock = "none" /\ wr = NoSeq /\ Start = indicate_seq
      /\ wr' = wr /\ pending' = pending /\ rx_pc' = rx_pc /\ rx_seq' = rx_seq
      /\ stale' = stale /\ pending \in Seq(SeqNum)
      /\ rx_pc # "enqueue" /\ rx_pc # "indicate"
  BY DEF TInv, TypeOK, LockInv, TimerForce, Start
<1>2. CASE pending = <<>>
  BY <1>1, <1>2, ResetSorted
<1>3. CASE stale
  BY <1>1, <1>3, ResetSorted
<1>4. CASE pending # <<>> /\ ~stale
  <2>1. /\ Start \in SeqNum /\ Sorted(Start, pending) /\ Within(Start, pending, 1, 63)
    BY <1>1, <1>4, StartType DEF SortedInv
  <2>2. /\ pending[1] \in SeqNum
        /\ Sorted(pending[1], pending) /\ Within(pending[1], pending, 0, 63)
        /\ Within(pending[1], pending, -1983, 63)
    BY <1>1, <1>4, <2>1, MoveToHead
  <2>3. indicate_seq' = pending[1] /\ lock' = "timer"
    BY <1>1, <1>4 DEF TimerForce
  <2>4. Start' = pending[1] /\ pending[1] # SeqInit
    BY <1>1, <2>2, <2>3, SeqNumProper DEF Start
  <2> QED  BY <1>1, <2>2, <2>3, <2>4 DEF SortedInv
<1> QED  BY <1>2, <1>3, <1>4

(* Every step keeps the list in order.                                     *)
LEMMA NextSorted == TInv /\ SortedInv /\ [Next]_vars => SortedInv'
<1> SUFFICES ASSUME TInv, SortedInv, [Next]_vars PROVE SortedInv'
  OBVIOUS
<1>0. TypeOK /\ LockInv
  BY DEF TInv
<1>1. ASSUME NEW s \in Seqs, RxFrame(s) PROVE SortedInv'
  BY <1>1, KeepSorted DEF RxFrame, ctrl, Start
<1>2. ASSUME NEW ok \in BOOLEAN, RxAddba(ok) PROVE SortedInv'
  BY <1>2, ResetSorted DEF RxAddba
<1>3. CASE RxDelba
  BY <1>3, ResetSorted DEF RxDelba
<1>4. CASE RxDirect \/ RxStore
  <2>1. pending' = pending /\ stale' = (pending # <<>>) /\ rx_pc' # "enqueue"
    BY <1>4 DEF RxDirect, RxStore
  <2> QED  BY <2>1, ResetSorted
<1>5. CASE RxLoad \/ RxCancel
  BY <1>5, KeepSorted DEF RxLoad, RxCancel, ctrl, Start
<1>6. CASE RxWrite \/ TimerWrite
  <2>1. Start' = Start
    BY <1>6 DEF RxWrite, TimerWrite, WriteBack, Start
  <2> QED  BY <1>6, <2>1, KeepSorted DEF RxWrite, TimerWrite, WriteBack
<1>7. CASE RxIndicate
  BY <1>7, IndicateSorted DEF RxIndicate
<1>8. CASE TimerIndicate
  BY <1>8, IndicateSorted DEF TimerIndicate
<1>9. CASE RxArm \/ TimerDone
  <2>1. /\ wr = NoSeq /\ ~HeadDue /\ wr' = wr /\ indicate_seq' = indicate_seq
        /\ pending' = pending /\ stale' = stale /\ lock' = "none"
        /\ rx_pc' # "enqueue" /\ rx_pc' # "indicate"
    BY <1>0, <1>9 DEF RxArm, TimerDone, LockInv, ctrl
  <2>2. Start' = Start
    BY <2>1 DEF Start
  <2>3. CASE stale \/ pending = <<>>
    BY <2>1, <2>3, ResetSorted
  <2>4. CASE ~stale /\ pending # <<>>
    <3>1. Within(Start, pending, 1, 63)
      BY <2>1, <2>4, NotDueSorted
    <3> QED  BY <2>1, <2>2, <2>4, <3>1 DEF SortedInv
  <2> QED  BY <2>3, <2>4
<1>10. CASE RxEmpty
  BY <1>10, ResetSorted DEF RxEmpty, ctrl
<1>11. CASE TimerFire
  BY <1>11, KeepSorted DEF TimerFire, ctrl, Start
<1>12. CASE DelbaDisable
  BY <1>12, KeepSorted DEF DelbaDisable, Start
<1>13. CASE DelbaReset
  BY <1>13, ResetSorted DEF DelbaReset
<1>14. CASE FreeEnter \/ FreeCancel \/ Stop
  BY <1>14, KeepSorted DEF FreeEnter, FreeCancel, Stop, ctrl, Start
<1>15. CASE FreeDrain \/ StaAlloc
  BY <1>0, <1>15, ResetSorted DEF FreeDrain, StaAlloc, LockInv
<1>16. CASE UNCHANGED vars
  BY <1>16, KeepSorted DEF vars, Start
<1> QED
  BY <1>1, <1>2, <1>3, <1>4, <1>5, <1>6, <1>7, <1>8, <1>9, <1>10, <1>11, <1>12,
     <1>13, <1>14, <1>15, <1>16, CheckSorted, EnqueueSorted, ForceSorted
  DEF Next, Rx, Timer

(* Outside the lock the buffer is sorted and inside the window, past its   *)
(* start, whatever the order of frames, timer expiries and resets.         *)
THEOREM WindowStaysSorted == Spec => []WindowSorted
<1>1. Init => SortedInv
  <2> SUFFICES ASSUME Init PROVE SortedInv
    OBVIOUS
  <2>1. pending = <<>> /\ rx_pc = "idle" /\ 1 .. Len(pending) = {}
    BY DEF Init
  <2> QED  BY <2>1 DEF SortedInv, Sorted, Within
<1>2. Spec => [](TInv /\ SortedInv)
  BY <1>1, InitTInv, NextTInv, NextSorted, PTL DEF Spec
<1>3. TInv /\ SortedInv => WindowSorted
  <2> SUFFICES ASSUME TInv, SortedInv, lock = "none", ~stale, pending # <<>>
               PROVE  /\ indicate_seq # SeqInit
                      /\ Within(indicate_seq, pending, 1, WSize - 1)
                      /\ Sorted(indicate_seq, pending)
    BY DEF WindowSorted
  <2>1. Start = indicate_seq /\ WSize - 1 = 63
    BY DEF TInv, LockInv, Start, WSize
  <2> QED  BY <2>1 DEF SortedInv
<1> QED  BY <1>2, <1>3, PTL

-----------------------------------------------------------------------------
(***************************************************************************)
(* The order in which frames are handed up.  Dist(a, s) is the             *)
(* representative of s - a between 0 and 4095.                             *)
(***************************************************************************)
DistWraps(d, o) == o \in Int /\ 0 <= o /\ o <= 4095 /\ (d = o \/ d = o - 4096)

LEMMA DistRange == \A a, s \in SeqNum : DistWraps(s - a, Dist(a, s))
<1> SUFFICES ASSUME NEW a \in SeqNum, NEW s \in SeqNum PROVE DistWraps(s - a, Dist(a, s))
  OBVIOUS
<1> DEFINE x == s - a
<1>1. x \in Int /\ -4095 <= x /\ x <= 4095
  BY DEF SeqNum
<1>2. /\ x < 0 => x % 4096 = x + 4096
      /\ 0 <= x /\ x < 4096 => x % 4096 = x
  BY <1>1, ModCases
<1> QED  BY <1>1, <1>2 DEF Dist, DistWraps

(* The distance to a number seen from a start in between.                  *)
LEMMA DistMove ==
  ASSUME NEW a \in SeqNum, NEW E \in SeqNum, NEW s \in SeqNum,
         0 <= Dist(a, E) + Off(E, s), Dist(a, E) + Off(E, s) <= 4095
  PROVE  Dist(a, s) = Dist(a, E) + Off(E, s)
<1>1. /\ DistWraps(E - a, Dist(a, E)) /\ DistWraps(s - a, Dist(a, s))
      /\ Wraps(s - E, Off(E, s))
  BY DistRange, OffWraps
<1> QED  BY <1>1 DEF DistWraps, Wraps, SeqNum

(* The distance of two numbers seen from one start.                        *)
LEMMA DistByOffset ==
  ASSUME NEW E \in SeqNum, NEW a \in SeqNum, NEW s \in SeqNum,
         0 <= Off(E, s) - Off(E, a), Off(E, s) - Off(E, a) <= 4095
  PROVE  Dist(a, s) = Off(E, s) - Off(E, a)
<1>1. /\ DistWraps(s - a, Dist(a, s))
      /\ Wraps(s - E, Off(E, s)) /\ Wraps(a - E, Off(E, a))
  BY DistRange, OffWraps
<1> QED  BY <1>1 DEF DistWraps, Wraps, SeqNum

-----------------------------------------------------------------------------
(* Once a frame was handed up, the start and the buffer are well-typed.    *)
LEMMA OrderTypes ==
  ASSUME TInv, OrderInv, last # NoSeq
  PROVE  /\ last \in SeqNum /\ Start \in SeqNum /\ ~stale
         /\ Gap \in Int /\ 1 <= Gap /\ Gap <= 4095
         /\ pending \in Seq(SeqNum) /\ Len(pending) \in Nat
<1>1. last \in SeqNum /\ ~stale /\ pending \in Seq(SeqNum) /\ Len(pending) \in Nat
  BY DEF TInv, TypeOK, LockInv
<1>2. Start \in SeqNum /\ 1 <= Gap
  BY DEF TInv, TypeOK, OrderInv, Start
<1>3. Gap \in Int /\ Gap <= 4095
  BY <1>1, <1>2, DistRange DEF DistWraps, Gap
<1> QED  BY <1>1, <1>2, <1>3

(* Steps that leave the list, its start and the last frame alone, and do   *)
(* not begin to insert a frame, keep OrderInv.                             *)
LEMMA KeepOrder ==
  ASSUME OrderInv, last' = last, pending' = pending, Start' = Start,
         \/ rx_pc' = rx_pc /\ rx_seq' = rx_seq
         \/ rx_pc # "enqueue" /\ rx_pc' # "enqueue"
  PROVE  OrderInv'
BY DEF OrderInv, Gap, Pos

(* check_indicate_seq keeps OrderInv.                                      *)
LEMMA CheckOrder == TInv /\ SortedInv /\ OrderInv /\ RxCheck => OrderInv'
<1> SUFFICES ASSUME TInv, SortedInv, OrderInv, RxCheck, last' # NoSeq PROVE OrderInv'
  BY DEF OrderInv
<1>1. /\ rx_pc = "lock" /\ lock = "none" /\ wr = NoSeq /\ Start = indicate_seq
      /\ rx_seq \in SeqNum
  BY DEF TInv, TypeOK, LockInv, RxCheck, Start
<1>2. /\ pending' = pending /\ rx_seq' = rx_seq /\ last' = last
      /\ indicate_seq' = indicate_seq
  BY DEF RxCheck
<1>3. /\ last \in SeqNum /\ Start \in SeqNum /\ ~stale
      /\ Gap \in Int /\ 1 <= Gap /\ Gap <= 4095
      /\ pending \in Seq(SeqNum) /\ Len(pending) \in Nat
  BY <1>2, OrderTypes
<1>4. CASE rx_pc' = "idle" /\ wr' = wr
  <2>1. Start' = Start
    BY <1>2, <1>4 DEF Start
  <2> QED  BY <1>1, <1>2, <1>4, <2>1, KeepOrder
<1>5. CASE /\ Accepts(indicate_seq, rx_seq) /\ rx_pc' = "enqueue"
           /\ wr' = IF NextIndicate(indicate_seq, rx_seq) = indicate_seq
                      THEN NoSeq ELSE NextIndicate(indicate_seq, rx_seq)
  <2> DEFINE N == NextIndicate(Start, rx_seq)
  <2> DEFINE k == Off(Start, N)
  <2>1. Sorted(Start, pending) /\ Within(Start, pending, 1, 63)
    BY <1>1, <1>3 DEF SortedInv
  <2>2. /\ N \in SeqNum
        /\ Off(N, rx_seq) = Off(Start, rx_seq) - k
        /\ k \in Int /\ 0 <= k /\ k <= 1984
        /\ \A i \in 1 .. Len(pending) : Off(N, pending[i]) = Off(Start, pending[i]) - k
    BY <1>1, <1>3, <1>5, <2>1, CheckMoves
  <2>3. N # NoSeq /\ N # SeqInit
    BY <2>2, SeqNumProper
  <2>4. Start' = N
    BY <1>1, <1>2, <1>5, <2>3 DEF Start
  <2>5. Off(Start, rx_seq) \in Int /\ 0 <= Off(Start, rx_seq) /\ Off(Start, rx_seq) <= 2047
    <3>1. Off(Start, rx_seq) \in Int /\ Off(Start, rx_seq) <= 2047
      BY <1>1, <1>3, OffRange
    <3>2. InitSeq(Start, rx_seq) = Start
      BY <1>3, SeqNumProper DEF InitSeq
    <3>3. ~SN_LESS(rx_seq, Start)
      BY <1>1, <1>5, <3>2 DEF Accepts
    <3> QED  BY <1>1, <1>3, <3>1, <3>3, LessIsNegative
  <2> HIDE DEF N, k
  <2>6. CASE pending = <<>>
    <3>1. Gap = 1
      BY <1>1, <1>2, <2>6 DEF OrderInv
    <3>2. Dist(last, N) = 1 + k
      BY <1>3, <2>2, <3>1, DistMove DEF Gap, k
    <3> QED  BY <1>2, <1>5, <2>2, <2>3, <2>4, <2>5, <2>6, <3>2 DEF OrderInv, Gap, Pos
  <2>7. CASE pending # <<>>
    <3>1. 1 \in 1 .. Len(pending)
      BY <1>3, <2>7
    <3>2. /\ Off(Start, pending[1]) \in Int /\ 1 <= Off(Start, pending[1])
          /\ Off(N, pending[1]) = Off(Start, pending[1]) - k
      BY <1>3, <2>1, <2>2, <3>1, OffElements DEF Within
    <3>3. Gap + Off(Start, pending[1]) <= 2048
      BY <1>2, <2>7 DEF OrderInv, Pos
    <3>4. Dist(last, N) = Gap + k
      BY <1>3, <2>2, <3>2, <3>3, DistMove DEF Gap, k
    <3> HIDE DEF Gap
    <3>5. /\ Gap' = Gap + k /\ Pos(pending[1])' = Off(Start, pending[1]) - k
          /\ Pos(rx_seq)' = Off(Start, rx_seq) - k
      BY <1>2, <2>2, <2>4, <3>2, <3>4 DEF Gap, Pos
    <3> QED  BY <1>2, <1>3, <1>5, <2>2, <2>3, <2>4, <2>5, <2>7, <3>2, <3>3, <3>5 DEF OrderInv
  <2> QED  BY <2>6, <2>7
<1> QED  BY <1>4, <1>5 DEF RxCheck

(* enqueue_reorder_recvframe keeps OrderInv: a new head of the list lies   *)
(* between the frame handed up last and the old head.                      *)
LEMMA EnqueueOrder == TInv /\ SortedInv /\ OrderInv /\ RxEnqueue => OrderInv'
<1> SUFFICES ASSUME TInv, SortedInv, OrderInv, RxEnqueue, last' # NoSeq PROVE OrderInv'
  BY DEF OrderInv
<1>1. /\ rx_pc = "enqueue" /\ wr = NoSeq /\ rx_seq \in SeqNum
      /\ indicate_seq' = indicate_seq /\ wr' = wr /\ last' = last
  BY DEF TInv, LockInv, RxEnqueue
<1>2. Start' = Start
  BY <1>1 DEF Start
<1>3. /\ last \in SeqNum /\ Start \in SeqNum /\ ~stale
      /\ Gap \in Int /\ 1 <= Gap /\ Gap <= 4095
      /\ pending \in Seq(SeqNum) /\ Len(pending) \in Nat
  BY <1>1, OrderTypes
<1>4. Gap' = Gap
  BY <1>1, <1>2 DEF Gap
<1>5. PICK k \in 1 .. Len(pending) + 1 :
          /\ ScanStop(pending, rx_seq, k)
          /\ \/ /\ k <= Len(pending)
                /\ rx_pc' = "idle" /\ pending' = pending
             \/ /\ k <= Len(pending) => pending[k] # rx_seq
                /\ pending' = Insert(pending, rx_seq, k)
                /\ rx_pc' = "indicate"
    BY DEF RxEnqueue, SN_EQUAL
<1>6. CASE k <= Len(pending) /\ rx_pc' = "idle" /\ pending' = pending
  <2>1. pending # <<>>
    BY <1>3, <1>6
  <2> HIDE DEF Gap
  <2> QED  BY <1>1, <1>2, <1>4, <1>6, <2>1 DEF OrderInv, Pos
<1>7. CASE /\ k <= Len(pending) => pending[k] # rx_seq
           /\ pending' = Insert(pending, rx_seq, k)
           /\ rx_pc' = "indicate"
  <2>1. /\ Sorted(Start, pending) /\ Within(Start, pending, -1983, 63) /\ EnqueueInv
    BY <1>1, <1>3 DEF SortedInv
  <2>2. Off(Start, rx_seq) \in Int /\ -1 <= Off(Start, rx_seq) /\ Off(Start, rx_seq) <= 63
    <3>1. Off(Start, rx_seq) \in Int
      BY <1>1, <1>3, OffRange
    <3> QED  BY <2>1, <3>1 DEF EnqueueInv, Pos
  <2>3. /\ pending' # <<>>
        /\ pending'[1] = rx_seq /\ pending # <<>> => Off(Start, rx_seq) < Off(Start, pending[1])
        /\ pending'[1] # rx_seq => pending # <<>> /\ pending'[1] = pending[1]
    BY <1>1, <1>3, <1>5, <1>7, <2>1, <2>2, InsertList
  <2>4. /\ pending # <<>> => 1 <= Gap + Off(Start, pending[1]) /\ Gap + Off(Start, pending[1]) <= 2048
        /\ Gap + Off(Start, rx_seq) >= 1
        /\ pending = <<>> => Gap + Off(Start, rx_seq) <= 2048
        /\ Start # SeqInit
    BY <1>1 DEF OrderInv, Pos
  <2>5. pending # <<>> => Off(Start, pending[1]) \in Int
    <3> SUFFICES ASSUME pending # <<>> PROVE Off(Start, pending[1]) \in Int
      OBVIOUS
    <3>1. 1 \in 1 .. Len(pending)
      BY <1>3
    <3> QED  BY <1>3, <3>1, OffElements
  <2>6. 1 <= Gap + Off(Start, pending'[1]) /\ Gap + Off(Start, pending'[1]) <= 2048
    <3>1. CASE pending'[1] = rx_seq /\ pending # <<>>
      BY <1>3, <2>2, <2>3, <2>4, <2>5, <3>1
    <3>2. CASE pending'[1] = rx_seq /\ pending = <<>>
      BY <2>4, <3>2
    <3>3. CASE pending'[1] # rx_seq
      BY <2>3, <2>4, <3>3
    <3> QED  BY <3>1, <3>2, <3>3
  <2> HIDE DEF Gap
  <2> QED  BY <1>2, <1>3, <1>4, <1>7, <2>3, <2>4, <2>6 DEF OrderInv, Pos
<1> QED  BY <1>5, <1>6, <1>7

(* A list without a tail has one element.                                  *)
LEMMA SingleTail ==
  ASSUME NEW q \in Seq(SeqNum), q # <<>>, Tail(q) = <<>>
  PROVE  Len(q) = 1
<1>1. Len(q) \in Nat \ {0} /\ Len(Tail(q)) = Len(q) - 1
  OBVIOUS
<1>2. Len(<<>>) = 0
  OBVIOUS
<1>3. Len(q) - 1 = 0
  BY <1>1, <1>2
<1> QED  BY <1>1, <1>3

(* Where the head that is due stands: never past the start, and right      *)
(* behind it when it is the only frame.                                    *)
LEMMA HeadBehind ==
  ASSUME TInv, SortedInv, HeadDue, ~stale, Start \in SeqNum,
         rx_pc = "indicate" \/ timer_pc = "indicate"
  PROVE  /\ Start = indicate_seq /\ pending \in Seq(SeqNum) /\ pending[1] \in SeqNum
         /\ Head(pending) = pending[1] /\ Len(pending) \in Nat \ {0}
         /\ Off(Start, pending[1]) \in Int
         /\ -1983 <= Off(Start, pending[1]) /\ Off(Start, pending[1]) <= 0
         /\ Start = pending[1] <=> Off(Start, pending[1]) = 0
         /\ Tail(pending) = <<>> => Off(Start, pending[1]) >= -1
<1>1. Start = indicate_seq /\ pending # <<>> /\ ~SN_LESS(indicate_seq, Head(pending))
  BY DEF HeadDue, Start
<1>2. /\ pending \in Seq(SeqNum) /\ Len(pending) \in Nat \ {0}
      /\ Head(pending) = pending[1] /\ pending[1] \in SeqNum
  BY <1>1 DEF TInv, TypeOK
<1>3. Within(Start, pending, -1983, 63)
  BY DEF SortedInv
<1>4. -1983 <= Off(Start, pending[1])
  BY <1>2, <1>3 DEF Within
<1>5. /\ Off(Start, pending[1]) \in Int /\ Off(Start, pending[1]) <= 0
      /\ Start = pending[1] <=> Off(Start, pending[1]) = 0
  BY <1>1, <1>2, <1>4, DueByOffset
<1>6. Tail(pending) = <<>> => Off(Start, pending[1]) >= -1
  <2> SUFFICES ASSUME Tail(pending) = <<>> PROVE Off(Start, pending[1]) >= -1
    OBVIOUS
  <2>1. Len(pending) = 1
    BY <1>1, <1>2, SingleTail
  <2>2. CASE rx_pc = "indicate"
    BY <1>1, <2>1, <2>2 DEF SortedInv, Pos
  <2>3. CASE timer_pc = "indicate"
    <3>1. Within(Start, pending, 0, 63)
      BY <2>3 DEF SortedInv, TInv, LockInv
    <3>2. 0 <= Off(Start, pending[1])
      BY <2>1, <3>1 DEF Within
    <3> QED  BY <1>5, <3>2
  <2> QED  BY <2>2, <2>3
<1> QED  BY <1>1, <1>2, <1>4, <1>5, <1>6

(* Handing up the head establishes OrderInv, whatever held before.         *)
LEMMA IndicateOrder ==
  ASSUME TInv, SortedInv, IndicateHead, rx_pc' = rx_pc,
         rx_pc = "indicate" \/ timer_pc = "indicate"
  PROVE  OrderInv'
<1> SUFFICES ASSUME last' # NoSeq PROVE OrderInv'
  BY DEF OrderInv
<1>1. /\ HeadDue /\ ~stale /\ last' = Head(pending) /\ pending # <<>>
      /\ pending' = Tail(pending) /\ indicate_seq' = indicate_seq
      /\ wr' = IF indicate_seq = Head(pending) THEN (indicate_seq + 1) % 4096 ELSE NoSeq
  BY DEF IndicateHead, HeadDue, SN_EQUAL
<1>2. rx_pc' # "enqueue"
  BY DEF TInv, LockInv
<1>3. Start \in SeqNum
  BY <1>1, StartType
<1>4. /\ Start = indicate_seq /\ pending \in Seq(SeqNum) /\ pending[1] \in SeqNum
      /\ Head(pending) = pending[1] /\ Len(pending) \in Nat \ {0}
      /\ Off(Start, pending[1]) \in Int
      /\ -1983 <= Off(Start, pending[1]) /\ Off(Start, pending[1]) <= 0
      /\ Start = pending[1] <=> Off(Start, pending[1]) = 0
      /\ Tail(pending) = <<>> => Off(Start, pending[1]) >= -1
  BY <1>1, <1>3, HeadBehind
<1>5. Sorted(Start, pending) /\ Within(Start, pending, -1983, 63)
  BY <1>1 DEF SortedInv
<1>6. last' = pending[1]
  BY <1>1, <1>4
<1>7. CASE Start = pending[1]
  <2> DEFINE F == (Start + 1) % 4096
  <2>1. F \in SeqNum /\ Off(Start, F) = 1 /\ Off(Start, pending[1]) = 0
    BY <1>3, <1>4, <1>7, OffSucc
  <2>2. F # NoSeq /\ F # SeqInit
    BY <2>1, SeqNumProper
  <2>3. Start' = F
    BY <1>1, <1>4, <1>7, <2>2 DEF Start
  <2>4. pending' # <<>> => /\ 0 <= Off(F, pending'[1]) /\ Off(F, pending'[1]) <= 63
                           /\ Off(F, pending'[1]) \in Int
    <3> SUFFICES ASSUME pending' # <<>>
                 PROVE  /\ 0 <= Off(F, pending'[1]) /\ Off(F, pending'[1]) <= 63
                        /\ Off(F, pending'[1]) \in Int
      OBVIOUS
    <3>1. Within(F, pending', 0, 63)
      BY <1>1, <1>3, <1>4, <1>5, <2>1, PopStart
    <3>2. pending' \in Seq(SeqNum)
      BY <1>1, <1>4, SeqElements
    <3>3. 1 \in 1 .. Len(pending')
      BY <3>2
    <3> HIDE DEF F
    <3> QED  BY <2>1, <3>1, <3>2, <3>3, OffElements DEF Within
  <2> HIDE DEF F
  <2>5. Dist(pending[1], F) = 1
    BY <1>3, <1>4, <2>1, DistByOffset
  <2>6. Gap' = 1
    BY <1>6, <2>3, <2>5 DEF Gap
  <2> HIDE DEF Gap
  <2> QED  BY <1>2, <2>2, <2>3, <2>4, <2>6 DEF OrderInv, Pos
<1>8. CASE Start # pending[1]
  <2> DEFINE o == Off(Start, pending[1])
  <2>1. o \in Int /\ -1983 <= o /\ o <= -1 /\ (Tail(pending) = <<>> => o = -1)
    BY <1>4, <1>8
  <2>2. Start' = Start /\ Start # SeqInit
    BY <1>1, <1>3, <1>4, <1>8, SeqNumProper DEF Start
  <2>3. Dist(pending[1], Start) = 0 - o
    <3>1. Off(Start, Start) = 0
      BY <1>3, OffZero
    <3> QED  BY <1>3, <1>4, <2>1, <3>1, DistByOffset
  <2>4. Gap' = 0 - o
    BY <1>6, <2>2, <2>3 DEF Gap
  <2>5. pending' # <<>> => /\ Off(Start, pending'[1]) \in Int
                           /\ o < Off(Start, pending'[1]) /\ Off(Start, pending'[1]) <= 63
    <3> SUFFICES ASSUME pending' # <<>>
                 PROVE  /\ Off(Start, pending'[1]) \in Int
                        /\ o < Off(Start, pending'[1]) /\ Off(Start, pending'[1]) <= 63
      OBVIOUS
    <3>1. /\ Within(Start, pending', -1983, 63)
          /\ \A i \in 1 .. Len(pending') : Off(Start, pending'[i]) > o
      <4>1. -1983 \in Int
        OBVIOUS
      <4> QED  BY <1>1, <1>3, <1>4, <1>5, <4>1, TailList
    <3>2. pending' \in Seq(SeqNum)
      BY <1>1, <1>4, SeqElements
    <3>3. 1 \in 1 .. Len(pending')
      BY <3>2
    <3>4. Off(Start, pending'[1]) \in Int
      BY <1>3, <3>2, <3>3, OffElements
    <3> HIDE DEF o
    <3>5. o < Off(Start, pending'[1])
      BY <2>1, <3>1, <3>3, <3>4
    <3> QED  BY <3>1, <3>3, <3>4, <3>5 DEF Within
  <2> HIDE DEF o, Gap
  <2> QED  BY <1>1, <1>2, <2>1, <2>2, <2>4, <2>5 DEF OrderInv, Pos
<1> QED  BY <1>7, <1>8

(* The forced indication moves the start onto the head and keeps OrderInv. *)
LEMMA ForceOrder == TInv /\ SortedInv /\ OrderInv /\ TimerForce => OrderInv'
<1> SUFFICES ASSUME TInv, SortedInv, OrderInv, TimerForce, last' # NoSeq PROVE OrderInv'
  BY DEF OrderInv
<1>1. /\ lock = "none" /\ wr = NoSeq /\ Start = indicate_seq
      /\ wr' = wr /\ pending' = pending /\ rx_pc' = rx_pc /\ rx_seq' = rx_seq
      /\ last' = last /\ rx_pc # "enqueue"
  BY DEF TInv, LockInv, TimerForce, Start
<1>2. /\ last \in SeqNum /\ Start \in SeqNum /\ ~stale
      /\ Gap \in Int /\ 1 <= Gap /\ Gap <= 4095
      /\ pending \in Seq(SeqNum) /\ Len(pending) \in Nat
  BY <1>1, OrderTypes
<1>3. CASE pending = <<>>
  <2>1. indicate_seq' = indicate_seq
    BY <1>3 DEF TimerForce
  <2>2. Start' = Start
    BY <1>1, <2>1 DEF Start
  <2> QED  BY <1>1, <2>2, KeepOrder
<1>4. CASE pending # <<>>
  <2>1. 1 \in 1 .. Len(pending)
    BY <1>2, <1>4
  <2>2. pending[1] \in SeqNum /\ Off(Start, pending[1]) \in Int
    BY <1>2, <2>1, OffElements
  <2>3. 1 <= Off(Start, pending[1])
    BY <1>1, <1>2, <2>1 DEF SortedInv, Within
  <2>4. 1 <= Gap + Off(Start, pending[1]) /\ Gap + Off(Start, pending[1]) <= 2048
    BY <1>1, <1>4 DEF OrderInv, Pos
  <2>5. indicate_seq' = pending[1]
    BY <1>2, <1>4 DEF TimerForce
  <2>6. Start' = pending[1] /\ pending[1] # SeqInit
    BY <1>1, <2>2, <2>5, SeqNumProper DEF Start
  <2>7. Dist(last, pending[1]) = Gap + Off(Start, pending[1])
    BY <1>2, <2>2, <2>3, <2>4, DistMove DEF Gap
  <2>8. Off(pending[1], pending[1]) = 0
    BY <2>2, OffZero
  <2> HIDE DEF Gap
  <2>9. Gap' = Gap + Off(Start, pending[1]) /\ Pos(pending[1])' = 0
    BY <1>1, <2>6, <2>7, <2>8 DEF Gap, Pos
  <2> QED  BY <1>1, <1>2, <1>4, <2>2, <2>4, <2>6, <2>9 DEF OrderInv
<1> QED  BY <1>3, <1>4

(* Every step keeps the frame handed up last behind the start.             *)
LEMMA NextOrder == TInv /\ SortedInv /\ OrderInv /\ [Next]_vars => OrderInv'
<1> SUFFICES ASSUME TInv, SortedInv, OrderInv, [Next]_vars PROVE OrderInv'
  OBVIOUS
<1>0. TypeOK /\ LockInv
  BY DEF TInv
<1>1. ASSUME last' = NoSeq PROVE OrderInv'
  BY <1>1 DEF OrderInv
<1>2. ASSUME NEW s \in Seqs, RxFrame(s) PROVE OrderInv'
  BY <1>2, KeepOrder DEF RxFrame, ctrl, Start
<1>3. CASE RxLoad \/ RxCancel
  BY <1>3, KeepOrder DEF RxLoad, RxCancel, ctrl, Start
<1>4. CASE RxWrite \/ TimerWrite
  <2>1. Start' = Start
    BY <1>4 DEF RxWrite, TimerWrite, WriteBack, Start
  <2> QED  BY <1>4, <2>1, KeepOrder DEF RxWrite, TimerWrite, WriteBack
<1>5. CASE RxIndicate
  BY <1>5, IndicateOrder DEF RxIndicate
<1>6. CASE TimerIndicate
  BY <1>6, IndicateOrder DEF TimerIndicate
<1>7. CASE RxArm \/ RxEmpty \/ TimerDone
  <2>1. /\ last' = last /\ pending' = pending /\ wr' = wr /\ indicate_seq' = indicate_seq
        /\ rx_pc # "enqueue" /\ rx_pc' # "enqueue"
    BY <1>0, <1>7 DEF RxArm, RxEmpty, TimerDone, ctrl, LockInv
  <2>2. Start' = Start
    BY <2>1 DEF Start
  <2> QED  BY <2>1, <2>2, KeepOrder
<1>8. CASE TimerFire \/ FreeEnter \/ FreeCancel \/ Stop
  BY <1>8, KeepOrder DEF TimerFire, FreeEnter, FreeCancel, Stop, ctrl, Start
<1>9. CASE DelbaDisable
  BY <1>9, KeepOrder DEF DelbaDisable, Start
<1>10. CASE UNCHANGED vars
  BY <1>10, KeepOrder DEF vars, Start
<1>11. ASSUME NEW ok \in BOOLEAN, RxAddba(ok) PROVE last' = NoSeq
  BY <1>11 DEF RxAddba
<1>12. CASE RxDelba \/ RxDirect \/ RxStore \/ DelbaReset \/ FreeDrain \/ StaAlloc
  <2>1. last' = NoSeq
    BY <1>12 DEF RxDelba, RxDirect, RxStore, DelbaReset, FreeDrain, StaAlloc
  <2> QED  BY <1>1, <2>1
<1> QED
  BY <1>1, <1>2, <1>3, <1>4, <1>5, <1>6, <1>7, <1>8, <1>9, <1>10, <1>11, <1>12,
     CheckOrder, EnqueueOrder, ForceOrder
  DEF Next, Rx, Timer

-----------------------------------------------------------------------------
(***************************************************************************)
(* The refinement of RxDelivery.  A list stands for the set of its         *)
(* elements.                                                               *)
(***************************************************************************)
Elems(q) == {q[i] : i \in 1 .. Len(q)}

(* Inserting adds one element.                                             *)
LEMMA InsertElems ==
  ASSUME NEW q \in Seq(SeqNum), NEW s \in SeqNum, NEW k \in 1 .. Len(q) + 1
  PROVE  Elems(Insert(q, s, k)) = Elems(q) \cup {s}
<1> DEFINE r == Insert(q, s, k)
<1>1. Len(q) \in Nat /\ Len(r) = Len(q) + 1
  BY InsertType
<1>2. \A i \in 1 .. Len(q) + 1 :
        r[i] = IF i < k THEN q[i] ELSE IF i = k THEN s ELSE q[i - 1]
  BY InsertType
<1> HIDE DEF r
<1>3. ASSUME NEW i \in 1 .. Len(r) PROVE r[i] \in Elems(q) \cup {s}
  <2>1. CASE i = k
    BY <1>1, <1>2, <2>1
  <2>2. CASE i < k
    <3>1. i \in 1 .. Len(q) /\ r[i] = q[i]
      BY <1>1, <1>2, <2>2
    <3> QED  BY <3>1 DEF Elems
  <2>3. CASE k < i
    <3>1. i - 1 \in 1 .. Len(q) /\ r[i] = q[i - 1]
      BY <1>1, <1>2, <2>3
    <3> QED  BY <3>1 DEF Elems
  <2> QED  BY <1>1, <2>1, <2>2, <2>3
<1>4. s \in Elems(r)
  <2>1. k \in 1 .. Len(r) /\ r[k] = s
    BY <1>1, <1>2
  <2> QED  BY <2>1 DEF Elems
<1>5. ASSUME NEW i \in 1 .. Len(q) PROVE q[i] \in Elems(r)
  <2>1. CASE i < k
    <3>1. i \in 1 .. Len(r) /\ r[i] = q[i]
      BY <1>1, <1>2, <2>1
    <3> QED  BY <3>1 DEF Elems
  <2>2. CASE k <= i
    <3>1. i + 1 \in 1 .. Len(r) /\ r[i + 1] = q[i]
      BY <1>1, <1>2, <2>2
    <3> QED  BY <3>1 DEF Elems
  <2> QED  BY <1>1, <2>1, <2>2
<1>6. Elems(r) \subseteq Elems(q) \cup {s}
  BY <1>3 DEF Elems
<1>7. Elems(q) \subseteq Elems(r)
  BY <1>5 DEF Elems
<1> QED  BY <1>4, <1>6, <1>7 DEF r

(* Taking the head off removes one element, unless there are two of it.    *)
LEMMA TailElems ==
  ASSUME NEW q \in Seq(SeqNum), q # <<>>
  PROVE  /\ Elems(q) = Elems(Tail(q)) \cup {q[1]}
         /\ q[1] \in Elems(q)
         /\ Elems(Tail(q)) = {} <=> Tail(q) = <<>>
<1>1. Len(q) \in Nat \ {0} /\ Len(Tail(q)) = Len(q) - 1 /\ 1 \in 1 .. Len(q)
  OBVIOUS
<1>2. \A i \in 1 .. Len(Tail(q)) : Tail(q)[i] = q[i + 1]
  OBVIOUS
<1>3. q[1] \in Elems(q)
  BY <1>1 DEF Elems
<1>4. Elems(Tail(q)) \subseteq Elems(q)
  <2> SUFFICES ASSUME NEW i \in 1 .. Len(Tail(q)) PROVE Tail(q)[i] \in Elems(q)
    BY DEF Elems
  <2>1. i + 1 \in 1 .. Len(q) /\ Tail(q)[i] = q[i + 1]
    BY <1>1, <1>2
  <2> QED  BY <2>1 DEF Elems
<1>5. Elems(q) \subseteq Elems(Tail(q)) \cup {q[1]}
  <2> SUFFICES ASSUME NEW i \in 1 .. Len(q), i # 1 PROVE q[i] \in Elems(Tail(q))
    BY DEF Elems
  <2>1. i - 1 \in 1 .. Len(Tail(q)) /\ (i - 1) + 1 = i
    BY <1>1
  <2>2. Tail(q)[i - 1] = q[i]
    BY <1>2, <2>1
  <2> QED  BY <2>1, <2>2 DEF Elems
<1>6. ASSUME Tail(q) = <<>> PROVE Elems(Tail(q)) = {}
  <2>1. 1 .. Len(Tail(q)) = {}
    BY <1>1, <1>6, SingleTail
  <2> QED  BY <2>1 DEF Elems
<1>7. ASSUME Tail(q) # <<>> PROVE Elems(Tail(q)) # {}
  <2>1. Tail(q) \in Seq(SeqNum)
    BY SeqElements
  <2>2. 1 \in 1 .. Len(Tail(q))
    BY <1>7, <2>1
  <2> QED  BY <2>2 DEF Elems
<1> QED  BY <1>3, <1>4, <1>5, <1>6, <1>7

(* Only frames that arrived are buffered.                                  *)
LEMMA NextSeen == TInv /\ SeenInv /\ [Next]_vars => SeenInv'
<1> SUFFICES ASSUME TInv, SeenInv, [Next]_vars PROVE SeenInv'
  OBVIOUS
<1>0. TypeOK /\ LockInv
  BY DEF TInv
<1> DEFINE Handled == {"direct", "load", "lock", "enqueue"}
<1>1. ASSUME pending' = pending,
             \/ rx_seq' = rx_seq /\ (rx_pc' \in Handled => rx_pc \in Handled)
             \/ rx_seq' \in Seqs
             \/ rx_pc' \notin Handled
      PROVE  SeenInv'
  BY <1>1 DEF SeenInv
<1>2. ASSUME pending' = <<>>, rx_pc' = rx_pc, rx_seq' = rx_seq PROVE SeenInv'
  <2>1. 1 .. Len(pending') = {}
    BY <1>2
  <2> QED  BY <1>2, <2>1 DEF SeenInv
<1>3. ASSUME IndicateHead, rx_pc' = rx_pc PROVE SeenInv'
  <2>1. /\ pending \in Seq(SeqNum) /\ pending # <<>>
        /\ pending' = Tail(pending) /\ rx_seq' = rx_seq
    BY <1>0, <1>3 DEF IndicateHead, HeadDue, TypeOK
  <2>2. Elems(pending') \subseteq Elems(pending)
    BY <2>1, TailElems
  <2> QED  BY <1>3, <2>1, <2>2 DEF SeenInv, Elems
<1>4. ASSUME NEW s \in Seqs, RxFrame(s) PROVE SeenInv'
  BY <1>1, <1>4 DEF RxFrame, ctrl
<1>5. ASSUME NEW ok \in BOOLEAN, RxAddba(ok) PROVE SeenInv'
  BY <1>1, <1>5 DEF RxAddba
<1>6. CASE RxDelba \/ RxDirect \/ RxStore \/ RxCheck
  BY <1>1, <1>6 DEF RxDelba, RxDirect, RxStore, RxCheck
<1>7. CASE RxLoad \/ RxArm \/ RxEmpty \/ RxCancel
  BY <1>1, <1>7 DEF RxLoad, RxArm, RxEmpty, RxCancel, ctrl
<1>8. CASE RxWrite \/ TimerWrite
  BY <1>1, <1>8 DEF RxWrite, TimerWrite, WriteBack
<1>9. CASE RxEnqueue
  <2>1. rx_pc = "enqueue" /\ rx_seq \in SeqNum /\ pending \in Seq(SeqNum) /\ rx_seq' = rx_seq
    BY <1>0, <1>9 DEF RxEnqueue, LockInv, TypeOK
  <2>2. PICK k \in 1 .. Len(pending) + 1 :
             \/ rx_pc' = "idle" /\ pending' = pending
             \/ rx_pc' = "indicate" /\ pending' = Insert(pending, rx_seq, k)
    BY <1>9 DEF RxEnqueue
  <2>3. CASE rx_pc' = "idle" /\ pending' = pending
    BY <1>1, <2>3
  <2>4. CASE rx_pc' = "indicate" /\ pending' = Insert(pending, rx_seq, k)
    <3>1. Elems(pending') = Elems(pending) \cup {rx_seq}
      BY <2>1, <2>4, InsertElems
    <3>2. Elems(pending) \subseteq Seqs /\ rx_seq \in Seqs
      BY <2>1 DEF SeenInv, Elems
    <3> QED  BY <2>4, <3>1, <3>2 DEF SeenInv, Elems
  <2> QED  BY <2>2, <2>3, <2>4
<1>10. CASE RxIndicate \/ TimerIndicate
  BY <1>3, <1>10 DEF RxIndicate, TimerIndicate
<1>11. CASE TimerFire \/ TimerDone \/ FreeEnter \/ FreeCancel \/ Stop
  BY <1>1, <1>11 DEF TimerFire, TimerDone, FreeEnter, FreeCancel, Stop, ctrl
<1>12. CASE TimerForce \/ DelbaDisable \/ DelbaReset
  BY <1>1, <1>12 DEF TimerForce, DelbaDisable, DelbaReset
<1>13. CASE FreeDrain \/ StaAlloc
  BY <1>2, <1>13 DEF FreeDrain, StaAlloc
<1>14. CASE UNCHANGED vars
  BY <1>1, <1>14 DEF vars
<1> QED
  BY <1>4, <1>5, <1>6, <1>7, <1>8, <1>9, <1>10, <1>11, <1>12, <1>13, <1>14
  DEF Next, Rx, Timer

(* Later is a distance of at most half the numbers.                        *)
LEMMA LaterByDist ==
  ASSUME NEW a \in SeqNum, NEW s \in SeqNum, 1 <= Dist(a, s), Dist(a, s) <= 2048
  PROVE  Delivery!Later(a, s)
<1>1. Dist(a, s) \in Int
  BY DistRange DEF DistWraps
<1>2. Dist(a, s) \in 1 .. 2048
  BY <1>1
<1> QED  BY <1>2 DEF Dist, Delivery!Later

(* Inserting a frame is a step of RxDelivery: the frame is new to the list *)
(* and later than the one handed up last or than the head of the list.     *)
LEMMA HoldStep ==
  ASSUME TInv, SortedInv, OrderInv, SeenInv, RxEnqueue
  PROVE  [Delivery!Next]_(Delivery!vars)
<1>1. /\ rx_pc = "enqueue" /\ rx_seq \in SeqNum /\ pending \in Seq(SeqNum)
      /\ Len(pending) \in Nat /\ last' = last /\ stale' = stale /\ rx_seq \in Seqs
      /\ stale => last = NoSeq
  BY DEF TInv, TypeOK, LockInv, RxEnqueue, SeenInv
<1>2. PICK k \in 1 .. Len(pending) + 1 :
          /\ ScanStop(pending, rx_seq, k)
          /\ \/ pending' = pending
             \/ /\ k <= Len(pending) => pending[k] # rx_seq
                /\ pending' = Insert(pending, rx_seq, k)
  BY DEF RxEnqueue, SN_EQUAL
<1>3. CASE pending' = pending
  BY <1>1, <1>3 DEF Delivery!vars
<1>4. CASE /\ k <= Len(pending) => pending[k] # rx_seq
           /\ pending' = Insert(pending, rx_seq, k)
  <2>1. Elems(pending') = Elems(pending) \cup {rx_seq}
    BY <1>1, <1>4, InsertElems
  <2>2. CASE rx_seq \in Elems(pending)
    <3>1. Elems(pending') = Elems(pending)
      BY <2>1, <2>2
    <3> QED  BY <1>1, <3>1 DEF Delivery!vars, Elems
  <2>3. CASE rx_seq \notin Elems(pending)
    <3>1. last = NoSeq \/ \E t \in Elems(pending) \cup {last} : Delivery!Later(t, rx_seq)
      <4> SUFFICES ASSUME last # NoSeq
                   PROVE  \E t \in Elems(pending) \cup {last} : Delivery!Later(t, rx_seq)
        OBVIOUS
      <4>1. /\ last \in SeqNum /\ Start \in SeqNum /\ ~stale
            /\ Gap \in Int /\ 1 <= Gap /\ Gap <= 4095
        BY OrderTypes
      <4>2. Within(Start, pending, -1983, 63) /\ EnqueueInv
        BY <1>1, <4>1 DEF SortedInv
      <4>3. Off(Start, rx_seq) \in Int /\ Off(Start, rx_seq) <= 63
        <5>1. Off(Start, rx_seq) \in Int
          BY <1>1, <4>1, OffRange
        <5> QED  BY <4>2, <5>1 DEF EnqueueInv, Pos
      <4>4. /\ Gap + Off(Start, rx_seq) >= 1
            /\ pending = <<>> => Gap + Off(Start, rx_seq) <= 2048
            /\ pending # <<>> => Gap + Off(Start, pending[1]) <= 2048
        BY <1>1 DEF OrderInv, Pos
      <4>5. CASE Gap + Off(Start, rx_seq) <= 2048
        <5>1. Dist(last, rx_seq) = Gap + Off(Start, rx_seq)
          BY <1>1, <4>1, <4>3, <4>4, <4>5, DistMove DEF Gap
        <5> HIDE DEF Gap
        <5>2. Delivery!Later(last, rx_seq)
          BY <1>1, <4>1, <4>4, <4>5, <5>1, LaterByDist
        <5> QED  BY <5>2
      <4>6. CASE Gap + Off(Start, rx_seq) > 2048
        <5>1. pending # <<>> /\ 1 \in 1 .. Len(pending)
          BY <1>1, <4>1, <4>3, <4>4, <4>6
        <5>2. /\ pending[1] \in SeqNum /\ Off(Start, pending[1]) \in Int
              /\ -1983 <= Off(Start, pending[1])
          BY <1>1, <4>1, <4>2, <5>1, OffElements DEF Within
        <5> HIDE DEF Gap
        <5>3. /\ 1 <= Off(Start, rx_seq) - Off(Start, pending[1])
              /\ Off(Start, rx_seq) - Off(Start, pending[1]) <= 2048
          BY <4>1, <4>3, <4>4, <4>6, <5>1, <5>2
        <5>4. Dist(pending[1], rx_seq) = Off(Start, rx_seq) - Off(Start, pending[1])
          BY <1>1, <4>1, <4>3, <5>2, <5>3, DistByOffset
        <5>5. Delivery!Later(pending[1], rx_seq)
          BY <1>1, <5>2, <5>3, <5>4, LaterByDist
        <5>6. pending[1] \in Elems(pending)
          BY <1>1, <5>1, TailElems
        <5> QED  BY <5>5, <5>6
      <4> QED  BY <4>1, <4>3, <4>5, <4>6
    <3>2. PICK s \in Seqs : s = rx_seq
      BY <1>1
    <3>3. Delivery!Hold(s)
      BY <1>1, <2>1, <2>3, <3>1, <3>2 DEF Delivery!Hold, Elems
    <3> QED  BY <3>3 DEF Delivery!Next
  <2> QED  BY <2>2, <2>3
<1> QED  BY <1>2, <1>3, <1>4

(* Handing up the head of the list is a step of RxDelivery: it is the      *)
(* earliest frame of the list and later than the one handed up before.     *)
LEMMA HandUpStep ==
  ASSUME TInv, SortedInv, OrderInv, SeenInv, IndicateHead,
         rx_pc = "indicate" \/ timer_pc = "indicate"
  PROVE  [Delivery!Next]_(Delivery!vars)
<1>1. /\ HeadDue /\ pending \in Seq(SeqNum) /\ pending # <<>> /\ Len(pending) \in Nat \ {0}
      /\ pending' = Tail(pending) /\ Head(pending) = pending[1] /\ 1 \in 1 .. Len(pending)
      /\ last' = (IF stale THEN NoSeq ELSE Head(pending))
      /\ stale' = (stale /\ Tail(pending) # <<>>)
      /\ stale \in BOOLEAN /\ (stale => last = NoSeq)
  BY DEF IndicateHead, HeadDue, TInv, TypeOK, LockInv
<1>2. /\ Elems(pending) = Elems(pending') \cup {pending[1]}
      /\ pending[1] \in Elems(pending)
      /\ Elems(pending') = {} <=> pending' = <<>>
  BY <1>1, TailElems
<1>3. PICK s \in Seqs : s = pending[1]
  BY <1>1 DEF SeenInv
<1>4. CASE stale
  <2>1. last' = last /\ last' = NoSeq /\ stale' = (Elems(pending') # {})
    BY <1>1, <1>2, <1>4
  <2>2. CASE s \in Elems(pending')
    <3>1. Elems(pending') = Elems(pending) /\ stale' = stale
      BY <1>2, <1>3, <1>4, <2>1, <2>2
    <3> QED  BY <2>1, <3>1 DEF Delivery!vars, Elems
  <2>3. CASE s \notin Elems(pending')
    <3>1. Elems(pending') = Elems(pending) \ {s}
      BY <1>2, <1>3, <2>3
    <3>2. s \in Elems(pending)
      BY <1>2, <1>3
    <3>3. Delivery!HandUpMixed(s)
      BY <1>4, <2>1, <3>1, <3>2, Zenon DEF Delivery!HandUpMixed, Elems
    <3> QED  BY <3>3 DEF Delivery!Next
  <2> QED  BY <2>2, <2>3
<1>5. CASE ~stale
  <2>1. Start \in SeqNum
    BY <1>1, <1>5, StartType
  <2>2. /\ pending[1] \in SeqNum /\ Off(Start, pending[1]) \in Int
        /\ -1983 <= Off(Start, pending[1]) /\ Off(Start, pending[1]) <= 0
    BY <1>1, <1>5, <2>1, HeadBehind
  <2>3. last = NoSeq \/ Delivery!Later(last, pending[1])
    <3> SUFFICES ASSUME last # NoSeq PROVE Delivery!Later(last, pending[1])
      OBVIOUS
    <3>1. last \in SeqNum /\ Gap \in Int
      BY OrderTypes
    <3>2. 1 <= Gap + Off(Start, pending[1]) /\ Gap + Off(Start, pending[1]) <= 2048
      BY <1>1 DEF OrderInv, Pos
    <3>3. Dist(last, pending[1]) = Gap + Off(Start, pending[1])
      BY <2>1, <2>2, <3>1, <3>2, DistMove DEF Gap
    <3> QED  BY <2>2, <3>1, <3>2, <3>3, LaterByDist
  <2>4. ASSUME NEW t \in Elems(pending') PROVE Delivery!Later(pending[1], t) /\ t # pending[1]
    <3>1. /\ Within(Start, pending', -1983, 63)
          /\ \A i \in 1 .. Len(pending') : Off(Start, pending'[i]) > Off(Start, pending[1])
      <4>1. -1983 \in Int
        OBVIOUS
      <4>2. Sorted(Start, pending) /\ Within(Start, pending, -1983, 63)
        BY <1>5 DEF SortedInv
      <4> QED  BY <1>1, <2>1, <4>1, <4>2, TailList
    <3>2. PICK i \in 1 .. Len(pending') : t = pending'[i]
      BY DEF Elems
    <3>3. pending' \in Seq(SeqNum)
      BY <1>1, SeqElements
    <3>4. t \in SeqNum /\ Off(Start, t) \in Int
      BY <2>1, <3>2, <3>3, OffElements
    <3>5. Off(Start, pending[1]) < Off(Start, t) /\ Off(Start, t) <= 63
      <4>1. Off(Start, pending'[i]) > Off(Start, pending[1])
        BY <3>1
      <4>2. Off(Start, pending'[i]) <= 63
        BY <3>1 DEF Within
      <4> QED  BY <2>2, <3>2, <3>4, <4>1, <4>2
    <3>6. t # pending[1]
      BY <2>2, <3>4, <3>5
    <3>7. Dist(pending[1], t) = Off(Start, t) - Off(Start, pending[1])
      BY <2>1, <2>2, <3>4, <3>5, DistByOffset
    <3> QED  BY <2>2, <3>4, <3>5, <3>6, <3>7, LaterByDist
  <2>5. /\ Elems(pending') = Elems(pending) \ {s} /\ s \in Elems(pending)
        /\ \A t \in Elems(pending) \ {s} : Delivery!Later(s, t)
    BY <1>2, <1>3, <2>4
  <2>6. last = NoSeq \/ Delivery!Later(last, s)
    BY <1>3, <2>3
  <2>7. last' = s /\ stale' = stale
    BY <1>1, <1>3, <1>5
  <2>8. Delivery!HandUp(s)
    BY <1>5, <2>5, <2>6, <2>7, Zenon DEF Delivery!HandUp, Elems
  <2> QED  BY <2>8 DEF Delivery!Next
<1> QED  BY <1>1, <1>4, <1>5

(* Every step of the buffer is a step of RxDelivery or leaves what that    *)
(* module sees unchanged.                                                  *)
LEMMA NextDelivers ==
  TInv /\ SortedInv /\ OrderInv /\ SeenInv /\ [Next]_vars => [Delivery!Next]_(Delivery!vars)
<1> SUFFICES ASSUME TInv, SortedInv, OrderInv, SeenInv, [Next]_vars
             PROVE  [Delivery!Next]_(Delivery!vars)
  OBVIOUS
<1>0. TypeOK /\ LockInv
  BY DEF TInv
<1>1. ASSUME pending' = pending, last' = last, stale' = stale
      PROVE  [Delivery!Next]_(Delivery!vars)
  BY <1>1 DEF Delivery!vars
<1>2. ASSUME pending' = pending, last' = NoSeq
      PROVE  [Delivery!Next]_(Delivery!vars)
  <2>1. BoolOK'
    BY <1>0, NextBool DEF BoolOK, TypeOK
  <2>2. Delivery!NewSession
    BY <1>2, <2>1, Zenon DEF Delivery!NewSession, BoolOK
  <2> QED  BY <2>2 DEF Delivery!Next
<1>3. ASSUME pending' = <<>>, last' = NoSeq, stale' = FALSE
      PROVE  [Delivery!Next]_(Delivery!vars)
  <2>1. 1 .. Len(pending') = {}
    BY <1>3
  <2>2. {pending'[i] : i \in 1 .. Len(pending')} = {}
    BY <2>1
  <2>3. Delivery!Forget
    BY <1>3, <2>2, Zenon DEF Delivery!Forget
  <2> QED  BY <2>3 DEF Delivery!Next
<1>4. ASSUME NEW s \in Seqs, RxFrame(s) PROVE [Delivery!Next]_(Delivery!vars)
  BY <1>1, <1>4 DEF RxFrame, ctrl
<1>5. ASSUME NEW ok \in BOOLEAN, RxAddba(ok) PROVE [Delivery!Next]_(Delivery!vars)
  BY <1>2, <1>5 DEF RxAddba
<1>6. CASE RxDelba \/ RxDirect \/ RxStore \/ DelbaReset
  BY <1>2, <1>6 DEF RxDelba, RxDirect, RxStore, DelbaReset
<1>7. CASE RxLoad \/ RxCheck \/ RxArm \/ RxEmpty \/ RxCancel
  BY <1>1, <1>7 DEF RxLoad, RxCheck, RxArm, RxEmpty, RxCancel, ctrl
<1>8. CASE RxWrite \/ TimerWrite
  BY <1>1, <1>8 DEF RxWrite, TimerWrite, WriteBack
<1>9. CASE RxEnqueue
  BY <1>9, HoldStep
<1>10. CASE RxIndicate \/ TimerIndicate
  BY <1>10, HandUpStep DEF RxIndicate, TimerIndicate
<1>11. CASE TimerFire \/ TimerDone \/ FreeEnter \/ FreeCancel \/ Stop
  BY <1>1, <1>11 DEF TimerFire, TimerDone, FreeEnter, FreeCancel, Stop, ctrl
<1>12. CASE TimerForce \/ DelbaDisable
  BY <1>1, <1>12 DEF TimerForce, DelbaDisable
<1>13. CASE FreeDrain \/ StaAlloc
  BY <1>3, <1>13 DEF FreeDrain, StaAlloc
<1>14. CASE UNCHANGED vars
  BY <1>1, <1>14 DEF vars
<1> QED
  BY <1>4, <1>5, <1>6, <1>7, <1>8, <1>9, <1>10, <1>11, <1>12, <1>13, <1>14
  DEF Next, Rx, Timer

(* The conjunction the invariance proofs above add up to.                  *)
THEOREM Inductive == Spec => []IInv
<1>1. Init => SortedInv /\ OrderInv /\ CoverInv /\ SeenInv
  <2> SUFFICES ASSUME Init PROVE SortedInv /\ OrderInv /\ CoverInv /\ SeenInv
    OBVIOUS
  <2>1. /\ pending = <<>> /\ rx_pc = "idle" /\ 1 .. Len(pending) = {}
        /\ last = NoSeq
    BY DEF Init
  <2> QED  BY <2>1 DEF SortedInv, Sorted, Within, OrderInv, CoverInv, SeenInv
<1>2. Spec => [](TInv /\ SortedInv /\ OrderInv /\ CoverInv /\ SeenInv)
  BY <1>1, InitTInv, NextTInv, NextSorted, NextOrder, NextCover, NextSeen, PTL DEF Spec
<1>3. TInv /\ SortedInv /\ OrderInv /\ CoverInv /\ SeenInv => IInv
  BY DEF TInv, IInv
<1> QED  BY <1>2, <1>3, PTL

(* The buffer implements RxDelivery: a frame of one block-ack session is   *)
(* handed up once, after every earlier one, however frames, forced         *)
(* indications, window shifts and resets interleave.                       *)
THEOREM ImplementsDelivery == Spec => DeliversInOrder
<1>1. Init => Delivery!Init
  <2> SUFFICES ASSUME Init PROVE Delivery!Init
    OBVIOUS
  <2>1. {pending[i] : i \in 1 .. Len(pending)} = {}
    <3>1. 1 .. Len(pending) = {}
      BY DEF Init
    <3> QED  BY <3>1
  <2> QED  BY <2>1, Zenon DEF Init, Delivery!Init
<1>2. IInv /\ [Next]_vars => [Delivery!Next]_(Delivery!vars)
  BY NextDelivers DEF IInv, TInv
<1> QED  BY <1>1, <1>2, Inductive, PTL DEF Spec, DeliversInOrder, Delivery!Spec
=============================================================================
