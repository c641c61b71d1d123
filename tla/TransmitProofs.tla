--------------------------- MODULE TransmitProofs ---------------------------
(***************************************************************************)
(* Proofs about Xmit and XmitAck, for any number of subqueues, frames and  *)
(* buffers, and any sets of threads.                                       *)
(*                                                                         *)
(* The frames and buffers of Xmit are counted: PoolsConserved follows from *)
(* two sums, and what a step does to a sum over the subqueues or to the    *)
(* number of senders at some points is the subject of the first lemmas.    *)
(* StoppedRestarts is inductive as it stands, once the types are known.    *)
(*                                                                         *)
(* In XmitAck the two mechanisms have an invariant each.  For dump_mgnt-   *)
(* frame_and_wait it says where every buffer is (PlaceInv), and that a     *)
(* pointer to a submit_ctx sits only in the buffer its sender took, which  *)
(* still carries that sender's frame (SctxInv, StatusInv).  For dump_mgnt- *)
(* frame_and_wait_ack it says who holds ack_tx_mutex, and that while no    *)
(* report has outlived its wait the only report that can come is the one   *)
(* for the last frame (ReportInv).                                         *)
(***************************************************************************)
EXTENDS Xmit, XmitAck, Sequences, FiniteSetTheorems, WellFoundedInduction, TLAPS

Flags ==
  /\ scheduled \in BOOLEAN /\ survey \in BOOLEAN /\ linking \in BOOLEAN
  /\ drv_stopped \in BOOLEAN /\ missed \in BOOLEAN
Points == {"idle", "stop", "alloc", "attrib", "pre", "write", "free"}
Types ==
  /\ free_frames \in Nat /\ free_bufs \in Nat /\ inflight \in Nat
  /\ pending \in [Queues -> Nat]
  /\ halted \subseteq Queues /\ orphan \subseteq Queues
  /\ tx_pc \in [Queues -> Points]
  /\ task_pc \in {"idle", "loop", "dequeue", "empty", "complete", "write", "free"}
  /\ task_q \in Queues
  /\ mlme_pc \in {"idle", "schedule"}

(* The sum of f over S: PoolsConserved counts the waiting frames so.       *)
SumOf(f, S) == MapThenSumSet(LAMBDA q : f[q], S)
Count(at, P) == Cardinality({q \in Queues : at[q] \in P})
In(l, P) == IF l \in P THEN 1 ELSE 0

(* Where a sender has a frame, and a buffer that is not submitted.         *)
WithFrame == {"attrib", "pre", "write", "free"}
WithBuf == {"write"}
FrameSum ==
  free_frames + SumOf(pending, Queues) + Count(tx_pc, WithFrame)
    + In(task_pc, {"complete", "write", "free"}) = NR_XMITFRAME
BufSum ==
  free_bufs + inflight + Count(tx_pc, WithBuf)
    + In(task_pc, {"dequeue", "empty", "complete", "write"}) = NR_XMITBUFF

IInv == Flags /\ Types /\ FrameSum /\ BufSum /\ StoppedRestarts

-----------------------------------------------------------------------------
(* The step relation as the disjunction of its actions.                    *)
LEMMA NextCases ==
  ASSUME [Next]_vars
  PROVE  \/ (\E q \in Queues : TxCheck(q)) \/ (\E q \in Queues : TxStop(q))
         \/ (\E q \in Queues : TxAlloc(q)) \/ (\E q \in Queues : TxAttrib(q))
         \/ (\E q \in Queues : TxPreQueue(q)) \/ (\E q \in Queues : TxPreDirect(q))
         \/ (\E q \in Queues : TxWrite(q)) \/ (\E q \in Queues : TxFree(q))
         \/ TaskRun \/ TaskBuf \/ TaskDequeue \/ TaskEmpty \/ TaskComplete
         \/ TaskWrite \/ TaskFree \/ SurveyBegin \/ LinkBegin \/ MlmeDone
         \/ MlmeTimeout \/ XmitSchedule \/ FreeSta \/ Stop
         \/ (\E ok \in BOOLEAN : UrbComplete(ok)) \/ UNCHANGED vars
  BY Zenon DEF Next, Sender, Tasklet, Completion, MlmeEnds

(***************************************************************************)
(* Sums.                                                                   *)
(***************************************************************************)
(* A set of numbers that is not empty has a least one.                     *)
LEMMA LeastFacts ==
  ASSUME NEW S, S \subseteq Nat, S # {}
  PROVE  \E x \in S : \A y \in S : x =< y
<1>1. PICK x \in S : \A y \in S : ~(<<y, x>> \in OpToRel(<, Nat))
  BY NatLessThanWellFounded, WFMin, Zenon
<1>2. ASSUME NEW y \in S PROVE x =< y
  <2>1. x \in Nat /\ y \in Nat
    OBVIOUS
  <2>2. y < x => <<y, x>> \in OpToRel(<, Nat)
    BY <2>1 DEF OpToRel
  <2>3. ~(y < x)
    BY <1>1, <2>2, Zenon
  <2> QED BY <2>1, <2>3
<1> QED BY <1>2

(* A set of sizes that has 0, and with each size the next one, has all:    *)
(* else it would have a least exception.                                   *)
LEMMA Sizes ==
  ASSUME NEW G, 0 \in G, \A n \in Nat : n \in G => n + 1 \in G
  PROVE  Nat \subseteq G
<1> SUFFICES ASSUME Nat \ G # {} PROVE FALSE
  OBVIOUS
<1>1. PICK m \in Nat \ G : \A k \in Nat \ G : m =< k
  <2> DEFINE B == Nat \ G
  <2>1. B \subseteq Nat /\ B # {}
    OBVIOUS
  <2> HIDE DEF B
  <2>2. \E x \in B : \A y \in B : x =< y
    BY <2>1, LeastFacts
  <2> QED BY <2>2 DEF B
<1>2. m # 0
  OBVIOUS
<1>3. m - 1 \in Nat /\ ~(m =< m - 1) /\ (m - 1) + 1 = m
  BY <1>2
<1>4. m - 1 \in G
  BY <1>1, <1>3
<1> QED BY <1>3, <1>4

Pick(s) == CHOOSE x \in s : TRUE
Level(S, n) == {s \in SUBSET S : Cardinality(s) =< n}
IsSum(g, f, D) == g = [s \in D |-> IF s = {} THEN 0 ELSE f[Pick(s)] + g[s \ {Pick(s)}]]

(* A set that is not empty has one element less without the one picked.    *)
LEMMA PickFacts ==
  ASSUME NEW S, IsFiniteSet(S), NEW s \in SUBSET S, s # {}
  PROVE  /\ Pick(s) \in s /\ s \ {Pick(s)} \in SUBSET S
         /\ Cardinality(s) \in Nat /\ Cardinality(s \ {Pick(s)}) = Cardinality(s) - 1
<1>1. Pick(s) \in s
  BY DEF Pick
<1>2. IsFiniteSet(s)
  BY FS_Subset
<1> QED BY <1>1, <1>2, FS_RemoveElement, FS_CardinalityType

(* What holds of {}, and of a set if it holds of the set without the       *)
(* element picked, holds of every finite set.                              *)
LEMMA BySize ==
  ASSUME NEW S, IsFiniteSet(S), NEW Good \in SUBSET SUBSET S, {} \in Good,
         \A s \in SUBSET S : s # {} /\ s \ {Pick(s)} \in Good => s \in Good
  PROVE  S \in Good
<1> DEFINE G == {n \in Nat : \A s \in SUBSET S : Cardinality(s) = n => s \in Good}
<1>1. 0 \in G
  <2>1. \A s \in SUBSET S : Cardinality(s) = 0 => s = {}
    BY FS_Subset, FS_EmptySet
  <2> QED BY <2>1
<1>2. ASSUME NEW n \in Nat, n \in G PROVE n + 1 \in G
  <2> SUFFICES ASSUME NEW s \in SUBSET S, Cardinality(s) = n + 1 PROVE s \in Good
    OBVIOUS
  <2>1. s # {}
    <3>1. CASE s = {}
      <4>1. Cardinality({}) = 0
        BY FS_EmptySet, Zenon
      <4>2. n + 1 # 0
        OBVIOUS
      <4> QED BY <3>1, <4>1, <4>2
    <3> QED BY <3>1
  <2>2. s \ {Pick(s)} \in SUBSET S /\ Cardinality(s \ {Pick(s)}) = n
    BY <2>1, PickFacts
  <2>3. s \ {Pick(s)} \in Good
    BY <1>2, <2>2
  <2> QED BY <2>1, <2>3
<1>3. Nat \subseteq G
  <2> HIDE DEF G
  <2> QED BY <1>1, <1>2, Sizes
<1>4. Cardinality(S) \in Nat
  BY FS_CardinalityType
<1> QED BY <1>3, <1>4

(* The recursion of MapThenSumSet has a solution.                          *)
LEMMA SumExists ==
  ASSUME NEW f, NEW S, IsFiniteSet(S)
  PROVE  \E g : IsSum(g, f, SUBSET S)
<1> DEFINE G == {n \in Nat : \E g : IsSum(g, f, Level(S, n))}
<1>1. 0 \in G
  <2> DEFINE g == [s \in Level(S, 0) |-> 0]
  <2>1. \A s \in Level(S, 0) : s = {}
    BY FS_Subset, FS_EmptySet, FS_CardinalityType DEF Level
  <2>2. IsSum(g, f, Level(S, 0))
    BY <2>1 DEF IsSum
  <2> QED BY <2>2
<1>2. ASSUME NEW n \in Nat, n \in G PROVE n + 1 \in G
  <2> PICK g : IsSum(g, f, Level(S, n))
    BY <1>2
  <2> DEFINE h == [s \in Level(S, n + 1) |->
                    IF s = {} THEN 0
                    ELSE f[Pick(s)] + g[s \ {Pick(s)}]]
  <2>1. ASSUME NEW s \in Level(S, n + 1), s # {}
        PROVE  h[s \ {Pick(s)}] = g[s \ {Pick(s)}]
    <3> DEFINE t == s \ {Pick(s)}
    <3>1. s \in SUBSET S /\ Cardinality(s) =< n + 1
      BY DEF Level
    <3>2. t \in SUBSET S /\ Cardinality(t) = Cardinality(s) - 1 /\ Cardinality(s) \in Nat
      BY <2>1, <3>1, PickFacts
    <3>3. t \in Level(S, n) /\ t \in Level(S, n + 1)
      BY <3>1, <3>2 DEF Level
    <3> HIDE DEF t
    <3>4. g[t] = IF t = {} THEN 0 ELSE f[Pick(t)] + g[t \ {Pick(t)}]
      BY <3>3 DEF IsSum
    <3>5. h[t] = IF t = {} THEN 0 ELSE f[Pick(t)] + g[t \ {Pick(t)}]
      BY <3>3
    <3> QED BY <3>4, <3>5 DEF t
  <2>2. h = [s \in Level(S, n + 1) |-> IF s = {} THEN 0 ELSE f[Pick(s)] + h[s \ {Pick(s)}]]
    BY <2>1
  <2>3. IsSum(h, f, Level(S, n + 1))
    <3> HIDE DEF h
    <3> QED BY <2>2 DEF IsSum
  <2> QED BY <2>3
<1>3. Nat \subseteq G
  <2> HIDE DEF G
  <2> QED BY <1>1, <1>2, Sizes
<1>4. Cardinality(S) \in Nat /\ Level(S, Cardinality(S)) = SUBSET S
  BY FS_Subset, FS_CardinalityType DEF Level
<1>5. Cardinality(S) \in G
  BY <1>3, <1>4
<1> QED BY <1>4, <1>5

(* SumOf is the value of the recursion at the whole set.                   *)
LEMMA SumFacts ==
  ASSUME NEW f, NEW S, IsFiniteSet(S)
  PROVE  \E g : /\ \A s \in SUBSET S : g[s] = IF s = {} THEN 0 ELSE f[Pick(s)] + g[s \ {Pick(s)}]
                /\ SumOf(f, S) = g[S]
<1> DEFINE g == CHOOSE g : IsSum(g, f, SUBSET S)
<1>1. IsSum(g, f, SUBSET S)
  BY SumExists
<1>2. SumOf(f, S) = g[S]
  BY DEF SumOf, MapThenSumSet, MapThenFoldSet, IsSum, Pick
<1> HIDE DEF g
<1> QED BY <1>1, <1>2 DEF IsSum

(* e is f with the value v at q.                                           *)
Updates(f, e, q, v) == e = [f EXCEPT ![q] = v]

(* A change of one number changes the sum by as much.                      *)
LEMMA SumAdd ==
  ASSUME NEW S, IsFiniteSet(S), NEW f \in [S -> Int], NEW q \in S, NEW d \in Int,
         NEW e, Updates(f, e, q, f[q] + d)
  PROVE  /\ SumOf(f, S) \in Int
         /\ SumOf(e, S) = SumOf(f, S) + d
<1>1. PICK g : /\ \A s \in SUBSET S :
                    g[s] = IF s = {} THEN 0 ELSE f[Pick(s)] + g[s \ {Pick(s)}]
               /\ SumOf(f, S) = g[S]
  BY SumFacts
<1>2. PICK h : /\ \A s \in SUBSET S :
                    h[s] = IF s = {} THEN 0 ELSE e[Pick(s)] + h[s \ {Pick(s)}]
               /\ SumOf(e, S) = h[S]
  BY SumFacts
<1>3. /\ e[q] = f[q] + d
      /\ \A p \in S : p # q => e[p] = f[p]
  BY DEF Updates
<1> DEFINE Good == {s \in SUBSET S :
                     g[s] \in Int /\ h[s] = g[s] + (IF q \in s THEN d ELSE 0)}
<1>4. {} \in Good
  <2>1. g[{}] = 0 /\ h[{}] = 0
    BY <1>1, <1>2
  <2> QED BY <2>1
<1>5. ASSUME NEW s \in SUBSET S, s # {}, s \ {Pick(s)} \in Good PROVE s \in Good
  <2> DEFINE p == Pick(s)
             t == s \ {p}
  <2>1. p \in s /\ p \in S
    BY <1>5, PickFacts
  <2>2. g[s] = f[p] + g[t] /\ h[s] = e[p] + h[t]
    BY <1>1, <1>2, <1>5
  <2>3. g[t] \in Int /\ h[t] = g[t] + (IF q \in t THEN d ELSE 0)
    BY <1>5
  <2>4. f[p] \in Int /\ f[q] \in Int
    BY <2>1
  <2>5. CASE p = q
    <3>1. q \notin t /\ q \in s
      BY <2>1, <2>5
    <3>2. e[p] = f[p] + d
      BY <1>3, <2>5
    <3> HIDE DEF p, t
    <3> QED BY <2>2, <2>3, <2>4, <3>1, <3>2
  <2>6. CASE p # q
    <3>1. q \in t <=> q \in s
      BY <2>6
    <3>2. e[p] = f[p]
      BY <1>3, <2>1, <2>6
    <3> HIDE DEF p, t
    <3> QED BY <2>2, <2>3, <2>4, <3>1, <3>2
  <2> QED BY <2>5, <2>6
<1>6. S \in Good
  <2>1. Good \in SUBSET SUBSET S
    OBVIOUS
  <2> HIDE DEF Good
  <2> QED BY <1>4, <1>5, <2>1, BySize
<1> QED BY <1>1, <1>2, <1>6

(* A sum of zeros is zero.                                                 *)
LEMMA SumZero ==
  ASSUME NEW S, IsFiniteSet(S)
  PROVE  SumOf([q \in S |-> 0], S) = 0
<1> DEFINE f == [q \in S |-> 0]
<1>1. PICK g : /\ \A s \in SUBSET S :
                    g[s] = IF s = {} THEN 0 ELSE f[Pick(s)] + g[s \ {Pick(s)}]
               /\ SumOf(f, S) = g[S]
  <2> HIDE DEF f
  <2> QED BY SumFacts
<1> DEFINE Good == {s \in SUBSET S : g[s] = 0}
<1>2. {} \in Good
  BY <1>1
<1>3. ASSUME NEW s \in SUBSET S, s # {}, s \ {Pick(s)} \in Good PROVE s \in Good
  <2>1. Pick(s) \in S
    BY <1>3, PickFacts
  <2>2. g[s] = f[Pick(s)] + g[s \ {Pick(s)}]
    BY <1>1, <1>3
  <2>3. f[Pick(s)] = 0
    BY <2>1
  <2> QED BY <1>3, <2>2, <2>3
<1>4. S \in Good
  <2>1. Good \in SUBSET SUBSET S
    OBVIOUS
  <2> HIDE DEF Good
  <2> QED BY <1>2, <1>3, <2>1, BySize
<1> QED BY <1>1, <1>4

(* A sum of natural numbers is at least each of them.                      *)
LEMMA SumAtLeast ==
  ASSUME NEW S, IsFiniteSet(S), NEW f \in [S -> Nat], NEW q \in S
  PROVE  SumOf(f, S) \in Nat /\ f[q] <= SumOf(f, S)
<1>1. PICK g : /\ \A s \in SUBSET S :
                    g[s] = IF s = {} THEN 0 ELSE f[Pick(s)] + g[s \ {Pick(s)}]
               /\ SumOf(f, S) = g[S]
  BY SumFacts
<1> DEFINE Good == {s \in SUBSET S : g[s] \in Nat /\ (q \in s => f[q] <= g[s])}
<1>2. {} \in Good
  <2>1. g[{}] = 0
    BY <1>1
  <2> QED BY <2>1
<1>3. ASSUME NEW s \in SUBSET S, s # {}, s \ {Pick(s)} \in Good PROVE s \in Good
  <2> DEFINE p == Pick(s)
             t == s \ {p}
  <2>1. p \in s /\ p \in S
    BY <1>3, PickFacts
  <2>2. g[s] = f[p] + g[t]
    BY <1>1, <1>3
  <2>3. g[t] \in Nat /\ (q \in t => f[q] <= g[t])
    BY <1>3
  <2>4. f[p] \in Nat /\ f[q] \in Nat
    BY <2>1
  <2>5. q \in s => q \in t \/ q = p
    OBVIOUS
  <2>6. g[s] \in Nat /\ (q \in s => f[q] <= g[s])
    <3> HIDE DEF p, t
    <3> QED BY <2>2, <2>3, <2>4, <2>5
  <2> QED BY <2>6
<1>4. S \in Good
  <2>1. Good \in SUBSET SUBSET S
    OBVIOUS
  <2> HIDE DEF Good
  <2> QED BY <1>2, <1>3, <2>1, BySize
<1> QED BY <1>1, <1>4

(***************************************************************************)
(* Senders at certain points.                                              *)
(***************************************************************************)
LEMMA QueuesFinite == IsFiniteSet(Queues)
  BY QueuesAssumption, FS_Interval DEF Queues

(* A step of one sender changes the number of senders at the points of P   *)
(* by one or not at all.                                                   *)
LEMMA CountStep ==
  ASSUME NEW L, NEW at \in [Queues -> L], NEW q \in Queues, NEW l \in L, NEW P,
         NEW e, Updates(at, e, q, l)
  PROVE  /\ Count(at, P) \in Nat
         /\ Count(e, P) = Count(at, P) + In(l, P) - In(at[q], P)
<1> DEFINE A == {p \in Queues : at[p] \in P}
           B == {p \in Queues : e[p] \in P}
<1>1. IsFiniteSet(A)
  BY QueuesFinite, FS_Subset
<1>2. Cardinality(A) \in Nat
  BY <1>1, FS_CardinalityType
<1>3. B = IF l \in P THEN A \cup {q} ELSE A \ {q}
  BY DEF Updates
<1>4. q \in A <=> at[q] \in P
  OBVIOUS
<1>5. Count(at, P) = Cardinality(A) /\ Count(e, P) = Cardinality(B)
  BY DEF Count
<1>6. /\ Cardinality(A \cup {q}) = IF q \in A THEN Cardinality(A) ELSE Cardinality(A) + 1
      /\ Cardinality(A \ {q}) = IF q \in A THEN Cardinality(A) - 1 ELSE Cardinality(A)
  <2> HIDE DEF A
  <2> QED BY <1>1, FS_AddElement, FS_RemoveElement
<1>7. Cardinality(B) = Cardinality(A) + In(l, P) - In(at[q], P)
  <2> HIDE DEF A, B
  <2>1. CASE l \in P /\ at[q] \in P
    BY <2>1, <1>2, <1>3, <1>4, <1>6 DEF In
  <2>2. CASE l \in P /\ at[q] \notin P
    BY <2>2, <1>2, <1>3, <1>4, <1>6 DEF In
  <2>3. CASE l \notin P /\ at[q] \in P
    BY <2>3, <1>2, <1>3, <1>4, <1>6 DEF In
  <2>4. CASE l \notin P /\ at[q] \notin P
    BY <2>4, <1>2, <1>3, <1>4, <1>6 DEF In
  <2> QED BY <2>1, <2>2, <2>3, <2>4
<1> QED BY <1>2, <1>5, <1>7

(* Every step keeps the flags.                                             *)
LEMMA FlagsStep == Flags /\ [Next]_vars => Flags'
<1> SUFFICES ASSUME Flags, [Next]_vars PROVE Flags'
  OBVIOUS
<1> USE DEF Flags, pool_vars, task_vars, mlme_vars
<1>1. ASSUME NEW q \in Queues, TxWrite(q) PROVE Flags'
  <2>1. UNCHANGED <<scheduled, survey, linking, drv_stopped>>
    BY <1>1, Zenon DEF TxWrite
  <2>2. missed' = missed \/ missed' = (missed \/ AnyPending)
    BY <1>1, Zenon DEF TxWrite
  <2>3. AnyPending \in BOOLEAN
    BY DEF AnyPending
  <2> QED BY <2>1, <2>2, <2>3, Zenon
<1>2. CASE TaskRun
  BY <1>2, Zenon DEF TaskRun
<1>3. CASE SurveyBegin
  BY <1>3, Zenon DEF SurveyBegin
<1>4. CASE LinkBegin
  BY <1>4, Zenon DEF LinkBegin
<1>5. CASE MlmeDone
  BY <1>5, Zenon DEF MlmeDone
<1>6. CASE MlmeTimeout
  <2>1. UNCHANGED <<scheduled, drv_stopped>> /\ survey' \in BOOLEAN /\ linking' \in BOOLEAN
    BY <1>6, Zenon DEF MlmeTimeout
  <2>2. missed' = (missed \/ AnyPending)
    BY <1>6, Zenon DEF MlmeTimeout
  <2>3. AnyPending \in BOOLEAN
    BY DEF AnyPending
  <2> QED BY <2>1, <2>2, <2>3, Zenon
<1>7. CASE XmitSchedule
  BY <1>7, Zenon DEF XmitSchedule, Schedule, NoSchedule
<1>8. CASE Stop
  BY <1>8, Zenon DEF Stop
<1>9. ASSUME NEW ok \in BOOLEAN, UrbComplete(ok) PROVE Flags'
  BY <1>9, Zenon DEF UrbComplete, Schedule
<1>10. ASSUME NEW q \in Queues, TxCheck(q) \/ TxStop(q) \/ TxAlloc(q) \/
   TxAttrib(q) \/ TxPreQueue(q) \/ TxPreDirect(q) \/ TxFree(q) PROVE Flags'
  BY <1>10, Zenon DEF TxCheck, Goto, TxStop, TxAlloc, Drop, TxAttrib,
     AttribFails, FreeFrames, TxPreQueue, KeepFlow, PktComplete, TxPreDirect,
     AllocBuf, TxFree
<1>11. CASE TaskBuf \/ TaskDequeue \/ TaskEmpty \/ TaskComplete \/ TaskWrite \/
   TaskFree \/ FreeSta \/ UNCHANGED vars
  BY <1>11, Zenon DEF TaskBuf, AllocBuf, TaskDequeue, TaskEmpty, TaskComplete,
     PktComplete, TaskWrite, Submit, SubmitFails, TaskFree, FreeFrames, FreeSta,
     FreeQueue, vars
<1> HIDE DEF Flags
<1> QED
  BY NextCases, <1>1, <1>2, <1>3, <1>4, <1>5, <1>6, <1>7, <1>8, <1>9, <1>10,
     <1>11

(* Every step keeps the types.                                             *)
LEMMA TypesStep == Types /\ [Next]_vars => Types'
<1> SUFFICES ASSUME Types, [Next]_vars PROVE Types'
  OBVIOUS
<1> USE DEF Types, Points, pool_vars, task_vars, mlme_vars
<1>1. ASSUME NEW q \in Queues, TxCheck(q) PROVE Types'
  BY <1>1 DEF TxCheck, Goto
<1>2. ASSUME NEW q \in Queues, TxStop(q) PROVE Types'
  BY <1>2 DEF TxStop, Goto
<1>3. ASSUME NEW q \in Queues, TxAlloc(q) PROVE Types'
  BY <1>3 DEF TxAlloc, Drop, Goto
<1>4. ASSUME NEW q \in Queues, TxAttrib(q) PROVE Types'
  BY <1>4 DEF TxAttrib, AttribFails, FreeFrames, Drop, Goto
<1>5. ASSUME NEW q \in Queues, TxPreQueue(q) PROVE Types'
  BY <1>5 DEF TxPreQueue, Goto, KeepFlow, FreeFrames, PktComplete
<1>6. ASSUME NEW q \in Queues, TxPreDirect(q) PROVE Types'
  BY <1>6 DEF TxPreDirect, AllocBuf, Goto
<1>7. ASSUME NEW q \in Queues, TxWrite(q) PROVE Types'
  BY <1>7 DEF TxWrite, Submit, SubmitFails, Goto
<1>8. ASSUME NEW q \in Queues, TxFree(q) PROVE Types'
  BY <1>8 DEF TxFree, FreeFrames, PktComplete, Goto
<1>9. CASE TaskRun
  BY <1>9 DEF TaskRun
<1>10. CASE TaskBuf
  BY <1>10 DEF TaskBuf, AllocBuf
<1>11. CASE TaskDequeue
  BY <1>11 DEF TaskDequeue
<1>12. CASE TaskEmpty
  BY <1>12 DEF TaskEmpty
<1>13. CASE TaskComplete
  BY <1>13 DEF TaskComplete, PktComplete
<1>14. CASE TaskWrite
  BY <1>14 DEF TaskWrite, Submit, SubmitFails
<1>15. CASE TaskFree
  BY <1>15 DEF TaskFree, FreeFrames
<1>16. CASE MlmeDone
  BY <1>16 DEF MlmeDone
<1>17. CASE XmitSchedule
  BY <1>17 DEF XmitSchedule, Schedule, NoSchedule
<1>18. CASE FreeSta
  <2>1. SumOf(pending, Queues) \in Nat
    BY QueuesAssumption, QueuesFinite, SumAtLeast DEF Queues
  <2>2. free_frames' = free_frames + SumOf(pending, Queues)
    BY <1>18 DEF FreeSta, FreeQueue, FreeFrames, SumOf
  <2>3. /\ pending' = [q \in Queues |-> 0]
        /\ halted' \subseteq halted /\ orphan' \subseteq orphan
        /\ UNCHANGED <<free_bufs, inflight, tx_pc, task_pc, task_q, mlme_pc>>
    BY <1>18 DEF FreeSta, FreeQueue, PktComplete
  <2> QED BY <2>1, <2>2, <2>3
<1>19. ASSUME NEW ok \in BOOLEAN, UrbComplete(ok) PROVE Types'
  BY <1>19 DEF UrbComplete, Schedule
<1>20. CASE SurveyBegin \/ LinkBegin \/ MlmeTimeout \/ Stop
  <2>1. UNCHANGED <<free_frames, free_bufs, inflight, pending, halted, orphan,
     tx_pc, task_pc, task_q, mlme_pc>>
    BY <1>20, Zenon DEF SurveyBegin, LinkBegin, MlmeTimeout, Stop
  <2> QED BY <2>1
<1>21. CASE UNCHANGED vars
  <2>1. UNCHANGED <<free_frames, free_bufs, inflight, pending, halted, orphan,
     tx_pc, task_pc, task_q, mlme_pc>>
    BY <1>21, Zenon DEF vars
  <2> QED BY <2>1
<1> HIDE DEF Types
<1> QED
  BY NextCases, <1>1, <1>2, <1>3, <1>4, <1>5, <1>6, <1>7, <1>8, <1>9, <1>10,
     <1>11, <1>12, <1>13, <1>14, <1>15, <1>16, <1>17, <1>18, <1>19, <1>20, <1>21

(* StoppedRestarts is kept by every step: whoever leaves a stopped subqueue*)
(* wakes it, leaves a frame behind, or makes it an orphan.                 *)
LEMMA StoppedStep == StoppedRestarts /\ Types /\ [Next]_vars => StoppedRestarts'
<1> SUFFICES ASSUME StoppedRestarts, Types, [Next]_vars PROVE StoppedRestarts'
  OBVIOUS
<1> USE DEF StoppedRestarts, Types, Points, pool_vars, task_vars, mlme_vars
<1>1. ASSUME NEW q \in Queues, TxCheck(q) PROVE StoppedRestarts'
  BY <1>1 DEF TxCheck, Goto
<1>2. ASSUME NEW q \in Queues, TxStop(q) PROVE StoppedRestarts'
  BY <1>2 DEF TxStop, Goto
<1>3. ASSUME NEW q \in Queues, TxAlloc(q) PROVE StoppedRestarts'
  BY <1>3 DEF TxAlloc, Drop, Goto
<1>4. ASSUME NEW q \in Queues, TxAttrib(q) PROVE StoppedRestarts'
  BY <1>4 DEF TxAttrib, AttribFails, FreeFrames, Drop, Goto
<1>5. ASSUME NEW q \in Queues, TxPreQueue(q) PROVE StoppedRestarts'
  BY <1>5 DEF TxPreQueue, Goto, KeepFlow, FreeFrames, PktComplete
<1>6. ASSUME NEW q \in Queues, TxPreDirect(q) PROVE StoppedRestarts'
  BY <1>6 DEF TxPreDirect, AllocBuf, Goto
<1>7. ASSUME NEW q \in Queues, TxWrite(q) PROVE StoppedRestarts'
  BY <1>7 DEF TxWrite, Submit, SubmitFails, Goto
<1>8. ASSUME NEW q \in Queues, TxFree(q) PROVE StoppedRestarts'
  BY <1>8 DEF TxFree, FreeFrames, PktComplete, Goto
<1>9. CASE TaskRun
  BY <1>9 DEF TaskRun
<1>10. CASE TaskBuf
  BY <1>10 DEF TaskBuf, AllocBuf
<1>11. CASE TaskDequeue
  BY <1>11 DEF TaskDequeue
<1>12. CASE TaskEmpty
  BY <1>12 DEF TaskEmpty
<1>13. CASE TaskComplete
  BY <1>13 DEF TaskComplete, PktComplete
<1>14. CASE TaskWrite
  BY <1>14 DEF TaskWrite, Submit, SubmitFails
<1>15. CASE TaskFree
  BY <1>15 DEF TaskFree, FreeFrames
<1>16. CASE FreeSta
  BY <1>16 DEF FreeSta, FreeQueue, FreeFrames, PktComplete
<1>17. CASE SurveyBegin \/ LinkBegin \/ MlmeDone \/ MlmeTimeout
  <2>1. UNCHANGED <<halted, orphan, tx_pc, pending, task_pc, task_q>>
    BY <1>17, Zenon DEF SurveyBegin, LinkBegin, MlmeDone, MlmeTimeout
  <2> QED BY <2>1
<1>18. CASE XmitSchedule \/ Stop \/ UNCHANGED vars
  <2>1. UNCHANGED <<halted, orphan, tx_pc, pending, task_pc, task_q>>
    BY <1>18, Zenon DEF XmitSchedule, Schedule, NoSchedule, Stop, vars
  <2> QED BY <2>1
<1>19. ASSUME NEW ok \in BOOLEAN, UrbComplete(ok) PROVE StoppedRestarts'
  <2>1. UNCHANGED <<halted, orphan, tx_pc, pending, task_pc, task_q>>
    BY <1>19, Zenon DEF UrbComplete, Schedule
  <2> QED BY <2>1
<1> HIDE DEF StoppedRestarts
<1> QED
  BY NextCases, <1>1, <1>2, <1>3, <1>4, <1>5, <1>6, <1>7, <1>8, <1>9, <1>10,
     <1>11, <1>12, <1>13, <1>14, <1>15, <1>16, <1>17, <1>18, <1>19

(* A step of sender q to the point l that changes the number of waiting    *)
(* frames by d; and one that may submit its buffer.                        *)
FrameMove(q, l, d) ==
  /\ Updates(tx_pc, tx_pc', q, l) /\ UNCHANGED task_pc
  /\ SumOf(pending', Queues) = SumOf(pending, Queues) + d
  /\ free_frames' \in Int
  /\ free_frames' + d + In(l, WithFrame) = free_frames + In(tx_pc[q], WithFrame)

BufMove(q, l) ==
  /\ Updates(tx_pc, tx_pc', q, l) /\ UNCHANGED task_pc
  /\ free_bufs' \in Int /\ inflight' \in Int
  /\ free_bufs' + inflight' + In(l, WithBuf)
       = free_bufs + inflight + In(tx_pc[q], WithBuf)

(* Such steps keep the sums.                                               *)
LEMMA FrameSender ==
  ASSUME Types, FrameSum, NEW q \in Queues, NEW l \in Points, NEW d \in Int, FrameMove(q, l, d)
  PROVE  FrameSum'
<1>1. /\ Count(tx_pc, WithFrame) \in Nat
      /\ Count(tx_pc', WithFrame) = Count(tx_pc, WithFrame) + In(l, WithFrame)
                                      - In(tx_pc[q], WithFrame)
  <2>1. tx_pc \in [Queues -> Points]
    BY DEF Types
  <2>2. Updates(tx_pc, tx_pc', q, l)
    BY DEF FrameMove
  <2> QED BY <2>1, <2>2, CountStep
<1>2. SumOf(pending, Queues) \in Nat
  BY QueuesAssumption, QueuesFinite, SumAtLeast DEF Queues, Types
<1>3. In(l, WithFrame) \in Int /\ In(tx_pc[q], WithFrame) \in Int
      /\ In(task_pc, {"complete", "write", "free"}) \in Int
  BY DEF In
<1> QED BY <1>1, <1>2, <1>3 DEF FrameSum, Types, FrameMove

(* The points where a sender has a frame.                                  *)
LEMMA InWithFrame ==
  /\ In("idle", WithFrame) = 0 /\ In("stop", WithFrame) = 0 /\ In("alloc", WithFrame) = 0
  /\ In("attrib", WithFrame) = 1 /\ In("pre", WithFrame) = 1 /\ In("write", WithFrame) = 1
  /\ In("free", WithFrame) = 1
  /\ "idle" \in Points /\ "stop" \in Points /\ "alloc" \in Points /\ "attrib" \in Points
  /\ "pre" \in Points /\ "write" \in Points /\ "free" \in Points
  BY DEF In, WithFrame, Points

(* The same for the sum of the buffers.                                    *)
LEMMA BufSender ==
  ASSUME Types, BufSum, NEW q \in Queues, NEW l \in Points, BufMove(q, l)
  PROVE  BufSum'
<1>1. /\ Count(tx_pc, WithBuf) \in Nat
      /\ Count(tx_pc', WithBuf) = Count(tx_pc, WithBuf) + In(l, WithBuf)
                                      - In(tx_pc[q], WithBuf)
  <2>1. tx_pc \in [Queues -> Points]
    BY DEF Types
  <2>2. Updates(tx_pc, tx_pc', q, l)
    BY DEF BufMove
  <2> QED BY <2>1, <2>2, CountStep
<1>2. In(l, WithBuf) \in Int /\ In(tx_pc[q], WithBuf) \in Int
      /\ In(task_pc, {"dequeue", "empty", "complete", "write"}) \in Int
  BY DEF In
<1> QED BY <1>1, <1>2 DEF BufSum, Types, BufMove

(* No step loses a frame, or frees one twice.                              *)
LEMMA FrameStep == FrameSum /\ Types /\ [Next]_vars => FrameSum'
<1> SUFFICES ASSUME FrameSum, Types, [Next]_vars PROVE FrameSum'
  OBVIOUS
<1> USE DEF pool_vars, task_vars, mlme_vars
<1>0. /\ SumOf(pending, Queues) \in Nat /\ Count(tx_pc, WithFrame) \in Nat
      /\ free_frames \in Nat /\ pending \in [Queues -> Int]
  BY QueuesAssumption, QueuesFinite, SumAtLeast, FS_Subset, FS_CardinalityType
     DEF Queues, Count, Types
<1>1. ASSUME NEW q \in Queues, TxCheck(q) PROVE FrameSum'
  <2>1. UNCHANGED task_pc /\ tx_pc[q] = "idle"
    BY <1>1, Zenon DEF TxCheck, Goto, At
  <2>2. \/ /\ Updates(tx_pc, tx_pc', q, "stop") /\ free_frames' = free_frames
           /\ UNCHANGED pending
        \/ /\ Updates(tx_pc, tx_pc', q, "alloc") /\ free_frames' = free_frames
           /\ UNCHANGED pending
    BY <1>1 DEF TxCheck, Goto, Updates
  <2>3. CASE /\ Updates(tx_pc, tx_pc', q, "stop") /\ free_frames' = free_frames
            /\ UNCHANGED pending
    <3>1. SumOf(pending', Queues) = SumOf(pending, Queues) + 0
      BY <1>0, <2>3
    <3>2. FrameMove(q, "stop", 0)
      BY <1>0, <2>1, <2>3, <3>1, InWithFrame DEF FrameMove
    <3> QED BY <3>2, InWithFrame, FrameSender
  <2>4. CASE /\ Updates(tx_pc, tx_pc', q, "alloc") /\ free_frames' = free_frames
            /\ UNCHANGED pending
    <3>1. SumOf(pending', Queues) = SumOf(pending, Queues) + 0
      BY <1>0, <2>4
    <3>2. FrameMove(q, "alloc", 0)
      BY <1>0, <2>1, <2>4, <3>1, InWithFrame DEF FrameMove
    <3> QED BY <3>2, InWithFrame, FrameSender
  <2> QED BY <2>2, <2>3, <2>4
<1>2. ASSUME NEW q \in Queues, TxStop(q) PROVE FrameSum'
  <2>1. UNCHANGED task_pc /\ tx_pc[q] = "stop"
    BY <1>2, Zenon DEF TxStop, Goto, At
  <2>2. /\ Updates(tx_pc, tx_pc', q, "alloc") /\ free_frames' = free_frames
        /\ UNCHANGED pending
    BY <1>2 DEF TxStop, Goto, Updates
  <2>3. SumOf(pending', Queues) = SumOf(pending, Queues) + 0
    BY <1>0, <2>2
  <2>4. FrameMove(q, "alloc", 0)
    BY <1>0, <2>1, <2>2, <2>3, InWithFrame DEF FrameMove
  <2> QED BY <2>4, InWithFrame, FrameSender
<1>3. ASSUME NEW q \in Queues, TxAlloc(q) PROVE FrameSum'
  <2>1. UNCHANGED task_pc /\ tx_pc[q] = "alloc"
    BY <1>3, Zenon DEF TxAlloc, Drop, Goto, At
  <2>2. \/ /\ Updates(tx_pc, tx_pc', q, "idle") /\ free_frames' = free_frames
           /\ UNCHANGED pending
        \/ /\ Updates(tx_pc, tx_pc', q, "attrib") /\ free_frames' = free_frames - 1
           /\ UNCHANGED pending
    BY <1>3 DEF TxAlloc, Drop, Goto, Updates
  <2>3. CASE /\ Updates(tx_pc, tx_pc', q, "idle") /\ free_frames' = free_frames
            /\ UNCHANGED pending
    <3>1. SumOf(pending', Queues) = SumOf(pending, Queues) + 0
      BY <1>0, <2>3
    <3>2. FrameMove(q, "idle", 0)
      BY <1>0, <2>1, <2>3, <3>1, InWithFrame DEF FrameMove
    <3> QED BY <3>2, InWithFrame, FrameSender
  <2>4. CASE /\ Updates(tx_pc, tx_pc', q, "attrib") /\ free_frames' = free_frames - 1
            /\ UNCHANGED pending
    <3>1. SumOf(pending', Queues) = SumOf(pending, Queues) + 0
      BY <1>0, <2>4
    <3>2. FrameMove(q, "attrib", 0)
      BY <1>0, <2>1, <2>4, <3>1, InWithFrame DEF FrameMove
    <3> QED BY <3>2, InWithFrame, FrameSender
  <2> QED BY <2>2, <2>3, <2>4
<1>4. ASSUME NEW q \in Queues, TxAttrib(q) PROVE FrameSum'
  <2>1. UNCHANGED task_pc /\ tx_pc[q] = "attrib"
    BY <1>4, Zenon DEF TxAttrib, AttribFails, FreeFrames, Drop, Goto, At
  <2>2. \/ /\ Updates(tx_pc, tx_pc', q, "idle") /\ free_frames' = free_frames + 1
           /\ UNCHANGED pending
        \/ /\ Updates(tx_pc, tx_pc', q, "pre") /\ free_frames' = free_frames
           /\ UNCHANGED pending
    BY <1>4 DEF TxAttrib, AttribFails, FreeFrames, Drop, Goto, Updates
  <2>3. CASE /\ Updates(tx_pc, tx_pc', q, "idle") /\ free_frames' = free_frames + 1
            /\ UNCHANGED pending
    <3>1. SumOf(pending', Queues) = SumOf(pending, Queues) + 0
      BY <1>0, <2>3
    <3>2. FrameMove(q, "idle", 0)
      BY <1>0, <2>1, <2>3, <3>1, InWithFrame DEF FrameMove
    <3> QED BY <3>2, InWithFrame, FrameSender
  <2>4. CASE /\ Updates(tx_pc, tx_pc', q, "pre") /\ free_frames' = free_frames
            /\ UNCHANGED pending
    <3>1. SumOf(pending', Queues) = SumOf(pending, Queues) + 0
      BY <1>0, <2>4
    <3>2. FrameMove(q, "pre", 0)
      BY <1>0, <2>1, <2>4, <3>1, InWithFrame DEF FrameMove
    <3> QED BY <3>2, InWithFrame, FrameSender
  <2> QED BY <2>2, <2>3, <2>4
<1>5. ASSUME NEW q \in Queues, TxPreQueue(q) PROVE FrameSum'
  <2>1. UNCHANGED task_pc /\ tx_pc[q] = "pre"
    BY <1>5, Zenon DEF TxPreQueue, Goto, KeepFlow, FreeFrames, PktComplete, At
  <2>2. \/ /\ Updates(tx_pc, tx_pc', q, "idle") /\ free_frames' = free_frames
           /\ Updates(pending, pending', q, pending[q] + 1)
        \/ /\ Updates(tx_pc, tx_pc', q, "idle") /\ free_frames' = free_frames + 1
           /\ UNCHANGED pending
    BY <1>5 DEF TxPreQueue, Goto, KeepFlow, FreeFrames, PktComplete, Updates
  <2>3. CASE /\ Updates(tx_pc, tx_pc', q, "idle") /\ free_frames' = free_frames
            /\ Updates(pending, pending', q, pending[q] + 1)
    <3>1. SumOf(pending', Queues) = SumOf(pending, Queues) + 1
      BY <1>0, <2>3, QueuesFinite, SumAdd
    <3>2. FrameMove(q, "idle", 1)
      BY <1>0, <2>1, <2>3, <3>1, InWithFrame DEF FrameMove
    <3> QED BY <3>2, InWithFrame, FrameSender
  <2>4. CASE /\ Updates(tx_pc, tx_pc', q, "idle") /\ free_frames' = free_frames + 1
            /\ UNCHANGED pending
    <3>1. SumOf(pending', Queues) = SumOf(pending, Queues) + 0
      BY <1>0, <2>4
    <3>2. FrameMove(q, "idle", 0)
      BY <1>0, <2>1, <2>4, <3>1, InWithFrame DEF FrameMove
    <3> QED BY <3>2, InWithFrame, FrameSender
  <2> QED BY <2>2, <2>3, <2>4
<1>6. ASSUME NEW q \in Queues, TxPreDirect(q) PROVE FrameSum'
  <2>1. UNCHANGED task_pc /\ tx_pc[q] = "pre"
    BY <1>6, Zenon DEF TxPreDirect, AllocBuf, Goto, At
  <2>2. /\ Updates(tx_pc, tx_pc', q, "write") /\ free_frames' = free_frames
        /\ UNCHANGED pending
    BY <1>6 DEF TxPreDirect, AllocBuf, Goto, Updates
  <2>3. SumOf(pending', Queues) = SumOf(pending, Queues) + 0
    BY <1>0, <2>2
  <2>4. FrameMove(q, "write", 0)
    BY <1>0, <2>1, <2>2, <2>3, InWithFrame DEF FrameMove
  <2> QED BY <2>4, InWithFrame, FrameSender
<1>7. ASSUME NEW q \in Queues, TxWrite(q) PROVE FrameSum'
  <2>1. UNCHANGED task_pc /\ tx_pc[q] = "write"
    BY <1>7, Zenon DEF TxWrite, Submit, SubmitFails, Goto, At
  <2>2. /\ Updates(tx_pc, tx_pc', q, "free") /\ free_frames' = free_frames
        /\ UNCHANGED pending
    BY <1>7 DEF TxWrite, Submit, SubmitFails, Goto, Updates
  <2>3. SumOf(pending', Queues) = SumOf(pending, Queues) + 0
    BY <1>0, <2>2
  <2>4. FrameMove(q, "free", 0)
    BY <1>0, <2>1, <2>2, <2>3, InWithFrame DEF FrameMove
  <2> QED BY <2>4, InWithFrame, FrameSender
<1>8. ASSUME NEW q \in Queues, TxFree(q) PROVE FrameSum'
  <2>1. UNCHANGED task_pc /\ tx_pc[q] = "free"
    BY <1>8, Zenon DEF TxFree, FreeFrames, PktComplete, Goto, At
  <2>2. /\ Updates(tx_pc, tx_pc', q, "idle") /\ free_frames' = free_frames + 1
        /\ UNCHANGED pending
    BY <1>8 DEF TxFree, FreeFrames, PktComplete, Goto, Updates
  <2>3. SumOf(pending', Queues) = SumOf(pending, Queues) + 0
    BY <1>0, <2>2
  <2>4. FrameMove(q, "idle", 0)
    BY <1>0, <2>1, <2>2, <2>3, InWithFrame DEF FrameMove
  <2> QED BY <2>4, InWithFrame, FrameSender
<1>9. CASE TaskRun
  BY <1>9, <1>0 DEF TaskRun, FrameSum, In
<1>10. CASE TaskBuf
  BY <1>10, <1>0 DEF TaskBuf, AllocBuf, FrameSum, In
<1>11. CASE TaskDequeue
  <2>1. tx_pc' = tx_pc /\ free_frames' = free_frames /\ task_pc = "dequeue"
    BY <1>11, Zenon DEF TaskDequeue
  <2>2. CASE UNCHANGED pending /\ task_pc' = "empty"
    BY <1>0, <2>1, <2>2 DEF FrameSum, In
  <2>3. ASSUME NEW q \in Queues, pending[q] > 0, task_pc' = "complete",
               pending' = [pending EXCEPT ![q] = pending[q] - 1]
        PROVE  FrameSum'
    <3> DEFINE d == 0 - 1
    <3>1. pending \in [Queues -> Int] /\ d \in Int
      BY DEF Types
    <3>2. Updates(pending, pending', q, pending[q] + d)
      <4>1. pending[q] \in Int
        BY <3>1
      <4>2. pending[q] + d = pending[q] - 1
        BY <4>1
      <4> QED BY <2>3, <4>2 DEF Updates
    <3>3. d = 0 - 1
      OBVIOUS
    <3> HIDE DEF d
    <3>4. SumOf(pending', Queues) = SumOf(pending, Queues) + d
      BY <3>1, <3>2, QueuesFinite, SumAdd
    <3> QED BY <1>0, <2>1, <2>3, <3>3, <3>4 DEF FrameSum, In
  <2> QED BY <1>11, <2>2, <2>3 DEF TaskDequeue
<1>12. CASE TaskEmpty
  BY <1>12, <1>0 DEF TaskEmpty, FrameSum, In
<1>13. CASE TaskComplete
  BY <1>13, <1>0 DEF TaskComplete, PktComplete, FrameSum, In
<1>14. CASE TaskWrite
  BY <1>14, <1>0 DEF TaskWrite, Submit, SubmitFails, FrameSum, In
<1>15. CASE TaskFree
  BY <1>15, <1>0 DEF TaskFree, FreeFrames, FrameSum, In
<1>16. CASE FreeSta
  <2>1. free_frames' = free_frames + SumOf(pending, Queues)
    BY <1>16 DEF FreeSta, FreeQueue, FreeFrames, SumOf
  <2>2. pending' = [q \in Queues |-> 0] /\ tx_pc' = tx_pc /\ task_pc' = task_pc
    BY <1>16 DEF FreeSta
  <2>3. SumOf(pending', Queues) = 0
    BY <2>2, QueuesFinite, SumZero
  <2> QED BY <1>0, <2>1, <2>2, <2>3 DEF FrameSum, In
<1>17. CASE SurveyBegin \/ LinkBegin \/ MlmeDone \/ MlmeTimeout
  <2>1. UNCHANGED <<free_frames, pending, tx_pc, task_pc>>
    BY <1>17, Zenon DEF SurveyBegin, LinkBegin, MlmeDone, MlmeTimeout
  <2> QED BY <2>1 DEF FrameSum
<1>18. CASE XmitSchedule \/ Stop \/ UNCHANGED vars
  <2>1. UNCHANGED <<free_frames, pending, tx_pc, task_pc>>
    BY <1>18, Zenon DEF XmitSchedule, Schedule, NoSchedule, Stop, vars
  <2> QED BY <2>1 DEF FrameSum
<1>19. ASSUME NEW ok \in BOOLEAN, UrbComplete(ok) PROVE FrameSum'
  <2>1. UNCHANGED <<free_frames, pending, tx_pc, task_pc>>
    BY <1>19, Zenon DEF UrbComplete, Schedule
  <2> QED BY <2>1 DEF FrameSum
<1> HIDE DEF FrameSum
<1> QED
  BY NextCases, <1>1, <1>2, <1>3, <1>4, <1>5, <1>6, <1>7, <1>8, <1>9, <1>10,
     <1>11, <1>12, <1>13, <1>14, <1>15, <1>16, <1>17, <1>18, <1>19

(* A sender has a buffer it has not submitted at one point only.           *)
LEMMA InWrite ==
  /\ \A l \in Points : l # "write" => In(l, WithBuf) = 0
  /\ "write" \in Points /\ "free" \in Points
  BY DEF In, Points, WithBuf

(* No step loses a buffer, or frees one twice.                             *)
LEMMA BufStep == BufSum /\ Types /\ [Next]_vars => BufSum'
<1> SUFFICES ASSUME BufSum, Types, [Next]_vars PROVE BufSum'
  OBVIOUS
<1> USE DEF pool_vars, task_vars, mlme_vars
<1>0. free_bufs \in Nat /\ inflight \in Nat /\ Count(tx_pc, WithBuf) \in Nat
  BY QueuesFinite, FS_Subset, FS_CardinalityType DEF Count, Types
<1>1. ASSUME NEW q \in Queues, TxCheck(q) PROVE BufSum'
  <2>1. UNCHANGED <<task_pc, free_bufs, inflight>> /\ tx_pc[q] = "idle"
    BY <1>1, Zenon DEF TxCheck, Goto, At
  <2>2. \E l \in Points : l # "write" /\ Updates(tx_pc, tx_pc', q, l)
    BY <1>1 DEF TxCheck, Goto, Updates, Points
  <2>3. PICK l \in Points : l # "write" /\ Updates(tx_pc, tx_pc', q, l)
    BY <2>2
  <2>4. In(l, WithBuf) = 0 /\ In(tx_pc[q], WithBuf) = 0
    BY <2>1, <2>3, InWrite DEF Points
  <2>5. BufMove(q, l)
    BY <1>0, <2>1, <2>3, <2>4 DEF BufMove
  <2> QED BY <2>5, BufSender
<1>2. ASSUME NEW q \in Queues, TxStop(q) PROVE BufSum'
  <2>1. UNCHANGED <<task_pc, free_bufs, inflight>> /\ tx_pc[q] = "stop"
    BY <1>2, Zenon DEF TxStop, Goto, At
  <2>2. \E l \in Points : l # "write" /\ Updates(tx_pc, tx_pc', q, l)
    BY <1>2 DEF TxStop, Goto, Updates, Points
  <2>3. PICK l \in Points : l # "write" /\ Updates(tx_pc, tx_pc', q, l)
    BY <2>2
  <2>4. In(l, WithBuf) = 0 /\ In(tx_pc[q], WithBuf) = 0
    BY <2>1, <2>3, InWrite DEF Points
  <2>5. BufMove(q, l)
    BY <1>0, <2>1, <2>3, <2>4 DEF BufMove
  <2> QED BY <2>5, BufSender
<1>3. ASSUME NEW q \in Queues, TxAlloc(q) PROVE BufSum'
  <2>1. UNCHANGED <<task_pc, free_bufs, inflight>> /\ tx_pc[q] = "alloc"
    BY <1>3, Zenon DEF TxAlloc, Drop, Goto, At
  <2>2. \E l \in Points : l # "write" /\ Updates(tx_pc, tx_pc', q, l)
    BY <1>3 DEF TxAlloc, Drop, Goto, Updates, Points
  <2>3. PICK l \in Points : l # "write" /\ Updates(tx_pc, tx_pc', q, l)
    BY <2>2
  <2>4. In(l, WithBuf) = 0 /\ In(tx_pc[q], WithBuf) = 0
    BY <2>1, <2>3, InWrite DEF Points
  <2>5. BufMove(q, l)
    BY <1>0, <2>1, <2>3, <2>4 DEF BufMove
  <2> QED BY <2>5, BufSender
<1>4. ASSUME NEW q \in Queues, TxAttrib(q) PROVE BufSum'
  <2>1. UNCHANGED <<task_pc, free_bufs, inflight>> /\ tx_pc[q] = "attrib"
    BY <1>4, Zenon DEF TxAttrib, AttribFails, FreeFrames, Drop, Goto, At
  <2>2. \E l \in Points : l # "write" /\ Updates(tx_pc, tx_pc', q, l)
    BY <1>4 DEF TxAttrib, AttribFails, FreeFrames, Drop, Goto, Updates, Points
  <2>3. PICK l \in Points : l # "write" /\ Updates(tx_pc, tx_pc', q, l)
    BY <2>2
  <2>4. In(l, WithBuf) = 0 /\ In(tx_pc[q], WithBuf) = 0
    BY <2>1, <2>3, InWrite DEF Points
  <2>5. BufMove(q, l)
    BY <1>0, <2>1, <2>3, <2>4 DEF BufMove
  <2> QED BY <2>5, BufSender
<1>5. ASSUME NEW q \in Queues, TxPreQueue(q) PROVE BufSum'
  <2>1. UNCHANGED <<task_pc, free_bufs, inflight>> /\ tx_pc[q] = "pre"
    BY <1>5, Zenon DEF TxPreQueue, Goto, KeepFlow, FreeFrames, PktComplete, At
  <2>2. \E l \in Points : l # "write" /\ Updates(tx_pc, tx_pc', q, l)
    BY <1>5 DEF TxPreQueue, Goto, KeepFlow, FreeFrames, PktComplete, Updates,
       Points
  <2>3. PICK l \in Points : l # "write" /\ Updates(tx_pc, tx_pc', q, l)
    BY <2>2
  <2>4. In(l, WithBuf) = 0 /\ In(tx_pc[q], WithBuf) = 0
    BY <2>1, <2>3, InWrite DEF Points
  <2>5. BufMove(q, l)
    BY <1>0, <2>1, <2>3, <2>4 DEF BufMove
  <2> QED BY <2>5, BufSender
<1>6. ASSUME NEW q \in Queues, TxPreDirect(q) PROVE BufSum'
  <2>1. UNCHANGED task_pc /\ tx_pc[q] = "pre"
    BY <1>6, Zenon DEF TxPreDirect, AllocBuf, Goto, At
  <2>2. Updates(tx_pc, tx_pc', q, "write")
    BY <1>6 DEF TxPreDirect, AllocBuf, Goto, Updates
  <2>3. In("write", WithBuf) = 1 /\ In(tx_pc[q], WithBuf) = 0
    BY <2>1 DEF In, WithBuf
  <2>4. free_bufs' = free_bufs - 1 /\ inflight' = inflight
    BY <1>6 DEF TxPreDirect, AllocBuf, Goto
  <2>5. BufMove(q, "write")
    BY <1>0, <2>1, <2>2, <2>3, <2>4 DEF BufMove
  <2> QED BY <2>5, InWrite, BufSender
<1>7. ASSUME NEW q \in Queues, TxWrite(q) PROVE BufSum'
  <2>1. UNCHANGED task_pc /\ tx_pc[q] = "write"
    BY <1>7, Zenon DEF TxWrite, Submit, SubmitFails, Goto, At
  <2>2. Updates(tx_pc, tx_pc', q, "free")
    BY <1>7 DEF TxWrite, Submit, SubmitFails, Goto, Updates
  <2>3. In("free", WithBuf) = 0 /\ In(tx_pc[q], WithBuf) = 1
    BY <2>1 DEF In, WithBuf
  <2>4. \/ free_bufs' = free_bufs /\ inflight' = inflight + 1
        \/ free_bufs' = free_bufs + 1 /\ inflight' = inflight
    BY <1>7 DEF TxWrite, Submit, SubmitFails, Goto
  <2>5. CASE free_bufs' = free_bufs /\ inflight' = inflight + 1
    <3>1. BufMove(q, "free")
      BY <1>0, <2>1, <2>2, <2>3, <2>5 DEF BufMove
    <3> QED BY <3>1, InWrite, BufSender
  <2>6. CASE free_bufs' = free_bufs + 1 /\ inflight' = inflight
    <3>1. BufMove(q, "free")
      BY <1>0, <2>1, <2>2, <2>3, <2>6 DEF BufMove
    <3> QED BY <3>1, InWrite, BufSender
  <2> QED BY <2>4, <2>5, <2>6
<1>8. ASSUME NEW q \in Queues, TxFree(q) PROVE BufSum'
  <2>1. UNCHANGED <<task_pc, free_bufs, inflight>> /\ tx_pc[q] = "free"
    BY <1>8, Zenon DEF TxFree, FreeFrames, PktComplete, Goto, At
  <2>2. \E l \in Points : l # "write" /\ Updates(tx_pc, tx_pc', q, l)
    BY <1>8 DEF TxFree, FreeFrames, PktComplete, Goto, Updates, Points
  <2>3. PICK l \in Points : l # "write" /\ Updates(tx_pc, tx_pc', q, l)
    BY <2>2
  <2>4. In(l, WithBuf) = 0 /\ In(tx_pc[q], WithBuf) = 0
    BY <2>1, <2>3, InWrite DEF Points
  <2>5. BufMove(q, l)
    BY <1>0, <2>1, <2>3, <2>4 DEF BufMove
  <2> QED BY <2>5, BufSender
<1>9. CASE TaskRun
  BY <1>9, <1>0 DEF TaskRun, BufSum, In
<1>10. CASE TaskBuf
  BY <1>10, <1>0 DEF TaskBuf, AllocBuf, BufSum, In
<1>11. CASE TaskDequeue
  BY <1>11, <1>0 DEF TaskDequeue, BufSum, In
<1>12. CASE TaskEmpty
  BY <1>12, <1>0 DEF TaskEmpty, BufSum, In
<1>13. CASE TaskComplete
  BY <1>13, <1>0 DEF TaskComplete, PktComplete, BufSum, In
<1>14. CASE TaskWrite
  BY <1>14, <1>0 DEF TaskWrite, Submit, SubmitFails, BufSum, In
<1>15. CASE TaskFree
  BY <1>15, <1>0 DEF TaskFree, FreeFrames, BufSum, In
<1>16. ASSUME NEW ok \in BOOLEAN, UrbComplete(ok) PROVE BufSum'
  BY <1>16, <1>0 DEF UrbComplete, Schedule, BufSum, In
<1>17. CASE SurveyBegin \/ LinkBegin \/ MlmeDone \/ MlmeTimeout
  <2>1. UNCHANGED <<free_bufs, inflight, tx_pc, task_pc>>
    BY <1>17, Zenon DEF SurveyBegin, LinkBegin, MlmeDone, MlmeTimeout
  <2> QED BY <2>1 DEF BufSum
<1>18. CASE XmitSchedule \/ FreeSta \/ Stop \/ UNCHANGED vars
  <2>1. UNCHANGED <<free_bufs, inflight, tx_pc, task_pc>>
    BY <1>18, Zenon DEF XmitSchedule, Schedule, NoSchedule, FreeSta, FreeQueue,
       FreeFrames, PktComplete, Stop, vars
  <2> QED BY <2>1 DEF BufSum
<1> HIDE DEF BufSum
<1> QED
  BY NextCases, <1>1, <1>2, <1>3, <1>4, <1>5, <1>6, <1>7, <1>8, <1>9, <1>10,
     <1>11, <1>12, <1>13, <1>14, <1>15, <1>16, <1>17, <1>18

(***************************************************************************)
(* The theorems.                                                           *)
(***************************************************************************)
(* The invariant holds at the start ...                                    *)
LEMMA InitInv == Init => IInv
<1> SUFFICES ASSUME Init PROVE IInv
  OBVIOUS
<1>1. Flags /\ Types
  <2>1. 1 \in Queues
    BY QueuesAssumption DEF Queues
  <2> QED BY <2>1, PoolAssumption DEF Init, Flags, Types, Points
<1>2. FrameSum /\ BufSum
  <2>1. SumOf(pending, Queues) = 0
    BY QueuesFinite, SumZero DEF Init
  <2>2. Count(tx_pc, WithFrame) = 0 /\ Count(tx_pc, WithBuf) = 0
    <3>1. {q \in Queues : tx_pc[q] \in WithFrame} = {} /\ {q \in Queues : tx_pc[q] \in WithBuf} = {}
      BY DEF Init, WithFrame, WithBuf
    <3> QED BY <3>1, FS_EmptySet DEF Count
  <2> QED BY <2>1, <2>2, PoolAssumption DEF Init, FrameSum, BufSum, In
<1>3. StoppedRestarts
  BY DEF Init, StoppedRestarts
<1> QED BY <1>1, <1>2, <1>3 DEF IInv

(* ... and every step keeps it.                                            *)
LEMMA StepInv == IInv /\ [Next]_vars => IInv'
  BY FlagsStep, TypesStep, FrameStep, BufStep, StoppedStep DEF IInv

(* The inductive invariant: types, the two sums, and StoppedRestarts.      *)
THEOREM Inductive == Spec => []IInv
  BY InitInv, StepInv, PTL DEF Spec

(* rtw_os_xmit_complete, rtw_check_xmit_resource: a subqueue that is       *)
(* stopped has a packet on its way that will wake it, unless the packet    *)
(* that stopped it was dropped.                                            *)
THEOREM StoppedRestartsHolds == Spec => []StoppedRestarts
<1>1. IInv => StoppedRestarts
  BY DEF IInv
<1> QED BY <1>1, Inductive, PTL

(* rtw_alloc_xmitframe, rtw_free_xmitframe, rtw_alloc_xmitbuf and          *)
(* rtw_free_xmitbuf: whatever fails on the way, every frame and every      *)
(* buffer is in exactly one place.                                         *)
THEOREM PoolsConservedHolds == Spec => []PoolsConserved
<1>1. ASSUME IInv PROVE PoolsConserved
  <2>1. /\ Busy({"attrib", "pre", "write", "free"}) = Count(tx_pc, WithFrame)
        /\ Busy({"write"}) = Count(tx_pc, WithBuf)
    BY DEF Busy, Count, WithFrame, WithBuf
  <2>2. /\ TaskHas({"complete", "write", "free"}) = In(task_pc, {"complete", "write", "free"})
        /\ TaskHas({"dequeue", "empty", "complete", "write"})
             = In(task_pc, {"dequeue", "empty", "complete", "write"})
    BY DEF TaskHas, In
  <2>3. /\ Count(tx_pc, WithFrame) \in Nat /\ Count(tx_pc, WithBuf) \in Nat
        /\ In(task_pc, {"complete", "write", "free"}) \in Nat
        /\ In(task_pc, {"dequeue", "empty", "complete", "write"}) \in Nat
    BY QueuesFinite, FS_Subset, FS_CardinalityType DEF Count, In
  <2>4. SumOf(pending, Queues) \in Nat /\ \A q \in Queues : pending[q] <= SumOf(pending, Queues)
    BY <1>1, QueuesAssumption, QueuesFinite, SumAtLeast DEF IInv, Types, Queues
  <2>5. /\ free_frames + SumOf(pending, Queues) + Count(tx_pc, WithFrame)
             + In(task_pc, {"complete", "write", "free"}) = NR_XMITFRAME
        /\ free_bufs + inflight + Count(tx_pc, WithBuf)
             + In(task_pc, {"dequeue", "empty", "complete", "write"}) = NR_XMITBUFF
    BY <1>1 DEF IInv, FrameSum, BufSum
  <2>6. TypeOK
    <3>1. free_frames \in Nat /\ free_bufs \in Nat /\ inflight \in Nat
          /\ pending \in [Queues -> Nat]
      BY <1>1 DEF IInv, Types
    <3>2. /\ free_frames \in 0 .. NR_XMITFRAME /\ free_bufs \in 0 .. NR_XMITBUFF
          /\ inflight \in 0 .. NR_XMITBUFF /\ SumOf(pending, Queues) <= NR_XMITFRAME
      BY <2>3, <2>4, <2>5, <3>1, PoolAssumption
    <3>3. \A q \in Queues : pending[q] \in 0 .. NR_XMITFRAME
      BY <2>4, <3>1, <3>2, PoolAssumption
    <3>4. pending \in [Queues -> 0 .. NR_XMITFRAME]
      BY <3>1, <3>3
    <3>5. {scheduled, survey, linking, drv_stopped, missed} \subseteq BOOLEAN
      BY <1>1, Zenon DEF IInv, Flags
    <3> QED BY <1>1, <3>2, <3>4, <3>5 DEF IInv, Types, Points, TypeOK
  <2> QED BY <2>1, <2>2, <2>5, <2>6 DEF PoolsConserved, SumOf
<1> QED BY <1>1, Inductive, PTL

-----------------------------------------------------------------------------
(***************************************************************************)
(* XmitAck.                                                                *)
(***************************************************************************)
BufTypes ==
  /\ free_ext \subseteq Bufs /\ leaked \subseteq Bufs
  /\ sctx \in [Bufs -> Senders \cup {NONE}]
  /\ owner \in [Bufs -> Senders \cup {NONE}]
  /\ urb \in [Bufs -> {"none", "submitted", "done"}]
WaitTypes ==
  /\ w_buf \in [Senders -> Bufs \cup {NONE}]
  /\ done \subseteq Senders /\ written \subseteq Senders
  /\ status \in [Senders -> {"none", "alloc", "submitted", "write_port_err",
                             "success", "timeout", "free"}]
PcType ==
  pc \in [Threads -> {"idle", "check", "xmit", "wait", "clear", "lock", "send",
                      "reset", "wait_ack", "success", "failed"}]
AckFlags == ack_tx \in BOOLEAN /\ late \in BOOLEAN /\ stopped \in BOOLEAN
AckTypes ==
  /\ mutex \in Ackers \cup {NONE}
  /\ ack_done \in Nat
  /\ due \subseteq 1 .. frame /\ acked \subseteq 1 .. frame

(* A frame number is reserved by whoever is on the way to send it.         *)
Reserving == {t \in Ackers : pc[t] \in {"lock", "send"}}
FrameInv == frame \in Nat /\ frame + Cardinality(Reserving) <= MaxFrames

(* A sender owns its buffer between the allocation and the submission.     *)
Holds(s) == pc[s] \in {"check", "xmit"}
PlaceInv ==
  /\ free_ext \cap leaked = {}
  /\ \A b \in free_ext \cup leaked : urb[b] = "none"
  /\ \A s \in Senders : Holds(s) =>
       /\ w_buf[s] \in Bufs \ (free_ext \cup leaked)
       /\ urb[w_buf[s]] = "none"
       /\ owner[w_buf[s]] = s
  /\ \A b \in Bufs : \/ b \in free_ext \cup leaked \/ urb[b] # "none"
                     \/ \E s \in Senders : Holds(s) /\ w_buf[s] = b

(* A buffer that points to a submit_ctx carries the frame of its sender.   *)
SctxInv ==
  \A b \in Bufs : sctx[b] # NONE =>
    /\ w_buf[sctx[b]] = b /\ pc[sctx[b]] \in {"xmit", "wait", "clear"}
    /\ b \notin free_ext
    /\ owner[b] = sctx[b]

StatusInv ==
  \A s \in Senders : pc[s] \in {"xmit", "wait", "clear"} /\ status[s] = "success" =>
    s \in written

(* ack_tx_mutex is held from AckLock to AckEnd.                            *)
MutexInv ==
  \A a \in Ackers : pc[a] \in {"send", "reset", "wait_ack", "success", "failed"}
                      <=> mutex = a

(* While no report is late only the last frame's can be on its way.        *)
Awaiting == \E a \in Ackers : pc[a] \in {"reset", "wait_ack"}
ReportInv ==
  ~late => /\ due \subseteq {frame}
           /\ due # {} \/ rpt # NONE => Awaiting
ResultInv ==
  \A a \in Ackers :
    \/ pc[a] = "success"
    \/ pc[a] = "wait_ack" /\ ack_status = "success"
    => frame \in acked \/ late

MgntIInv ==
  /\ BufTypes /\ WaitTypes /\ PcType /\ AckFlags /\ AckTypes
  /\ FrameInv /\ PlaceInv /\ SctxInv /\ StatusInv
  /\ MutexInv /\ ReportInv /\ ResultInv

-----------------------------------------------------------------------------
(* The step relation as the disjunction of its actions.                    *)
LEMMA MgntCases ==
  ASSUME [MgntNext]_mgnt_vars
  PROVE  \/ (\E s \in Senders : \E b \in Bufs : Alloc(s, b))
         \/ (\E s \in Senders : Check(s)) \/ (\E s \in Senders : Xmit(s))
         \/ (\E s \in Senders : \E timeout \in BOOLEAN : Wait(s, timeout))
         \/ (\E s \in Senders : Clear(s)) \/ (\E b \in Bufs : PlainXmit(b))
         \/ (\E b \in Bufs : \E ok \in BOOLEAN : UrbDone(b, ok))
         \/ (\E b \in Bufs : UrbFree(b)) \/ (\E a \in Ackers : AckCheck(a))
         \/ (\E a \in Ackers : AckLock(a)) \/ (\E a \in Ackers : AckSend(a))
         \/ (\E a \in Ackers : AckReset(a))
         \/ (\E a \in Ackers : \E timeout \in BOOLEAN : AckWait(a, timeout))
         \/ (\E a \in Ackers : AckEnd(a))
         \/ (\E f \in due : \E ok \in BOOLEAN : Report(f, ok))
         \/ (\E f \in due : ReportLost(f)) \/ ReportComplete \/ MgntStop
         \/ UNCHANGED mgnt_vars
  BY Zenon DEF MgntNext, SendSteps, AckSteps

(* Every step keeps the types of the buffers.                              *)
LEMMA BufTypesStep == BufTypes /\ PlaceInv /\ PcType /\ [MgntNext]_mgnt_vars => BufTypes'
<1> SUFFICES ASSUME BufTypes, PlaceInv, PcType, [MgntNext]_mgnt_vars PROVE BufTypes'
  OBVIOUS
<1> USE DEF BufTypes, PlaceInv, Holds, PcType, Threads, buf_vars, wait_vars,
   ack_vars
<1>1. ASSUME NEW s \in Senders, NEW b \in Bufs, Alloc(s, b) PROVE BufTypes'
  BY <1>1 DEF Alloc, SctxDone, MgntGoto
<1>2. ASSUME NEW s \in Senders, Check(s) PROVE BufTypes'
  BY <1>2 DEF Check, MgntGoto
<1>3. ASSUME NEW s \in Senders, Xmit(s) PROVE BufTypes'
  BY <1>3 DEF Xmit, MgntSubmit, SctxDone, MgntGoto
<1>4. ASSUME NEW s \in Senders, Clear(s) PROVE BufTypes'
  BY <1>4 DEF Clear, MgntGoto
<1>5. ASSUME NEW b \in Bufs, PlainXmit(b) PROVE BufTypes'
  BY <1>5 DEF PlainXmit, SctxDone, MgntSubmit
<1>6. ASSUME NEW b \in Bufs, NEW ok \in BOOLEAN, UrbDone(b, ok) PROVE BufTypes'
  BY <1>6 DEF UrbDone, SctxDone
<1>7. ASSUME NEW b \in Bufs, UrbFree(b) PROVE BufTypes'
  BY <1>7 DEF UrbFree, SctxDone
<1>8. ASSUME NEW s \in Senders, NEW timeout \in BOOLEAN, Wait(s, timeout) PROVE
   BufTypes'
  <2>1. UNCHANGED <<free_ext, leaked, sctx, owner, urb>>
    BY <1>8, Zenon DEF Wait, MgntGoto
  <2> QED BY <2>1
<1>9. ASSUME NEW a \in Ackers, AckCheck(a) \/ AckLock(a) \/ AckSend(a) \/
   AckReset(a) \/ AckEnd(a) PROVE BufTypes'
  <2>1. UNCHANGED <<free_ext, leaked, sctx, owner, urb>>
    BY <1>9, Zenon DEF AckCheck, MgntGoto, AckLock, AckSend, AckReset, AckEnd
  <2> QED BY <2>1
<1>10. ASSUME NEW a \in Ackers, NEW timeout \in BOOLEAN, AckWait(a, timeout)
   PROVE BufTypes'
  <2>1. UNCHANGED <<free_ext, leaked, sctx, owner, urb>>
    BY <1>10, Zenon DEF AckWait, MgntGoto
  <2> QED BY <2>1
<1>11. ASSUME NEW f \in due, NEW ok \in BOOLEAN, Report(f, ok) PROVE BufTypes'
  <2>1. UNCHANGED <<free_ext, leaked, sctx, owner, urb>>
    BY <1>11, Zenon DEF Report
  <2> QED BY <2>1
<1>12. ASSUME NEW f \in due, ReportLost(f) PROVE BufTypes'
  <2>1. UNCHANGED <<free_ext, leaked, sctx, owner, urb>>
    BY <1>12, Zenon DEF ReportLost
  <2> QED BY <2>1
<1>13. CASE ReportComplete \/ MgntStop \/ UNCHANGED mgnt_vars
  <2>1. UNCHANGED <<free_ext, leaked, sctx, owner, urb>>
    BY <1>13, Zenon DEF ReportComplete, MgntStop, mgnt_vars
  <2> QED BY <2>1
<1> HIDE DEF BufTypes
<1> QED
  BY MgntCases, <1>1, <1>2, <1>3, <1>4, <1>5, <1>6, <1>7, <1>8, <1>9, <1>10,
     <1>11, <1>12, <1>13

(* Every step keeps the types of the senders' state.                       *)
LEMMA WaitTypesStep ==
  WaitTypes /\ BufTypes /\ PlaceInv /\ [MgntNext]_mgnt_vars => WaitTypes'
<1> SUFFICES ASSUME WaitTypes, BufTypes, PlaceInv, [MgntNext]_mgnt_vars PROVE WaitTypes'
  OBVIOUS
<1> USE DEF WaitTypes, BufTypes, PlaceInv, Holds, buf_vars, wait_vars, ack_vars
<1>1. ASSUME NEW s \in Senders, NEW b \in Bufs, Alloc(s, b) PROVE WaitTypes'
  BY <1>1 DEF Alloc, SctxDone, MgntGoto
<1>2. ASSUME NEW s \in Senders, Check(s) PROVE WaitTypes'
  BY <1>2 DEF Check, MgntGoto
<1>3. ASSUME NEW s \in Senders, Xmit(s) PROVE WaitTypes'
  BY <1>3 DEF Xmit, MgntSubmit, SctxDone, MgntGoto
<1>4. ASSUME NEW s \in Senders, NEW timeout \in BOOLEAN, Wait(s, timeout) PROVE WaitTypes'
  BY <1>4 DEF Wait, MgntGoto
<1>5. ASSUME NEW b \in Bufs, PlainXmit(b) PROVE WaitTypes'
  BY <1>5 DEF PlainXmit, SctxDone, MgntSubmit
<1>6. ASSUME NEW b \in Bufs, NEW ok \in BOOLEAN, UrbDone(b, ok) PROVE WaitTypes'
  BY <1>6 DEF UrbDone, SctxDone
<1>7. ASSUME NEW b \in Bufs, UrbFree(b) PROVE WaitTypes'
  BY <1>7 DEF UrbFree, SctxDone
<1>8. ASSUME NEW s \in Senders, Clear(s) PROVE WaitTypes'
  <2>1. UNCHANGED <<w_buf, done, written, status>>
    BY <1>8, Zenon DEF Clear, MgntGoto
  <2> QED BY <2>1
<1>9. ASSUME NEW a \in Ackers, AckCheck(a) \/ AckLock(a) \/ AckSend(a) \/
   AckReset(a) \/ AckEnd(a) PROVE WaitTypes'
  <2>1. UNCHANGED <<w_buf, done, written, status>>
    BY <1>9, Zenon DEF AckCheck, MgntGoto, AckLock, AckSend, AckReset, AckEnd
  <2> QED BY <2>1
<1>10. ASSUME NEW a \in Ackers, NEW timeout \in BOOLEAN, AckWait(a, timeout)
   PROVE WaitTypes'
  <2>1. UNCHANGED <<w_buf, done, written, status>>
    BY <1>10, Zenon DEF AckWait, MgntGoto
  <2> QED BY <2>1
<1>11. ASSUME NEW f \in due, NEW ok \in BOOLEAN, Report(f, ok) PROVE WaitTypes'
  <2>1. UNCHANGED <<w_buf, done, written, status>>
    BY <1>11, Zenon DEF Report
  <2> QED BY <2>1
<1>12. ASSUME NEW f \in due, ReportLost(f) PROVE WaitTypes'
  <2>1. UNCHANGED <<w_buf, done, written, status>>
    BY <1>12, Zenon DEF ReportLost
  <2> QED BY <2>1
<1>13. CASE ReportComplete \/ MgntStop \/ UNCHANGED mgnt_vars
  <2>1. UNCHANGED <<w_buf, done, written, status>>
    BY <1>13, Zenon DEF ReportComplete, MgntStop, mgnt_vars
  <2> QED BY <2>1
<1> HIDE DEF WaitTypes
<1> QED
  BY MgntCases, <1>1, <1>2, <1>3, <1>4, <1>5, <1>6, <1>7, <1>8, <1>9, <1>10,
     <1>11, <1>12, <1>13

(* Every thread stays at one of its control points.                        *)
LEMMA PcStep == PcType /\ [MgntNext]_mgnt_vars => PcType'
<1> SUFFICES ASSUME PcType, [MgntNext]_mgnt_vars PROVE PcType'
  OBVIOUS
<1> USE DEF PcType, Threads, buf_vars, wait_vars, ack_vars
<1>1. ASSUME NEW s \in Senders, NEW b \in Bufs, Alloc(s, b) PROVE PcType'
  BY <1>1 DEF Alloc, SctxDone, MgntGoto
<1>2. ASSUME NEW s \in Senders, Check(s) PROVE PcType'
  BY <1>2 DEF Check, MgntGoto
<1>3. ASSUME NEW s \in Senders, Xmit(s) PROVE PcType'
  BY <1>3 DEF Xmit, MgntSubmit, SctxDone, MgntGoto
<1>4. ASSUME NEW s \in Senders, NEW timeout \in BOOLEAN, Wait(s, timeout) PROVE PcType'
  BY <1>4 DEF Wait, MgntGoto
<1>5. ASSUME NEW s \in Senders, Clear(s) PROVE PcType'
  BY <1>5 DEF Clear, MgntGoto
<1>6. ASSUME NEW a \in Ackers, AckCheck(a) PROVE PcType'
  BY <1>6 DEF AckCheck, MgntGoto
<1>7. ASSUME NEW a \in Ackers, AckLock(a) PROVE PcType'
  BY <1>7 DEF AckLock, MgntGoto
<1>8. ASSUME NEW a \in Ackers, AckSend(a) PROVE PcType'
  BY <1>8 DEF AckSend, MgntGoto
<1>9. ASSUME NEW a \in Ackers, AckReset(a) PROVE PcType'
  BY <1>9 DEF AckReset, MgntGoto
<1>10. ASSUME NEW a \in Ackers, NEW timeout \in BOOLEAN, AckWait(a, timeout) PROVE PcType'
  BY <1>10 DEF AckWait, MgntGoto
<1>11. ASSUME NEW a \in Ackers, AckEnd(a) PROVE PcType'
  BY <1>11 DEF AckEnd, MgntGoto
<1>12. ASSUME NEW b \in Bufs, PlainXmit(b) \/ UrbFree(b) PROVE PcType'
  <2>1. UNCHANGED pc
    BY <1>12, Zenon DEF PlainXmit, SctxDone, MgntSubmit, UrbFree
  <2> QED BY <2>1
<1>13. ASSUME NEW b \in Bufs, NEW ok \in BOOLEAN, UrbDone(b, ok) PROVE PcType'
  <2>1. UNCHANGED pc
    BY <1>13, Zenon DEF UrbDone, SctxDone
  <2> QED BY <2>1
<1>14. ASSUME NEW f \in due, NEW ok \in BOOLEAN, Report(f, ok) PROVE PcType'
  <2>1. UNCHANGED pc
    BY <1>14, Zenon DEF Report
  <2> QED BY <2>1
<1>15. ASSUME NEW f \in due, ReportLost(f) PROVE PcType'
  <2>1. UNCHANGED pc
    BY <1>15, Zenon DEF ReportLost
  <2> QED BY <2>1
<1>16. CASE ReportComplete \/ MgntStop \/ UNCHANGED mgnt_vars
  <2>1. UNCHANGED pc
    BY <1>16, Zenon DEF ReportComplete, MgntStop, mgnt_vars
  <2> QED BY <2>1
<1> HIDE DEF PcType
<1> QED
  BY MgntCases, <1>1, <1>2, <1>3, <1>4, <1>5, <1>6, <1>7, <1>8, <1>9, <1>10,
     <1>11, <1>12, <1>13, <1>14, <1>15, <1>16

(* Every step keeps the flags Boolean.                                     *)
LEMMA AckFlagsStep == AckFlags /\ [MgntNext]_mgnt_vars => AckFlags'
<1> SUFFICES ASSUME AckFlags, [MgntNext]_mgnt_vars PROVE AckFlags'
  OBVIOUS
<1> USE DEF AckFlags, buf_vars, wait_vars, ack_vars
<1>1. ASSUME NEW a \in Ackers, AckLock(a) PROVE AckFlags'
  BY <1>1, Zenon DEF AckLock, MgntGoto
<1>2. ASSUME NEW a \in Ackers, NEW timeout \in BOOLEAN, AckWait(a, timeout) PROVE AckFlags'
  BY <1>2, Zenon DEF AckWait, MgntGoto
<1>3. ASSUME NEW a \in Ackers, AckEnd(a) PROVE AckFlags'
  BY <1>3, Zenon DEF AckEnd, MgntGoto
<1>4. CASE MgntStop
  BY <1>4, Zenon DEF MgntStop
<1>5. ASSUME NEW s \in Senders, NEW b \in Bufs, Alloc(s, b) PROVE AckFlags'
  BY <1>5, Zenon DEF Alloc, SctxDone, MgntGoto
<1>6. ASSUME NEW s \in Senders, Check(s) \/ Xmit(s) \/ Clear(s) PROVE AckFlags'
  BY <1>6, Zenon DEF Check, MgntGoto, Xmit, MgntSubmit, SctxDone, Clear
<1>7. ASSUME NEW s \in Senders, NEW timeout \in BOOLEAN, Wait(s, timeout) PROVE
   AckFlags'
  BY <1>7, Zenon DEF Wait, MgntGoto
<1>8. ASSUME NEW b \in Bufs, PlainXmit(b) \/ UrbFree(b) PROVE AckFlags'
  BY <1>8, Zenon DEF PlainXmit, SctxDone, MgntSubmit, UrbFree
<1>9. ASSUME NEW b \in Bufs, NEW ok \in BOOLEAN, UrbDone(b, ok) PROVE AckFlags'
  BY <1>9, Zenon DEF UrbDone, SctxDone
<1>10. ASSUME NEW a \in Ackers, AckCheck(a) \/ AckSend(a) \/ AckReset(a) PROVE
   AckFlags'
  BY <1>10, Zenon DEF AckCheck, MgntGoto, AckSend, AckReset
<1>11. ASSUME NEW f \in due, NEW ok \in BOOLEAN, Report(f, ok) PROVE AckFlags'
  BY <1>11, Zenon DEF Report
<1>12. ASSUME NEW f \in due, ReportLost(f) PROVE AckFlags'
  BY <1>12, Zenon DEF ReportLost
<1>13. CASE ReportComplete \/ UNCHANGED mgnt_vars
  BY <1>13, Zenon DEF ReportComplete, mgnt_vars
<1> HIDE DEF AckFlags
<1> QED
  BY MgntCases, <1>1, <1>2, <1>3, <1>4, <1>5, <1>6, <1>7, <1>8, <1>9, <1>10,
     <1>11, <1>12, <1>13

(* Every step keeps the types of the acknowledgements' state.              *)
LEMMA AckTypesStep == AckTypes /\ frame \in Nat /\ [MgntNext]_mgnt_vars => AckTypes'
<1> SUFFICES ASSUME AckTypes, frame \in Nat, [MgntNext]_mgnt_vars PROVE AckTypes'
  OBVIOUS
<1> USE DEF AckTypes, buf_vars, wait_vars, ack_vars
<1>1. ASSUME NEW a \in Ackers, AckLock(a) PROVE AckTypes'
  BY <1>1 DEF AckLock, MgntGoto
<1>2. ASSUME NEW a \in Ackers, AckSend(a) PROVE AckTypes'
  BY <1>2 DEF AckSend, MgntGoto
<1>3. ASSUME NEW a \in Ackers, NEW timeout \in BOOLEAN, AckWait(a, timeout) PROVE AckTypes'
  BY <1>3 DEF AckWait, MgntGoto
<1>4. ASSUME NEW a \in Ackers, AckEnd(a) PROVE AckTypes'
  BY <1>4 DEF AckEnd, MgntGoto
<1>5. ASSUME NEW f \in due, NEW ok \in BOOLEAN, Report(f, ok) PROVE AckTypes'
  BY <1>5 DEF Report
<1>6. ASSUME NEW f \in due, ReportLost(f) PROVE AckTypes'
  BY <1>6 DEF ReportLost
<1>7. CASE ReportComplete
  BY <1>7 DEF ReportComplete
<1>8. CASE MgntStop
  BY <1>8 DEF MgntStop
<1>9. ASSUME NEW s \in Senders, NEW b \in Bufs, Alloc(s, b) PROVE AckTypes'
  <2>1. UNCHANGED <<mutex, ack_done, due, acked, frame>>
    BY <1>9, Zenon DEF Alloc, SctxDone, MgntGoto
  <2> QED BY <2>1
<1>10. ASSUME NEW s \in Senders, Check(s) \/ Xmit(s) \/ Clear(s) PROVE AckTypes'
  <2>1. UNCHANGED <<mutex, ack_done, due, acked, frame>>
    BY <1>10, Zenon DEF Check, MgntGoto, Xmit, MgntSubmit, SctxDone, Clear
  <2> QED BY <2>1
<1>11. ASSUME NEW s \in Senders, NEW timeout \in BOOLEAN, Wait(s, timeout) PROVE
   AckTypes'
  <2>1. UNCHANGED <<mutex, ack_done, due, acked, frame>>
    BY <1>11, Zenon DEF Wait, MgntGoto
  <2> QED BY <2>1
<1>12. ASSUME NEW b \in Bufs, PlainXmit(b) \/ UrbFree(b) PROVE AckTypes'
  <2>1. UNCHANGED <<mutex, ack_done, due, acked, frame>>
    BY <1>12, Zenon DEF PlainXmit, SctxDone, MgntSubmit, UrbFree
  <2> QED BY <2>1
<1>13. ASSUME NEW b \in Bufs, NEW ok \in BOOLEAN, UrbDone(b, ok) PROVE AckTypes'
  <2>1. UNCHANGED <<mutex, ack_done, due, acked, frame>>
    BY <1>13, Zenon DEF UrbDone, SctxDone
  <2> QED BY <2>1
<1>14. ASSUME NEW a \in Ackers, AckCheck(a) \/ AckReset(a) PROVE AckTypes'
  <2>1. UNCHANGED <<mutex, ack_done, due, acked, frame>>
    BY <1>14, Zenon DEF AckCheck, MgntGoto, AckReset
  <2> QED BY <2>1
<1>15. CASE UNCHANGED mgnt_vars
  <2>1. UNCHANGED <<mutex, ack_done, due, acked, frame>>
    BY <1>15, Zenon DEF mgnt_vars
  <2> QED BY <2>1
<1> HIDE DEF AckTypes
<1> QED
  BY MgntCases, <1>1, <1>2, <1>3, <1>4, <1>5, <1>6, <1>7, <1>8, <1>9, <1>10,
     <1>11, <1>12, <1>13, <1>14, <1>15

(* Every step leaves each buffer in one place.                             *)
LEMMA PlaceStep ==
  PlaceInv /\ SctxInv /\ BufTypes /\ WaitTypes /\ PcType /\ [MgntNext]_mgnt_vars => PlaceInv'
<1> SUFFICES ASSUME PlaceInv, SctxInv, BufTypes, WaitTypes, PcType, [MgntNext]_mgnt_vars PROVE PlaceInv'
  OBVIOUS
<1> USE NoneAssumption DEF PlaceInv, Holds, SctxInv, BufTypes, WaitTypes,
   PcType, Threads, buf_vars, wait_vars, ack_vars
<1>1. ASSUME NEW s \in Senders, NEW b \in Bufs, Alloc(s, b) PROVE PlaceInv'
  BY <1>1 DEF Alloc, SctxDone, MgntGoto
<1>2. ASSUME NEW s \in Senders, Check(s) PROVE PlaceInv'
  BY <1>2 DEF Check, MgntGoto
<1>3. ASSUME NEW s \in Senders, Xmit(s) PROVE PlaceInv'
  BY <1>3 DEF Xmit, MgntSubmit, SctxDone, MgntGoto
<1>4. ASSUME NEW s \in Senders, NEW timeout \in BOOLEAN, Wait(s, timeout) PROVE PlaceInv'
  BY <1>4 DEF Wait, MgntGoto
<1>5. ASSUME NEW s \in Senders, Clear(s) PROVE PlaceInv'
  BY <1>5 DEF Clear, MgntGoto
<1>6. ASSUME NEW b \in Bufs, PlainXmit(b) PROVE PlaceInv'
  BY <1>6 DEF PlainXmit, SctxDone, MgntSubmit
<1>7. ASSUME NEW b \in Bufs, NEW ok \in BOOLEAN, UrbDone(b, ok) PROVE PlaceInv'
  BY <1>7 DEF UrbDone, SctxDone
<1>8. ASSUME NEW b \in Bufs, UrbFree(b) PROVE PlaceInv'
  BY <1>8 DEF UrbFree, SctxDone
<1>9. ASSUME NEW a \in Ackers, AckCheck(a) PROVE PlaceInv'
  BY <1>9 DEF AckCheck, MgntGoto
<1>10. ASSUME NEW a \in Ackers, AckLock(a) PROVE PlaceInv'
  BY <1>10 DEF AckLock, MgntGoto
<1>11. ASSUME NEW a \in Ackers, AckSend(a) PROVE PlaceInv'
  BY <1>11 DEF AckSend, MgntGoto
<1>12. ASSUME NEW a \in Ackers, AckReset(a) PROVE PlaceInv'
  BY <1>12 DEF AckReset, MgntGoto
<1>13. ASSUME NEW a \in Ackers, NEW timeout \in BOOLEAN, AckWait(a, timeout) PROVE PlaceInv'
  BY <1>13 DEF AckWait, MgntGoto
<1>14. ASSUME NEW a \in Ackers, AckEnd(a) PROVE PlaceInv'
  BY <1>14 DEF AckEnd, MgntGoto
<1>15. ASSUME NEW f \in due, NEW ok \in BOOLEAN, Report(f, ok) PROVE PlaceInv'
  <2>1. UNCHANGED <<free_ext, leaked, urb, owner, w_buf, pc>>
    BY <1>15, Zenon DEF Report
  <2> QED BY <2>1
<1>16. ASSUME NEW f \in due, ReportLost(f) PROVE PlaceInv'
  <2>1. UNCHANGED <<free_ext, leaked, urb, owner, w_buf, pc>>
    BY <1>16, Zenon DEF ReportLost
  <2> QED BY <2>1
<1>17. CASE ReportComplete \/ MgntStop \/ UNCHANGED mgnt_vars
  <2>1. UNCHANGED <<free_ext, leaked, urb, owner, w_buf, pc>>
    BY <1>17, Zenon DEF ReportComplete, MgntStop, mgnt_vars
  <2> QED BY <2>1
<1> HIDE DEF PlaceInv
<1> QED
  BY MgntCases, <1>1, <1>2, <1>3, <1>4, <1>5, <1>6, <1>7, <1>8, <1>9, <1>10,
     <1>11, <1>12, <1>13, <1>14, <1>15, <1>16, <1>17

(* Every step keeps pointers to a submit_ctx in the buffer of its sender.  *)
LEMMA SctxStep ==
  SctxInv /\ PlaceInv /\ BufTypes /\ WaitTypes /\ PcType /\ [MgntNext]_mgnt_vars => SctxInv'
<1> SUFFICES ASSUME SctxInv, PlaceInv, BufTypes, WaitTypes, PcType, [MgntNext]_mgnt_vars PROVE SctxInv'
  OBVIOUS
<1> USE NoneAssumption DEF SctxInv, PlaceInv, Holds, BufTypes, WaitTypes,
   PcType, Threads, buf_vars, wait_vars, ack_vars
<1>1. ASSUME NEW s \in Senders, NEW b \in Bufs, Alloc(s, b) PROVE SctxInv'
  BY <1>1 DEF Alloc, SctxDone, MgntGoto
<1>2. ASSUME NEW s \in Senders, Check(s) PROVE SctxInv'
  BY <1>2 DEF Check, MgntGoto
<1>3. ASSUME NEW s \in Senders, Xmit(s) PROVE SctxInv'
  BY <1>3 DEF Xmit, MgntSubmit, SctxDone, MgntGoto
<1>4. ASSUME NEW s \in Senders, NEW timeout \in BOOLEAN, Wait(s, timeout) PROVE SctxInv'
  BY <1>4 DEF Wait, MgntGoto
<1>5. ASSUME NEW s \in Senders, Clear(s) PROVE SctxInv'
  BY <1>5 DEF Clear, MgntGoto
<1>6. ASSUME NEW b \in Bufs, PlainXmit(b) PROVE SctxInv'
  BY <1>6 DEF PlainXmit, SctxDone, MgntSubmit
<1>7. ASSUME NEW b \in Bufs, NEW ok \in BOOLEAN, UrbDone(b, ok) PROVE SctxInv'
  BY <1>7 DEF UrbDone, SctxDone
<1>8. ASSUME NEW b \in Bufs, UrbFree(b) PROVE SctxInv'
  BY <1>8 DEF UrbFree, SctxDone
<1>9. ASSUME NEW a \in Ackers, AckCheck(a) PROVE SctxInv'
  BY <1>9 DEF AckCheck, MgntGoto
<1>10. ASSUME NEW a \in Ackers, AckLock(a) PROVE SctxInv'
  BY <1>10 DEF AckLock, MgntGoto
<1>11. ASSUME NEW a \in Ackers, AckSend(a) PROVE SctxInv'
  BY <1>11 DEF AckSend, MgntGoto
<1>12. ASSUME NEW a \in Ackers, AckReset(a) PROVE SctxInv'
  BY <1>12 DEF AckReset, MgntGoto
<1>13. ASSUME NEW a \in Ackers, NEW timeout \in BOOLEAN, AckWait(a, timeout) PROVE SctxInv'
  BY <1>13 DEF AckWait, MgntGoto
<1>14. ASSUME NEW a \in Ackers, AckEnd(a) PROVE SctxInv'
  BY <1>14 DEF AckEnd, MgntGoto
<1>15. ASSUME NEW f \in due, NEW ok \in BOOLEAN, Report(f, ok) PROVE SctxInv'
  <2>1. UNCHANGED <<sctx, free_ext, owner, w_buf, pc>>
    BY <1>15, Zenon DEF Report
  <2> QED BY <2>1
<1>16. ASSUME NEW f \in due, ReportLost(f) PROVE SctxInv'
  <2>1. UNCHANGED <<sctx, free_ext, owner, w_buf, pc>>
    BY <1>16, Zenon DEF ReportLost
  <2> QED BY <2>1
<1>17. CASE ReportComplete \/ MgntStop \/ UNCHANGED mgnt_vars
  <2>1. UNCHANGED <<sctx, free_ext, owner, w_buf, pc>>
    BY <1>17, Zenon DEF ReportComplete, MgntStop, mgnt_vars
  <2> QED BY <2>1
<1> HIDE DEF SctxInv
<1> QED
  BY MgntCases, <1>1, <1>2, <1>3, <1>4, <1>5, <1>6, <1>7, <1>8, <1>9, <1>10,
     <1>11, <1>12, <1>13, <1>14, <1>15, <1>16, <1>17

(* A sender's status is success only by its own URB.                       *)
LEMMA StatusStep ==
  StatusInv /\ SctxInv /\ PlaceInv /\ BufTypes /\ WaitTypes /\ PcType /\ [MgntNext]_mgnt_vars => StatusInv'
<1> SUFFICES ASSUME StatusInv, SctxInv, PlaceInv, BufTypes, WaitTypes, PcType, [MgntNext]_mgnt_vars PROVE StatusInv'
  OBVIOUS
<1> USE NoneAssumption DEF StatusInv, SctxInv, PlaceInv, Holds, BufTypes,
   WaitTypes, PcType, Threads, buf_vars, wait_vars, ack_vars
<1>1. ASSUME NEW s \in Senders, NEW b \in Bufs, Alloc(s, b) PROVE StatusInv'
  BY <1>1 DEF Alloc, SctxDone, MgntGoto
<1>2. ASSUME NEW s \in Senders, Check(s) PROVE StatusInv'
  BY <1>2 DEF Check, MgntGoto
<1>3. ASSUME NEW s \in Senders, Xmit(s) PROVE StatusInv'
  BY <1>3 DEF Xmit, MgntSubmit, SctxDone, MgntGoto
<1>4. ASSUME NEW s \in Senders, NEW timeout \in BOOLEAN, Wait(s, timeout) PROVE StatusInv'
  BY <1>4 DEF Wait, MgntGoto
<1>5. ASSUME NEW s \in Senders, Clear(s) PROVE StatusInv'
  BY <1>5 DEF Clear, MgntGoto
<1>6. ASSUME NEW b \in Bufs, PlainXmit(b) PROVE StatusInv'
  BY <1>6 DEF PlainXmit, SctxDone, MgntSubmit
<1>7. ASSUME NEW b \in Bufs, NEW ok \in BOOLEAN, UrbDone(b, ok) PROVE StatusInv'
  BY <1>7 DEF UrbDone, SctxDone
<1>8. ASSUME NEW b \in Bufs, UrbFree(b) PROVE StatusInv'
  BY <1>8 DEF UrbFree, SctxDone
<1>9. ASSUME NEW a \in Ackers, AckCheck(a) PROVE StatusInv'
  BY <1>9 DEF AckCheck, MgntGoto
<1>10. ASSUME NEW a \in Ackers, AckLock(a) PROVE StatusInv'
  BY <1>10 DEF AckLock, MgntGoto
<1>11. ASSUME NEW a \in Ackers, AckSend(a) PROVE StatusInv'
  BY <1>11 DEF AckSend, MgntGoto
<1>12. ASSUME NEW a \in Ackers, AckReset(a) PROVE StatusInv'
  BY <1>12 DEF AckReset, MgntGoto
<1>13. ASSUME NEW a \in Ackers, NEW timeout \in BOOLEAN, AckWait(a, timeout) PROVE StatusInv'
  BY <1>13 DEF AckWait, MgntGoto
<1>14. ASSUME NEW a \in Ackers, AckEnd(a) PROVE StatusInv'
  BY <1>14 DEF AckEnd, MgntGoto
<1>15. ASSUME NEW f \in due, NEW ok \in BOOLEAN, Report(f, ok) PROVE StatusInv'
  <2>1. UNCHANGED <<status, written, pc>>
    BY <1>15, Zenon DEF Report
  <2> QED BY <2>1
<1>16. ASSUME NEW f \in due, ReportLost(f) PROVE StatusInv'
  <2>1. UNCHANGED <<status, written, pc>>
    BY <1>16, Zenon DEF ReportLost
  <2> QED BY <2>1
<1>17. CASE ReportComplete \/ MgntStop \/ UNCHANGED mgnt_vars
  <2>1. UNCHANGED <<status, written, pc>>
    BY <1>17, Zenon DEF ReportComplete, MgntStop, mgnt_vars
  <2> QED BY <2>1
<1> HIDE DEF StatusInv
<1> QED
  BY MgntCases, <1>1, <1>2, <1>3, <1>4, <1>5, <1>6, <1>7, <1>8, <1>9, <1>10,
     <1>11, <1>12, <1>13, <1>14, <1>15, <1>16, <1>17

(* ack_tx_mutex has at most one holder.                                    *)
LEMMA MutexStep == MutexInv /\ AckTypes /\ PcType /\ [MgntNext]_mgnt_vars => MutexInv'
<1> SUFFICES ASSUME MutexInv, AckTypes, PcType, [MgntNext]_mgnt_vars PROVE MutexInv'
  OBVIOUS
<1> USE NoneAssumption DEF MutexInv, AckTypes, PcType, Threads, buf_vars,
   wait_vars, ack_vars
<1>1. ASSUME NEW s \in Senders, NEW b \in Bufs, Alloc(s, b) PROVE MutexInv'
  BY <1>1 DEF Alloc, SctxDone, MgntGoto
<1>2. ASSUME NEW s \in Senders, Check(s) PROVE MutexInv'
  BY <1>2 DEF Check, MgntGoto
<1>3. ASSUME NEW s \in Senders, Xmit(s) PROVE MutexInv'
  BY <1>3 DEF Xmit, MgntSubmit, SctxDone, MgntGoto
<1>4. ASSUME NEW s \in Senders, NEW timeout \in BOOLEAN, Wait(s, timeout) PROVE MutexInv'
  BY <1>4 DEF Wait, MgntGoto
<1>5. ASSUME NEW s \in Senders, Clear(s) PROVE MutexInv'
  BY <1>5 DEF Clear, MgntGoto
<1>6. ASSUME NEW a \in Ackers, AckCheck(a) PROVE MutexInv'
  BY <1>6 DEF AckCheck, MgntGoto
<1>7. ASSUME NEW a \in Ackers, AckLock(a) PROVE MutexInv'
  BY <1>7 DEF AckLock, MgntGoto
<1>8. ASSUME NEW a \in Ackers, AckSend(a) PROVE MutexInv'
  BY <1>8 DEF AckSend, MgntGoto
<1>9. ASSUME NEW a \in Ackers, AckReset(a) PROVE MutexInv'
  BY <1>9 DEF AckReset, MgntGoto
<1>10. ASSUME NEW a \in Ackers, NEW timeout \in BOOLEAN, AckWait(a, timeout) PROVE MutexInv'
  BY <1>10 DEF AckWait, MgntGoto
<1>11. ASSUME NEW a \in Ackers, AckEnd(a) PROVE MutexInv'
  BY <1>11 DEF AckEnd, MgntGoto
<1>12. ASSUME NEW b \in Bufs, PlainXmit(b) \/ UrbFree(b) PROVE MutexInv'
  <2>1. UNCHANGED <<mutex, pc>>
    BY <1>12, Zenon DEF PlainXmit, SctxDone, MgntSubmit, UrbFree
  <2> QED BY <2>1
<1>13. ASSUME NEW b \in Bufs, NEW ok \in BOOLEAN, UrbDone(b, ok) PROVE MutexInv'
  <2>1. UNCHANGED <<mutex, pc>>
    BY <1>13, Zenon DEF UrbDone, SctxDone
  <2> QED BY <2>1
<1>14. ASSUME NEW f \in due, NEW ok \in BOOLEAN, Report(f, ok) PROVE MutexInv'
  <2>1. UNCHANGED <<mutex, pc>>
    BY <1>14, Zenon DEF Report
  <2> QED BY <2>1
<1>15. ASSUME NEW f \in due, ReportLost(f) PROVE MutexInv'
  <2>1. UNCHANGED <<mutex, pc>>
    BY <1>15, Zenon DEF ReportLost
  <2> QED BY <2>1
<1>16. CASE ReportComplete \/ MgntStop \/ UNCHANGED mgnt_vars
  <2>1. UNCHANGED <<mutex, pc>>
    BY <1>16, Zenon DEF ReportComplete, MgntStop, mgnt_vars
  <2> QED BY <2>1
<1> HIDE DEF MutexInv
<1> QED
  BY MgntCases, <1>1, <1>2, <1>3, <1>4, <1>5, <1>6, <1>7, <1>8, <1>9, <1>10,
     <1>11, <1>12, <1>13, <1>14, <1>15, <1>16

(* A report that is not late is about the last frame.                      *)
LEMMA ReportStep ==
  ReportInv /\ MutexInv /\ AckTypes /\ PcType /\ [MgntNext]_mgnt_vars => ReportInv'
<1> SUFFICES ASSUME ReportInv, MutexInv, AckTypes, PcType, [MgntNext]_mgnt_vars PROVE ReportInv'
  OBVIOUS
<1> USE NoneAssumption DEF ReportInv, Awaiting, MutexInv, AckTypes, PcType,
   Threads, buf_vars, wait_vars, ack_vars
<1>1. ASSUME NEW s \in Senders, NEW b \in Bufs, Alloc(s, b) PROVE ReportInv'
  BY <1>1 DEF Alloc, SctxDone, MgntGoto
<1>2. ASSUME NEW s \in Senders, Check(s) PROVE ReportInv'
  BY <1>2 DEF Check, MgntGoto
<1>3. ASSUME NEW s \in Senders, Xmit(s) PROVE ReportInv'
  BY <1>3 DEF Xmit, MgntSubmit, SctxDone, MgntGoto
<1>4. ASSUME NEW s \in Senders, NEW timeout \in BOOLEAN, Wait(s, timeout) PROVE ReportInv'
  BY <1>4 DEF Wait, MgntGoto
<1>5. ASSUME NEW s \in Senders, Clear(s) PROVE ReportInv'
  BY <1>5 DEF Clear, MgntGoto
<1>6. ASSUME NEW a \in Ackers, AckCheck(a) PROVE ReportInv'
  BY <1>6 DEF AckCheck, MgntGoto
<1>7. ASSUME NEW a \in Ackers, AckLock(a) PROVE ReportInv'
  BY <1>7 DEF AckLock, MgntGoto
<1>8. ASSUME NEW a \in Ackers, AckSend(a) PROVE ReportInv'
  BY <1>8 DEF AckSend, MgntGoto
<1>9. ASSUME NEW a \in Ackers, AckReset(a) PROVE ReportInv'
  BY <1>9 DEF AckReset, MgntGoto
<1>10. ASSUME NEW a \in Ackers, NEW timeout \in BOOLEAN, AckWait(a, timeout) PROVE ReportInv'
  BY <1>10 DEF AckWait, MgntGoto
<1>11. ASSUME NEW a \in Ackers, AckEnd(a) PROVE ReportInv'
  BY <1>11 DEF AckEnd, MgntGoto
<1>12. ASSUME NEW f \in due, NEW ok \in BOOLEAN, Report(f, ok) PROVE ReportInv'
  BY <1>12 DEF Report
<1>13. ASSUME NEW f \in due, ReportLost(f) PROVE ReportInv'
  BY <1>13 DEF ReportLost
<1>14. CASE ReportComplete
  BY <1>14 DEF ReportComplete
<1>15. ASSUME NEW b \in Bufs, PlainXmit(b) \/ UrbFree(b) PROVE ReportInv'
  <2>1. UNCHANGED <<late, due, frame, rpt, pc>>
    BY <1>15, Zenon DEF PlainXmit, SctxDone, MgntSubmit, UrbFree
  <2> QED BY <2>1
<1>16. ASSUME NEW b \in Bufs, NEW ok \in BOOLEAN, UrbDone(b, ok) PROVE
   ReportInv'
  <2>1. UNCHANGED <<late, due, frame, rpt, pc>>
    BY <1>16, Zenon DEF UrbDone, SctxDone
  <2> QED BY <2>1
<1>17. CASE MgntStop \/ UNCHANGED mgnt_vars
  <2>1. UNCHANGED <<late, due, frame, rpt, pc>>
    BY <1>17, Zenon DEF MgntStop, mgnt_vars
  <2> QED BY <2>1
<1> HIDE DEF ReportInv
<1> QED
  BY MgntCases, <1>1, <1>2, <1>3, <1>4, <1>5, <1>6, <1>7, <1>8, <1>9, <1>10,
     <1>11, <1>12, <1>13, <1>14, <1>15, <1>16, <1>17

(* A sender is told of success only for an acknowledged frame.             *)
LEMMA ResultStep ==
  ResultInv /\ ReportInv /\ MutexInv /\ PcType /\ [MgntNext]_mgnt_vars => ResultInv'
<1> SUFFICES ASSUME ResultInv, ReportInv, MutexInv, PcType, [MgntNext]_mgnt_vars PROVE ResultInv'
  OBVIOUS
<1> USE NoneAssumption DEF ResultInv, ReportInv, MutexInv, PcType, Threads,
   buf_vars, wait_vars, ack_vars
<1>1. ASSUME NEW s \in Senders, NEW b \in Bufs, Alloc(s, b) PROVE ResultInv'
  BY <1>1 DEF Alloc, SctxDone, MgntGoto
<1>2. ASSUME NEW s \in Senders, Check(s) PROVE ResultInv'
  BY <1>2 DEF Check, MgntGoto
<1>3. ASSUME NEW s \in Senders, Xmit(s) PROVE ResultInv'
  BY <1>3 DEF Xmit, MgntSubmit, SctxDone, MgntGoto
<1>4. ASSUME NEW s \in Senders, NEW timeout \in BOOLEAN, Wait(s, timeout) PROVE ResultInv'
  BY <1>4 DEF Wait, MgntGoto
<1>5. ASSUME NEW s \in Senders, Clear(s) PROVE ResultInv'
  BY <1>5 DEF Clear, MgntGoto
<1>6. ASSUME NEW a \in Ackers, AckCheck(a) PROVE ResultInv'
  BY <1>6 DEF AckCheck, MgntGoto
<1>7. ASSUME NEW a \in Ackers, AckLock(a) PROVE ResultInv'
  BY <1>7 DEF AckLock, MgntGoto
<1>8. ASSUME NEW a \in Ackers, AckSend(a) PROVE ResultInv'
  BY <1>8 DEF AckSend, MgntGoto
<1>9. ASSUME NEW a \in Ackers, AckReset(a) PROVE ResultInv'
  BY <1>9 DEF AckReset, MgntGoto
<1>10. ASSUME NEW a \in Ackers, NEW timeout \in BOOLEAN, AckWait(a, timeout) PROVE ResultInv'
  BY <1>10 DEF AckWait, MgntGoto
<1>11. ASSUME NEW a \in Ackers, AckEnd(a) PROVE ResultInv'
  BY <1>11 DEF AckEnd, MgntGoto
<1>12. ASSUME NEW f \in due, NEW ok \in BOOLEAN, Report(f, ok) PROVE ResultInv'
  BY <1>12 DEF Report
<1>13. CASE MgntStop
  BY <1>13 DEF MgntStop
<1>14. ASSUME NEW b \in Bufs, PlainXmit(b) \/ UrbFree(b) PROVE ResultInv'
  <2>1. UNCHANGED <<late, acked, frame, ack_status, pc>>
    BY <1>14, Zenon DEF PlainXmit, SctxDone, MgntSubmit, UrbFree
  <2> QED BY <2>1
<1>15. ASSUME NEW b \in Bufs, NEW ok \in BOOLEAN, UrbDone(b, ok) PROVE
   ResultInv'
  <2>1. UNCHANGED <<late, acked, frame, ack_status, pc>>
    BY <1>15, Zenon DEF UrbDone, SctxDone
  <2> QED BY <2>1
<1>16. ASSUME NEW f \in due, ReportLost(f) PROVE ResultInv'
  <2>1. UNCHANGED <<late, acked, frame, ack_status, pc>>
    BY <1>16, Zenon DEF ReportLost
  <2> QED BY <2>1
<1>17. CASE ReportComplete \/ UNCHANGED mgnt_vars
  <2>1. UNCHANGED <<late, acked, frame, ack_status, pc>>
    BY <1>17, Zenon DEF ReportComplete, mgnt_vars
  <2> QED BY <2>1
<1> HIDE DEF ResultInv
<1> QED
  BY MgntCases, <1>1, <1>2, <1>3, <1>4, <1>5, <1>6, <1>7, <1>8, <1>9, <1>10,
     <1>11, <1>12, <1>13, <1>14, <1>15, <1>16, <1>17

(* The bound on the number of frames is kept.                              *)
LEMMA MgntFrameStep == FrameInv /\ PcType /\ [MgntNext]_mgnt_vars => FrameInv'
<1> SUFFICES ASSUME FrameInv, PcType, [MgntNext]_mgnt_vars PROVE FrameInv'
  OBVIOUS
<1> USE FramesAssumption DEF FrameInv, Reserving, PcType, Threads, buf_vars,
   wait_vars, ack_vars
<1>0. IsFiniteSet(Reserving) /\ Cardinality(Reserving) \in Nat
  BY FS_Subset, FS_CardinalityType
<1>1. ASSUME NEW s \in Senders, NEW b \in Bufs, Alloc(s, b) PROVE FrameInv'
  BY <1>1 DEF Alloc, SctxDone, MgntGoto
<1>2. ASSUME NEW s \in Senders, Check(s) PROVE FrameInv'
  BY <1>2 DEF Check, MgntGoto
<1>3. ASSUME NEW s \in Senders, Xmit(s) PROVE FrameInv'
  BY <1>3 DEF Xmit, MgntSubmit, SctxDone, MgntGoto
<1>4. ASSUME NEW s \in Senders, NEW timeout \in BOOLEAN, Wait(s, timeout) PROVE FrameInv'
  BY <1>4 DEF Wait, MgntGoto
<1>5. ASSUME NEW s \in Senders, Clear(s) PROVE FrameInv'
  BY <1>5 DEF Clear, MgntGoto
<1>6. ASSUME NEW a \in Ackers, AckCheck(a) PROVE FrameInv'
  <2>1. Reserving' = Reserving \cup {a} /\ a \notin Reserving
    BY <1>6 DEF AckCheck, MgntGoto
  <2>2. Cardinality(Reserving') = Cardinality(Reserving) + 1
    BY <1>0, <2>1, FS_AddElement
  <2>3. frame' = frame /\ frame + Cardinality(Reserving) < MaxFrames
    BY <1>6 DEF AckCheck
  <2> QED BY <1>0, <2>2, <2>3
<1>7. ASSUME NEW a \in Ackers, AckLock(a) PROVE FrameInv'
  BY <1>7 DEF AckLock, MgntGoto
<1>8. ASSUME NEW a \in Ackers, AckSend(a) PROVE FrameInv'
  <2>1. Reserving' = Reserving \ {a} /\ a \in Reserving
    BY <1>8 DEF AckSend, MgntGoto
  <2>2. Cardinality(Reserving') = Cardinality(Reserving) - 1
    BY <1>0, <2>1, FS_RemoveElement
  <2>3. frame' = frame + 1
    BY <1>8 DEF AckSend
  <2> HIDE DEF Reserving
  <2> QED BY <1>0, <2>2, <2>3
<1>9. ASSUME NEW a \in Ackers, AckReset(a) PROVE FrameInv'
  BY <1>9 DEF AckReset, MgntGoto
<1>10. ASSUME NEW a \in Ackers, NEW timeout \in BOOLEAN, AckWait(a, timeout) PROVE FrameInv'
  BY <1>10 DEF AckWait, MgntGoto
<1>11. ASSUME NEW a \in Ackers, AckEnd(a) PROVE FrameInv'
  BY <1>11 DEF AckEnd, MgntGoto
<1>12. ASSUME NEW b \in Bufs, PlainXmit(b) \/ UrbFree(b) PROVE FrameInv'
  <2>1. UNCHANGED <<frame, pc>>
    BY <1>12, Zenon DEF PlainXmit, SctxDone, MgntSubmit, UrbFree
  <2> QED BY <2>1
<1>13. ASSUME NEW b \in Bufs, NEW ok \in BOOLEAN, UrbDone(b, ok) PROVE FrameInv'
  <2>1. UNCHANGED <<frame, pc>>
    BY <1>13, Zenon DEF UrbDone, SctxDone
  <2> QED BY <2>1
<1>14. ASSUME NEW f \in due, NEW ok \in BOOLEAN, Report(f, ok) PROVE FrameInv'
  <2>1. UNCHANGED <<frame, pc>>
    BY <1>14, Zenon DEF Report
  <2> QED BY <2>1
<1>15. ASSUME NEW f \in due, ReportLost(f) PROVE FrameInv'
  <2>1. UNCHANGED <<frame, pc>>
    BY <1>15, Zenon DEF ReportLost
  <2> QED BY <2>1
<1>16. CASE ReportComplete \/ MgntStop \/ UNCHANGED mgnt_vars
  <2>1. UNCHANGED <<frame, pc>>
    BY <1>16, Zenon DEF ReportComplete, MgntStop, mgnt_vars
  <2> QED BY <2>1
<1> HIDE DEF FrameInv
<1> QED
  BY MgntCases, <1>1, <1>2, <1>3, <1>4, <1>5, <1>6, <1>7, <1>8, <1>9, <1>10,
     <1>11, <1>12, <1>13, <1>14, <1>15, <1>16

-----------------------------------------------------------------------------
(* The initial state satisfies the invariant.                              *)
LEMMA MgntInitInv == MgntInit => MgntIInv
<1> SUFFICES ASSUME MgntInit PROVE MgntIInv
  OBVIOUS
<1> USE NoneAssumption DEF MgntInit, Threads
<1>1. BufTypes /\ WaitTypes /\ PcType
  BY DEF BufTypes, WaitTypes, PcType
<1>2. AckFlags
  BY Zenon DEF AckFlags
<1>3. AckTypes
  BY DEF AckTypes
<1>4. FrameInv
  <2>1. Reserving = {}
    BY DEF Reserving
  <2> QED BY <2>1, FS_EmptySet, FramesAssumption DEF FrameInv
<1>5. PlaceInv /\ SctxInv /\ StatusInv
  BY DEF PlaceInv, Holds, SctxInv, StatusInv
<1>6. MutexInv /\ ReportInv /\ ResultInv
  BY DEF MutexInv, ReportInv, ResultInv
<1> QED BY <1>1, <1>2, <1>3, <1>4, <1>5, <1>6 DEF MgntIInv

(* Every step keeps the invariant.                                         *)
LEMMA MgntStepInv == MgntIInv /\ [MgntNext]_mgnt_vars => MgntIInv'
<1> SUFFICES ASSUME MgntIInv, [MgntNext]_mgnt_vars PROVE MgntIInv'
  OBVIOUS
<1>1. BufTypes' /\ WaitTypes' /\ PcType' /\ AckFlags'
  BY BufTypesStep, WaitTypesStep, PcStep, AckFlagsStep DEF MgntIInv
<1>2. FrameInv' /\ AckTypes'
  BY MgntFrameStep, AckTypesStep DEF MgntIInv, FrameInv
<1>3. PlaceInv' /\ SctxInv' /\ StatusInv'
  BY PlaceStep, SctxStep, StatusStep DEF MgntIInv
<1>4. MutexInv' /\ ReportInv' /\ ResultInv'
  BY MutexStep, ReportStep, ResultStep DEF MgntIInv
<1> QED BY <1>1, <1>2, <1>3, <1>4 DEF MgntIInv

(* The invariant holds at every state of every behaviour.                  *)
THEOREM MgntInductive == MgntSpec => []MgntIInv
  BY MgntInitInv, MgntStepInv, PTL DEF MgntSpec

(* rtw_sctx_wait, rtw_sctx_done_err: no buffer points to the submit_ctx on *)
(* the stack of a sender that has returned, and no free buffer to any.     *)
THEOREM NoDanglingSctxHolds == MgntSpec => []NoDanglingSctx
<1>1. MgntIInv => NoDanglingSctx
  BY DEF MgntIInv, SctxInv, NoDanglingSctx
<1> QED BY <1>1, MgntInductive, PTL

(* usb_write_port_complete and dump_mgntframe_and_wait: a sender is told   *)
(* of success only if its own URB succeeded, however buffers are reused    *)
(* while it has yet to wake up.                                            *)
THEOREM WriteTruthfulHolds == MgntSpec => []WriteTruthful
<1>1. MgntIInv => WriteTruthful
  BY DEF MgntIInv, StatusInv, WriteTruthful
<1> QED BY <1>1, MgntInductive, PTL

(* handle_txrpt_ccx_8723a and rtw_ack_tx_wait: a sender is told of success *)
(* only if the peer acknowledged the last frame sent, unless some report   *)
(* has outlived its wait.                                                  *)
THEOREM AckTruthfulHolds == MgntSpec => []AckTruthful
<1>1. MgntIInv => AckTruthful
  BY DEF MgntIInv, ResultInv, AckTruthful
<1> QED BY <1>1, MgntInductive, PTL

(* One of four mutually exclusive conditions, counted as in                *)
(* ExtBufsConserved.                                                       *)
LEMMA OneOfFour ==
  ASSUME NEW p \in Seq(BOOLEAN), NEW k \in 1 .. 4, p[k],
         \A i \in 1 .. 4 : p[i] => i = k
  PROVE  Cardinality({i \in 1 .. 4 : p[i]}) = 1
<1>1. {i \in 1 .. 4 : p[i]} = {k}
  OBVIOUS
<1> QED BY <1>1, FS_Singleton

(* rtw_alloc_xmitbuf_ext, rtw_free_xmitbuf_ext and usb_write_port: every   *)
(* buffer is in the pool, with one sender, in a URB or leaked by a refused *)
(* send, and never in two of these places.                                 *)
THEOREM ExtBufsConservedHolds == MgntSpec => []ExtBufsConserved
<1>1. ASSUME MgntIInv PROVE MgntTypeOK
  <2>1. frame \in 0 .. MaxFrames
    <3>1. IsFiniteSet(Reserving)
      BY FramesAssumption, FS_Subset DEF Reserving
    <3>2. Cardinality(Reserving) \in Nat
      BY <3>1, FS_CardinalityType
    <3> QED BY <1>1, <3>2, FramesAssumption DEF MgntIInv, FrameInv
  <2>2. due \subseteq 1 .. MaxFrames /\ acked \subseteq 1 .. MaxFrames
    BY <1>1, <2>1, FramesAssumption DEF MgntIInv, AckTypes
  <2>3. {ack_tx, late, stopped} \subseteq BOOLEAN
    BY <1>1, Zenon DEF MgntIInv, AckFlags
  <2> QED BY <1>1, <2>1, <2>2, <2>3
          DEF MgntIInv, BufTypes, WaitTypes, PcType, AckTypes, MgntTypeOK
<1>2. ASSUME MgntIInv, NEW b \in Bufs PROVE
        LET senders == {s \in Senders : pc[s] \in {"check", "xmit"} /\ w_buf[s] = b}
            places == <<b \in free_ext, b \in leaked, urb[b] # "none", senders # {}>>
        IN Cardinality(senders) <= 1 /\ Cardinality({i \in 1 .. 4 : places[i]}) = 1
  <2> DEFINE senders == {s \in Senders : pc[s] \in {"check", "xmit"} /\ w_buf[s] = b}
             places == <<b \in free_ext, b \in leaked, urb[b] # "none", senders # {}>>
  <2>1. \A s, t \in senders : s = t
    BY <1>2 DEF MgntIInv, PlaceInv, Holds
  <2>2. Cardinality(senders) <= 1
    <3>1. CASE senders = {} BY <3>1, FS_EmptySet
    <3>2. CASE senders # {}
      <4>1. PICK s \in senders : TRUE BY <3>2
      <4>2. senders = {s} BY <2>1, <4>1
      <4>3. Cardinality({s}) = 1 BY FS_Singleton
      <4> QED BY <4>2, <4>3
    <3> QED BY <3>1, <3>2
  <2>3. \A s \in senders : b \in Bufs \ (free_ext \cup leaked) /\ urb[b] = "none"
    BY <1>2 DEF MgntIInv, PlaceInv, Holds
  <2>4. /\ ~(b \in free_ext /\ b \in leaked)
        /\ b \in free_ext \cup leaked => urb[b] = "none"
        /\ b \in free_ext \cup leaked \/ urb[b] # "none" \/ senders # {}
    BY <1>2 DEF MgntIInv, PlaceInv, Holds
  <2>5. Cardinality({i \in 1 .. 4 : places[i]}) = 1
    <3>1. places \in Seq(BOOLEAN) OBVIOUS
    <3>2. /\ places[1] <=> b \in free_ext
          /\ places[2] <=> b \in leaked
          /\ places[3] <=> urb[b] # "none"
          /\ places[4] <=> senders # {}
      OBVIOUS
    <3> HIDE DEF places, senders
    <3>3. CASE b \in free_ext
      BY <2>3, <2>4, <3>1, <3>2, <3>3, OneOfFour
    <3>4. CASE b \in leaked
      BY <2>3, <2>4, <3>1, <3>2, <3>4, OneOfFour
    <3>5. CASE urb[b] # "none"
      BY <2>3, <2>4, <3>1, <3>2, <3>5, OneOfFour
    <3>6. CASE senders # {}
      BY <2>3, <2>4, <3>1, <3>2, <3>6, OneOfFour
    <3> QED BY <2>4, <3>3, <3>4, <3>5, <3>6
  <2> QED BY <2>2, <2>5
<1>3. MgntIInv => ExtBufsConserved
  BY <1>1, <1>2 DEF ExtBufsConserved
<1> QED BY <1>3, MgntInductive, PTL

=============================================================================
