--------------------------- MODULE C2hQueueProofs ---------------------------
(***************************************************************************)
(* Proofs about C2hQueue, for a ring of any size, any number of events and *)
(* any burst of the firmware.                                              *)
(*                                                                         *)
(* What is on its way to the handler is the entry the worker holds, the    *)
(* ring from read to write, and the event of the completion.  The          *)
(* invariant bounds each event by its distance from the end of this line   *)
(* (OrderInv): at most sent, less the number of those behind it.  That is  *)
(* what makes a late read of the mailbox (a NULL entry) come after all     *)
(* that was handled before.                                                *)
(***************************************************************************)
EXTENDS C2hQueue, TLAPS

(* The slot i places after slot r.                                         *)
Slot(r, i) == IF r + i < Size THEN r + i ELSE r + i - Size
At(i) == bufs[Slot(read, i)]

InFlight == irq_pc \in {"check", "push", "bump"}
InHand == wk_pc \in {"clear", "handle", "pass", "enqueue"}
Flying == IF InFlight THEN 1 ELSE 0
Taken == IF InHand THEN 1 ELSE 0

Flags ==
  /\ lost \in BOOLEAN /\ gated \in BOOLEAN /\ work \in BOOLEAN
  /\ stopped \in BOOLEAN /\ down \in BOOLEAN
Types ==
  /\ bufs \in [0 .. Size - 1 -> -1 .. MaxEvents]
  /\ read \in 0 .. Size - 1 /\ write \in 0 .. Size - 1 /\ stored \in Int
  /\ mailbox \in {"host", "fw"} /\ sent \in 0 .. MaxEvents
  /\ irq_pc \in {"idle", "check", "push", "bump", "sched"}
  /\ ev \in 0 .. MaxEvents /\ ev_kind \in {"ccx", "normal", "nomem"}
  /\ wk_pc \in {"idle", "test", "end", "pop", "bump", "clear", "handle",
               "pass", "enqueue"}
  /\ got \in -1 .. MaxEvents
  /\ live \subseteq 0 .. MaxEvents
PostInv ==
  /\ mailbox = "fw" => sent > 0
  /\ InFlight => ev = sent /\ sent > 0
  /\ wk_pc \in {"handle", "pass", "enqueue"} => got > 0
HandledOK == handled \in Seq(1 .. MaxEvents)
CmdTypes ==
  /\ cmd_pc \in {"run", "drain", "gone"}
  /\ passed \in Seq(1 .. MaxEvents)
  /\ leaked \subseteq 1 .. MaxEvents

(* The teardown drains the ring when nobody else looks at it.              *)
DownInv == down => stopped /\ irq_pc = "idle" /\ wk_pc = "idle" /\ ~work

RingInv ==
  ~lost => /\ stored \in 0 .. Size - 1
           /\ write = Slot(read, stored)
           /\ irq_pc = "bump" => bufs[write] = Entry
           /\ wk_pc \in {"pop", "bump"} => stored > 0
           /\ wk_pc = "bump" => got = bufs[read]

HandledBehind ==
  \A h \in 1 .. Len(handled) : handled[h] <= sent - Flying - stored - Taken
HandledUp ==
  \A h, k \in 1 .. Len(handled) : h < k => handled[h] < handled[k]
GotBetween ==
  InHand /\ got > 0 =>
    /\ got <= sent - Flying - stored
    /\ \A h \in 1 .. Len(handled) : handled[h] < got
RingAhead ==
  \A i \in 0 .. stored - 1 : At(i) > 0 =>
    /\ At(i) <= sent - Flying - (stored - 1 - i)
    /\ \A h \in 1 .. Len(handled) : handled[h] < At(i)
    /\ InHand => got < At(i)
    /\ \A j \in 0 .. i - 1 : At(j) < At(i)
OrderInv == ~lost => HandledBehind /\ HandledUp /\ GotBetween /\ RingAhead

(* The places an event's buffer can be in.                                 *)
InIrq(n) == ev = n /\ ev_kind = "normal" /\ irq_pc \in {"push", "bump"}
InSlots(n) == \E i \in 0 .. stored - 1 : At(i) = n
InWorker(n) == got = n /\ InHand
InQueue(n) == \E i \in 1 .. Len(passed) : passed[i] = n
Done(n) == \E h \in 1 .. Len(handled) : handled[h] = n

(* What went to the command thread is behind the worker.                   *)
PassedUp ==
  \A i, j \in 1 .. Len(passed) : i < j => passed[i] < passed[j]
QueueInv ==
  ~lost => /\ PassedUp
           /\ \A n \in 1 .. MaxEvents : InQueue(n) \/ n \in leaked => Done(n)
           /\ \A n \in 1 .. MaxEvents : ~(InQueue(n) /\ n \in leaked)

LiveInv ==
  ~lost => /\ 0 \notin live
           /\ \A n \in 1 .. MaxEvents :
                n \in live <=> InIrq(n) \/ InSlots(n) \/ InWorker(n) \/ InQueue(n)
                               \/ n \in leaked

IInv ==
  /\ Flags /\ Types /\ PostInv /\ HandledOK /\ CmdTypes /\ DownInv
  /\ RingInv /\ OrderInv /\ QueueInv /\ LiveInv

-----------------------------------------------------------------------------
(* The step relation as the disjunction of its actions.                    *)
LEMMA NextCases ==
  ASSUME [Next]_vars
  PROVE  \/ (\E k \in Kinds : Post(k)) \/ IrqCheck \/ IrqPush \/ IrqBump
         \/ IrqSchedule \/ WkStart \/ WkTest \/ WkEnd \/ WkPop \/ WkBump \/ WkClear
         \/ WkHandle \/ WkPass \/ WkRefuse \/ WkEnqueue \/ CmdHandle \/ CmdDrop
         \/ CmdStop \/ CmdEnd \/ Stop \/ FreeCancel \/ FreeDrain \/ UNCHANGED vars
  BY Zenon DEF Next, Irq, Worker, Cmd, Free

(* The indices of the ring wrap.                                           *)
LEMMA ModSlot ==
  ASSUME NEW r \in 0 .. Size - 1, NEW i \in 0 .. Size - 1
  PROVE  (r + i) % Size = Slot(r, i)
  BY SizeAssumption DEF Slot

(* The next index.                                                         *)
LEMMA NextSlot ==
  ASSUME NEW r \in 0 .. Size - 1
  PROVE  (r + 1) % Size = Slot(r, 1) /\ Slot(r, 1) \in 0 .. Size - 1
<1>1. (r + 1) % Size = Slot(r, 1)
  BY ModSlot, SizeAssumption
<1> QED BY <1>1, SizeAssumption DEF Slot

(* One place further in a ring.                                            *)
LEMMA SlotNext ==
  ASSUME NEW r \in 0 .. Size - 1, NEW i \in 0 .. Size - 1
  PROVE  /\ Slot(r, i) \in 0 .. Size - 1
         /\ Slot(r, 0) = r
         /\ i + 1 < Size => /\ Slot((r + 1) % Size, i) = Slot(r, i + 1)
                            /\ (Slot(r, i) + 1) % Size = Slot(r, i + 1)
<1>1. Slot(r, i) \in 0 .. Size - 1 /\ Slot(r, 0) = r
  BY SizeAssumption DEF Slot
<1>2. (r + 1) % Size = Slot(r, 1)
  BY NextSlot
<1>3. (Slot(r, i) + 1) % Size = Slot(Slot(r, i), 1)
  BY <1>1, NextSlot
<1>4. i + 1 < Size => /\ Slot(Slot(r, 1), i) = Slot(r, i + 1)
                      /\ Slot(Slot(r, i), 1) = Slot(r, i + 1)
  BY SizeAssumption DEF Slot
<1> QED BY <1>1, <1>2, <1>3, <1>4

(* Different places have different slots.                                  *)
LEMMA SlotDiffers ==
  ASSUME NEW r \in 0 .. Size - 1, NEW i \in 0 .. Size - 1, NEW j \in 0 .. Size - 1,
         i # j
  PROVE  Slot(r, i) # Slot(r, j)
  BY SizeAssumption DEF Slot

(* Every step keeps the flags Boolean.                                     *)
LEMMA FlagsStep == Flags /\ [Next]_vars => Flags'
<1> SUFFICES ASSUME Flags, [Next]_vars PROVE Flags'
  OBVIOUS
<1> USE DEF Flags, ring_vars, irq_vars, cmd_vars
<1>1. CASE IrqPush
  BY <1>1, Zenon DEF IrqPush
<1>2. CASE IrqBump
  BY <1>2, Zenon DEF IrqBump
<1>3. CASE IrqSchedule
  BY <1>3, Zenon DEF IrqSchedule
<1>4. CASE WkStart
  BY <1>4, Zenon DEF WkStart
<1>5. CASE WkClear
  BY <1>5, Zenon DEF WkClear
<1>6. CASE Stop
  BY <1>6, Zenon DEF Stop
<1>7. CASE FreeCancel
  BY <1>7, Zenon DEF FreeCancel
<1>8. ASSUME NEW k \in Kinds, Post(k) PROVE Flags'
  BY <1>8, Zenon DEF Post
<1>9. CASE IrqCheck \/ WkTest \/ WkEnd \/ WkPop \/ WkBump \/ WkHandle \/ WkPass
   \/ WkRefuse \/ WkEnqueue \/ CmdHandle \/ CmdDrop \/ CmdStop \/ CmdEnd \/
   FreeDrain \/ UNCHANGED vars
  BY <1>9, Zenon DEF IrqCheck, WkTest, WkEnd, WkPop, WkBump, WkHandle, WkPass,
     WkRefuse, WkEnqueue, CmdHandle, CmdDrop, CmdStop, CmdEnd, FreeDrain, vars
<1> HIDE DEF Flags
<1> QED
  BY NextCases, <1>1, <1>2, <1>3, <1>4, <1>5, <1>6, <1>7, <1>8, <1>9

(* Every step keeps the types.                                             *)
LEMMA TypesStep == Types /\ PostInv /\ [Next]_vars => Types'
<1> SUFFICES ASSUME Types, PostInv, [Next]_vars PROVE Types'
  OBVIOUS
<1> USE SizeAssumption, MaxEventsAssumption, KindsAssumption DEF Types, PostInv,
   ring_vars, irq_vars, cmd_vars
<1>0. /\ (read + 1) % Size \in 0 .. Size - 1
      /\ (write + 1) % Size \in 0 .. Size - 1
  BY NextSlot
<1>1. ASSUME NEW k \in Kinds, Post(k) PROVE Types'
  BY <1>1 DEF Post
<1>2. CASE IrqCheck
  BY <1>2 DEF IrqCheck
<1>3. CASE IrqPush
  <2>1. Entry \in -1 .. MaxEvents
    BY DEF Entry, SpecialPtr, Null
  <2> QED BY <1>3, <2>1 DEF IrqPush
<1>4. CASE IrqBump
  BY <1>4, <1>0 DEF IrqBump
<1>5. CASE IrqSchedule
  BY <1>5 DEF IrqSchedule
<1>6. CASE WkStart
  BY <1>6 DEF WkStart
<1>7. CASE WkTest
  BY <1>7 DEF WkTest
<1>8. CASE WkEnd
  BY <1>8 DEF WkEnd
<1>9. CASE WkPop
  BY <1>9 DEF WkPop
<1>10. CASE WkBump
  BY <1>10, <1>0 DEF WkBump
<1>11. CASE WkClear
  <2>1. got' \in -1 .. MaxEvents /\ live' \subseteq 0 .. MaxEvents
    <3>1. CASE got # Null
      BY <1>11, <3>1 DEF WkClear
    <3>2. CASE got = Null /\ mailbox = "fw"
      <4>1. got' = sent /\ live' = live \cup {sent}
        BY <1>11, <3>2, Zenon DEF WkClear
      <4> QED BY <4>1
    <3>3. CASE got = Null /\ mailbox = "host"
      <4>1. got' = got /\ live' = live \cup {Null}
        BY <1>11, <3>3, Zenon DEF WkClear
      <4> QED BY <4>1 DEF Null
    <3> QED BY <3>1, <3>2, <3>3
  <2>2. wk_pc' \in {"test", "handle", "pass"} /\ mailbox' = "host"
    BY <1>11 DEF WkClear
  <2>3. UNCHANGED <<bufs, read, write, stored, sent, irq_pc, ev, ev_kind>>
    BY <1>11 DEF WkClear
  <2> QED BY <2>1, <2>2, <2>3
<1>12. CASE WkHandle
  BY <1>12 DEF WkHandle
<1>13. CASE WkPass
  BY <1>13 DEF WkPass
<1>14. CASE WkRefuse
  BY <1>14 DEF WkRefuse
<1>15. CASE WkEnqueue
  BY <1>15 DEF WkEnqueue
<1>16. CASE CmdHandle
  <2>1. live' \subseteq live
    BY <1>16 DEF CmdHandle
  <2>2. UNCHANGED <<bufs, read, write, stored, mailbox, sent, irq_pc, ev, ev_kind, wk_pc, got>>
    BY <1>16, Zenon DEF CmdHandle
  <2> QED BY <2>1, <2>2
<1>17. CASE FreeDrain
  <2>1. live' \subseteq live
    BY <1>17 DEF FreeDrain
  <2>2. read' \in 0 .. Size - 1 /\ stored' \in Int
    BY <1>17, <1>0 DEF FreeDrain
  <2>3. UNCHANGED <<bufs, write, mailbox, sent, irq_pc, ev, ev_kind, wk_pc, got>>
    BY <1>17 DEF FreeDrain
  <2> QED BY <2>1, <2>2, <2>3
<1>18. CASE CmdDrop \/ CmdStop \/ CmdEnd \/ Stop \/ FreeCancel \/ UNCHANGED vars
  <2>1. UNCHANGED <<bufs, read, write, stored, mailbox, sent, irq_pc, ev,
     ev_kind, wk_pc, got, live>>
    BY <1>18, Zenon DEF CmdDrop, CmdStop, CmdEnd, Stop, FreeCancel, vars
  <2> QED BY <2>1
<1> HIDE DEF Types
<1> QED
  BY NextCases, <1>1, <1>2, <1>3, <1>4, <1>5, <1>6, <1>7, <1>8, <1>9, <1>10,
     <1>11, <1>12, <1>13, <1>14, <1>15, <1>16, <1>17, <1>18

(* The event of a completion is the last one that was posted.              *)
LEMMA PostStep == PostInv /\ Types /\ [Next]_vars => PostInv'
<1> SUFFICES ASSUME PostInv, Types, [Next]_vars PROVE PostInv'
  OBVIOUS
<1> USE DEF PostInv, InFlight, Types, ring_vars, irq_vars, cmd_vars
<1>1. ASSUME NEW k \in Kinds, Post(k) PROVE PostInv'
  BY <1>1 DEF Post
<1>2. CASE IrqCheck
  BY <1>2 DEF IrqCheck
<1>3. CASE IrqPush
  BY <1>3 DEF IrqPush
<1>4. CASE IrqBump
  BY <1>4 DEF IrqBump
<1>5. CASE IrqSchedule
  BY <1>5 DEF IrqSchedule
<1>6. CASE WkStart
  BY <1>6 DEF WkStart
<1>7. CASE WkTest
  BY <1>7 DEF WkTest
<1>8. CASE WkEnd
  BY <1>8 DEF WkEnd
<1>9. CASE WkPop
  BY <1>9 DEF WkPop
<1>10. CASE WkBump
  BY <1>10 DEF WkBump
<1>11. CASE WkClear
  BY <1>11 DEF WkClear, SpecialPtr, Null
<1>12. CASE WkHandle
  BY <1>12 DEF WkHandle
<1>13. CASE WkPass
  BY <1>13 DEF WkPass
<1>14. CASE WkRefuse
  BY <1>14 DEF WkRefuse
<1>15. CASE WkEnqueue
  BY <1>15 DEF WkEnqueue
<1>16. CASE CmdHandle \/ CmdDrop \/ CmdStop \/ CmdEnd \/ Stop \/ FreeCancel \/
   FreeDrain \/ UNCHANGED vars
  <2>1. UNCHANGED <<mailbox, sent, irq_pc, ev, wk_pc, got>>
    BY <1>16, Zenon DEF CmdHandle, CmdDrop, CmdStop, CmdEnd, Stop, FreeCancel,
       FreeDrain, vars
  <2> QED BY <2>1
<1> HIDE DEF PostInv
<1> QED
  BY NextCases, <1>1, <1>2, <1>3, <1>4, <1>5, <1>6, <1>7, <1>8, <1>9, <1>10,
     <1>11, <1>12, <1>13, <1>14, <1>15, <1>16

(* The worker handles posted events only.                                  *)
LEMMA HandledStep == HandledOK /\ Types /\ PostInv /\ [Next]_vars => HandledOK'
<1> SUFFICES ASSUME HandledOK, Types, PostInv, [Next]_vars PROVE HandledOK'
  OBVIOUS
<1> USE DEF HandledOK, Types, PostInv, ring_vars, irq_vars, cmd_vars
<1>1. CASE WkHandle
  BY <1>1 DEF WkHandle
<1>2. CASE WkRefuse
  BY <1>2 DEF WkRefuse
<1>3. CASE WkEnqueue
  BY <1>3 DEF WkEnqueue
<1>4. ASSUME NEW k \in Kinds, Post(k) PROVE HandledOK'
  <2>1. UNCHANGED handled
    BY <1>4, Zenon DEF Post
  <2> QED BY <2>1
<1>5. CASE IrqCheck \/ IrqPush \/ IrqBump \/ IrqSchedule \/ WkStart \/ WkTest \/
   WkEnd \/ WkPop \/ WkBump \/ WkClear \/ WkPass \/ CmdHandle \/ CmdDrop \/
   CmdStop \/ CmdEnd \/ Stop \/ FreeCancel \/ FreeDrain \/ UNCHANGED vars
  <2>1. UNCHANGED handled
    BY <1>5, Zenon DEF IrqCheck, IrqPush, IrqBump, IrqSchedule, WkStart, WkTest,
       WkEnd, WkPop, WkBump, WkClear, WkPass, CmdHandle, CmdDrop, CmdStop,
       CmdEnd, Stop, FreeCancel, FreeDrain, vars
  <2> QED BY <2>1
<1> HIDE DEF HandledOK
<1> QED
  BY NextCases, <1>1, <1>2, <1>3, <1>4, <1>5

(* The command thread and the queue keep their types.                      *)
LEMMA CmdStep == CmdTypes /\ Types /\ PostInv /\ [Next]_vars => CmdTypes'
<1> SUFFICES ASSUME CmdTypes, Types, PostInv, [Next]_vars PROVE CmdTypes'
  OBVIOUS
<1> USE MaxEventsAssumption DEF CmdTypes, Types, PostInv, ring_vars, irq_vars,
   cmd_vars
<1>1. CASE WkRefuse
  BY <1>1 DEF WkRefuse
<1>2. CASE WkEnqueue
  <2>1. got \in 1 .. MaxEvents /\ UNCHANGED cmd_pc
    BY <1>2 DEF WkEnqueue
  <2>2. Append(passed, got) \in Seq(1 .. MaxEvents) /\ leaked \cup {got} \subseteq 1 .. MaxEvents
    BY <2>1
  <2>3. /\ passed' = Append(passed, got) \/ passed' = passed
        /\ leaked' = leaked \cup {got} \/ leaked' = leaked
    BY <1>2, Zenon DEF WkEnqueue
  <2> QED BY <2>1, <2>2, <2>3
<1>3. CASE CmdHandle
  <2>1. passed' = Tail(passed) /\ passed # <<>> /\ UNCHANGED cmd_pc
    BY <1>3 DEF CmdHandle
  <2>2. passed' \in Seq(1 .. MaxEvents) /\ Head(passed) \in 1 .. MaxEvents
    BY <2>1
  <2>3. leaked' \subseteq leaked \cup {Head(passed)}
    BY <1>3, Zenon DEF CmdHandle
  <2> QED BY <2>1, <2>2, <2>3
<1>4. CASE CmdDrop
  <2>1. passed' = Tail(passed) /\ passed # <<>> /\ UNCHANGED cmd_pc
    BY <1>4 DEF CmdDrop
  <2>2. passed' \in Seq(1 .. MaxEvents) /\ Head(passed) \in 1 .. MaxEvents
    BY <2>1
  <2>3. leaked' \subseteq leaked \cup {Head(passed)}
    BY <1>4, Zenon DEF CmdDrop
  <2> QED BY <2>1, <2>2, <2>3
<1>5. CASE CmdStop
  BY <1>5 DEF CmdStop
<1>6. CASE CmdEnd
  BY <1>6 DEF CmdEnd
<1>7. ASSUME NEW k \in Kinds, Post(k) PROVE CmdTypes'
  <2>1. UNCHANGED <<cmd_pc, passed, leaked>>
    BY <1>7, Zenon DEF Post
  <2> QED BY <2>1
<1>8. CASE IrqCheck \/ IrqPush \/ IrqBump \/ IrqSchedule \/ WkStart \/ WkTest \/
   WkEnd \/ WkPop \/ WkBump \/ WkClear \/ WkHandle \/ WkPass \/ Stop \/
   FreeCancel \/ FreeDrain \/ UNCHANGED vars
  <2>1. UNCHANGED <<cmd_pc, passed, leaked>>
    BY <1>8, Zenon DEF IrqCheck, IrqPush, IrqBump, IrqSchedule, WkStart, WkTest,
       WkEnd, WkPop, WkBump, WkClear, WkHandle, WkPass, Stop, FreeCancel,
       FreeDrain, vars
  <2> QED BY <2>1
<1> HIDE DEF CmdTypes
<1> QED
  BY NextCases, <1>1, <1>2, <1>3, <1>4, <1>5, <1>6, <1>7, <1>8

(* The teardown begins when nothing runs any more, and nothing starts.     *)
LEMMA DownStep == DownInv /\ [Next]_vars => DownInv'
<1> SUFFICES ASSUME DownInv, [Next]_vars PROVE DownInv'
  OBVIOUS
<1> USE DEF DownInv, ring_vars, irq_vars, cmd_vars
<1>1. ASSUME NEW k \in Kinds, Post(k) PROVE DownInv'
  BY <1>1 DEF Post
<1>2. CASE IrqCheck
  BY <1>2 DEF IrqCheck
<1>3. CASE IrqPush
  BY <1>3 DEF IrqPush
<1>4. CASE IrqBump
  BY <1>4 DEF IrqBump
<1>5. CASE IrqSchedule
  BY <1>5 DEF IrqSchedule
<1>6. CASE WkStart
  BY <1>6 DEF WkStart
<1>7. CASE WkTest
  BY <1>7 DEF WkTest
<1>8. CASE WkEnd
  BY <1>8 DEF WkEnd
<1>9. CASE WkPop
  BY <1>9 DEF WkPop
<1>10. CASE WkBump
  BY <1>10 DEF WkBump
<1>11. CASE WkClear
  BY <1>11 DEF WkClear
<1>12. CASE WkHandle
  BY <1>12 DEF WkHandle
<1>13. CASE WkPass
  BY <1>13 DEF WkPass
<1>14. CASE WkRefuse
  BY <1>14 DEF WkRefuse
<1>15. CASE WkEnqueue
  BY <1>15 DEF WkEnqueue
<1>16. CASE Stop
  BY <1>16 DEF Stop
<1>17. CASE FreeCancel
  BY <1>17 DEF FreeCancel
<1>18. CASE CmdHandle \/ CmdDrop \/ CmdStop \/ CmdEnd \/ FreeDrain \/ UNCHANGED
   vars
  <2>1. UNCHANGED <<down, stopped, irq_pc, wk_pc, work>>
    BY <1>18, Zenon DEF CmdHandle, CmdDrop, CmdStop, CmdEnd, FreeDrain, vars
  <2> QED BY <2>1
<1> HIDE DEF DownInv
<1> QED
  BY NextCases, <1>1, <1>2, <1>3, <1>4, <1>5, <1>6, <1>7, <1>8, <1>9, <1>10,
     <1>11, <1>12, <1>13, <1>14, <1>15, <1>16, <1>17, <1>18

(* The ends of the ring, when one of them moves.                           *)
LEMMA RingFacts ==
  ASSUME read \in 0 .. Size - 1, stored \in 0 .. Size - 1, write = Slot(read, stored)
  PROVE  /\ Slot(read, 0) = read
         /\ stored + 1 < Size => (write + 1) % Size = Slot(read, stored + 1)
         /\ stored > 0 => /\ Slot((read + 1) % Size, stored - 1) = Slot(read, stored)
                          /\ Slot(read, stored) # read
<1>1. 0 \in 0 .. Size - 1
  BY SizeAssumption
<1>2. Slot(read, 0) = read
  BY <1>1, SlotNext
<1>3. stored + 1 < Size => (write + 1) % Size = Slot(read, stored + 1)
  BY SlotNext
<1>4. ASSUME stored > 0
      PROVE  /\ Slot((read + 1) % Size, stored - 1) = Slot(read, stored)
             /\ Slot(read, stored) # read
  <2>1. stored - 1 \in 0 .. Size - 1 /\ (stored - 1) + 1 < Size /\ (stored - 1) + 1 = stored
    BY <1>4, SizeAssumption
  <2>2. Slot((read + 1) % Size, stored - 1) = Slot(read, (stored - 1) + 1)
    BY <2>1, SlotNext
  <2>3. Slot(read, stored) # Slot(read, 0)
    BY <1>1, <1>4, SlotDiffers
  <2> QED BY <1>2, <2>1, <2>2, <2>3
<1> QED BY <1>2, <1>3, <1>4

(* The ring lies between read and write, unless an entry was lost.         *)
LEMMA RingStep == RingInv /\ Types /\ DownInv /\ [Next]_vars => RingInv'
<1> SUFFICES ASSUME RingInv, Types, DownInv, [Next]_vars PROVE RingInv'
  OBVIOUS
<1> USE SizeAssumption DEF RingInv, Types, DownInv, Entry, ring_vars, irq_vars,
   cmd_vars
<1>0. ~lost => /\ Slot(read, 0) = read
               /\ stored + 1 < Size => (write + 1) % Size = Slot(read, stored + 1)
               /\ stored > 0 => /\ Slot((read + 1) % Size, stored - 1) = Slot(read, stored)
                                /\ Slot(read, stored) # read
  BY RingFacts
<1>1. ASSUME NEW k \in Kinds, Post(k) PROVE RingInv'
  <2>1. UNCHANGED <<lost, stored, write, read, bufs, wk_pc, got>> /\ irq_pc' = "check"
    BY <1>1, Zenon DEF Post
  <2> QED BY <2>1
<1>2. CASE IrqCheck
  BY <1>2 DEF IrqCheck
<1>3. CASE IrqPush
  <2>1. CASE CbufFull
    BY <1>3, <2>1, Zenon DEF IrqPush
  <2>2. CASE ~CbufFull
    <3>1. /\ UNCHANGED <<lost, stored, write, read, wk_pc, got, ev, ev_kind>>
          /\ bufs' = [bufs EXCEPT ![write] = Entry]
      BY <1>3, <2>2 DEF IrqPush
    <3>2. bufs'[write] = Entry' /\ (read # write => bufs'[read] = bufs[read])
      BY <3>1
    <3>3. ~lost /\ stored > 0 => read # write
      BY <1>0
    <3> QED BY <3>1, <3>2, <3>3
  <2> QED BY <2>1, <2>2
<1>4. CASE IrqBump
  <2>1. ~lost' => ~lost /\ stored + 1 # Size
    BY <1>4, Zenon DEF IrqBump
  <2>2. /\ write' = (write + 1) % Size /\ stored' = stored + 1 /\ irq_pc' = "sched"
        /\ UNCHANGED <<bufs, read, wk_pc, got>>
    BY <1>4 DEF IrqBump
  <2> QED BY <2>1, <2>2, <1>0
<1>5. CASE IrqSchedule
  BY <1>5 DEF IrqSchedule
<1>6. CASE WkStart
  BY <1>6 DEF WkStart
<1>7. CASE WkTest
  BY <1>7, <1>0 DEF WkTest, CbufEmpty
<1>8. CASE WkEnd
  BY <1>8 DEF WkEnd
<1>9. CASE WkPop
  BY <1>9 DEF WkPop
<1>10. CASE WkBump
  BY <1>10, <1>0 DEF WkBump
<1>11. CASE WkClear
  BY <1>11 DEF WkClear
<1>12. CASE WkHandle
  BY <1>12 DEF WkHandle
<1>13. CASE WkPass
  BY <1>13 DEF WkPass
<1>14. CASE WkRefuse
  BY <1>14 DEF WkRefuse
<1>15. CASE WkEnqueue
  BY <1>15 DEF WkEnqueue
<1>16. CASE FreeDrain
  <2>1. /\ read' = (read + 1) % Size /\ stored' = stored - 1 /\ write # read
        /\ UNCHANGED <<lost, write, irq_pc, wk_pc>>
    BY <1>16 DEF FreeDrain, CbufEmpty
  <2>2. ~lost => stored > 0
    BY <1>0, <2>1
  <2>3. ~lost => stored' \in 0 .. Size - 1
    BY <2>1, <2>2
  <2>4. ~lost => write' = Slot(read', stored')
    BY <1>0, <2>1, <2>2
  <2>5. irq_pc = "idle" /\ wk_pc = "idle"
    BY <1>16 DEF FreeDrain
  <2> QED BY <2>1, <2>3, <2>4, <2>5
<1>17. CASE CmdHandle \/ CmdDrop \/ CmdStop \/ CmdEnd \/ Stop \/ FreeCancel \/
   UNCHANGED vars
  <2>1. UNCHANGED <<lost, stored, write, read, irq_pc, bufs, wk_pc, got, ev,
     ev_kind>>
    BY <1>17, Zenon DEF CmdHandle, CmdDrop, CmdStop, CmdEnd, Stop, FreeCancel,
       vars
  <2> QED BY <2>1
<1> HIDE DEF RingInv
<1> QED
  BY NextCases, <1>1, <1>2, <1>3, <1>4, <1>5, <1>6, <1>7, <1>8, <1>9, <1>10,
     <1>11, <1>12, <1>13, <1>14, <1>15, <1>16, <1>17

(* What lies in the ring, when one end of it moves.                        *)
LEMMA ShiftFacts ==
  ASSUME RingInv, ~lost, Types, stored > 0,
         read' = (read + 1) % Size, stored' = stored - 1, bufs' = bufs
  PROVE  /\ At(0) = bufs[read]
         /\ \A i \in 0 .. stored' - 1 : At(i)' = At(i + 1)
<1>1. stored \in 0 .. Size - 1 /\ read \in 0 .. Size - 1
  BY DEF RingInv, Types
<1>2. At(0) = bufs[read]
  BY <1>1, SlotNext DEF At
<1>3. ASSUME NEW i \in 0 .. stored' - 1 PROVE At(i)' = At(i + 1)
  <2>1. i \in 0 .. Size - 1 /\ i + 1 < Size
    BY <1>1, SizeAssumption
  <2>2. Slot((read + 1) % Size, i) = Slot(read, i + 1)
    BY <1>1, <2>1, SlotNext
  <2> QED BY <2>2 DEF At
<1> QED BY <1>2, <1>3

(* An entry is stored where no other entry lies.                           *)
LEMMA StoreFacts ==
  ASSUME RingInv, ~lost, Types, bufs' = [bufs EXCEPT ![write] = Entry], read' = read
  PROVE  \A i \in 0 .. stored - 1 : At(i)' = At(i)
<1> SUFFICES ASSUME NEW i \in 0 .. stored - 1 PROVE At(i)' = At(i)
  OBVIOUS
<1>0. stored \in 0 .. Size - 1 /\ read \in 0 .. Size - 1
  BY DEF RingInv, Types
<1>1. i \in 0 .. Size - 1 /\ i # stored
  BY <1>0, SizeAssumption
<1>2. Slot(read, i) # Slot(read, stored) /\ Slot(read, i) \in 0 .. Size - 1
  BY <1>0, <1>1, SlotDiffers, SlotNext
<1>3. write = Slot(read, stored) /\ bufs \in [0 .. Size - 1 -> -1 .. MaxEvents]
  BY DEF RingInv, Types
<1>4. bufs'[Slot(read, i)] = bufs[Slot(read, i)]
  BY <1>2, <1>3
<1> QED BY <1>4 DEF At

(* What the order compares is numbers.                                     *)
Numeric ==
  /\ \A i \in 0 .. stored : At(i) \in Int
  /\ \A h \in 1 .. Len(handled) : handled[h] \in Int
  /\ Len(handled) \in Nat /\ stored \in Nat /\ sent \in Int /\ got \in Int
  /\ Flying \in 0 .. 1 /\ Taken \in 0 .. 1

(* The entries of the ring and of the history are numbers.                 *)
LEMMA Numbers ==
  ASSUME Types, RingInv, ~lost, HandledOK
  PROVE  Numeric
<1>1. stored \in 0 .. Size - 1 /\ read \in 0 .. Size - 1
  BY DEF Types, RingInv
<1>2. ASSUME NEW i \in 0 .. stored PROVE At(i) \in Int
  <2>1. i \in 0 .. Size - 1
    BY <1>1, SizeAssumption
  <2>2. Slot(read, i) \in 0 .. Size - 1
    BY <1>1, <2>1, SlotNext
  <2> QED BY <2>2, MaxEventsAssumption DEF At, Types
<1>3. /\ \A h \in 1 .. Len(handled) : handled[h] \in Int
      /\ Len(handled) \in Nat
  BY MaxEventsAssumption DEF HandledOK
<1>4. sent \in Int /\ got \in Int
  BY MaxEventsAssumption DEF Types
<1> QED BY <1>1, <1>2, <1>3, <1>4, SizeAssumption DEF Flying, Taken, Numeric

(* A bound from the end of the line moves with the end.                    *)
LEMMA LineGrows ==
  ASSUME NEW a \in Int, NEW s \in Int, NEW f \in 0 .. 1, NEW s2 \in Int, NEW f2 \in 0 .. 1,
         NEW n \in Int, NEW m \in Int, s2 - f2 >= s - f
  PROVE  /\ a <= s - f - n => a <= s2 - f2 - n
         /\ a <= s - f - n - m => a <= s2 - f2 - n - m
  OBVIOUS

(* The order is kept when the line only gets longer at its end.            *)
LEMMA OrderFrame ==
  ASSUME OrderInv, Types, Types', RingInv, HandledOK, ~lost,
         sent' - Flying' >= sent - Flying, Flying' \in 0 .. 1,
         handled' = handled, stored' = stored, Taken' = Taken,
         InHand' => InHand /\ got' = got,
         \A i \in 0 .. stored - 1 : At(i)' = At(i)
  PROVE  OrderInv'
<1>1. HandledBehind /\ HandledUp /\ GotBetween /\ RingAhead
  BY DEF OrderInv
<1>2. Numeric /\ sent' \in Int
  BY Numbers, MaxEventsAssumption DEF Types
<1>0. /\ stored \in Int /\ Taken \in Int /\ sent \in Int /\ got \in Int /\ Flying \in 0 .. 1
      /\ \A h \in 1 .. Len(handled) : handled[h] \in Int
  BY <1>2 DEF Numeric
<1>3. HandledBehind' /\ HandledUp'
  <2>1. ASSUME NEW h \in 1 .. Len(handled)
        PROVE  handled[h] <= sent' - Flying' - stored - Taken
    <3>1. handled[h] <= sent - Flying - stored - Taken
      BY <1>1 DEF HandledBehind
    <3> QED BY <1>0, <1>2, <3>1, LineGrows, Zenon
  <2> QED BY <1>1, <2>1, Zenon DEF HandledBehind, HandledUp
<1>4. GotBetween'
  <2>1. ASSUME InHand, got > 0
        PROVE  got <= sent' - Flying' - stored
    <3>1. got <= sent - Flying - stored
      BY <1>1, <2>1 DEF GotBetween
    <3> QED BY <1>0, <1>2, <3>1, LineGrows, Zenon
  <2> QED BY <1>1, <2>1 DEF GotBetween
<1>5. RingAhead'
  <2>0. \A a, n \in Int : a <= sent - Flying - n => a <= sent' - Flying' - n
    BY <1>0, <1>2, LineGrows, Zenon
  <2>1. ASSUME NEW i \in 0 .. stored - 1, At(i) > 0
        PROVE  /\ At(i) <= sent' - Flying' - (stored - 1 - i)
               /\ \A h \in 1 .. Len(handled) : handled[h] < At(i)
               /\ InHand' => got' < At(i)
               /\ \A j \in 0 .. i - 1 : At(j) < At(i)
    <3>1. At(i) <= sent - Flying - (stored - 1 - i)
      BY <1>1, <2>1 DEF RingAhead
    <3>2. At(i) \in Int /\ stored - 1 - i \in Int
      BY <1>2 DEF Numeric
    <3>3. At(i) <= sent' - Flying' - (stored - 1 - i)
      BY <2>0, <3>1, <3>2, Zenon
    <3> QED BY <1>1, <2>1, <3>3 DEF RingAhead
  <2>2. \A i \in 0 .. stored - 1 : \A j \in 0 .. i - 1 : j \in 0 .. stored - 1
    BY <1>2 DEF Numeric
  <2> QED BY <2>1, <2>2 DEF RingAhead
<1> QED BY <1>3, <1>4, <1>5 DEF OrderInv

(* Events are handled in the order of posting, unless one was lost.        *)
LEMMA OrderStep ==
  OrderInv /\ RingInv /\ PostInv /\ Types /\ Types' /\ HandledOK /\ DownInv /\ [Next]_vars => OrderInv'
<1> SUFFICES ASSUME OrderInv, RingInv, PostInv, Types, Types', HandledOK, DownInv, [Next]_vars PROVE OrderInv'
  OBVIOUS
<1> USE DEF ring_vars, irq_vars, cmd_vars
<1> SUFFICES ASSUME ~lost PROVE OrderInv'
  <2>1. lost => lost'
    <3>1. CASE IrqPush BY <3>1, Zenon DEF IrqPush
    <3>2. CASE IrqBump BY <3>2, Zenon DEF IrqBump
    <3>3. CASE WkClear BY <3>3, Zenon DEF WkClear
    <3>4. CASE UNCHANGED lost BY <3>4
    <3> QED
      BY NextCases, <3>1, <3>2, <3>3, <3>4, Zenon
      DEF Post, IrqCheck, IrqSchedule, WkStart, WkTest, WkEnd, WkPop, WkBump,
          WkHandle, WkPass, WkRefuse, WkEnqueue, CmdHandle, CmdDrop, CmdStop,
          CmdEnd, Stop, FreeCancel, FreeDrain, vars
  <2> QED BY <2>1 DEF OrderInv
<1>0. HandledBehind /\ HandledUp /\ GotBetween /\ RingAhead /\ Numeric
  BY Numbers DEF OrderInv
<1>1. ASSUME NEW k \in Kinds, Post(k) PROVE OrderInv'
  <2>1. sent' - Flying' >= sent - Flying /\ Flying' \in 0 .. 1
    BY <1>1, <1>0 DEF Numeric, Post, Flying, InFlight
  <2>2. Taken' = Taken /\ (InHand' => InHand /\ got' = got)
    BY <1>1 DEF Post, Taken, InHand
  <2>3. handled' = handled /\ stored' = stored /\ (lost' = lost)
    BY <1>1 DEF Post
  <2>4. \A i \in 0 .. stored - 1 : At(i)' = At(i)
    BY <1>1 DEF Post, At
  <2> QED BY <2>1, <2>2, <2>3, <2>4, OrderFrame
<1>2. CASE IrqCheck
  <2>1. sent' - Flying' >= sent - Flying /\ Flying' \in 0 .. 1
    BY <1>2, <1>0 DEF Numeric, IrqCheck, Flying, InFlight
  <2>2. Taken' = Taken /\ (InHand' => InHand /\ got' = got)
    BY <1>2 DEF IrqCheck, Taken, InHand
  <2>3. handled' = handled /\ stored' = stored /\ (lost' = lost)
    BY <1>2 DEF IrqCheck
  <2>4. \A i \in 0 .. stored - 1 : At(i)' = At(i)
    BY <1>2 DEF IrqCheck, At
  <2> QED BY <2>1, <2>2, <2>3, <2>4, OrderFrame
<1>3. CASE IrqPush
  <2>1. CASE CbufFull
    BY <1>3, <2>1, Zenon DEF IrqPush, OrderInv
  <2>2. CASE ~CbufFull
    <3>1. sent' - Flying' >= sent - Flying /\ Flying' \in 0 .. 1
      BY <1>3, <2>2, <1>0 DEF Numeric, IrqPush, Flying, InFlight
    <3>2. Taken' = Taken /\ (InHand' => InHand /\ got' = got)
      BY <1>3 DEF IrqPush, Taken, InHand
    <3>3. handled' = handled /\ stored' = stored
      BY <1>3 DEF IrqPush
    <3>4. \A i \in 0 .. stored - 1 : At(i)' = At(i)
      BY <1>3, <2>2, StoreFacts DEF IrqPush
    <3> QED BY <3>1, <3>2, <3>3, <3>4, OrderFrame
  <2> QED BY <2>1, <2>2
<1>4. CASE IrqBump
  <2>1. stored' = stored + 1 /\ Flying = 1 /\ Flying' = 0 /\ Taken' = Taken /\ ev = sent
    BY <1>4 DEF IrqBump, Flying, InFlight, Taken, InHand, PostInv
  <2>2. UNCHANGED <<handled, sent, got>> /\ InHand' = InHand
    BY <1>4 DEF IrqBump, InHand
  <2>3. \A i \in 0 .. stored : At(i)' = At(i)
    BY <1>4 DEF IrqBump, At
  <2>4. At(stored) > 0 => At(stored) = sent
    BY <1>4, <2>1 DEF IrqBump, RingInv, At, Entry, SpecialPtr, Null
  <2>5. HandledBehind' /\ HandledUp'
    BY <2>1, <2>2, <1>0 DEF Numeric, HandledBehind, HandledUp
  <2>6. GotBetween'
    BY <2>1, <2>2, <1>0 DEF Numeric, GotBetween
  <2>7. RingAhead'
    <3>1. SUFFICES ASSUME NEW i \in 0 .. stored, At(i) > 0
          PROVE  /\ At(i) <= sent - (stored - i)
                 /\ \A h \in 1 .. Len(handled) : handled[h] < At(i)
                 /\ InHand => got < At(i)
                 /\ \A j \in 0 .. i - 1 : At(j) < At(i)
      BY <2>1, <2>2, <2>3, <1>0 DEF Numeric, RingAhead
    <3>2. CASE i < stored
      BY <2>1, <3>1, <3>2, <1>0 DEF Numeric, RingAhead
    <3>3. CASE i = stored
      <4>1. At(i) = sent /\ At(i) <= sent - (stored - i)
        BY <2>4, <3>1, <3>3, <1>0 DEF Numeric
      <4>2. \A h \in 1 .. Len(handled) : handled[h] < sent
        BY <2>1, <1>0 DEF Numeric, HandledBehind
      <4>3. InHand /\ got > 0 => got < sent
        BY <2>1, <1>0 DEF Numeric, GotBetween
      <4>4. ASSUME NEW j \in 0 .. stored - 1 PROVE At(j) < sent
        <5>1. At(j) \in Int /\ j \in Int
          BY <1>0 DEF Numeric
        <5>2. At(j) > 0 => At(j) <= sent - Flying - (stored - 1 - j)
          BY <1>0 DEF RingAhead
        <5> QED BY <2>1, <3>1, <3>3, <4>1, <5>1, <5>2, <1>0 DEF Numeric
      <4> QED BY <3>1, <3>3, <4>1, <4>2, <4>3, <4>4, <1>0 DEF Numeric
    <3> QED BY <3>2, <3>3, <1>0 DEF Numeric
  <2> QED BY <2>5, <2>6, <2>7 DEF OrderInv
<1>5. CASE IrqSchedule
  <2>1. sent' - Flying' >= sent - Flying /\ Flying' \in 0 .. 1
    BY <1>5, <1>0 DEF Numeric, IrqSchedule, Flying, InFlight
  <2>2. Taken' = Taken /\ (InHand' => InHand /\ got' = got)
    BY <1>5 DEF IrqSchedule, Taken, InHand
  <2>3. handled' = handled /\ stored' = stored /\ (lost' = lost)
    BY <1>5 DEF IrqSchedule
  <2>4. \A i \in 0 .. stored - 1 : At(i)' = At(i)
    BY <1>5 DEF IrqSchedule, At
  <2> QED BY <2>1, <2>2, <2>3, <2>4, OrderFrame
<1>6. CASE WkStart
  <2>1. sent' - Flying' >= sent - Flying /\ Flying' \in 0 .. 1
    BY <1>6, <1>0 DEF Numeric, WkStart, Flying, InFlight
  <2>2. Taken' = Taken /\ (InHand' => InHand /\ got' = got)
    BY <1>6 DEF WkStart, Taken, InHand
  <2>3. handled' = handled /\ stored' = stored /\ (lost' = lost)
    BY <1>6 DEF WkStart
  <2>4. \A i \in 0 .. stored - 1 : At(i)' = At(i)
    BY <1>6 DEF WkStart, At
  <2> QED BY <2>1, <2>2, <2>3, <2>4, OrderFrame
<1>7. CASE WkTest
  <2>1. sent' - Flying' >= sent - Flying /\ Flying' \in 0 .. 1
    BY <1>7, <1>0 DEF Numeric, WkTest, Flying, InFlight
  <2>2. Taken' = Taken /\ (InHand' => InHand /\ got' = got)
    BY <1>7 DEF WkTest, Taken, InHand
  <2>3. handled' = handled /\ stored' = stored /\ (lost' = lost)
    BY <1>7 DEF WkTest
  <2>4. \A i \in 0 .. stored - 1 : At(i)' = At(i)
    BY <1>7 DEF WkTest, At
  <2> QED BY <2>1, <2>2, <2>3, <2>4, OrderFrame
<1>8. CASE WkEnd
  <2>1. sent' - Flying' >= sent - Flying /\ Flying' \in 0 .. 1
    BY <1>8, <1>0 DEF Numeric, WkEnd, Flying, InFlight
  <2>2. Taken' = Taken /\ (InHand' => InHand /\ got' = got)
    BY <1>8 DEF WkEnd, Taken, InHand
  <2>3. handled' = handled /\ stored' = stored /\ (lost' = lost)
    BY <1>8 DEF WkEnd
  <2>4. \A i \in 0 .. stored - 1 : At(i)' = At(i)
    BY <1>8 DEF WkEnd, At
  <2> QED BY <2>1, <2>2, <2>3, <2>4, OrderFrame
<1>9. CASE WkPop
  <2>1. sent' - Flying' >= sent - Flying /\ Flying' \in 0 .. 1
    BY <1>9, <1>0 DEF Numeric, WkPop, Flying, InFlight
  <2>2. Taken' = Taken /\ (InHand' => InHand /\ got' = got)
    BY <1>9 DEF WkPop, Taken, InHand
  <2>3. handled' = handled /\ stored' = stored /\ (lost' = lost)
    BY <1>9 DEF WkPop
  <2>4. \A i \in 0 .. stored - 1 : At(i)' = At(i)
    BY <1>9 DEF WkPop, At
  <2> QED BY <2>1, <2>2, <2>3, <2>4, OrderFrame
<1>10. CASE WkBump
  <2>1. /\ stored' = stored - 1 /\ stored > 0 /\ got = bufs[read]
        /\ Taken = 0 /\ Taken' = 1 /\ Flying' = Flying /\ InHand'
    BY <1>10 DEF WkBump, RingInv, Taken, InHand, Flying, InFlight
  <2>2. UNCHANGED <<handled, sent, got>>
    BY <1>10 DEF WkBump
  <2>3. got = At(0) /\ \A i \in 0 .. stored' - 1 : At(i)' = At(i + 1)
    BY <1>10, <2>1, ShiftFacts DEF WkBump
  <2>4. HandledBehind' /\ HandledUp'
    BY <2>1, <2>2, <1>0 DEF Numeric, HandledBehind, HandledUp
  <2>5. GotBetween'
    BY <2>1, <2>2, <2>3, <1>0 DEF Numeric, GotBetween, RingAhead
  <2>6. RingAhead'
    <3>1. SUFFICES ASSUME NEW i \in 0 .. stored - 2, At(i + 1) > 0
          PROVE  /\ At(i + 1) <= sent - Flying - (stored - 2 - i)
                 /\ \A h \in 1 .. Len(handled) : handled[h] < At(i + 1)
                 /\ got < At(i + 1)
                 /\ \A j \in 0 .. i - 1 : At(j + 1) < At(i + 1)
      BY <2>1, <2>2, <2>3, <1>0 DEF Numeric, RingAhead
    <3>2. i + 1 \in 0 .. stored - 1
      BY <2>1, <1>0 DEF Numeric
    <3> QED BY <2>1, <2>3, <3>1, <3>2, <1>0 DEF Numeric, RingAhead
  <2> QED BY <2>4, <2>5, <2>6 DEF OrderInv
<1>11. CASE WkClear
  <2>1. /\ InHand /\ Taken = 1 /\ Flying' = Flying /\ Taken' \in 0 .. 1
        /\ UNCHANGED <<handled, sent, stored>>
        /\ \A i \in 0 .. stored - 1 : At(i)' = At(i)
    BY <1>11 DEF WkClear, InHand, Taken, Flying, InFlight, At
  <2>2. HandledBehind' /\ HandledUp'
    BY <2>1, <1>0 DEF Numeric, HandledBehind, HandledUp
  <2>3. CASE got # Null
    <3>1. got' = got
      BY <1>11, <2>3, Zenon DEF WkClear
    <3>2. GotBetween'
      BY <2>1, <3>1, <1>0 DEF Numeric, GotBetween
    <3>3. RingAhead'
      BY <2>1, <3>1, <1>0 DEF Numeric, RingAhead
    <3> QED BY <2>2, <3>2, <3>3 DEF OrderInv
  <2>4. CASE got = Null /\ mailbox = "fw"
    <3>1. got' = sent /\ (~lost' => ~Newer)
      BY <1>11, <2>4, Zenon DEF WkClear
    <3>2. SUFFICES ASSUME ~lost' PROVE GotBetween' /\ RingAhead'
      BY <2>2 DEF OrderInv
    <3>3. stored = 0 /\ Flying = 0
      BY <3>1, <3>2, <1>0 DEF Numeric, Newer, Flying, InFlight
    <3> QED BY <2>1, <3>1, <3>3, <1>0 DEF Numeric, GotBetween, RingAhead, HandledBehind
  <2>5. CASE got = Null /\ mailbox = "host"
    <3>1. lost'
      BY <1>11, <2>5, Zenon DEF WkClear
    <3> QED BY <3>1 DEF OrderInv
  <2> QED BY <2>3, <2>4, <2>5 DEF Types
<1>12. CASE WkHandle
  <2>1. /\ InHand /\ Taken = 1 /\ ~InHand' /\ Taken' = 0 /\ Flying' = Flying /\ got > 0
        /\ UNCHANGED <<sent, stored>> /\ handled' = Append(handled, got)
        /\ \A i \in 0 .. stored - 1 : At(i)' = At(i)
    BY <1>12 DEF WkHandle, InHand, Taken, Flying, InFlight, At, PostInv
  <2>2. /\ Len(handled') = Len(handled) + 1
        /\ handled'[Len(handled) + 1] = got
        /\ \A h \in 1 .. Len(handled) : handled'[h] = handled[h]
    BY <2>1 DEF HandledOK
  <2>3. \A h \in 1 .. Len(handled) + 1 : h \in 1 .. Len(handled) \/ h = Len(handled) + 1
    BY <1>0 DEF Numeric
  <2>4. HandledBehind'
    BY <2>1, <2>2, <2>3, <1>0 DEF Numeric, HandledBehind, GotBetween
  <2>5. HandledUp'
    BY <2>1, <2>2, <2>3, <1>0 DEF Numeric, HandledUp, GotBetween
  <2>6. RingAhead'
    <3>1. SUFFICES ASSUME NEW i \in 0 .. stored - 1, At(i) > 0
          PROVE  /\ At(i) <= sent - Flying - (stored - 1 - i)
                 /\ \A h \in 1 .. Len(handled) + 1 : handled'[h] < At(i)
                 /\ \A j \in 0 .. i - 1 : At(j) < At(i)
      <4>1. \A i \in 0 .. stored - 1 : \A j \in 0 .. i - 1 : j \in 0 .. stored - 1
        BY <1>0 DEF Numeric
      <4> QED BY <2>1, <2>2, <4>1 DEF RingAhead
    <3> QED BY <1>0, <2>1, <2>2, <2>3, <3>1 DEF RingAhead
  <2> QED BY <2>1, <2>4, <2>5, <2>6 DEF OrderInv, GotBetween
<1>13. CASE WkPass
  <2>1. sent' - Flying' >= sent - Flying /\ Flying' \in 0 .. 1
    BY <1>13, <1>0 DEF Numeric, WkPass, Flying, InFlight
  <2>2. Taken' = Taken /\ (InHand' => InHand /\ got' = got)
    BY <1>13 DEF WkPass, Taken, InHand
  <2>3. handled' = handled /\ stored' = stored /\ (lost' = lost)
    BY <1>13 DEF WkPass
  <2>4. \A i \in 0 .. stored - 1 : At(i)' = At(i)
    BY <1>13 DEF WkPass, At
  <2> QED BY <2>1, <2>2, <2>3, <2>4, OrderFrame
<1>14. CASE WkRefuse
  <2>1. /\ InHand /\ Taken = 1 /\ ~InHand' /\ Taken' = 0 /\ Flying' = Flying /\ got > 0
        /\ UNCHANGED <<sent, stored>> /\ handled' = Append(handled, got)
        /\ \A i \in 0 .. stored - 1 : At(i)' = At(i)
    BY <1>14 DEF WkRefuse, InHand, Taken, Flying, InFlight, At, PostInv
  <2>2. /\ Len(handled') = Len(handled) + 1
        /\ handled'[Len(handled) + 1] = got
        /\ \A h \in 1 .. Len(handled) : handled'[h] = handled[h]
    BY <2>1 DEF HandledOK
  <2>3. \A h \in 1 .. Len(handled) + 1 : h \in 1 .. Len(handled) \/ h = Len(handled) + 1
    BY <1>0 DEF Numeric
  <2>4. HandledBehind'
    BY <2>1, <2>2, <2>3, <1>0 DEF Numeric, HandledBehind, GotBetween
  <2>5. HandledUp'
    BY <2>1, <2>2, <2>3, <1>0 DEF Numeric, HandledUp, GotBetween
  <2>6. RingAhead'
    <3>1. SUFFICES ASSUME NEW i \in 0 .. stored - 1, At(i) > 0
          PROVE  /\ At(i) <= sent - Flying - (stored - 1 - i)
                 /\ \A h \in 1 .. Len(handled) + 1 : handled'[h] < At(i)
                 /\ \A j \in 0 .. i - 1 : At(j) < At(i)
      <4>1. \A i \in 0 .. stored - 1 : \A j \in 0 .. i - 1 : j \in 0 .. stored - 1
        BY <1>0 DEF Numeric
      <4> QED BY <2>1, <2>2, <4>1 DEF RingAhead
    <3> QED BY <1>0, <2>1, <2>2, <2>3, <3>1 DEF RingAhead
  <2> QED BY <2>1, <2>4, <2>5, <2>6 DEF OrderInv, GotBetween
<1>15. CASE WkEnqueue
  <2>1. /\ InHand /\ Taken = 1 /\ ~InHand' /\ Taken' = 0 /\ Flying' = Flying /\ got > 0
        /\ UNCHANGED <<sent, stored>> /\ handled' = Append(handled, got)
        /\ \A i \in 0 .. stored - 1 : At(i)' = At(i)
    BY <1>15 DEF WkEnqueue, InHand, Taken, Flying, InFlight, At, PostInv
  <2>2. /\ Len(handled') = Len(handled) + 1
        /\ handled'[Len(handled) + 1] = got
        /\ \A h \in 1 .. Len(handled) : handled'[h] = handled[h]
    BY <2>1 DEF HandledOK
  <2>3. \A h \in 1 .. Len(handled) + 1 : h \in 1 .. Len(handled) \/ h = Len(handled) + 1
    BY <1>0 DEF Numeric
  <2>4. HandledBehind'
    BY <2>1, <2>2, <2>3, <1>0 DEF Numeric, HandledBehind, GotBetween
  <2>5. HandledUp'
    BY <2>1, <2>2, <2>3, <1>0 DEF Numeric, HandledUp, GotBetween
  <2>6. RingAhead'
    <3>1. SUFFICES ASSUME NEW i \in 0 .. stored - 1, At(i) > 0
          PROVE  /\ At(i) <= sent - Flying - (stored - 1 - i)
                 /\ \A h \in 1 .. Len(handled) + 1 : handled'[h] < At(i)
                 /\ \A j \in 0 .. i - 1 : At(j) < At(i)
      <4>1. \A i \in 0 .. stored - 1 : \A j \in 0 .. i - 1 : j \in 0 .. stored - 1
        BY <1>0 DEF Numeric
      <4> QED BY <2>1, <2>2, <4>1 DEF RingAhead
    <3> QED BY <1>0, <2>1, <2>2, <2>3, <3>1 DEF RingAhead
  <2> QED BY <2>1, <2>4, <2>5, <2>6 DEF OrderInv, GotBetween
<1>16. CASE FreeDrain
  <2>1. write # read
    BY <1>16 DEF FreeDrain, CbufEmpty
  <2>2. stored > 0
    BY <2>1, RingFacts DEF RingInv, Types
  <2>3. /\ stored' = stored - 1 /\ ~InHand /\ ~InHand'
        /\ Taken' = Taken /\ Flying' = Flying
    BY <1>16 DEF FreeDrain, DownInv, Taken, InHand, Flying, InFlight
  <2>4. UNCHANGED <<handled, sent>>
    BY <1>16 DEF FreeDrain
  <2>5. \A i \in 0 .. stored' - 1 : At(i)' = At(i + 1)
    BY <1>16, <2>2, ShiftFacts DEF FreeDrain
  <2>6. HandledBehind' /\ HandledUp' /\ GotBetween'
    BY <2>3, <2>4, <1>0 DEF Numeric, HandledBehind, HandledUp, GotBetween
  <2>7. RingAhead'
    <3>1. SUFFICES ASSUME NEW i \in 0 .. stored - 2, At(i + 1) > 0
          PROVE  /\ At(i + 1) <= sent - Flying - (stored - 2 - i)
                 /\ \A h \in 1 .. Len(handled) : handled[h] < At(i + 1)
                 /\ \A j \in 0 .. i - 1 : At(j + 1) < At(i + 1)
      BY <2>3, <2>4, <2>5, <1>0 DEF Numeric, RingAhead
    <3>2. i + 1 \in 0 .. stored - 1
      BY <2>2, <1>0 DEF Numeric
    <3> QED BY <3>1, <3>2, <1>0 DEF Numeric, RingAhead
  <2> QED BY <2>6, <2>7 DEF OrderInv
<1>17. CASE CmdHandle \/ CmdDrop \/ CmdStop \/ CmdEnd \/ Stop \/ FreeCancel \/
   UNCHANGED vars
  <2>1. UNCHANGED <<lost, handled, sent, irq_pc, stored, wk_pc, got, bufs,
     read>>
    BY <1>17, Zenon DEF CmdHandle, CmdDrop, CmdStop, CmdEnd, Stop, FreeCancel,
       vars
  <2>2. /\ sent' - Flying' >= sent - Flying /\ Flying' \in 0 .. 1 /\ Taken' = Taken
        /\ InHand' => InHand /\ got' = got
        /\ \A i \in 0 .. stored - 1 : At(i)' = At(i)
    BY <2>1, <1>0 DEF Numeric, Flying, InFlight, Taken, InHand, At
  <2> QED BY <2>1, <2>2, OrderFrame
<1> QED
  BY NextCases, <1>1, <1>2, <1>3, <1>4, <1>5, <1>6, <1>7, <1>8, <1>9, <1>10,
     <1>11, <1>12, <1>13, <1>14, <1>15, <1>16, <1>17

(* The places exclude each other.                                          *)
LEMMA Apart ==
  ASSUME OrderInv, RingInv, PostInv, Types, HandledOK, ~lost, NEW n \in 1 .. MaxEvents
  PROVE  /\ InWorker(n) => ~InIrq(n) /\ ~InSlots(n) /\ ~Done(n)
         /\ Done(n) => ~InIrq(n) /\ ~InSlots(n) /\ ~InWorker(n)
         /\ stored > 0 /\ At(0) = n => ~Done(n) /\ \A i \in 1 .. stored - 1 : At(i) # n
<1> USE MaxEventsAssumption
<1>0. HandledBehind /\ GotBetween /\ RingAhead /\ Numeric
  BY Numbers DEF OrderInv
<1>1. InWorker(n) => ~InIrq(n) /\ ~InSlots(n) /\ ~Done(n)
  <2> SUFFICES ASSUME InWorker(n) PROVE ~InIrq(n) /\ ~InSlots(n) /\ ~Done(n)
    OBVIOUS
  <2>1. got = n /\ InHand /\ n > 0 /\ n <= sent - Flying - stored
    BY <1>0 DEF InWorker, GotBetween
  <2>2. ~InIrq(n)
    BY <1>0, <2>1 DEF InIrq, Flying, InFlight, PostInv, Numeric
  <2>3. ~InSlots(n)
    BY <1>0, <2>1 DEF InSlots, RingAhead, Numeric
  <2>4. ~Done(n)
    BY <1>0, <2>1 DEF Done, GotBetween, Numeric
  <2> QED BY <2>2, <2>3, <2>4
<1>2. Done(n) => ~InIrq(n) /\ ~InSlots(n)
  <2> SUFFICES ASSUME NEW h \in 1 .. Len(handled), handled[h] = n PROVE ~InIrq(n) /\ ~InSlots(n)
    BY DEF Done
  <2>1. n <= sent - Flying - stored - Taken /\ n > 0
    BY <1>0 DEF HandledBehind
  <2>2. ~InIrq(n)
    BY <1>0, <2>1 DEF InIrq, Flying, InFlight, PostInv, Numeric
  <2>3. ~InSlots(n)
    BY <1>0, <2>1 DEF InSlots, RingAhead, Numeric
  <2> QED BY <2>2, <2>3
<1>3. ASSUME stored > 0, At(0) = n PROVE ~Done(n) /\ \A i \in 1 .. stored - 1 : At(i) # n
  <2>1. 0 \in 0 .. stored - 1 /\ n > 0
    BY <1>0, <1>3 DEF Numeric
  <2>2. ~Done(n)
    BY <1>0, <1>3, <2>1 DEF Done, RingAhead, Numeric
  <2>3. ASSUME NEW i \in 1 .. stored - 1, At(i) = n PROVE FALSE
    <3>1. i \in 0 .. stored - 1 /\ 0 \in 0 .. i - 1 /\ At(i) > 0
      BY <1>0, <2>3, <2>1 DEF Numeric
    <3>2. At(0) < At(i)
      BY <1>0, <3>1 DEF RingAhead
    <3> QED BY <1>3, <2>3, <3>2
  <2> QED BY <2>2, <2>3
<1> QED BY <1>1, <1>2, <1>3

(* The head of the queue leaves it.                                        *)
LEMMA HeadFacts ==
  ASSUME CmdTypes, passed # <<>>, passed' = Tail(passed)
  PROVE  /\ Head(passed) \in 1 .. MaxEvents /\ InQueue(Head(passed))
         /\ \A n : InQueue(n) <=> InQueue(n)' \/ n = Head(passed)
         /\ PassedUp => PassedUp' /\ \A n : InQueue(n)' => n # Head(passed)
<1> USE MaxEventsAssumption DEF CmdTypes
<1>1. /\ Len(passed) \in Nat /\ Len(passed) > 0 /\ Head(passed) = passed[1]
      /\ Len(passed') = Len(passed) - 1
      /\ \A i \in 1 .. Len(passed') : passed'[i] = passed[i + 1]
      /\ \A i \in 1 .. Len(passed) : passed[i] \in 1 .. MaxEvents
  OBVIOUS
<1>2. \A i \in 1 .. Len(passed) : i = 1 \/ (i - 1 \in 1 .. Len(passed') /\ (i - 1) + 1 = i)
  BY <1>1
<1>3. \A i \in 1 .. Len(passed') : i + 1 \in 1 .. Len(passed) /\ 1 < i + 1
  BY <1>1
<1>4. 1 \in 1 .. Len(passed)
  BY <1>1
<1> HIDE DEF CmdTypes
<1>5. Head(passed) \in 1 .. MaxEvents /\ InQueue(Head(passed))
  BY <1>1, <1>4 DEF InQueue
<1>6. ASSUME NEW n PROVE InQueue(n) <=> InQueue(n)' \/ n = Head(passed)
  <2>1. InQueue(n) => InQueue(n)' \/ n = Head(passed)
    BY <1>1, <1>2, Zenon DEF InQueue
  <2>2. InQueue(n)' => InQueue(n)
    BY <1>1, <1>3, Zenon DEF InQueue
  <2> QED BY <1>5, <2>1, <2>2
<1>7. ASSUME PassedUp PROVE PassedUp' /\ \A n : InQueue(n)' => n # Head(passed)
  <2>1. PassedUp'
    <3> SUFFICES ASSUME NEW i \in 1 .. Len(passed'), NEW j \in 1 .. Len(passed'), i < j
                 PROVE  passed'[i] < passed'[j]
      BY DEF PassedUp
    <3>1. i + 1 < j + 1
      BY <1>1
    <3> QED BY <1>1, <1>3, <1>7, <3>1 DEF PassedUp
  <2>2. \A i \in 1 .. Len(passed') : passed[1] < passed[i + 1]
    BY <1>3, <1>4, <1>7 DEF PassedUp
  <2>3. \A i \in 1 .. Len(passed') : passed'[i] # Head(passed)
    BY <1>1, <1>3, <2>2
  <2>4. \A n : InQueue(n)' => n # Head(passed)
    BY <2>3, Zenon DEF InQueue
  <2> QED BY <2>1, <2>4
<1> QED BY <1>5, <1>6, <1>7

(* The worker is done with an event.                                       *)
LEMMA AppendDone ==
  ASSUME HandledOK, got \in 1 .. MaxEvents, handled' = Append(handled, got)
  PROVE  /\ Len(handled') = Len(handled) + 1 /\ Len(handled) \in Nat /\ handled'[Len(handled) + 1] = got
         /\ \A i \in 1 .. Len(handled) : handled'[i] = handled[i]
         /\ \A n : Done(n)' <=> Done(n) \/ n = got
<1>1. /\ Len(handled') = Len(handled) + 1 /\ Len(handled) \in Nat /\ handled'[Len(handled) + 1] = got
      /\ \A i \in 1 .. Len(handled) : handled'[i] = handled[i]
  BY MaxEventsAssumption DEF HandledOK
<1>2. \A i \in 1 .. Len(handled') : i \in 1 .. Len(handled) \/ i = Len(handled) + 1
  BY <1>1
<1>3. \A i \in 1 .. Len(handled) : i \in 1 .. Len(handled')
  BY <1>1
<1>4. Len(handled) + 1 \in 1 .. Len(handled')
  BY <1>1
<1>5. ASSUME NEW n PROVE Done(n)' <=> Done(n) \/ n = got
  <2>1. Done(n)' => Done(n) \/ n = got
    BY <1>1, <1>2, Zenon DEF Done
  <2>2. Done(n) => Done(n)'
    BY <1>1, <1>3, Zenon DEF Done
  <2>3. n = got => Done(n)'
    BY <1>1, <1>4, Zenon DEF Done
  <2> QED BY <2>1, <2>2, <2>3
<1> QED BY <1>1, <1>5

(* An event is queued.                                                     *)
LEMMA AppendQueue ==
  ASSUME CmdTypes, got \in 1 .. MaxEvents, passed' = Append(passed, got)
  PROVE  /\ Len(passed') = Len(passed) + 1 /\ Len(passed) \in Nat /\ passed'[Len(passed) + 1] = got
         /\ \A i \in 1 .. Len(passed) : passed'[i] = passed[i]
         /\ \A n : InQueue(n)' <=> InQueue(n) \/ n = got
<1>1. /\ Len(passed') = Len(passed) + 1 /\ Len(passed) \in Nat /\ passed'[Len(passed) + 1] = got
      /\ \A i \in 1 .. Len(passed) : passed'[i] = passed[i]
  BY MaxEventsAssumption DEF CmdTypes
<1>2. \A i \in 1 .. Len(passed') : i \in 1 .. Len(passed) \/ i = Len(passed) + 1
  BY <1>1
<1>3. \A i \in 1 .. Len(passed) : i \in 1 .. Len(passed')
  BY <1>1
<1>4. Len(passed) + 1 \in 1 .. Len(passed')
  BY <1>1
<1>5. ASSUME NEW n PROVE InQueue(n)' <=> InQueue(n) \/ n = got
  <2>1. InQueue(n)' => InQueue(n) \/ n = got
    BY <1>1, <1>2, Zenon DEF InQueue
  <2>2. InQueue(n) => InQueue(n)'
    BY <1>1, <1>3, Zenon DEF InQueue
  <2>3. n = got => InQueue(n)'
    BY <1>1, <1>4, Zenon DEF InQueue
  <2> QED BY <2>1, <2>2, <2>3
<1> QED BY <1>1, <1>5


(* What went to the command thread is behind the worker, and in order.     *)
LEMMA QueueStep ==
  QueueInv /\ OrderInv /\ RingInv /\ PostInv /\ Types /\ HandledOK /\ CmdTypes /\ [Next]_vars => QueueInv'
<1> SUFFICES ASSUME QueueInv, OrderInv, RingInv, PostInv, Types, HandledOK, CmdTypes, [Next]_vars PROVE QueueInv'
  OBVIOUS
<1> USE DEF ring_vars, irq_vars, cmd_vars
<1>1. CASE IrqPush
  <2>1. lost => lost'
    BY <1>1, Zenon DEF IrqPush
  <2>2. UNCHANGED <<handled, passed, leaked>>
    BY <1>1, Zenon DEF IrqPush
  <2> QED BY <2>1, <2>2 DEF QueueInv, PassedUp, InQueue, Done
<1>2. CASE IrqBump
  <2>1. lost => lost'
    BY <1>2, Zenon DEF IrqBump
  <2>2. UNCHANGED <<handled, passed, leaked>>
    BY <1>2, Zenon DEF IrqBump
  <2> QED BY <2>1, <2>2 DEF QueueInv, PassedUp, InQueue, Done
<1>3. CASE WkClear
  <2>1. lost => lost'
    BY <1>3, Zenon DEF WkClear
  <2>2. UNCHANGED <<handled, passed, leaked>>
    BY <1>3, Zenon DEF WkClear
  <2> QED BY <2>1, <2>2 DEF QueueInv, PassedUp, InQueue, Done
<1>4. CASE WkHandle
  <2>0. handled' = Append(handled, got) /\ InHand /\ got > 0 /\ lost' = lost
    BY <1>4 DEF WkHandle, InHand, PostInv
  <2>1. got \in 1 .. MaxEvents
    BY <2>0, MaxEventsAssumption DEF Types
  <2>2. \A n : Done(n)' <=> Done(n) \/ n = got
    BY <2>0, <2>1, AppendDone
  <2>3. ~lost => ~Done(got)
    BY <2>0, <2>1, Apart DEF InWorker
  <2>4. UNCHANGED <<passed, leaked>>
    BY <1>4, Zenon DEF WkHandle
  <2> QED BY <2>0, <2>2, <2>4 DEF QueueInv, PassedUp, InQueue
<1>5. CASE WkRefuse
  <2>0. handled' = Append(handled, got) /\ InHand /\ got > 0 /\ lost' = lost
    BY <1>5 DEF WkRefuse, InHand, PostInv
  <2>1. got \in 1 .. MaxEvents
    BY <2>0, MaxEventsAssumption DEF Types
  <2>2. \A n : Done(n)' <=> Done(n) \/ n = got
    BY <2>0, <2>1, AppendDone
  <2>3. ~lost => ~Done(got)
    BY <2>0, <2>1, Apart DEF InWorker
  <2>4. passed' = passed /\ leaked' = leaked \cup {got}
    BY <1>5, Zenon DEF WkRefuse
  <2> QED BY <2>0, <2>1, <2>2, <2>3, <2>4 DEF QueueInv, PassedUp, InQueue
<1>6. CASE WkEnqueue
  <2>0. handled' = Append(handled, got) /\ InHand /\ got > 0 /\ lost' = lost
    BY <1>6 DEF WkEnqueue, InHand, PostInv
  <2>1. got \in 1 .. MaxEvents
    BY <2>0, MaxEventsAssumption DEF Types
  <2>2. \A n : Done(n)' <=> Done(n) \/ n = got
    BY <2>0, <2>1, AppendDone
  <2>3. ~lost => ~Done(got)
    BY <2>0, <2>1, Apart DEF InWorker
  <2>4. CASE cmd_pc = "gone"
    <3>1. passed' = passed /\ leaked' = leaked \cup {got}
      BY <1>6, <2>4, Zenon DEF WkEnqueue
    <3> QED BY <2>0, <2>1, <2>2, <2>3, <3>1 DEF QueueInv, PassedUp, InQueue
  <2>5. CASE cmd_pc # "gone"
    <3>1. passed' = Append(passed, got) /\ leaked' = leaked
      BY <1>6, <2>5, Zenon DEF WkEnqueue
    <3>2. \A n : InQueue(n)' <=> InQueue(n) \/ n = got
      BY <2>1, <3>1, AppendQueue
    <3>3. /\ Len(passed') = Len(passed) + 1 /\ Len(passed) \in Nat /\ passed'[Len(passed) + 1] = got
          /\ \A i \in 1 .. Len(passed) : passed'[i] = passed[i]
      BY <2>1, <3>1, AppendQueue
    <3>4. ASSUME ~lost, QueueInv PROVE PassedUp'
      <4>1. \A i \in 1 .. Len(passed) : InQueue(passed[i]) /\ passed[i] \in 1 .. MaxEvents
        <5>1. \A i \in 1 .. Len(passed) : passed[i] \in 1 .. MaxEvents
          BY MaxEventsAssumption DEF CmdTypes
        <5>2. \A i \in 1 .. Len(passed) : InQueue(passed[i])
          BY Zenon DEF InQueue
        <5> QED BY <5>1, <5>2
      <4>2. \A i \in 1 .. Len(passed) : Done(passed[i])
        BY <3>4, <4>1 DEF QueueInv
      <4>3. \A h \in 1 .. Len(handled) : handled[h] < got
        BY <2>0, <3>4 DEF OrderInv, GotBetween
      <4>4. \A i \in 1 .. Len(passed) : passed[i] < got
        BY <4>2, <4>3 DEF Done
      <4>5. PassedUp
        BY <3>4 DEF QueueInv
      <4>6. \A i \in 1 .. Len(passed') : i \in 1 .. Len(passed) \/ i = Len(passed) + 1
        BY <3>3
      <4> SUFFICES ASSUME NEW i \in 1 .. Len(passed'), NEW j \in 1 .. Len(passed'), i < j
                   PROVE  passed'[i] < passed'[j]
        BY DEF PassedUp
      <4>7. i \in 1 .. Len(passed)
        BY <3>3
      <4>8. CASE j \in 1 .. Len(passed)
        BY <3>3, <4>5, <4>7, <4>8 DEF PassedUp
      <4>9. CASE j = Len(passed) + 1
        BY <3>3, <4>4, <4>7, <4>9
      <4> QED BY <4>6, <4>8, <4>9
    <3>5. ASSUME ~lost PROVE \A n \in 1 .. MaxEvents : /\ InQueue(n)' \/ n \in leaked' => Done(n)'
                                                      /\ ~(InQueue(n)' /\ n \in leaked')
      BY <2>2, <2>3, <3>1, <3>2, <3>5 DEF QueueInv
    <3> QED BY <2>0, <3>4, <3>5 DEF QueueInv
  <2> QED BY <2>4, <2>5
<1>7. CASE CmdHandle
  <2>1. passed # <<>> /\ passed' = Tail(passed) /\ lost' = lost /\ handled' = handled
    BY <1>7 DEF CmdHandle
  <2>2. leaked' \subseteq leaked \cup {Head(passed)}
    BY <1>7, Zenon DEF CmdHandle
  <2>3. /\ Head(passed) \in 1 .. MaxEvents /\ InQueue(Head(passed))
        /\ \A n : InQueue(n) <=> InQueue(n)' \/ n = Head(passed)
        /\ PassedUp => PassedUp' /\ \A n : InQueue(n)' => n # Head(passed)
    BY <2>1, HeadFacts
  <2>4. \A n : Done(n)' <=> Done(n)
    BY <2>1 DEF Done
  <2>5. ASSUME ~lost, QueueInv, NEW n \in 1 .. MaxEvents
        PROVE  /\ InQueue(n)' \/ n \in leaked' => Done(n)'
               /\ ~(InQueue(n)' /\ n \in leaked')
    <3>1. n \in leaked' => n \in leaked \/ n = Head(passed)
      BY <2>2
    <3>2. InQueue(n) \/ n \in leaked => Done(n)
      BY <2>5 DEF QueueInv
    <3>3. ~(InQueue(n) /\ n \in leaked) /\ PassedUp
      BY <2>5 DEF QueueInv
    <3>4. InQueue(n)' => n # Head(passed)
      BY <2>3, <3>3
    <3> QED BY <2>3, <2>4, <3>1, <3>2, <3>3, <3>4
  <2>6. ~lost /\ QueueInv => PassedUp'
    BY <2>3 DEF QueueInv
  <2> QED BY <2>1, <2>5, <2>6, Zenon DEF QueueInv
<1>8. CASE CmdDrop
  <2>1. passed # <<>> /\ passed' = Tail(passed) /\ lost' = lost /\ handled' = handled
    BY <1>8 DEF CmdDrop
  <2>2. leaked' \subseteq leaked \cup {Head(passed)}
    BY <1>8, Zenon DEF CmdDrop
  <2>3. /\ Head(passed) \in 1 .. MaxEvents /\ InQueue(Head(passed))
        /\ \A n : InQueue(n) <=> InQueue(n)' \/ n = Head(passed)
        /\ PassedUp => PassedUp' /\ \A n : InQueue(n)' => n # Head(passed)
    BY <2>1, HeadFacts
  <2>4. \A n : Done(n)' <=> Done(n)
    BY <2>1 DEF Done
  <2>5. ASSUME ~lost, QueueInv, NEW n \in 1 .. MaxEvents
        PROVE  /\ InQueue(n)' \/ n \in leaked' => Done(n)'
               /\ ~(InQueue(n)' /\ n \in leaked')
    <3>1. n \in leaked' => n \in leaked \/ n = Head(passed)
      BY <2>2
    <3>2. InQueue(n) \/ n \in leaked => Done(n)
      BY <2>5 DEF QueueInv
    <3>3. ~(InQueue(n) /\ n \in leaked) /\ PassedUp
      BY <2>5 DEF QueueInv
    <3>4. InQueue(n)' => n # Head(passed)
      BY <2>3, <3>3
    <3> QED BY <2>3, <2>4, <3>1, <3>2, <3>3, <3>4
  <2>6. ~lost /\ QueueInv => PassedUp'
    BY <2>3 DEF QueueInv
  <2> QED BY <2>1, <2>5, <2>6, Zenon DEF QueueInv
<1>9. ASSUME NEW k \in Kinds, Post(k) PROVE QueueInv'
  <2>1. UNCHANGED <<lost, handled, passed, leaked>>
    BY <1>9, Zenon DEF Post
  <2> QED BY <2>1 DEF QueueInv, PassedUp, InQueue, Done
<1>10. CASE IrqCheck \/ IrqSchedule \/ WkStart \/ WkTest \/ WkEnd \/ WkPop \/
   WkBump \/ WkPass \/ CmdStop \/ CmdEnd \/ Stop \/ FreeCancel \/ FreeDrain \/
   UNCHANGED vars
  <2>1. UNCHANGED <<lost, handled, passed, leaked>>
    BY <1>10, Zenon DEF IrqCheck, IrqSchedule, WkStart, WkTest, WkEnd, WkPop,
       WkBump, WkPass, CmdStop, CmdEnd, Stop, FreeCancel, FreeDrain, vars
  <2> QED BY <2>1 DEF QueueInv, PassedUp, InQueue, Done
<1> QED
  BY NextCases, <1>1, <1>2, <1>3, <1>4, <1>5, <1>6, <1>7, <1>8, <1>9, <1>10

(* What lies in the ring stays there.                                      *)
LEMMA RingKept ==
  ASSUME stored' = stored, \A i \in 0 .. stored - 1 : At(i)' = At(i)
  PROVE  \A n : InSlots(n)' <=> InSlots(n)
  BY DEF InSlots

(* The first entry leaves the ring.                                        *)
LEMMA RingShift ==
  ASSUME stored \in Nat, stored > 0, stored' = stored - 1,
         \A i \in 0 .. stored' - 1 : At(i)' = At(i + 1)
  PROVE  /\ \A n : InSlots(n) <=> InSlots(n)' \/ At(0) = n
         /\ \A n : (\A i \in 1 .. stored - 1 : At(i) # n) => ~InSlots(n)'
<1>1. \A i \in 0 .. stored - 1 : i = 0 \/ (i - 1 \in 0 .. stored' - 1 /\ (i - 1) + 1 = i)
  OBVIOUS
<1>2. \A i \in 0 .. stored' - 1 : i + 1 \in 0 .. stored - 1 /\ i + 1 \in 1 .. stored - 1
  OBVIOUS
<1>3. 0 \in 0 .. stored - 1
  OBVIOUS
<1>4. ASSUME NEW n, NEW i \in 0 .. stored - 1, At(i) = n PROVE InSlots(n)' \/ At(0) = n
  <2>1. CASE i = 0
    BY <1>4, <2>1
  <2>2. CASE i # 0
    <3>1. i - 1 \in 0 .. stored' - 1 /\ At(i - 1)' = At(i)
      BY <1>1, <2>2
    <3> QED BY <1>4, <3>1 DEF InSlots
  <2> QED BY <2>1, <2>2
<1>5. ASSUME NEW n, InSlots(n)' PROVE InSlots(n)
  BY <1>2, <1>5 DEF InSlots
<1>6. \A n : At(0) = n => InSlots(n)
  BY <1>3 DEF InSlots
<1>7. ASSUME NEW n, \A i \in 1 .. stored - 1 : At(i) # n PROVE ~InSlots(n)'
  BY <1>2, <1>7 DEF InSlots
<1>8. \A n : InSlots(n) => InSlots(n)' \/ At(0) = n
  BY <1>4 DEF InSlots
<1> QED BY <1>5, <1>6, <1>7, <1>8, Zenon

(* Buffers stay where they are.                                            *)
LEMMA PlacesKept ==
  ASSUME LiveInv, lost' = lost, live' = live, leaked' = leaked,
         \A n : InSlots(n)' <=> InSlots(n), \A n : InQueue(n)' <=> InQueue(n),
         \A n \in 1 .. MaxEvents : InIrq(n)' <=> InIrq(n),
         \A n \in 1 .. MaxEvents : InWorker(n)' <=> InWorker(n)
  PROVE  LiveInv'
  BY Zenon DEF LiveInv

(* What is allocated is held or was left behind, and what is held is       *)
(* allocated, unless an event was lost.                                    *)
LEMMA LiveStep ==
  LiveInv /\ QueueInv /\ OrderInv /\ RingInv /\ PostInv /\ Types /\ HandledOK /\ CmdTypes /\ DownInv /\ [Next]_vars => LiveInv'
<1> SUFFICES ASSUME LiveInv, QueueInv, OrderInv, RingInv, PostInv, Types, HandledOK, CmdTypes, DownInv, [Next]_vars PROVE LiveInv'
  OBVIOUS
<1> USE DEF ring_vars, irq_vars, cmd_vars
<1>1. ASSUME NEW k \in Kinds, Post(k) PROVE LiveInv'
  <2>1. \A n : InSlots(n)' <=> InSlots(n)
    <3>1. stored' = stored /\ \A i \in 0 .. stored - 1 : At(i)' = At(i)
      BY <1>1 DEF Post, At
    <3> QED BY <3>1, RingKept
  <2>2. \A n : InIrq(n)' <=> InIrq(n)
    BY <1>1 DEF Post, InIrq
  <2>3. \A n \in 1 .. MaxEvents : InWorker(n)' <=> InWorker(n)
    BY <1>1 DEF Post, InWorker, InHand, SpecialPtr
  <2>4. \A n : InQueue(n)' <=> InQueue(n)
    BY <1>1 DEF Post, InQueue
  <2>5. UNCHANGED <<lost, live, leaked>>
    BY <1>1, Zenon DEF Post
  <2> QED BY <2>1, <2>2, <2>3, <2>4, <2>5, PlacesKept
<1>2. CASE IrqCheck
  <2>1. \A n : InSlots(n)' <=> InSlots(n)
    <3>1. stored' = stored /\ \A i \in 0 .. stored - 1 : At(i)' = At(i)
      BY <1>2 DEF IrqCheck, At
    <3> QED BY <3>1, RingKept
  <2>3. \A n \in 1 .. MaxEvents : InWorker(n)' <=> InWorker(n)
    BY <1>2 DEF IrqCheck, InWorker, InHand, SpecialPtr
  <2>4. \A n : InQueue(n)' <=> InQueue(n)
    BY <1>2 DEF IrqCheck, InQueue
  <2>5. \A n : ~InIrq(n)
    BY <1>2 DEF IrqCheck, InIrq
  <2>6. UNCHANGED <<lost, leaked, ev, ev_kind>> /\ ev > 0
    BY <1>2 DEF IrqCheck, PostInv, InFlight
  <2>7. CASE stopped
    <3>1. live' = live /\ irq_pc' = "idle"
      BY <1>2, <2>7 DEF IrqCheck
    <3>2. \A n : ~InIrq(n)'
      BY <3>1 DEF InIrq
    <3> QED BY <2>1, <2>3, <2>4, <2>5, <2>6, <3>1, <3>2, PlacesKept
  <2>8. CASE ~stopped
    <3>1. irq_pc' = "push" /\ \A n : n \in live' <=> n \in live \/ (n = ev /\ ev_kind = "normal")
      BY <1>2, <2>8 DEF IrqCheck
    <3>2. \A n : InIrq(n)' <=> n = ev /\ ev_kind = "normal"
      BY <2>6, <3>1 DEF InIrq
    <3> QED BY <2>1, <2>3, <2>4, <2>5, <2>6, <3>1, <3>2 DEF LiveInv
  <2> QED BY <2>7, <2>8
<1>3. CASE IrqPush
  <2>0. CASE CbufFull
    BY <1>3, <2>0, Zenon DEF IrqPush, LiveInv
  <2>1. CASE ~CbufFull /\ ~lost
    <3>1. \A n : InSlots(n)' <=> InSlots(n)
      <4>1. stored' = stored /\ \A i \in 0 .. stored - 1 : At(i)' = At(i)
        BY <1>3, <2>1, StoreFacts DEF IrqPush
      <4> QED BY <4>1, RingKept
    <3>2. \A n : InIrq(n)' <=> InIrq(n)
      BY <1>3, <2>1 DEF IrqPush, InIrq
    <3>3. \A n : /\ InWorker(n)' <=> InWorker(n)
                 /\ InQueue(n)' <=> InQueue(n)
      BY <1>3 DEF IrqPush, InWorker, InHand, InQueue
    <3>4. UNCHANGED <<lost, live, leaked>>
      BY <1>3, <2>1, Zenon DEF IrqPush
    <3> QED BY <3>1, <3>2, <3>3, <3>4, PlacesKept
  <2>2. CASE lost
    BY <1>3, <2>2, Zenon DEF IrqPush, LiveInv
  <2> QED BY <2>0, <2>1, <2>2
<1>4. CASE IrqBump
  <2>3. \A n \in 1 .. MaxEvents : InWorker(n)' <=> InWorker(n)
    BY <1>4 DEF IrqBump, InWorker, InHand, SpecialPtr
  <2>4. \A n : InQueue(n)' <=> InQueue(n)
    BY <1>4 DEF IrqBump, InQueue
  <2>5. UNCHANGED <<live, leaked>> /\ irq_pc' = "sched" /\ irq_pc = "bump"
    BY <1>4 DEF IrqBump
  <2>6. ~lost' => ~lost
    BY <1>4, Zenon DEF IrqBump
  <2>7. SUFFICES ASSUME ~lost PROVE LiveInv'
    BY <2>6 DEF LiveInv
  <2>8. stored \in Nat /\ stored' = stored + 1 /\ \A i \in 0 .. stored : At(i)' = At(i)
    BY <1>4, <2>7, SizeAssumption DEF IrqBump, At, RingInv
  <2>9. ASSUME NEW n PROVE InSlots(n)' <=> InSlots(n) \/ At(stored) = n
    <3>1. \A i \in 0 .. stored' - 1 : i \in 0 .. stored - 1 \/ i = stored
      BY <2>8
    <3>2. stored \in 0 .. stored' - 1 /\ \A i \in 0 .. stored - 1 : i \in 0 .. stored' - 1
      BY <2>8
    <3>3. \A i \in 0 .. stored' - 1 : At(i)' = At(i)
      BY <2>8
    <3> QED BY <3>1, <3>2, <3>3, Zenon DEF InSlots
  <2>10. At(stored) = Entry
    BY <2>5, <2>7 DEF RingInv, At
  <2>11. \A n \in 1 .. MaxEvents : InIrq(n) <=> At(stored) = n
    BY <2>5, <2>10 DEF InIrq, Entry, SpecialPtr, Null
  <2>12. \A n : ~InIrq(n)'
    BY <2>5 DEF InIrq
  <2> HIDE DEF At
  <2> QED BY <2>3, <2>4, <2>5, <2>7, <2>9, <2>11, <2>12, Zenon DEF LiveInv
<1>5. CASE IrqSchedule
  <2>1. \A n : InSlots(n)' <=> InSlots(n)
    <3>1. stored' = stored /\ \A i \in 0 .. stored - 1 : At(i)' = At(i)
      BY <1>5 DEF IrqSchedule, At
    <3> QED BY <3>1, RingKept
  <2>2. \A n : InIrq(n)' <=> InIrq(n)
    BY <1>5 DEF IrqSchedule, InIrq
  <2>3. \A n \in 1 .. MaxEvents : InWorker(n)' <=> InWorker(n)
    BY <1>5 DEF IrqSchedule, InWorker, InHand, SpecialPtr
  <2>4. \A n : InQueue(n)' <=> InQueue(n)
    BY <1>5 DEF IrqSchedule, InQueue
  <2>5. UNCHANGED <<lost, live, leaked>>
    BY <1>5, Zenon DEF IrqSchedule
  <2> QED BY <2>1, <2>2, <2>3, <2>4, <2>5, PlacesKept
<1>6. CASE WkStart
  <2>1. \A n : InSlots(n)' <=> InSlots(n)
    <3>1. stored' = stored /\ \A i \in 0 .. stored - 1 : At(i)' = At(i)
      BY <1>6 DEF WkStart, At
    <3> QED BY <3>1, RingKept
  <2>2. \A n : InIrq(n)' <=> InIrq(n)
    BY <1>6 DEF WkStart, InIrq
  <2>3. \A n \in 1 .. MaxEvents : InWorker(n)' <=> InWorker(n)
    BY <1>6 DEF WkStart, InWorker, InHand, SpecialPtr
  <2>4. \A n : InQueue(n)' <=> InQueue(n)
    BY <1>6 DEF WkStart, InQueue
  <2>5. UNCHANGED <<lost, live, leaked>>
    BY <1>6, Zenon DEF WkStart
  <2> QED BY <2>1, <2>2, <2>3, <2>4, <2>5, PlacesKept
<1>7. CASE WkTest
  <2>1. \A n : InSlots(n)' <=> InSlots(n)
    <3>1. stored' = stored /\ \A i \in 0 .. stored - 1 : At(i)' = At(i)
      BY <1>7 DEF WkTest, At
    <3> QED BY <3>1, RingKept
  <2>2. \A n : InIrq(n)' <=> InIrq(n)
    BY <1>7 DEF WkTest, InIrq
  <2>3. \A n \in 1 .. MaxEvents : InWorker(n)' <=> InWorker(n)
    BY <1>7 DEF WkTest, InWorker, InHand, SpecialPtr
  <2>4. \A n : InQueue(n)' <=> InQueue(n)
    BY <1>7 DEF WkTest, InQueue
  <2>5. UNCHANGED <<lost, live, leaked>>
    BY <1>7, Zenon DEF WkTest
  <2> QED BY <2>1, <2>2, <2>3, <2>4, <2>5, PlacesKept
<1>8. CASE WkEnd
  <2>1. \A n : InSlots(n)' <=> InSlots(n)
    <3>1. stored' = stored /\ \A i \in 0 .. stored - 1 : At(i)' = At(i)
      BY <1>8 DEF WkEnd, At
    <3> QED BY <3>1, RingKept
  <2>2. \A n : InIrq(n)' <=> InIrq(n)
    BY <1>8 DEF WkEnd, InIrq
  <2>3. \A n \in 1 .. MaxEvents : InWorker(n)' <=> InWorker(n)
    BY <1>8 DEF WkEnd, InWorker, InHand, SpecialPtr
  <2>4. \A n : InQueue(n)' <=> InQueue(n)
    BY <1>8 DEF WkEnd, InQueue
  <2>5. UNCHANGED <<lost, live, leaked>>
    BY <1>8, Zenon DEF WkEnd
  <2> QED BY <2>1, <2>2, <2>3, <2>4, <2>5, PlacesKept
<1>9. CASE WkPop
  <2>1. \A n : InSlots(n)' <=> InSlots(n)
    <3>1. stored' = stored /\ \A i \in 0 .. stored - 1 : At(i)' = At(i)
      BY <1>9 DEF WkPop, At
    <3> QED BY <3>1, RingKept
  <2>2. \A n : InIrq(n)' <=> InIrq(n)
    BY <1>9 DEF WkPop, InIrq
  <2>3. \A n \in 1 .. MaxEvents : InWorker(n)' <=> InWorker(n)
    BY <1>9 DEF WkPop, InWorker, InHand, SpecialPtr
  <2>4. \A n : InQueue(n)' <=> InQueue(n)
    BY <1>9 DEF WkPop, InQueue
  <2>5. UNCHANGED <<lost, live, leaked>>
    BY <1>9, Zenon DEF WkPop
  <2> QED BY <2>1, <2>2, <2>3, <2>4, <2>5, PlacesKept
<1>10. CASE WkBump
  <2>2. \A n : InIrq(n)' <=> InIrq(n)
    BY <1>10 DEF WkBump, InIrq
  <2>4. \A n : InQueue(n)' <=> InQueue(n)
    BY <1>10 DEF WkBump, InQueue
  <2>5. UNCHANGED <<lost, live, leaked, got>> /\ InHand' /\ ~InHand
    BY <1>10 DEF WkBump, InHand
  <2>6. SUFFICES ASSUME ~lost PROVE LiveInv'
    BY <2>5 DEF LiveInv
  <2>7. stored \in Nat /\ stored > 0 /\ stored' = stored - 1 /\ got = bufs[read]
    BY <1>10, <2>6 DEF WkBump, RingInv
  <2>8. /\ At(0) = bufs[read]
        /\ \A i \in 0 .. stored' - 1 : At(i)' = At(i + 1)
    BY <1>10, <2>6, <2>7, ShiftFacts DEF WkBump
  <2>9. \A n : InSlots(n) <=> InSlots(n)' \/ got = n
    BY <2>7, <2>8, RingShift
  <2>10. \A n : (InWorker(n)' <=> got = n) /\ ~InWorker(n)
    BY <2>5 DEF InWorker
  <2> QED BY <2>2, <2>4, <2>5, <2>9, <2>10, Zenon DEF LiveInv
<1>11. CASE WkClear
  <2>1. \A n : InSlots(n)' <=> InSlots(n)
    <3>1. stored' = stored /\ \A i \in 0 .. stored - 1 : At(i)' = At(i)
      BY <1>11 DEF WkClear, At
    <3> QED BY <3>1, RingKept
  <2>2. \A n : InIrq(n)' <=> InIrq(n)
    BY <1>11 DEF WkClear, InIrq
  <2>4. \A n : InQueue(n)' <=> InQueue(n)
    BY <1>11 DEF WkClear, InQueue
  <2>5. leaked' = leaked /\ InHand
    BY <1>11 DEF WkClear, InHand
  <2>6. CASE got # Null
    <3>1. got' = got /\ (got > 0 => InHand')
      BY <1>11, <2>6 DEF WkClear, InHand, SpecialPtr
    <3>2. live' = live /\ lost' = lost
      BY <1>11, <2>6, Zenon DEF WkClear
    <3>3. \A n \in 1 .. MaxEvents : InWorker(n)' <=> InWorker(n)
      BY <2>5, <3>1, MaxEventsAssumption DEF InWorker
    <3> QED BY <2>1, <2>2, <2>4, <2>5, <3>2, <3>3, PlacesKept
  <2>7. CASE got = Null /\ mailbox = "fw"
    <3>1. got' = sent /\ InHand' /\ sent > 0
      BY <1>11, <2>7 DEF WkClear, InHand, PostInv, Null
    <3>2. \A n : n \in live' <=> n \in live \/ n = sent
      <4>1. live' = live \cup {sent}
        BY <1>11, <2>7, Zenon DEF WkClear
      <4> QED BY <4>1
    <3>3. ~lost' => ~lost
      BY <1>11, <2>7, Zenon DEF WkClear
    <3>4. \A n \in 1 .. MaxEvents : (InWorker(n)' <=> n = sent) /\ ~InWorker(n)
      BY <2>7, <3>1, MaxEventsAssumption DEF InWorker, Null
    <3> QED BY <2>1, <2>2, <2>4, <2>5, <3>1, <3>2, <3>3, <3>4 DEF LiveInv
  <2>8. CASE got = Null /\ mailbox = "host"
    BY <1>11, <2>8, Zenon DEF WkClear, LiveInv
  <2> QED BY <2>6, <2>7, <2>8 DEF Types
<1>12. CASE WkHandle
  <2>1. \A n : InSlots(n)' <=> InSlots(n)
    <3>1. stored' = stored /\ \A i \in 0 .. stored - 1 : At(i)' = At(i)
      BY <1>12 DEF WkHandle, At
    <3> QED BY <3>1, RingKept
  <2>2. \A n : InIrq(n)' <=> InIrq(n)
    BY <1>12 DEF WkHandle, InIrq
  <2>3. InHand /\ ~InHand' /\ got > 0 /\ lost' = lost
    BY <1>12 DEF WkHandle, InHand, PostInv
  <2>5. got \in 1 .. MaxEvents /\ \A n : (InWorker(n) <=> n = got) /\ ~InWorker(n)'
    BY <2>3, MaxEventsAssumption DEF InWorker, Types
  <2>6. SUFFICES ASSUME ~lost PROVE LiveInv'
    BY <2>3 DEF LiveInv
  <2>7. /\ \A n : n \in live' <=> n \in live /\ n # got
        /\ leaked' = leaked /\ \A n : InQueue(n)' <=> InQueue(n)
    BY <1>12 DEF WkHandle, InQueue
  <2>8. ~InIrq(got) /\ ~InSlots(got) /\ ~Done(got)
    BY <2>5, <2>6, Apart
  <2>9. ~InQueue(got) /\ got \notin leaked
    BY <2>5, <2>6, <2>8 DEF QueueInv
  <2> QED BY <2>1, <2>2, <2>3, <2>5, <2>6, <2>7, <2>8, <2>9, Zenon DEF LiveInv
<1>13. CASE WkPass
  <2>1. \A n : InSlots(n)' <=> InSlots(n)
    <3>1. stored' = stored /\ \A i \in 0 .. stored - 1 : At(i)' = At(i)
      BY <1>13 DEF WkPass, At
    <3> QED BY <3>1, RingKept
  <2>2. \A n : InIrq(n)' <=> InIrq(n)
    BY <1>13 DEF WkPass, InIrq
  <2>3. \A n \in 1 .. MaxEvents : InWorker(n)' <=> InWorker(n)
    BY <1>13 DEF WkPass, InWorker, InHand, SpecialPtr
  <2>4. \A n : InQueue(n)' <=> InQueue(n)
    BY <1>13 DEF WkPass, InQueue
  <2>5. UNCHANGED <<lost, live, leaked>>
    BY <1>13, Zenon DEF WkPass
  <2> QED BY <2>1, <2>2, <2>3, <2>4, <2>5, PlacesKept
<1>14. CASE WkRefuse
  <2>1. \A n : InSlots(n)' <=> InSlots(n)
    <3>1. stored' = stored /\ \A i \in 0 .. stored - 1 : At(i)' = At(i)
      BY <1>14 DEF WkRefuse, At
    <3> QED BY <3>1, RingKept
  <2>2. \A n : InIrq(n)' <=> InIrq(n)
    BY <1>14 DEF WkRefuse, InIrq
  <2>3. InHand /\ ~InHand' /\ got > 0 /\ lost' = lost
    BY <1>14 DEF WkRefuse, InHand, PostInv
  <2>5. got \in 1 .. MaxEvents /\ \A n : (InWorker(n) <=> n = got) /\ ~InWorker(n)'
    BY <2>3, MaxEventsAssumption DEF InWorker, Types
  <2>6. SUFFICES ASSUME ~lost PROVE LiveInv'
    BY <2>3 DEF LiveInv
  <2>7. live' = live /\ (\A n : n \in leaked' <=> n \in leaked \/ n = got)
    BY <1>14 DEF WkRefuse
  <2>8. \A n : InQueue(n)' <=> InQueue(n)
    BY <1>14 DEF WkRefuse, InQueue
  <2> QED BY <2>1, <2>2, <2>3, <2>5, <2>6, <2>7, <2>8, Zenon DEF LiveInv
<1>15. CASE WkEnqueue
  <2>1. \A n : InSlots(n)' <=> InSlots(n)
    <3>1. stored' = stored /\ \A i \in 0 .. stored - 1 : At(i)' = At(i)
      BY <1>15 DEF WkEnqueue, At
    <3> QED BY <3>1, RingKept
  <2>2. \A n : InIrq(n)' <=> InIrq(n)
    BY <1>15 DEF WkEnqueue, InIrq
  <2>3. InHand /\ ~InHand' /\ got > 0 /\ lost' = lost
    BY <1>15 DEF WkEnqueue, InHand, PostInv
  <2>5. got \in 1 .. MaxEvents /\ \A n : (InWorker(n) <=> n = got) /\ ~InWorker(n)'
    BY <2>3, MaxEventsAssumption DEF InWorker, Types
  <2>6. SUFFICES ASSUME ~lost PROVE LiveInv'
    BY <2>3 DEF LiveInv
  <2>7. live' = live
    BY <1>15, Zenon DEF WkEnqueue
  <2>8. \A n : (InQueue(n)' \/ n \in leaked') <=> (InQueue(n) \/ n \in leaked \/ n = got)
    <3>1. CASE cmd_pc = "gone"
      <4>1. passed' = passed /\ leaked' = leaked \cup {got}
        BY <1>15, <3>1, Zenon DEF WkEnqueue
      <4> QED BY <4>1 DEF InQueue
    <3>2. CASE cmd_pc # "gone"
      <4>1. passed' = Append(passed, got) /\ leaked' = leaked
        BY <1>15, <3>2, Zenon DEF WkEnqueue
      <4>2. \A n : InQueue(n)' <=> InQueue(n) \/ n = got
        BY <2>5, <4>1, AppendQueue
      <4> QED BY <4>1, <4>2
    <3> QED BY <3>1, <3>2
  <2> QED BY <2>1, <2>2, <2>3, <2>5, <2>6, <2>7, <2>8, Zenon DEF LiveInv
<1>16. CASE CmdHandle
  <2>1. \A n : InSlots(n)' <=> InSlots(n)
    <3>1. stored' = stored /\ \A i \in 0 .. stored - 1 : At(i)' = At(i)
      BY <1>16 DEF CmdHandle, At
    <3> QED BY <3>1, RingKept
  <2>2. \A n : InIrq(n)' <=> InIrq(n)
    BY <1>16 DEF CmdHandle, InIrq
  <2>3. \A n \in 1 .. MaxEvents : InWorker(n)' <=> InWorker(n)
    BY <1>16 DEF CmdHandle, InWorker, InHand, SpecialPtr
  <2>4. passed # <<>> /\ passed' = Tail(passed) /\ lost' = lost
    BY <1>16 DEF CmdHandle
  <2>5. SUFFICES ASSUME ~lost PROVE LiveInv'
    BY <2>4 DEF LiveInv
  <2>6. /\ Head(passed) \in 1 .. MaxEvents /\ InQueue(Head(passed))
        /\ \A n : InQueue(n) <=> InQueue(n)' \/ n = Head(passed)
        /\ \A n : InQueue(n)' => n # Head(passed)
    BY <2>4, <2>5, HeadFacts DEF QueueInv
  <2>7. leaked' = leaked /\ \A n : n \in live' <=> n \in live /\ n # Head(passed)
    BY <1>16 DEF CmdHandle
  <2>8. Done(Head(passed)) /\ Head(passed) \notin leaked
    BY <2>5, <2>6 DEF QueueInv
  <2>9. ~InIrq(Head(passed)) /\ ~InSlots(Head(passed)) /\ ~InWorker(Head(passed))
    BY <2>5, <2>6, <2>8, Apart
  <2>10. 0 \notin live'
    BY <2>5, <2>7 DEF LiveInv
  <2>11. ASSUME NEW n \in 1 .. MaxEvents
         PROVE  n \in live' <=> InIrq(n)' \/ InSlots(n)' \/ InWorker(n)' \/ InQueue(n)' \/ n \in leaked'
    <3>1. n \in live <=> InIrq(n) \/ InSlots(n) \/ InWorker(n) \/ InQueue(n) \/ n \in leaked
      BY <2>5 DEF LiveInv
    <3>2. /\ InIrq(n)' <=> InIrq(n)
          /\ InSlots(n)' <=> InSlots(n)
          /\ InWorker(n)' <=> InWorker(n)
          /\ InQueue(n) <=> InQueue(n)' \/ n = Head(passed)
          /\ n \in live' <=> n \in live /\ n # Head(passed)
          /\ n \in leaked' <=> n \in leaked
      BY <2>1, <2>2, <2>3, <2>6, <2>7
    <3>3. InQueue(n)' => n # Head(passed)
      BY <2>6
    <3> QED BY <2>6, <2>8, <2>9, <3>1, <3>2, <3>3
  <2> QED BY <2>10, <2>11, Zenon DEF LiveInv
<1>17. CASE CmdDrop
  <2>1. \A n : InSlots(n)' <=> InSlots(n)
    <3>1. stored' = stored /\ \A i \in 0 .. stored - 1 : At(i)' = At(i)
      BY <1>17 DEF CmdDrop, At
    <3> QED BY <3>1, RingKept
  <2>2. \A n : InIrq(n)' <=> InIrq(n)
    BY <1>17 DEF CmdDrop, InIrq
  <2>3. \A n \in 1 .. MaxEvents : InWorker(n)' <=> InWorker(n)
    BY <1>17 DEF CmdDrop, InWorker, InHand, SpecialPtr
  <2>4. passed # <<>> /\ passed' = Tail(passed) /\ lost' = lost
    BY <1>17 DEF CmdDrop
  <2>5. SUFFICES ASSUME ~lost PROVE LiveInv'
    BY <2>4 DEF LiveInv
  <2>6. /\ Head(passed) \in 1 .. MaxEvents /\ InQueue(Head(passed))
        /\ \A n : InQueue(n) <=> InQueue(n)' \/ n = Head(passed)
        /\ \A n : InQueue(n)' => n # Head(passed)
    BY <2>4, <2>5, HeadFacts DEF QueueInv
  <2>7. live' = live /\ \A n : n \in leaked' <=> n \in leaked \/ n = Head(passed)
    BY <1>17 DEF CmdDrop
  <2> QED BY <2>1, <2>2, <2>3, <2>4, <2>5, <2>6, <2>7, Zenon DEF LiveInv
<1>18. CASE FreeDrain
  <2>2. \A n : InIrq(n)' <=> InIrq(n)
    BY <1>18 DEF FreeDrain, InIrq
  <2>3. \A n \in 1 .. MaxEvents : InWorker(n)' <=> InWorker(n)
    BY <1>18 DEF FreeDrain, InWorker, InHand, SpecialPtr
  <2>4. \A n : InQueue(n)' <=> InQueue(n)
    BY <1>18 DEF FreeDrain, InQueue
  <2>5. UNCHANGED <<lost, leaked>> /\ ~CbufEmpty /\ down
    BY <1>18, Zenon DEF FreeDrain
  <2>6. SUFFICES ASSUME ~lost PROVE LiveInv'
    BY <2>5 DEF LiveInv
  <2>7. stored \in Nat /\ stored > 0 /\ stored' = stored - 1
    BY <1>18, <2>5, <2>6, RingFacts DEF FreeDrain, RingInv, CbufEmpty, Types
  <2>8. /\ At(0) = bufs[read]
        /\ \A i \in 0 .. stored' - 1 : At(i)' = At(i + 1)
    BY <1>18, <2>6, <2>7, ShiftFacts DEF FreeDrain
  <2>9. /\ \A n : InSlots(n) <=> InSlots(n)' \/ At(0) = n
        /\ \A n : (\A i \in 1 .. stored - 1 : At(i) # n) => ~InSlots(n)'
    BY <2>7, <2>8, RingShift
  <2>10. \A n : n \in live' <=> n \in live /\ n # At(0)
    BY <1>18, <2>8 DEF FreeDrain
  <2>11. \A n : ~InIrq(n) /\ ~InWorker(n)
    BY <2>5 DEF DownInv, InIrq, InWorker, InHand
  <2>12. ASSUME NEW n \in 1 .. MaxEvents, At(0) = n
         PROVE  ~InSlots(n)' /\ ~InQueue(n) /\ n \notin leaked
    <3>1. ~Done(n) /\ \A i \in 1 .. stored - 1 : At(i) # n
      BY <2>6, <2>7, <2>12, Apart
    <3> QED BY <2>6, <2>9, <3>1 DEF QueueInv
  <2> QED BY <2>2, <2>3, <2>4, <2>5, <2>6, <2>9, <2>10, <2>11, <2>12, Zenon DEF LiveInv
<1>19. CASE CmdStop \/ CmdEnd \/ Stop \/ FreeCancel \/ UNCHANGED vars
  <2>1. UNCHANGED <<lost, live, leaked, passed, ev, irq_pc, ev_kind, stored,
     read, bufs, got, wk_pc>>
    BY <1>19, Zenon DEF CmdStop, CmdEnd, Stop, FreeCancel, vars
  <2>2. LiveInv <=> LiveInv'
    BY <2>1 DEF LiveInv, At, Slot, InHand, InIrq, InSlots, InWorker, InQueue
  <2> QED BY <2>2
<1> QED
  BY NextCases, <1>1, <1>2, <1>3, <1>4, <1>5, <1>6, <1>7, <1>8, <1>9, <1>10,
     <1>11, <1>12, <1>13, <1>14, <1>15, <1>16, <1>17, <1>18, <1>19


(* The invariant holds in the beginning.                                   *)
LEMMA InitInv == Init => IInv
<1> SUFFICES ASSUME Init PROVE IInv
  OBVIOUS
<1> USE DEF Init
<1>1. Flags
  BY Zenon DEF Flags
<1>2. Types
  BY SizeAssumption, MaxEventsAssumption DEF Types
<1>3. PostInv /\ HandledOK /\ CmdTypes /\ DownInv
  BY DEF PostInv, HandledOK, CmdTypes, DownInv, InFlight
<1>4. RingInv
  BY SizeAssumption DEF RingInv, Slot
<1>5. OrderInv
  BY DEF OrderInv, HandledBehind, HandledUp, GotBetween, RingAhead, InHand
<1>6. QueueInv /\ LiveInv
  BY DEF QueueInv, PassedUp, LiveInv, InIrq, InSlots, InWorker, InHand, InQueue
<1> QED BY <1>1, <1>2, <1>3, <1>4, <1>5, <1>6 DEF IInv

(* Every step keeps the invariant.                                         *)
LEMMA StepInv == IInv /\ [Next]_vars => IInv'
<1> SUFFICES ASSUME IInv, [Next]_vars PROVE IInv'
  OBVIOUS
<1>1. Flags' /\ Types' /\ PostInv' /\ HandledOK' /\ CmdTypes' /\ DownInv'
  BY FlagsStep, TypesStep, PostStep, HandledStep, CmdStep, DownStep DEF IInv
<1>2. RingInv' /\ OrderInv' /\ QueueInv' /\ LiveInv'
  BY <1>1, RingStep, OrderStep, QueueStep, LiveStep DEF IInv
<1> QED BY <1>1, <1>2 DEF IInv

(* The invariant of the queue: in every reachable state, whatever the      *)
(* sizes of the ring and of the burst.                                     *)
THEOREM Inductive == Spec => []IInv
<1>1. Init => IInv BY InitInv
<1>2. IInv /\ [Next]_vars => IInv' BY StepInv
<1> QED BY <1>1, <1>2, PTL DEF Spec

(* c2h_wk_callback handles the events once each and in the order of their  *)
(* posting, unless rtw_cbuf_push had no room for one or the mailbox was    *)
(* read after it had been overwritten.                                     *)
THEOREM HandledInOrderHolds == Spec => []HandledInOrder
<1>1. IInv => HandledInOrder
  BY DEF IInv, OrderInv, HandledUp, HandledInOrder
<1> QED BY <1>1, Inductive, PTL

(* The buffers of usb_read_interrupt_complete, c2h_wk_callback and         *)
(* rtw_drvextra_cmd_hdl: each one that is allocated is with the            *)
(* completion, in an occupied slot of the ring, with the worker, in a      *)
(* queued command or left behind by one that was not handled, and none of  *)
(* those is freed before its holder does.                                  *)
THEOREM BuffersOwnedHolds == Spec => []BuffersOwned
<1>1. ASSUME IInv PROVE TypeOK
  <2>1. {lost, gated, work, stopped, down} \subseteq BOOLEAN
    BY <1>1, Zenon DEF IInv, Flags
  <2> QED BY <1>1, <2>1 DEF IInv, Types, HandledOK, CmdTypes, TypeOK
<1>2. ASSUME IInv, ~lost, NEW n \in 1 .. MaxEvents
      PROVE  /\ n \in live <=> Owned(n) \/ n \in leaked
             /\ ~(Owned(n) /\ n \in leaked)
  <2>1. stored \in 0 .. Size - 1 /\ read \in 0 .. Size - 1
    BY <1>2 DEF IInv, RingInv, Types
  <2>2. \A i \in 0 .. Size - 1 : i < stored => bufs[(read + i) % Size] = At(i)
    BY <2>1, ModSlot DEF At
  <2>3. InRing(n) <=> InSlots(n)
    <3>1. \A i : (i \in 0 .. Size - 1 /\ i < stored) <=> i \in 0 .. stored - 1
      BY <2>1, SizeAssumption
    <3> QED BY <2>2, <3>1, Zenon DEF InRing, InSlots
  <2>4. Owned(n) <=> InIrq(n) \/ InSlots(n) \/ InWorker(n) \/ InQueue(n)
    BY <2>3, Zenon DEF Owned, InIrq, InWorker, InHand, InQueue
  <2>5. n \in live <=> InIrq(n) \/ InSlots(n) \/ InWorker(n) \/ InQueue(n) \/ n \in leaked
    BY <1>2 DEF IInv, LiveInv
  <2>6. n \in leaked => Done(n) /\ ~InQueue(n)
    BY <1>2 DEF IInv, QueueInv
  <2>7. Done(n) => ~InIrq(n) /\ ~InSlots(n) /\ ~InWorker(n)
    BY <1>2, Apart DEF IInv
  <2> QED BY <2>4, <2>5, <2>6, <2>7, Zenon
<1>3. IInv /\ ~lost => 0 \notin live
  BY DEF IInv, LiveInv
<1>4. IInv => BuffersOwned
  BY <1>1, <1>2, <1>3 DEF BuffersOwned
<1> QED BY <1>4, Inductive, PTL

=============================================================================
