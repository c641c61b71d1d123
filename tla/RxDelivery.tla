----------------------------- MODULE RxDelivery -----------------------------
(***************************************************************************)
(* What the receive reordering buffer promises, without its window, its    *)
(* timer and its locks: within one session every frame is handed up at     *)
(* most once, no frame after a later one, and the frames held back are     *)
(* handed up earliest first.                                               *)
(***************************************************************************)
EXTENDS Integers

CONSTANTS Frames,  \* 12-bit sequence numbers of the frames that may come
          NoSeq    \* nothing has been handed up in this session

VARIABLES
  held,   \* frames held back
  last,   \* the frame handed up last, or NoSeq
  mixed   \* frames of an earlier session are still held back

vars == <<held, last, mixed>>

(* Later in the sequence, modulo 4096.                                     *)
Later(a, b) == (b - a) % 4096 \in 1 .. 2048

Init == held = {} /\ last = NoSeq /\ mixed = FALSE

(* A frame is held back if it comes in time: later than the one handed up  *)
(* last or, since half the numbers are later than any other, than one that *)
(* is held back itself.                                                    *)
Hold(s) ==
  /\ s \notin held
  /\ last = NoSeq \/ (\E t \in held \cup {last} : Later(t, s))
  /\ held' = held \cup {s}
  /\ UNCHANGED <<last, mixed>>

(* The earliest frame is handed up, after every frame before it.           *)
HandUp(s) ==
  /\ s \in held /\ ~mixed
  /\ last = NoSeq \/ Later(last, s)
  /\ \A t \in held \ {s} : Later(s, t)
  /\ held' = held \ {s} /\ last' = s
  /\ UNCHANGED mixed

(* Frames of two sessions leave in any order.                              *)
HandUpMixed(s) ==
  /\ s \in held /\ mixed
  /\ held' = held \ {s} /\ last' = NoSeq /\ mixed' = (held' # {})

(* A new session begins; the frames of the old one stay.                   *)
NewSession == last' = NoSeq /\ mixed' \in BOOLEAN /\ UNCHANGED held

(* The station goes, and what was held back for it.                        *)
Forget == held' = {} /\ last' = NoSeq /\ mixed' = FALSE

Next ==
  \/ \E s \in Frames : Hold(s) \/ HandUp(s) \/ HandUpMixed(s)
  \/ NewSession \/ Forget

Spec == Init /\ [][Next]_vars
=============================================================================
