------------------------------ MODULE ApSleep ------------------------------
(***************************************************************************)
(* Frames an access point holds for stations in power save: the sleep      *)
(* queues, the doze and TIM bitmaps, the TIM element of the beacon, and    *)
(* the delivery of held multicast frames after a beacon.                   *)
(*                                                                         *)
(* Contexts: a sender (pre_xmitframe), the receive tasklet (power bit,     *)
(* PS-Poll and U-APSD trigger frames), the transmit tasklet, completions   *)
(* of the URBs of the high queue, and the command thread, which writes     *)
(* beacons and clears the multicast bit.  pxmitpriv->lock makes most       *)
(* operations atomic; what the code does outside it is a step of its own.  *)
(*                                                                         *)
(* A station is an entry of the table, and 0 is that of multicast frames.  *)
(* Its AID, which names its bit in the bitmaps, comes with association.  A *)
(* frame is "u" when its access category is U-APSD for its station, else   *)
(* "l"; a category is one queue of the station.  Names that ApSta has too  *)
(* begin with Sleep: ApProofs extends both modules.                        *)
(***************************************************************************)
EXTENDS Integers, Sequences, FiniteSets, FiniteSetsExt, SequencesExt

CONSTANTS
  Stas,      \* stations
  Aids,      \* AIDs that they may be given
  Mixed,     \* stations with U-APSD and legacy categories
  AllUapsd,  \* stations whose categories are all U-APSD (has_legacy_ac = 0)
  NFrames,   \* bound: frames held or waiting at a time
  ForceLen   \* a longer sleep queue is sent at once (NR_XMITFRAME >> 3)

ASSUME StasAssumption == Stas \subseteq Nat \ {0} /\ IsFiniteSet(Stas)
(* The last AID, NUM_STA = 32, is left out: BIT(32) is undefined in C.     *)
ASSUME AidsAssumption == Aids \subseteq 1 .. 31
ASSUME UapsdAssumption == Mixed \subseteq Stas /\ AllUapsd \subseteq Stas \ Mixed
ASSUME SleepLimitAssumption == NFrames \in Nat /\ ForceLen \in Nat

Dests == Stas \cup {0}
NoSta == -1

(* The categories of a destination that are told apart.                    *)
Acs(s) == IF s \in Mixed THEN {"l", "u"} ELSE IF s \in AllUapsd THEN {"u"} ELSE {"l"}
Servqs == {k \in Dests \X {"l", "u"} : k[2] \in Acs(k[1])}

(* Frames of one kind are alike: how many q has, and a queue of n of them. *)
Number(q, ac) == Cardinality({i \in DOMAIN q : q[i] = ac})
Frames(n, ac) == [i \in 1 .. n |-> ac]

VARIABLES
  present,   \* stations in sta_hash
  associated, \* stations with _FW_LINKED
  sleep_aid, \* psta->aid, 0 for none
  aids_used, \* AIDs whose slot in sta_aid has an owner
  freeing,   \* stations out of sta_hash whose bits are not yet cleared
  sleeping,  \* stations with WIFI_SLEEP_STATE
  alive_chk, \* stations with WIFI_STA_ALIVE_CHK_STATE
  sleep_q,   \* held frames
  ac_extra,  \* stations whose sleepq_ac_len exceeds their held "u" frames
  plain,     \* frames in the sta_pending lists that were never held
  trig,      \* frames there with attrib.triggered
  hiq,       \* triggered multicast frames for the high queue there
  listed,    \* queues whose tx_pending is in the list of the hardware queue
  left_behind, \* history: queues unlisted with frames that no bit can hold
  dz, tim,   \* sta_dz_bitmap and tim_bitmap, as sets of bits
  bcn,       \* the bits of the TIM element in the beacon
  cmds,      \* commands queued: write the beacon, check the high queue
  cmd_pc,    \* control point of the command thread
  waking,    \* where each context stands in wakeup_sta_to_xmit
  tx_force,  \* destination the sender is about to wake
  polled,    \* station whose PS-Poll found its queue empty
  lost,      \* history: the last beacon update was not written
  misnamed,  \* history: stations whose AID has changed while they sleep
  bmc_lost,  \* history: bit 0 was cleared under held multicast frames
  torn       \* history: an unlocked store undid the change of another

Contexts == {"rx", "tx", "cmd"}

queue_vars == <<sleep_q, ac_extra, plain, trig, hiq, listed, left_behind>>
aid_vars == <<present, associated, sleep_aid, aids_used, freeing>>
sta_vars == <<aid_vars, sleeping, alive_chk, misnamed>>
map_vars == <<dz, tim>>
bcn_vars == <<bcn, cmds, lost>>
sleep_vars == <<queue_vars, sta_vars, map_vars, bcn_vars, cmd_pc, waking, tx_force, polled, bmc_lost, torn>>

SleepInit ==
  /\ present = {} /\ associated = {} /\ sleeping = {} /\ alive_chk = {} /\ misnamed = {}
  /\ sleep_aid = [s \in Stas |-> 0] /\ aids_used = {} /\ freeing = {}
  /\ sleep_q = [s \in Dests |-> <<>>] /\ ac_extra = {}
  /\ plain = [k \in Servqs |-> 0] /\ trig = [k \in Servqs |-> 0]
  /\ hiq = 0 /\ listed = {} /\ left_behind = {}
  /\ dz = {} /\ tim = {} /\ bcn = {}
  /\ cmds = <<>> /\ cmd_pc = "idle"
  /\ waking = [c \in Contexts |-> "no"] /\ tx_force = NoSta /\ polled = NoSta
  /\ lost = FALSE /\ bmc_lost = FALSE /\ torn = FALSE

-----------------------------------------------------------------------------
(* The bitmaps are 16 bits wide: a larger AID has no bit.                  *)
Bit(aid) == {aid} \cap 0 .. 15

(* That of a station; without an AID it has the bit of multicast frames.   *)
BitOf(s) == IF s = 0 THEN {0} ELSE Bit(sleep_aid[s])
(* Frames for s are held.                                                  *)
Dozes(s) == s \in sleeping /\ BitOf(s) # {} /\ BitOf(s) \subseteq dz

(* update_BCNTIM writes two bytes when both have bits, else the low one.   *)
TimIe(t) ==
  IF (\E b \in t : b >= 8) /\ (\E b \in t : b \in 2 .. 7)
  THEN t ELSE {b \in t : b < 8}

QueueCmd(c, q) == IF \E i \in DOMAIN q : q[i] = c THEN q ELSE Append(q, c)

(* update_beacon with the TIM element.  A command that finds no memory is   *)
(* one whose handler fails: nobody is told of either.                      *)
UpdateBeacon(t, q) == bcn' = TimIe(t) /\ cmds' = QueueCmd("bcn", q) /\ lost' = FALSE
KeepBeacon == UNCHANGED bcn_vars

(* Bits of tim_bitmap are cleared.                                         *)
BmcLost(bits) == bmc_lost' = IF 0 \in bits THEN sleep_q'[0] # <<>> ELSE bmc_lost

Total ==
  FoldFunction(+, hiq, plain) + FoldFunction(+, 0, trig)
  + FoldFunction(+, 0, [s \in Dests |-> Len(sleep_q[s])])

(* rtw_xmit_classifier lists the queues ks.                                *)
List(ks) == listed' = listed \cup ks /\ left_behind' = left_behind \ ks

(* rtw_hal_xmitframe_enqueue for frames that leave a sleep queue: the      *)
(* classifier appends them to the queue of their category and lists it.    *)
Release(s, fs) ==
  /\ trig' = [k \in Servqs |->
       IF k[1] = s THEN trig[k] + Number(fs, k[2]) ELSE trig[k]]
  /\ List({<<s, fs[i]>> : i \in DOMAIN fs})

(* The TIM bit of a station stands for its legacy frames, or for all when  *)
(* every category is U-APSD.                                               *)
InTim(s, ac) == (ac = "u") <=> (s \in AllUapsd)

-----------------------------------------------------------------------------
(***************************************************************************)
(* The sender: pre_xmitframe and xmitframe_enqueue_for_sleeping_sta.       *)
(***************************************************************************)
SenderIdle == waking["tx"] = "no" /\ tx_force = NoSta

(* After the unlock the sender looks at the length of the sleep queue.     *)
ForceIfLong(s) == tx_force' = IF Len(sleep_q'[s]) > ForceLen THEN s ELSE NoSta

HoldUnicastLate(s, ac) ==       \* mutant: the TIM bit is left to the beacon
  /\ s \in associated /\ Dozes(s)
  /\ sleep_q' = [sleep_q EXCEPT ![s] = Append(@, ac)]
  /\ UpdateBeacon(tim, cmds)
  /\ ForceIfLong(s)
  /\ UNCHANGED <<sta_vars, map_vars, cmd_pc, ac_extra, plain, trig, hiq, listed, left_behind, waking, polled, bmc_lost, torn>>

(* A frame for a dozing station.  The beacon is updated for the first      *)
(* frame of the queue only.                                                *)
HoldUnicast(s, ac) ==
  /\ s \in associated /\ Dozes(s)
  /\ sleep_q' = [sleep_q EXCEPT ![s] = Append(@, ac)]
  /\ IF InTim(s, ac)
     THEN /\ tim' = tim \cup BitOf(s)
          /\ IF sleep_q[s] = <<>> THEN UpdateBeacon(tim', cmds) ELSE KeepBeacon
     ELSE UNCHANGED tim /\ KeepBeacon
  /\ ForceIfLong(s)
  /\ UNCHANGED <<sta_vars, cmd_pc, ac_extra, plain, trig, hiq, listed, left_behind, dz, waking, polled, bmc_lost, torn>>

HoldMulticastQuiet ==           \* mutant: no beacon is asked for
  /\ dz # {}
  /\ sleep_q' = [sleep_q EXCEPT ![0] = Append(@, "l")]
  /\ tim' = tim \cup {0} /\ dz' = dz \cup {0}
  /\ KeepBeacon /\ bmc_lost' = FALSE
  /\ ForceIfLong(0)
  /\ UNCHANGED <<sta_vars, cmd_pc, ac_extra, plain, trig, hiq, listed, left_behind, waking, polled, torn>>

(* A multicast frame while any bit of sta_dz_bitmap is set, bit 0 too.     *)
HoldMulticast ==
  /\ dz # {}
  /\ sleep_q' = [sleep_q EXCEPT ![0] = Append(@, "l")]
  /\ tim' = tim \cup {0} /\ dz' = dz \cup {0}
  /\ UpdateBeacon(tim', cmds) /\ bmc_lost' = FALSE
  /\ ForceIfLong(0)
  /\ UNCHANGED <<sta_vars, cmd_pc, ac_extra, plain, trig, hiq, listed, left_behind, waking, polled, torn>>

(* Not held: sent at once, which leaves no trace here, or queued.          *)
QueuePlain(s, ac) ==
  /\ IF s = 0 THEN dz = {} ELSE s \in associated /\ ~Dozes(s)
  /\ plain' = [plain EXCEPT ![<<s, ac>>] = @ + 1]
  /\ List({<<s, ac>>})
  /\ UNCHANGED <<sta_vars, map_vars, bcn_vars, cmd_pc, sleep_q, ac_extra, trig, hiq, waking, tx_force, polled, bmc_lost, torn>>

Send ==
  /\ SenderIdle /\ Total < NFrames
  /\ \/ \E k \in Servqs : QueuePlain(k[1], k[2])
     \/ \E s \in Stas : \E ac \in Acs(s) : HoldUnicast(s, ac)
     \/ HoldMulticast

-----------------------------------------------------------------------------
(***************************************************************************)
(* Power management seen by the receive tasklet.                           *)
(***************************************************************************)
RxIdle == waking["rx"] = "no" /\ polled = NoSta

StopStaXmitKeep(s) ==           \* mutant: waiting frames stay behind
  /\ RxIdle /\ s \in present \ sleeping
  /\ sleeping' = sleeping \cup {s}
  /\ dz' = dz \cup BitOf(s)
  /\ listed' = {k \in listed : k[1] \notin {s, 0}}
  /\ UNCHANGED <<aid_vars, alive_chk, misnamed, bcn_vars, cmd_pc, sleep_q, ac_extra, plain, trig, hiq, left_behind, tim, waking, tx_force, polled, bmc_lost, torn>>

(* stop_sta_xmit, for any station of the table: the frames of the station  *)
(* that wait go to its sleep queue, VO first, if it has a bit, then those  *)
(* of the multicast station, if anyone has.  Triggered frames stay, but    *)
(* all the queues leave the list.                                          *)
StopStaXmit(s) ==
  LET n(ac) == IF ac \in Acs(s) /\ BitOf(s) # {} THEN plain[<<s, ac>>] ELSE 0
      moved == Frames(n("u"), "u") \o Frames(n("l"), "l")
      bits == dz \cup BitOf(s)
      mcast == IF bits # {} THEN plain[<<0, "l">>] ELSE 0
      zero == IF mcast > 0 THEN {0} ELSE {}
      first == moved # <<>> /\ InTim(s, Head(moved)) /\ sleep_q[s] = <<>>
      emptied(d) == IF d = 0 THEN bits # {} ELSE d = s /\ BitOf(s) # {}
  IN
  /\ RxIdle /\ s \in present \ sleeping
  /\ sleeping' = sleeping \cup {s}
  /\ dz' = bits \cup zero
  /\ tim' = tim \cup zero \cup (IF \E i \in DOMAIN moved : InTim(s, moved[i]) THEN BitOf(s) ELSE {})
  /\ sleep_q' = [sleep_q EXCEPT ![s] = @ \o moved,
                                ![0] = @ \o Frames(mcast, "l")]
  /\ plain' = [k \in Servqs |-> IF emptied(k[1]) THEN 0 ELSE plain[k]]
  /\ listed' = {k \in listed : k[1] \notin {s, 0}}
  /\ left_behind' = left_behind \cup {k \in Servqs : k[1] \in {s, 0} /\ ~emptied(k[1]) /\ plain[k] > 0}
  /\ IF first \/ mcast > 0 THEN UpdateBeacon(tim', cmds) ELSE KeepBeacon
  /\ bmc_lost' = IF mcast > 0 THEN FALSE ELSE bmc_lost
  /\ UNCHANGED <<aid_vars, alive_chk, misnamed, cmd_pc, ac_extra, trig, hiq, waking, tx_force, polled, torn>>

WakeStaDozing(c, s) ==          \* mutant: sta_dz_bitmap keeps the station
  /\ Release(s, sleep_q[s])
  /\ sleep_q' = [sleep_q EXCEPT ![s] = <<>>]
  /\ tim' = tim \ BitOf(s)
  /\ sleeping' = sleeping \ {s} /\ alive_chk' = alive_chk \ {s} /\ misnamed' = misnamed \ {s}
  /\ waking' = [waking EXCEPT ![c] = "read"]
  /\ BmcLost(BitOf(s))
  /\ UNCHANGED <<aid_vars, dz, bcn_vars, cmd_pc, ac_extra, plain, hiq, polled, torn>>

(* wakeup_sta_to_xmit, under the lock: every held frame is released.       *)
WakeSta(c, s) ==
  /\ Release(s, sleep_q[s])
  /\ sleep_q' = [sleep_q EXCEPT ![s] = <<>>]
  /\ tim' = tim \ BitOf(s) /\ dz' = dz \ BitOf(s)
  /\ sleeping' = sleeping \ {s} /\ alive_chk' = alive_chk \ {s} /\ misnamed' = misnamed \ {s}
  /\ waking' = [waking EXCEPT ![c] = "read"]
  /\ BmcLost(BitOf(s))
  /\ UNCHANGED <<aid_vars, bcn_vars, cmd_pc, ac_extra, plain, hiq, polled, torn>>

WakeByPwrBit(s) == RxIdle /\ s \in sleeping /\ WakeSta("rx", s) /\ UNCHANGED tx_force
WakeByLength == tx_force # NoSta /\ WakeSta("tx", tx_force) /\ tx_force' = NoSta
WakeByExpiry(s) ==
  /\ cmd_pc = "idle" /\ waking["cmd"] = "no"
  /\ s \in associated /\ Len(sleep_q[s]) > ForceLen
  /\ WakeSta("cmd", s) /\ UNCHANGED tx_force

(* ... then sta_dz_bitmap is read without the lock, ...                    *)
WakeRead(c) ==
  /\ waking[c] = "read"
  /\ \/ /\ dz \ {0} = {}
        /\ waking' = [waking EXCEPT ![c] = "flush"]
        /\ KeepBeacon
     \/ /\ dz \ {0} # {}
        /\ waking' = [waking EXCEPT ![c] = "no"]
        /\ UpdateBeacon(tim, cmds)
  /\ UNCHANGED <<queue_vars, sta_vars, map_vars, cmd_pc, tx_force, polled, bmc_lost, torn>>

(* ... and, when nobody dozes, the multicast frames are released too.      *)
WakeFlush(c) ==
  /\ waking[c] = "flush"
  /\ Release(0, sleep_q[0])
  /\ sleep_q' = [sleep_q EXCEPT ![0] = <<>>]
  /\ tim' = tim \ {0} /\ dz' = dz \ {0}
  /\ UpdateBeacon(tim', cmds)
  /\ waking' = [waking EXCEPT ![c] = "no"]
  /\ BmcLost({0})
  /\ UNCHANGED <<sta_vars, cmd_pc, ac_extra, plain, hiq, tx_force, polled, torn>>

(* A store outside pxmitpriv->lock may undo what another context did to    *)
(* one bit since the load.                                                 *)
Stores(t) == {t} \cup UNION {{t \cup Bit(a), t \ Bit(a)} : a \in Aids \cup {0}}

(* validate_recv_ctrl_frame, for a PS-Poll of a station whose best effort  *)
(* category is not U-APSD (none is before it asks to associate): one frame *)
(* is released, under the lock.  sleepq_ac_len is not decremented when it  *)
(* is a U-APSD frame.                                                      *)
PsPoll(s) ==
  /\ RxIdle /\ s \in present /\ ~(s \in associated /\ s \in AllUapsd)
  /\ alive_chk' = alive_chk \ {s}
  /\ LET q == sleep_q[s] IN
     /\ IF Dozes(s) /\ q # <<>>
        THEN /\ Release(s, <<Head(q)>>)
             /\ sleep_q' = [sleep_q EXCEPT ![s] = Tail(q)]
             /\ ac_extra' = IF Head(q) = "u" THEN ac_extra \cup {s} ELSE ac_extra
        ELSE UNCHANGED <<sleep_q, ac_extra, trig, listed, left_behind>>
     /\ IF Dozes(s) /\ Len(q) = 1
        THEN tim' = tim \ BitOf(s) /\ BmcLost(BitOf(s)) /\ UpdateBeacon(tim', cmds)
        ELSE UNCHANGED <<tim, bmc_lost>> /\ KeepBeacon
     /\ polled' = IF Dozes(s) /\ q = <<>> THEN s ELSE NoSta
  /\ UNCHANGED <<aid_vars, sleeping, misnamed, dz, cmd_pc, plain, hiq, waking, tx_force, torn>>

(* When the queue was empty, the rest is done after the unlock: a bit that *)
(* is set goes, and sleepq_len is reset (which is not followed) whatever   *)
(* was held since.                                                         *)
PsPollEmpty ==
  /\ polled # NoSta /\ polled' = NoSta
  /\ UNCHANGED <<queue_vars, sta_vars, dz, cmd_pc, waking, tx_force>>
  /\ LET bit == BitOf(polled) IN
     IF bit \cap tim # {}
     THEN /\ tim' \in Stores(tim \ bit)
          /\ torn' = (torn \/ tim' # tim \ bit \/ sleep_q[polled] # <<>>)
          /\ UpdateBeacon(tim', cmds)
          /\ BmcLost(bit)
     ELSE UNCHANGED <<tim, torn, bmc_lost>> /\ KeepBeacon

(* process_wmmps_data: a trigger frame releases the U-APSD frames          *)
(* (xmit_delivery_enabled_frames).  With sleepq_ac_len zero a null frame   *)
(* answers, which changes nothing here.                                    *)
Trigger(s) ==
  LET us == Frames(Number(sleep_q[s], "u"), "u")
      clear == us # <<>> /\ s \in AllUapsd /\ s \notin ac_extra
  IN
  /\ RxIdle /\ s \in associated \cap sleeping \cap (Mixed \cup AllUapsd)
  /\ Release(s, us)
  /\ sleep_q' = [sleep_q EXCEPT ![s] = Frames(Number(@, "l"), "l")]
  /\ IF clear
     THEN tim' = tim \ BitOf(s) /\ BmcLost(BitOf(s)) /\ UpdateBeacon(tim', cmds)
     ELSE UNCHANGED <<tim, bmc_lost>> /\ KeepBeacon
  /\ UNCHANGED <<sta_vars, dz, cmd_pc, ac_extra, plain, hiq, waking, tx_force, polled, torn>>

-----------------------------------------------------------------------------
(***************************************************************************)
(* The transmit tasklet takes one frame of a listed queue, whatever the    *)
(* state of its station; a queue that is empty then leaves the list.  The  *)
(* URB of a frame of the high queue asks for its check when it completes.  *)
(***************************************************************************)
Waiting(k) == plain[k] + trig[k] + (IF k = <<0, "l">> THEN hiq ELSE 0)

XmitPending(k) ==
  /\ k \in listed
  /\ \/ plain[k] > 0 /\ plain' = [plain EXCEPT ![k] = @ - 1] /\ UNCHANGED <<trig, hiq, cmds>>
     \/ trig[k] > 0 /\ trig' = [trig EXCEPT ![k] = @ - 1] /\ UNCHANGED <<plain, hiq, cmds>>
     \/ /\ k = <<0, "l">> /\ hiq > 0
        /\ hiq' = hiq - 1
        /\ cmds' = QueueCmd("chk", cmds)
        /\ UNCHANGED <<plain, trig>>
  /\ listed' = IF Waiting(k) = 1 THEN listed \ {k} ELSE listed
  /\ UNCHANGED <<sta_vars, map_vars, bcn, lost, cmd_pc, sleep_q, ac_extra, left_behind, waking, tx_force, polled, bmc_lost, torn>>

-----------------------------------------------------------------------------
(***************************************************************************)
(* The command thread.                                                     *)
(***************************************************************************)
CmdIdle == cmd_pc = "idle" /\ waking["cmd"] = "no"
(* tx_beacon_hdl writes the beacon, which may fail; with multicast frames  *)
(* to send it waits 10 ms.                                                 *)
CmdBeacon ==
  /\ CmdIdle /\ cmds # <<>> /\ Head(cmds) = "bcn"
  /\ cmds' = Tail(cmds)
  /\ \/ lost' = TRUE /\ cmd_pc' = "idle"
     \/ UNCHANGED lost /\ cmd_pc' = IF 0 \in tim /\ sleep_q[0] # <<>> THEN "window" ELSE "idle"
  /\ UNCHANGED <<queue_vars, sta_vars, map_vars, bcn, waking, tx_force, polled, bmc_lost, torn>>

(* The held multicast frames go to the high queue, under the lock.         *)
CmdFlush ==
  /\ cmd_pc = "window"
  /\ hiq' = hiq + Len(sleep_q[0])
  /\ sleep_q' = [sleep_q EXCEPT ![0] = <<>>]
  /\ List(IF sleep_q[0] = <<>> THEN {} ELSE {<<0, "l">>})
  /\ cmd_pc' = "idle"
  /\ bmc_lost' = FALSE
  /\ UNCHANGED <<sta_vars, map_vars, bcn_vars, ac_extra, plain, trig, waking, tx_force, polled, torn>>

(* rtw_chk_hi_queue_hdl reads the length of the queue, ...                 *)
CmdChk ==
  /\ CmdIdle /\ cmds # <<>> /\ Head(cmds) = "chk"
  /\ cmds' = Tail(cmds)
  /\ cmd_pc' = IF sleep_q[0] = <<>> THEN "chk_wait" ELSE "idle"
  /\ UNCHANGED <<queue_vars, sta_vars, map_vars, bcn, lost, waking, tx_force, polled, bmc_lost, torn>>

(* ... waits up to a second for the chip to empty the high queue, ...      *)
CmdChkRetry ==
  /\ cmd_pc = "chk_wait"
  /\ cmds' = QueueCmd("chk", cmds) /\ cmd_pc' = "idle"
  /\ UNCHANGED <<queue_vars, sta_vars, map_vars, bcn, lost, waking, tx_force, polled, bmc_lost, torn>>

(* ... and clears bit 0 of both bitmaps without the lock.                  *)
CmdChkClear ==
  /\ cmd_pc = "chk_wait"
  /\ \/ tim' \in Stores(tim \ {0}) /\ dz' = dz \ {0}
     \/ tim' = tim \ {0} /\ dz' \in Stores(dz \ {0})
  /\ torn' = (torn \/ tim' # tim \ {0} \/ dz' # dz \ {0})
  /\ UpdateBeacon(tim', cmds)
  /\ cmd_pc' = "idle"
  /\ UNCHANGED <<queue_vars, sta_vars, waking, tx_force, polled>>
  /\ BmcLost({0})

(* expire_timeout_chk: a dozing station that is silent is called through   *)
(* the TIM, again without the lock.                                        *)
AliveCheck(s) ==
  /\ CmdIdle /\ s \in (associated \cap sleeping) \ alive_chk
  /\ alive_chk' = alive_chk \cup {s}
  /\ tim' \in Stores(tim \cup BitOf(s))
  /\ torn' = (torn \/ tim' # tim \cup BitOf(s))
  /\ UpdateBeacon(tim', cmds)
  /\ UNCHANGED <<queue_vars, aid_vars, sleeping, misnamed, dz, cmd_pc, waking, tx_force, polled, bmc_lost>>

-----------------------------------------------------------------------------
(***************************************************************************)
(* Stations come and go.                                                   *)
(***************************************************************************)
other_vars == <<map_vars, bcn_vars, cmd_pc, waking, tx_force, polled, bmc_lost, torn>>

(* OnAuth: a new entry of the table, awake and without an AID.             *)
Authenticate(s) ==
  /\ s \notin present \cup freeing
  /\ present' = present \cup {s}
  /\ UNCHANGED <<associated, sleep_aid, aids_used, freeing, sleeping, alive_chk, misnamed, queue_vars, other_vars>>

(* OnAssocReq gives a station without an AID the lowest that is free.  A   *)
(* station that sleeps goes on sleeping.                                   *)
Associate(s) ==
  /\ s \in present /\ sleep_aid[s] = 0
  /\ \E a \in Aids \ aids_used :
       /\ \A b \in Aids \ aids_used : a <= b
       /\ sleep_aid' = [sleep_aid EXCEPT ![s] = a]
       /\ aids_used' = aids_used \cup {a}
  /\ associated' = associated \cup {s}
  /\ misnamed' = IF s \in sleeping THEN misnamed \cup {s} ELSE misnamed
  /\ UNCHANGED <<present, freeing, sleeping, alive_chk, queue_vars, other_vars>>

(* OnAssocReqFail: a station that asks again and is rejected loses its     *)
(* AID, which stays in use, and keeps the rest.                            *)
RejectAgain(s) ==
  /\ s \in present /\ sleep_aid[s] # 0
  /\ sleep_aid' = [sleep_aid EXCEPT ![s] = 0]
  /\ misnamed' = IF s \in sleeping THEN misnamed \cup {s} ELSE misnamed
  /\ UNCHANGED <<present, associated, aids_used, freeing, sleeping, alive_chk, queue_vars, other_vars>>

(* rtw_free_stainfo: the queues are emptied under the lock, ...            *)
FreeSta(s) ==
  /\ s \in present
  /\ present' = present \ {s} /\ associated' = associated \ {s} /\ freeing' = freeing \cup {s}
  /\ sleeping' = sleeping \ {s} /\ alive_chk' = alive_chk \ {s} /\ misnamed' = misnamed \ {s}
  /\ sleep_q' = [sleep_q EXCEPT ![s] = <<>>] /\ ac_extra' = ac_extra \ {s}
  /\ plain' = [k \in Servqs |-> IF k[1] = s THEN 0 ELSE plain[k]]
  /\ trig' = [k \in Servqs |-> IF k[1] = s THEN 0 ELSE trig[k]]
  /\ listed' = {k \in listed : k[1] # s} /\ left_behind' = {k \in left_behind : k[1] # s}
  /\ UNCHANGED <<sleep_aid, aids_used, hiq, other_vars>>

(* ... the bits are cleared without it, with no beacon update, and the AID *)
(* is free again.                                                          *)
FreeBits(s) ==
  /\ s \in freeing /\ freeing' = freeing \ {s}
  /\ \/ tim' \in Stores(tim \ BitOf(s)) /\ dz' = dz \ BitOf(s)
     \/ tim' = tim \ BitOf(s) /\ dz' \in Stores(dz \ BitOf(s))
  /\ torn' = (torn \/ tim' # tim \ BitOf(s) \/ dz' # dz \ BitOf(s))
  /\ sleep_aid' = [sleep_aid EXCEPT ![s] = 0] /\ aids_used' = aids_used \ {sleep_aid[s]}
  /\ UNCHANGED <<queue_vars, present, associated, sleeping, alive_chk, misnamed, bcn_vars, cmd_pc, waking, tx_force, polled>>
  /\ BmcLost(BitOf(s))

-----------------------------------------------------------------------------
CmdStep == CmdBeacon \/ CmdFlush \/ CmdChk \/ CmdChkRetry \/ CmdChkClear
WakeStep(c) == WakeRead(c) \/ WakeFlush(c)

SleepNext ==
  \/ Send
  \/ \E s \in Stas : \/ StopStaXmit(s) \/ WakeByPwrBit(s) \/ PsPoll(s) \/ Trigger(s)
                     \/ WakeByExpiry(s) \/ AliveCheck(s)
                     \/ Authenticate(s) \/ Associate(s) \/ RejectAgain(s)
                     \/ FreeSta(s) \/ FreeBits(s)
  \/ WakeByLength
  \/ PsPollEmpty
  \/ \E c \in Contexts : WakeStep(c)
  \/ \E k \in Servqs : XmitPending(k)
  \/ CmdStep

SleepSpec == SleepInit /\ [][SleepNext]_sleep_vars

(* The command thread serves its queue in order and every handler ends, so *)
(* a queued command is taken although alive checks come between.           *)
SleepFairSpec == SleepSpec /\ SF_sleep_vars(CmdStep) /\ WF_sleep_vars(WakeStep("cmd"))

-----------------------------------------------------------------------------
SleepTypeOK ==
  /\ present \subseteq Stas /\ freeing \subseteq Stas \ present
  /\ associated \subseteq present /\ sleeping \subseteq present
  /\ alive_chk \subseteq sleeping /\ misnamed \subseteq sleeping
  /\ sleep_aid \in [Stas -> Aids \cup {0}] /\ aids_used \subseteq Aids
  /\ sleep_q \in [Dests -> Seq({"l", "u"})] /\ ac_extra \subseteq Stas
  /\ plain \in [Servqs -> Nat] /\ trig \in [Servqs -> Nat]
  /\ hiq \in Nat /\ listed \subseteq Servqs /\ left_behind \subseteq Servqs
  /\ dz \subseteq 0 .. 15 /\ tim \subseteq 0 .. 15 /\ bcn \subseteq 0 .. 15
  /\ cmds \in Seq({"bcn", "chk"})
  /\ cmd_pc \in {"idle", "window", "chk_wait"}
  /\ waking \in [Contexts -> {"no", "read", "flush"}]
  /\ tx_force \in Dests \cup {NoSta} /\ polled \in Stas \cup {NoSta}
  /\ lost \in BOOLEAN /\ bmc_lost \in BOOLEAN /\ torn \in BOOLEAN

(* A station whose bits are its own: it has an AID, and had the same one   *)
(* when it fell asleep.  Any station of the table may say that it sleeps,  *)
(* also before it has an AID (rtw_recv.c:773), and a rejected request      *)
(* takes the AID of one that sleeps (rtw_mlme_ext.c:1971).                 *)
Named(s) == s \in present /\ sleep_aid[s] # 0 /\ s \notin misnamed

(* A station that has a bit has it in sta_dz_bitmap exactly while it is in *)
(* WIFI_SLEEP_STATE, and a station holds frames only then, until a store   *)
(* is torn (rtw_cmd.c:2399).  The state has its types.                     *)
DozeConsistent ==
  /\ SleepTypeOK
  /\ ~torn => \A s \in Stas : /\ Named(s) /\ sleep_aid[s] < 16 => (s \in sleeping <=> sleep_aid[s] \in dz)
                              /\ sleep_q[s] # <<>> => s \in sleeping

(* The AIDs of stations whose bits in the TIM are never late.              *)
Prompt == {sleep_aid[s] : s \in {r \in Stas \ Mixed : Named(r)}}

(* Held frames are advertised: a station with frames the TIM stands for    *)
(* has its bit in tim_bitmap, so that it can learn of them, and the beacon *)
(* shows it as far as the element has room for it.  Not so for a station   *)
(* with mixed categories, whose first legacy frame may come second         *)
(* (rtw_xmit.c:3152): its bit is missing until the next update, and with   *)
(* it the second byte that it makes room for.  Held multicast frames have  *)
(* bit 0, unless it was cleared under them: the check of the high queue    *)
(* read the length before they came (rtw_cmd.c:2379), or a station without *)
(* AID woke, polled or was freed.                                          *)
HeldAdvertised ==
  ~torn =>
    /\ \A s \in Stas :
         Named(s) =>
           /\ (\E i \in DOMAIN sleep_q[s] : InTim(s, sleep_q[s][i])) => sleep_aid[s] \in tim
           /\ s \notin Mixed /\ sleep_q[s] # <<>> => TimIe(tim \cap Prompt) \cap {sleep_aid[s]} \subseteq bcn
    /\ sleep_q[0] # <<>> /\ ~bmc_lost => 0 \in tim

(* A frame that waits and was never held is in a listed queue: the         *)
(* tasklet will find it (stop_sta_xmit unlists queues).  Those that are    *)
(* left behind belong to a station that fell asleep with an AID that has   *)
(* no bit, or are multicast frames when the only sleepers are such         *)
(* stations (rtw_xmit.c:3077): they are not held, and stay in an unlisted  *)
(* queue until the next frame of its kind.                                 *)
PlainListed == ~torn => \A k \in Servqs : plain[k] > 0 => k \in listed \cup left_behind

(* Held multicast frames are sent, unless the beacon could not be written  *)
(* or bit 0 was cleared under them.                                        *)
BmcDelivered == []<>(sleep_q[0] = <<>> \/ lost \/ bmc_lost \/ torn)

(* include/sta_info.h:412 gives the bits 0 to 15 to the AIDs up to 15: the *)
(* beacon carries the bit of each of them.                                 *)
TimCarriesAid ==
  ~torn => \A s \in Stas \ Mixed : Named(s) /\ sleep_q[s] # <<>> => sleep_aid[s] \in bcn
=============================================================================
