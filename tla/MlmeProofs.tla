----------------------------- MODULE MlmeProofs -----------------------------
(***************************************************************************)
(* Proofs about Mlme, for any number of roaming attempts and any length of *)
(* the command queue.                                                      *)
(*                                                                         *)
(* mlme_priv is changed by operations that choose among outcomes; what     *)
(* each of them may do to the flags and their timers is a lemma (Near,     *)
(* Grows), and the steps that hold the lock are checked against these.     *)
(***************************************************************************)
EXTENDS Mlme, TLAPS

FlagNames == {"linking", "linked", "survey"}
Reporters == {"rx", "link"}
Ops == {"survey", "surveydone", "join", "disconnect", "deauth", "expired"}

Rec ==
  [fw_state : SUBSET FlagNames, to_join : BOOLEAN, to_roaming : 0 .. MaxRoam,
   assoc_timer : BOOLEAN, scan_timer : BOOLEAN, cmds : Seq(Ops)]

(* q is an outcome of an operation on m that starts no roaming, makes no   *)
(* link, and ends no timer.                                                *)
Near(m, q) ==
  /\ q \in Rec /\ q.to_roaming = m.to_roaming
  /\ "linked" \in q.fw_state => "linked" \in m.fw_state
  /\ "survey" \in q.fw_state => "survey" \in m.fw_state \/ q.scan_timer
  /\ m.assoc_timer => q.assoc_timer
  /\ m.scan_timer => q.scan_timer
LinkGuarded(m, q) == "linking" \in q.fw_state => "linking" \in m.fw_state \/ q.assoc_timer
Grows(m, q) == m.cmds # <<>> => q.cmds # <<>>

Settled(m) == "linked" \in m.fw_state => m.to_roaming = 0

(* The holder of the lock has work to do.                                  *)
LockInv ==
  /\ lock = "survey" => mlme.cmds # <<>>
  /\ lock \in {"roam", "timeout"} => mlme.to_roaming > 0

MlmeInv == mlme \in Rec /\ Settled(mlme) /\ BusyGuarded /\ LockInv

(* One report at a time waits for assoc_timer, and holds the lock.         *)
RepInv ==
  \A r \in Reporters : rep[r] = "cancel" =>
    lock = "join" /\ \A s \in Reporters : rep[s] = "cancel" => s = r

Flags ==
  /\ scan_run \in BOOLEAN /\ assoc_run \in BOOLEAN /\ link_run \in BOOLEAN
  /\ link_timer \in BOOLEAN /\ survey_timer \in BOOLEAN
Types ==
  /\ lock \in {"free", "survey", "join", "roam", "timeout"}
  /\ ext_state \subseteq Linking \cup {"station", "success"}
  /\ scan \in {"disable", "txnull", "process"}
  /\ rep \in [{"rx", "link"} -> {"idle", "ok", "fail", "cancel"}]
  /\ rx_pc \in {"idle", "auth", "assoc", "asocrsp"}
  /\ cmd_pc \in {"idle", "join"} /\ user_pc \in {"idle", "scan"}

IInv == Flags /\ Types /\ RepInv /\ MlmeInv

-----------------------------------------------------------------------------
(* The step relation as the disjunction of its actions.                    *)
LEMMA NextCases ==
  ASSUME [Next]_vars
  PROVE  \/ Join \/ Disassociate \/ ScanCheck \/ ScanCmd \/ HearBeacon \/ HearAuth
         \/ HearAuthMore \/ HearAssocRsp \/ HearDeauth \/ StartAuth \/ StartAssoc
         \/ AssocRsp \/ SurveyCmd \/ JoinCmd \/ StartJoin \/ DisconnectCmd
         \/ SurveyDoneCancel \/ SurveyDone \/ StaDel(TRUE) \/ StaDel(FALSE)
         \/ RoamTry \/ LinkedStatusChk \/ (\E r \in Reporters : Prehandle(r))
         \/ (\E r \in Reporters : PrehandleCancel(r)) \/ LinkFire \/ LinkHandle
         \/ SurveyFire \/ ScanFire \/ ScanTimeout \/ AssocFire \/ JoinTimeout
         \/ UNCHANGED vars
  BY Zenon DEF Next, User, Air, Rx, SurveyDoneEvent, StaDelEvent, PrehandleEnd, Reporters

(***************************************************************************)
(* What the operations on mlme_priv may do.                                *)
(***************************************************************************)
Rest(m, q) ==
  /\ q.to_join = m.to_join /\ q.to_roaming = m.to_roaming
  /\ q.assoc_timer = m.assoc_timer /\ q.scan_timer = m.scan_timer /\ q.cmds = m.cmds

(* set_fwstate and _clr_fwstate_.                                          *)
LEMMA SetFacts ==
  ASSUME NEW m \in Rec, NEW fl \in SUBSET FlagNames
  PROVE  /\ Set(m, fl) \in Rec /\ Set(m, fl).fw_state = m.fw_state \cup fl /\ Rest(m, Set(m, fl))
         /\ Clr(m, fl) \in Rec /\ Clr(m, fl).fw_state = m.fw_state \ fl /\ Rest(m, Clr(m, fl))
  BY DEF Set, Clr, Rec, Rest, FlagNames

(* Outcomes follow one another.                                            *)
LEMMA NearTrans ==
  ASSUME NEW a, NEW b, NEW d, Near(a, b), Near(b, d), Grows(a, b), Grows(b, d)
  PROVE  Near(a, d) /\ Grows(a, d)
  BY DEF Near, Grows

(* A record is an outcome of itself.                                       *)
LEMMA NearSame ==
  ASSUME NEW m \in Rec
  PROVE  Near(m, m) /\ Grows(m, m)
  BY DEF Near, Grows

(* A command is queued.                                                    *)
LEMMA QueueFacts ==
  ASSUME NEW m \in Rec, NEW op \in Ops, NEW q \in Queue(m, op)
  PROVE  Near(m, q) /\ Grows(m, q) /\ q.fw_state = m.fw_state
<1>1. CASE q = m
  BY <1>1, NearSame
<1>2. CASE q \in Queued(m, op)
  <2>1. q = [m EXCEPT !.cmds = Append(m.cmds, op)]
    BY <1>2 DEF Queued
  <2>2. Append(m.cmds, op) \in Seq(Ops) /\ Append(m.cmds, op) # <<>>
    BY DEF Rec
  <2>3. /\ q \in Rec /\ q.cmds # <<>> /\ q.fw_state = m.fw_state
        /\ q.assoc_timer = m.assoc_timer /\ q.scan_timer = m.scan_timer
        /\ q.to_roaming = m.to_roaming
    BY <2>1, <2>2 DEF Rec
  <2> QED BY <2>3 DEF Near, Grows
<1> QED BY <1>1, <1>2 DEF Queue

(* rtw_sitesurvey_cmd sets the flag with its timer, or nothing.            *)
LEMMA SurveyFacts ==
  ASSUME NEW m \in Rec, NEW o \in SiteSurvey(m)
  PROVE  /\ Near(m, o.m) /\ Grows(m, o.m)
         /\ o.m.fw_state \subseteq m.fw_state \cup {"survey"}
<1>1. CASE o = [ok |-> FALSE, m |-> m]
  <2>1. o.m = m
    BY <1>1
  <2> QED BY <2>1, NearSame
<1>2. ASSUME NEW q \in Queued(m, "survey"),
             o = [ok |-> TRUE, m |-> Set([q EXCEPT !.scan_timer = TRUE], {"survey"})]
      PROVE  /\ Near(m, o.m) /\ Grows(m, o.m)
             /\ o.m.fw_state \subseteq m.fw_state \cup {"survey"}
  <2> DEFINE r == [q EXCEPT !.scan_timer = TRUE]
  <2>1. q \in Rec /\ Near(m, q) /\ Grows(m, q) /\ q.fw_state = m.fw_state
    BY <1>2, QueueFacts DEF Queue, Ops, Near
  <2>2. /\ r \in Rec /\ r.scan_timer /\ r.fw_state = q.fw_state /\ r.cmds = q.cmds
        /\ r.assoc_timer = q.assoc_timer /\ r.to_roaming = q.to_roaming
    BY <2>1 DEF Rec
  <2> HIDE DEF r
  <2>3. /\ Set(r, {"survey"}) \in Rec /\ Rest(r, Set(r, {"survey"}))
        /\ Set(r, {"survey"}).fw_state = r.fw_state \cup {"survey"}
    BY <2>2, SetFacts DEF FlagNames
  <2>4. Set(r, {"survey"}) = o.m
    BY <1>2 DEF r
  <2>5. /\ o.m \in Rec /\ o.m.fw_state = m.fw_state \cup {"survey"} /\ o.m.scan_timer
        /\ o.m.cmds = q.cmds /\ o.m.assoc_timer = q.assoc_timer /\ o.m.to_roaming = q.to_roaming
    BY <2>1, <2>2, <2>3, <2>4, Zenon DEF Rest
  <2>6. Near(m, o.m) /\ Grows(m, o.m)
    BY <2>1, <2>5 DEF Near, Grows
  <2> QED BY <2>5, <2>6
<1> QED BY <1>1, <1>2 DEF SiteSurvey

(* rtw_disassoc_cmd and rtw_indicate_disconnect.                           *)
LEMMA DisassocFacts ==
  ASSUME NEW m \in Rec, NEW q \in Disassoc(m)
  PROVE  /\ Near(m, q) /\ Grows(m, q)
         /\ "linking" \notin q.fw_state /\ "linked" \notin q.fw_state
<1> PICK d \in Queue(m, "disconnect") : q = Clr(d, {"linking", "linked"})
  BY DEF Disassoc, IndicateDisconnect
<1>1. d \in Rec /\ Near(m, d) /\ Grows(m, d) /\ d.fw_state = m.fw_state
  BY QueueFacts DEF Near, Ops
<1>2. q \in Rec /\ q.fw_state = d.fw_state \ {"linking", "linked"} /\ Rest(d, q)
  BY <1>1, SetFacts DEF FlagNames
<1> QED BY <1>1, <1>2 DEF Near, Grows, Rest

(* rtw_select_and_join_from_scanned_queue; only "linking" is set, which    *)
(* the callers guard.                                                      *)
LEMMA SelectFacts ==
  ASSUME NEW m \in Rec, NEW o \in SelectAndJoin(m)
  PROVE  Near(m, o.m) /\ Grows(m, o.m)
<1>1. CASE o = [ok |-> FALSE, m |-> m]
  <2>1. o.m = m
    BY <1>1
  <2> QED BY <2>1, NearSame
<1>2. ASSUME NEW d \in IF "linked" \in m.fw_state THEN Disassoc(m) ELSE {m},
             NEW q \in Queue(d, "join"), o = [ok |-> q # d, m |-> Set(q, {"linking"})]
      PROVE  Near(m, o.m) /\ Grows(m, o.m)
  <2>1. d \in Rec /\ Near(m, d) /\ Grows(m, d)
    BY DisassocFacts, NearSame DEF Near
  <2>2. q \in Rec /\ Near(m, q) /\ Grows(m, q)
    BY <2>1, QueueFacts, NearTrans DEF Near, Ops
  <2>3. o.m \in Rec /\ o.m.fw_state = q.fw_state \cup {"linking"} /\ Rest(q, o.m)
    BY <1>2, <2>2, SetFacts DEF FlagNames
  <2> QED BY <2>2, <2>3 DEF Near, Grows, Rest
<1> QED BY <1>1, <1>2 DEF SelectAndJoin

(* rtw_do_join leaves "linking" only with its timer.                       *)
LEMMA DoJoinFacts ==
  ASSUME NEW m \in Rec, NEW o \in DoJoin(m)
  PROVE  /\ Near(m, o.m) /\ Grows(m, o.m)
         /\ "linking" \in o.m.fw_state => o.m.assoc_timer
<1> DEFINE j == [m EXCEPT !.to_join = TRUE]
           b == Set(j, {"linking"})
           sel == SelectAndJoin(b)
           survey == UNION {SiteSurvey(Clr(s.m, {"linking"})) : s \in {t \in sel : ~t.ok}}
<1>1. /\ j \in Rec /\ j.fw_state = m.fw_state /\ j.to_roaming = m.to_roaming /\ j.cmds = m.cmds
      /\ j.assoc_timer = m.assoc_timer /\ j.scan_timer = m.scan_timer
  BY DEF Rec
<1>2. b \in Rec /\ Near(m, b) /\ Grows(m, b)
  <2> HIDE DEF j
  <2>1. b \in Rec /\ b.fw_state = j.fw_state \cup {"linking"} /\ Rest(j, b)
    BY <1>1, SetFacts DEF FlagNames
  <2> QED BY <1>1, <2>1 DEF Near, Grows, Rest
<1>3. \/ \E s \in sel : s.ok /\ o = [ok |-> TRUE, m |-> [s.m EXCEPT !.to_join = FALSE, !.assoc_timer = TRUE]]
      \/ o \in survey
      \/ \E s \in survey : o = [ok |-> FALSE, m |-> [s.m EXCEPT !.to_join = FALSE]]
  BY DEF DoJoin
<1>4. ASSUME NEW s \in sel PROVE s.m \in Rec /\ Near(m, s.m) /\ Grows(m, s.m)
  <2> HIDE DEF b
  <2>1. Near(b, s.m) /\ Grows(b, s.m)
    BY <1>2, SelectFacts
  <2> QED BY <1>2, <2>1, NearTrans DEF Near
<1>5. ASSUME NEW s \in survey
      PROVE  s.m \in Rec /\ Near(m, s.m) /\ Grows(m, s.m) /\ "linking" \notin s.m.fw_state
  <2> PICK t \in sel : s \in SiteSurvey(Clr(t.m, {"linking"}))
    OBVIOUS
  <2> HIDE DEF sel
  <2>1. t.m \in Rec /\ Near(m, t.m) /\ Grows(m, t.m)
    BY <1>4
  <2> DEFINE u == Clr(t.m, {"linking"})
  <2>2. u \in Rec /\ u.fw_state = t.m.fw_state \ {"linking"} /\ Rest(t.m, u)
    BY <2>1, SetFacts DEF FlagNames
  <2> HIDE DEF u
  <2>3. Near(m, u) /\ Grows(m, u)
    BY <2>1, <2>2 DEF Near, Grows, Rest
  <2>4. Near(u, s.m) /\ Grows(u, s.m) /\ s.m.fw_state \subseteq u.fw_state \cup {"survey"}
    BY <2>2, SurveyFacts DEF u
  <2> QED BY <2>2, <2>3, <2>4, NearTrans DEF Near
<1> HIDE DEF sel, survey
<1>6. ASSUME NEW s \in sel,
             o = [ok |-> TRUE, m |-> [s.m EXCEPT !.to_join = FALSE, !.assoc_timer = TRUE]]
      PROVE  Near(m, o.m) /\ Grows(m, o.m) /\ o.m.assoc_timer
  <2>1. /\ o.m \in Rec /\ o.m.assoc_timer /\ o.m.fw_state = s.m.fw_state /\ o.m.cmds = s.m.cmds
        /\ o.m.scan_timer = s.m.scan_timer /\ o.m.to_roaming = s.m.to_roaming
    BY <1>4, <1>6 DEF Rec
  <2> QED BY <1>4, <2>1 DEF Near, Grows
<1>7. ASSUME NEW s \in survey, o = [ok |-> FALSE, m |-> [s.m EXCEPT !.to_join = FALSE]]
      PROVE  Near(m, o.m) /\ Grows(m, o.m) /\ "linking" \notin o.m.fw_state
  <2>1. /\ o.m \in Rec /\ o.m.assoc_timer = s.m.assoc_timer /\ o.m.fw_state = s.m.fw_state
        /\ o.m.cmds = s.m.cmds /\ o.m.scan_timer = s.m.scan_timer /\ o.m.to_roaming = s.m.to_roaming
    BY <1>5, <1>7 DEF Rec
  <2> QED BY <1>5, <2>1 DEF Near, Grows
<1> QED BY <1>3, <1>5, <1>6, <1>7

(* rtw_set_roaming and rtw_indicate_disconnect.                            *)
LEMMA RoamingFacts ==
  ASSUME NEW m \in Rec, NEW n \in 0 .. MaxRoam
  PROVE  LET q == SetRoaming(m, n)
             d == IndicateDisconnect(m)
         IN /\ q \in Rec /\ q.to_roaming = n /\ q.fw_state = m.fw_state /\ q.cmds = m.cmds
            /\ q.assoc_timer = m.assoc_timer /\ q.scan_timer = m.scan_timer
            /\ d \in Rec /\ d.fw_state = m.fw_state \ {"linking", "linked"} /\ Rest(m, d)
<1>1. LET q == SetRoaming(m, n)
      IN /\ q \in Rec /\ q.to_roaming = n /\ q.fw_state = m.fw_state /\ q.cmds = m.cmds
         /\ q.assoc_timer = m.assoc_timer /\ q.scan_timer = m.scan_timer
  <2>1. (m.to_join /\ n # 0) \in BOOLEAN
    BY Zenon
  <2> QED BY <2>1 DEF SetRoaming, Rec
<1>2. LET d == IndicateDisconnect(m)
      IN d \in Rec /\ d.fw_state = m.fw_state \ {"linking", "linked"} /\ Rest(m, d)
  BY SetFacts DEF IndicateDisconnect, FlagNames
<1> QED BY <1>1, <1>2

(* rtw_surveydone_event_callback, when a join waited for the survey: the   *)
(* roaming goes on with one attempt less, and only while no link is up.    *)
LEMMA SurveyDoneFacts ==
  ASSUME NEW m \in Rec, NEW q \in SurveyDoneJoin(m), Settled(m)
  PROVE  /\ q \in Rec /\ Settled(q) /\ LinkGuarded(m, q)
         /\ "survey" \in q.fw_state => "survey" \in m.fw_state \/ q.scan_timer
         /\ m.assoc_timer => q.assoc_timer
         /\ m.scan_timer => q.scan_timer
<1> DEFINE Good(x) == /\ x \in Rec /\ Settled(x) /\ LinkGuarded(m, x)
                      /\ "survey" \in x.fw_state => "survey" \in m.fw_state \/ x.scan_timer
                      /\ m.assoc_timer => x.assoc_timer
                      /\ m.scan_timer => x.scan_timer
           j == [m EXCEPT !.to_join = FALSE]
           b == Set(j, {"linking"})
           sel == SelectAndJoin(b)
           failed == {o.m : o \in {s \in sel : ~s.ok}}
           roam == {[f EXCEPT !.to_roaming = @ - 1] : f \in {g \in failed : g.to_roaming # 0}}
           survey == UNION {SiteSurvey(r) : r \in {s \in roam : s.to_roaming # 0}}
           over == {r \in roam : r.to_roaming = 0} \cup {o.m : o \in {s \in survey : ~s.ok}}
<1>1. /\ j \in Rec /\ j.fw_state = m.fw_state /\ j.to_roaming = m.to_roaming /\ j.cmds = m.cmds
      /\ j.assoc_timer = m.assoc_timer /\ j.scan_timer = m.scan_timer
  BY DEF Rec
<1>2. b \in Rec /\ Near(m, b) /\ Grows(m, b)
  <2> HIDE DEF j
  <2>1. b \in Rec /\ b.fw_state = j.fw_state \cup {"linking"} /\ Rest(j, b)
    BY <1>1, SetFacts DEF FlagNames
  <2> QED BY <1>1, <2>1 DEF Near, Grows, Rest
<1>3. ASSUME NEW s \in sel PROVE s.m \in Rec /\ Near(m, s.m) /\ Grows(m, s.m)
  <2> HIDE DEF b
  <2>1. Near(b, s.m) /\ Grows(b, s.m)
    BY <1>2, SelectFacts
  <2> QED BY <1>2, <2>1, NearTrans DEF Near
<1>4. \/ ~m.to_join /\ q = m
      \/ \E s \in sel : q = [s.m EXCEPT !.assoc_timer = TRUE]
      \/ \E f \in failed : q = Clr(f, {"linking"})
      \/ \E s \in survey : q = Clr([s.m EXCEPT !.to_join = TRUE], {"linking"})
      \/ \E r \in over : q = IndicateDisconnect(SetRoaming(r, 0))
  BY DEF SurveyDoneJoin
<1>5. ASSUME NEW f \in failed PROVE f \in Rec /\ Near(m, f)
  <2> HIDE DEF sel
  <2> QED BY <1>3
<1>6. ASSUME NEW r \in roam
      PROVE  /\ r \in Rec /\ m.to_roaming # 0
             /\ "survey" \in r.fw_state => "survey" \in m.fw_state \/ r.scan_timer
             /\ "linked" \notin r.fw_state
             /\ m.assoc_timer => r.assoc_timer
             /\ m.scan_timer => r.scan_timer
  <2> PICK f \in failed : f.to_roaming # 0 /\ r = [f EXCEPT !.to_roaming = @ - 1]
    OBVIOUS
  <2> HIDE DEF failed
  <2>1. f \in Rec /\ Near(m, f)
    BY <1>5
  <2> PICK n \in 0 .. MaxRoam : r = [f EXCEPT !.to_roaming = n]
    <3>1. f.to_roaming \in 0 .. MaxRoam
      BY <2>1 DEF Rec
    <3>2. f.to_roaming - 1 \in 0 .. MaxRoam
      BY <3>1, LimitsAssumption
    <3> QED BY <3>2
  <2>2. /\ r \in Rec /\ r.fw_state = f.fw_state /\ r.assoc_timer = f.assoc_timer
        /\ r.scan_timer = f.scan_timer
    BY <2>1 DEF Rec
  <2> QED BY <2>1, <2>2 DEF Near, Settled
<1>7. ASSUME NEW s \in survey
      PROVE  /\ s.m \in Rec /\ m.to_roaming # 0
             /\ "survey" \in s.m.fw_state => "survey" \in m.fw_state \/ s.m.scan_timer
             /\ "linked" \notin s.m.fw_state
             /\ m.assoc_timer => s.m.assoc_timer
             /\ m.scan_timer => s.m.scan_timer
  <2> PICK r \in roam : s \in SiteSurvey(r)
    OBVIOUS
  <2> HIDE DEF roam
  <2>1. Near(r, s.m)
    BY <1>6, SurveyFacts
  <2> QED BY <1>6, <2>1 DEF Near
<1> HIDE DEF sel, failed, roam, survey
<1>8. ASSUME NEW s \in sel, q = [s.m EXCEPT !.assoc_timer = TRUE] PROVE Good(q)
  <2>1. s.m \in Rec /\ Near(m, s.m)
    BY <1>3
  <2>2. /\ q \in Rec /\ q.assoc_timer /\ q.fw_state = s.m.fw_state
        /\ q.to_roaming = s.m.to_roaming /\ q.scan_timer = s.m.scan_timer
    BY <1>8, <2>1 DEF Rec
  <2> QED BY <2>1, <2>2 DEF Near, LinkGuarded, Settled
<1>9. ASSUME NEW f \in failed, q = Clr(f, {"linking"}) PROVE Good(q)
  <2>1. f \in Rec /\ Near(m, f)
    BY <1>5
  <2>2. q \in Rec /\ q.fw_state = f.fw_state \ {"linking"} /\ Rest(f, q)
    BY <1>9, <2>1, SetFacts DEF FlagNames
  <2> QED BY <2>1, <2>2 DEF Near, LinkGuarded, Settled, Rest
<1>10. ASSUME NEW s \in survey, q = Clr([s.m EXCEPT !.to_join = TRUE], {"linking"}) PROVE Good(q)
  <2> DEFINE u == [s.m EXCEPT !.to_join = TRUE]
  <2>1. /\ u \in Rec /\ u.fw_state = s.m.fw_state /\ u.assoc_timer = s.m.assoc_timer
        /\ u.scan_timer = s.m.scan_timer
    BY <1>7 DEF Rec
  <2>2. q = Clr(u, {"linking"})
    BY <1>10
  <2> HIDE DEF u
  <2>3. q \in Rec /\ q.fw_state = u.fw_state \ {"linking"} /\ Rest(u, q)
    BY <2>1, <2>2, SetFacts DEF FlagNames
  <2> QED BY <1>7, <2>1, <2>3 DEF LinkGuarded, Settled, Rest
<1>11. ASSUME NEW r \in over, q = IndicateDisconnect(SetRoaming(r, 0)) PROVE Good(q)
  <2>1. /\ r \in Rec
        /\ "survey" \in r.fw_state => "survey" \in m.fw_state \/ r.scan_timer
        /\ m.assoc_timer => r.assoc_timer
        /\ m.scan_timer => r.scan_timer
    BY <1>6, <1>7
  <2> DEFINE u == SetRoaming(r, 0)
  <2>2. 0 \in 0 .. MaxRoam
    BY LimitsAssumption
  <2>3. /\ u \in Rec /\ u.fw_state = r.fw_state /\ u.assoc_timer = r.assoc_timer
        /\ u.scan_timer = r.scan_timer
    BY <2>1, <2>2, RoamingFacts
  <2> HIDE DEF u
  <2>4. q \in Rec /\ q.fw_state = u.fw_state \ {"linking", "linked"} /\ Rest(u, q)
    BY <1>11, <2>2, <2>3, RoamingFacts DEF u
  <2> QED BY <2>1, <2>3, <2>4 DEF LinkGuarded, Settled, Rest
<1>12. CASE q = m
  BY <1>12 DEF LinkGuarded
<1> QED BY <1>4, <1>8, <1>9, <1>10, <1>11, <1>12

(* Every step keeps the flags Boolean.                                     *)
LEMMA FlagsStep == Flags /\ [Next]_vars => Flags'
<1> SUFFICES ASSUME Flags, [Next]_vars PROVE Flags'
  OBVIOUS
<1> USE DEF Flags, ext_vars, scan_vars, timer_vars, pcs
<1>1. CASE HearAuthMore
  BY <1>1, Zenon DEF HearAuthMore
<1>2. CASE StartAuth
  BY <1>2, Zenon DEF StartAuth
<1>3. CASE StartAssoc
  BY <1>3, Zenon DEF StartAssoc
<1>4. CASE AssocRsp
  BY <1>4, Zenon DEF AssocRsp
<1>5. CASE SurveyCmd
  BY <1>5, Zenon DEF SurveyCmd, SiteSurveyStep
<1>6. CASE JoinCmd
  BY <1>6, Zenon DEF JoinCmd
<1>7. CASE StartJoin
  BY <1>7, Zenon DEF StartJoin
<1>8. CASE DisconnectCmd
  BY <1>8, Zenon DEF DisconnectCmd
<1>9. CASE StaDel(TRUE)
  BY <1>9, Zenon DEF StaDel
<1>10. CASE StaDel(FALSE)
  BY <1>10, Zenon DEF StaDel
<1>11. CASE RoamTry
  BY <1>11, Zenon DEF RoamTry
<1>12. CASE LinkFire
  BY <1>12, Zenon DEF LinkFire
<1>13. CASE LinkHandle
  BY <1>13, Zenon DEF LinkHandle, LinkFail, LinkRetry
<1>14. CASE SurveyFire
  BY <1>14, Zenon DEF SurveyFire
<1>15. CASE ScanFire
  BY <1>15, Zenon DEF ScanFire
<1>16. CASE ScanTimeout
  BY <1>16, Zenon DEF ScanTimeout
<1>17. CASE AssocFire
  BY <1>17, Zenon DEF AssocFire
<1>18. CASE JoinTimeout
  BY <1>18, Zenon DEF JoinTimeout
<1>19. CASE Join \/ Disassociate \/ ScanCheck \/ ScanCmd \/ HearBeacon \/
   HearAuth \/ HearAssocRsp \/ HearDeauth \/ SurveyDoneCancel \/ SurveyDone \/
   LinkedStatusChk \/ UNCHANGED vars
  BY <1>19, Zenon DEF Join, Disassociate, ScanCheck, ScanCmd, HearBeacon,
     RxWait, HearAuth, HearAssocRsp, HearDeauth, SurveyDoneCancel, SurveyDone,
     LinkedStatusChk, vars
<1>20. ASSUME NEW r \in Reporters, Prehandle(r) \/ PrehandleCancel(r) PROVE
   Flags'
  BY <1>20, Zenon DEF Prehandle, PrehandleCancel
<1> HIDE DEF Flags
<1> QED
  BY NextCases, <1>1, <1>2, <1>3, <1>4, <1>5, <1>6, <1>7, <1>8, <1>9, <1>10,
     <1>11, <1>12, <1>13, <1>14, <1>15, <1>16, <1>17, <1>18, <1>19, <1>20

(* Every step keeps the types of the control points.                       *)
LEMMA TypesStep == Types /\ [Next]_vars => Types'
<1> SUFFICES ASSUME Types, [Next]_vars PROVE Types'
  OBVIOUS
<1> USE DEF Types, Linking, Reports, Reporters, ext_vars, scan_vars, timer_vars,
   pcs
<1>1. CASE ScanCheck
  BY <1>1 DEF ScanCheck
<1>2. CASE ScanCmd
  BY <1>2 DEF ScanCmd
<1>3. CASE HearBeacon
  BY <1>3 DEF HearBeacon, RxWait
<1>4. CASE HearAuth
  BY <1>4 DEF HearAuth, RxWait
<1>5. CASE HearAssocRsp
  BY <1>5 DEF HearAssocRsp, RxWait
<1>6. CASE HearDeauth
  BY <1>6 DEF HearDeauth
<1>7. CASE StartAuth
  BY <1>7 DEF StartAuth
<1>8. CASE StartAssoc
  BY <1>8 DEF StartAssoc
<1>9. CASE AssocRsp
  BY <1>9 DEF AssocRsp
<1>10. CASE SurveyCmd
  BY <1>10 DEF SurveyCmd, SiteSurveyStep
<1>11. CASE JoinCmd
  BY <1>11 DEF JoinCmd
<1>12. CASE StartJoin
  BY <1>12 DEF StartJoin
<1>13. CASE DisconnectCmd
  BY <1>13 DEF DisconnectCmd
<1>14. CASE SurveyDoneCancel
  BY <1>14 DEF SurveyDoneCancel
<1>15. CASE SurveyDone
  BY <1>15 DEF SurveyDone
<1>16. CASE StaDel(TRUE)
  BY <1>16 DEF StaDel
<1>17. CASE StaDel(FALSE)
  BY <1>17 DEF StaDel
<1>18. CASE RoamTry
  BY <1>18 DEF RoamTry
<1>19. CASE LinkedStatusChk
  BY <1>19 DEF LinkedStatusChk
<1>20. ASSUME NEW r \in Reporters, Prehandle(r) PROVE Types'
  BY <1>20 DEF Prehandle
<1>21. ASSUME NEW r \in Reporters, PrehandleCancel(r) PROVE Types'
  BY <1>21 DEF PrehandleCancel
<1>22. CASE LinkHandle
  BY <1>22 DEF LinkHandle, LinkFail, LinkRetry
<1>23. CASE JoinTimeout
  BY <1>23 DEF JoinTimeout
<1>24. CASE Join \/ Disassociate \/ HearAuthMore \/ LinkFire \/ SurveyFire \/
   ScanFire \/ ScanTimeout \/ AssocFire \/ UNCHANGED vars
  <2>1. UNCHANGED <<lock, ext_state, scan, rep, rx_pc, cmd_pc, user_pc>>
    BY <1>24, Zenon DEF Join, Disassociate, HearAuthMore, LinkFire, SurveyFire,
       ScanFire, ScanTimeout, AssocFire, vars
  <2> QED BY <2>1
<1> HIDE DEF Types
<1> QED
  BY NextCases, <1>1, <1>2, <1>3, <1>4, <1>5, <1>6, <1>7, <1>8, <1>9, <1>10,
     <1>11, <1>12, <1>13, <1>14, <1>15, <1>16, <1>17, <1>18, <1>19, <1>20,
     <1>21, <1>22, <1>23, <1>24

(* Every step keeps the lock with the report that waits.                   *)
LEMMA RepStep == RepInv /\ Types /\ [Next]_vars => RepInv'
<1> SUFFICES ASSUME RepInv, Types, [Next]_vars PROVE RepInv'
  OBVIOUS
<1> USE DEF RepInv, Types, Reporters, ext_vars, scan_vars, timer_vars, pcs
<1>1. CASE HearDeauth
  BY <1>1 DEF HearDeauth, Reports
<1>2. CASE AssocRsp
  BY <1>2 DEF AssocRsp, Reports
<1>3. CASE SurveyDoneCancel
  BY <1>3 DEF SurveyDoneCancel
<1>4. CASE SurveyDone
  BY <1>4 DEF SurveyDone
<1>5. CASE StaDel(TRUE)
  BY <1>5 DEF StaDel
<1>6. CASE StaDel(FALSE)
  BY <1>6 DEF StaDel
<1>7. CASE RoamTry
  BY <1>7 DEF RoamTry
<1>8. ASSUME NEW r \in Reporters, Prehandle(r) PROVE RepInv'
  BY <1>8 DEF Prehandle
<1>9. ASSUME NEW r \in Reporters, PrehandleCancel(r) PROVE RepInv'
  BY <1>9 DEF PrehandleCancel
<1>10. CASE LinkHandle
  BY <1>10 DEF LinkHandle, LinkFail, LinkRetry, Reports
<1>11. CASE JoinTimeout
  BY <1>11 DEF JoinTimeout
<1>12. CASE Join \/ Disassociate \/ ScanCheck \/ ScanCmd \/ HearBeacon \/
   HearAuth \/ HearAuthMore \/ HearAssocRsp \/ StartAuth \/ StartAssoc \/
   SurveyCmd \/ JoinCmd \/ StartJoin \/ DisconnectCmd \/ LinkedStatusChk \/
   LinkFire \/ SurveyFire \/ ScanFire \/ ScanTimeout \/ AssocFire \/ UNCHANGED
   vars
  <2>1. UNCHANGED <<rep, lock>>
    BY <1>12, Zenon DEF Join, Disassociate, ScanCheck, ScanCmd, HearBeacon,
       RxWait, HearAuth, HearAuthMore, HearAssocRsp, StartAuth, StartAssoc,
       SurveyCmd, SiteSurveyStep, JoinCmd, StartJoin, DisconnectCmd,
       LinkedStatusChk, LinkFire, SurveyFire, ScanFire, ScanTimeout, AssocFire,
       vars
  <2> QED BY <2>1
<1> HIDE DEF RepInv
<1> QED
  BY NextCases, <1>1, <1>2, <1>3, <1>4, <1>5, <1>6, <1>7, <1>8, <1>9, <1>10,
     <1>11, <1>12

(* The command that is served leaves the queue.                            *)
LEMMA PopFacts ==
  ASSUME mlme \in Rec, mlme.cmds # <<>>
  PROVE  /\ Pop \in Rec /\ Near(mlme, Pop) /\ Pop.fw_state = mlme.fw_state
         /\ Pop.to_join = mlme.to_join /\ Pop.assoc_timer = mlme.assoc_timer
         /\ Pop.scan_timer = mlme.scan_timer
<1>1. Tail(mlme.cmds) \in Seq(Ops)
  BY DEF Rec
<1>2. Pop = [mlme EXCEPT !.cmds = Tail(mlme.cmds)]
  BY DEF Pop
<1>3. /\ Pop \in Rec /\ Pop.fw_state = mlme.fw_state /\ Pop.to_roaming = mlme.to_roaming
      /\ Pop.to_join = mlme.to_join /\ Pop.assoc_timer = mlme.assoc_timer
      /\ Pop.scan_timer = mlme.scan_timer
  BY <1>1, <1>2 DEF Rec
<1> QED BY <1>3 DEF Near

(* Outcomes that keep the lock where it is keep the invariant.             *)
LEMMA NearKeeps ==
  ASSUME MlmeInv, Near(mlme, mlme'), LinkGuarded(mlme, mlme'),
         Grows(mlme, mlme') \/ lock # "survey", UNCHANGED <<lock, scan_run, assoc_run>>
  PROVE  MlmeInv'
<1>1. mlme' \in Rec /\ Settled(mlme') /\ LockInv'
  BY DEF MlmeInv, LockInv, Near, Grows, Settled
<1>2. BusyGuarded'
  BY DEF MlmeInv, BusyGuarded, Near, LinkGuarded
<1> QED BY <1>1, <1>2 DEF MlmeInv

(* A field that is set, with the fields that stay.                         *)
LEMMA FieldFacts ==
  ASSUME NEW m \in Rec, NEW b \in BOOLEAN
  PROVE  LET j == [m EXCEPT !.to_join = b]
             a == [m EXCEPT !.assoc_timer = b]
             s == [m EXCEPT !.scan_timer = b]
         IN /\ j \in Rec /\ j.fw_state = m.fw_state /\ j.to_roaming = m.to_roaming
            /\ j.assoc_timer = m.assoc_timer /\ j.scan_timer = m.scan_timer /\ j.cmds = m.cmds
            /\ a \in Rec /\ a.fw_state = m.fw_state /\ a.to_roaming = m.to_roaming
            /\ a.assoc_timer = b /\ a.scan_timer = m.scan_timer /\ a.cmds = m.cmds
            /\ s \in Rec /\ s.fw_state = m.fw_state /\ s.to_roaming = m.to_roaming
            /\ s.assoc_timer = m.assoc_timer /\ s.scan_timer = b /\ s.cmds = m.cmds
  BY DEF Rec

(* Events are commands.                                                    *)
LEMMA QueuedKeeps ==
  ASSUME MlmeInv, NEW op \in Ops, mlme' \in Queue(mlme, op) \/ UNCHANGED mlme,
         UNCHANGED <<lock, scan_run, assoc_run>>
  PROVE  MlmeInv'
<1>1. mlme \in Rec
  BY DEF MlmeInv
<1>2. Near(mlme, mlme') /\ Grows(mlme, mlme') /\ mlme'.fw_state = mlme.fw_state
  BY <1>1, QueueFacts, NearSame
<1> QED BY <1>2, NearKeeps DEF LinkGuarded

(* rtw_stadel_event_callback.                                              *)
LEMMA StaDelKeeps ==
  ASSUME MlmeInv, NEW expired \in BOOLEAN, StaDel(expired)
  PROVE  MlmeInv'
<1>0. mlme \in Rec /\ Settled(mlme) /\ BusyGuarded /\ LockInv
  BY DEF MlmeInv
<1> DEFINE n == IF ~expired THEN 0
                ELSE IF mlme.to_roaming > 0 THEN mlme.to_roaming - 1 ELSE MaxRoam
           m == IF ~expired \/ mlme.to_roaming = 0 THEN SetRoaming(Pop, n)
                ELSE [Pop EXCEPT !.to_roaming = n]
<1>1. /\ mlme' = IndicateDisconnect(m) /\ lock' = IF n > 0 THEN "roam" ELSE "free"
      /\ UNCHANGED <<scan_run, assoc_run>> /\ mlme.cmds # <<>> /\ lock = "free"
  BY DEF StaDel, NextCmd, timer_vars
<1>2. n \in 0 .. MaxRoam
  BY <1>0, LimitsAssumption DEF Rec
<1>3. /\ Pop \in Rec /\ Pop.fw_state = mlme.fw_state /\ Pop.assoc_timer = mlme.assoc_timer
      /\ Pop.scan_timer = mlme.scan_timer
  BY <1>0, <1>1, PopFacts
<1> HIDE DEF n
<1>4. /\ m \in Rec /\ m.to_roaming = n /\ m.fw_state = mlme.fw_state
      /\ m.assoc_timer = mlme.assoc_timer /\ m.scan_timer = mlme.scan_timer
  <2>1. CASE m = SetRoaming(Pop, n)
    BY <1>2, <1>3, <2>1, RoamingFacts
  <2>2. CASE m = [Pop EXCEPT !.to_roaming = n]
    BY <1>2, <1>3, <2>2 DEF Rec
  <2> QED BY <2>1, <2>2
<1> HIDE DEF m
<1>5. mlme' \in Rec /\ mlme'.fw_state = m.fw_state \ {"linking", "linked"} /\ Rest(m, mlme')
  BY <1>1, <1>2, <1>4, RoamingFacts
<1>6. BusyGuarded'
  BY <1>0, <1>1, <1>4, <1>5 DEF BusyGuarded, Rest
<1>7. Settled(mlme') /\ LockInv'
  BY <1>1, <1>4, <1>5 DEF Settled, LockInv, Rest
<1> QED BY <1>5, <1>6, <1>7 DEF MlmeInv

(* Every step keeps what is claimed of mlme_priv.                          *)
LEMMA MlmeStep == MlmeInv /\ RepInv /\ [Next]_vars => MlmeInv'
<1> SUFFICES ASSUME MlmeInv, RepInv, [Next]_vars PROVE MlmeInv'
  OBVIOUS
<1> USE DEF ext_vars, scan_vars, timer_vars, pcs
<1>0. mlme \in Rec /\ Settled(mlme) /\ BusyGuarded /\ LockInv
  BY DEF MlmeInv
<1>1. CASE Join
  <2>9. UNCHANGED <<lock, scan_run, assoc_run>>
    BY <1>1 DEF Join
  <2>1. CASE mlme' = [mlme EXCEPT !.to_join = TRUE]
    <3>1. /\ mlme' \in Rec /\ mlme'.fw_state = mlme.fw_state /\ mlme'.to_roaming = mlme.to_roaming
          /\ mlme'.assoc_timer = mlme.assoc_timer /\ mlme'.scan_timer = mlme.scan_timer
          /\ mlme'.cmds = mlme.cmds
      BY <1>0, <2>1, FieldFacts
    <3> QED BY <2>9, <3>1, NearKeeps DEF Near, Grows, LinkGuarded
  <2>2. ASSUME NEW m \in {mlme} \cup Disassoc(mlme), NEW o \in DoJoin(m), mlme' = o.m
        PROVE  MlmeInv'
    <3>1. m \in Rec /\ Near(mlme, m) /\ Grows(mlme, m)
      BY <1>0, DisassocFacts, NearSame DEF Near
    <3>2. Near(m, o.m) /\ Grows(m, o.m) /\ ("linking" \in o.m.fw_state => o.m.assoc_timer)
      BY <3>1, DoJoinFacts
    <3>3. Near(mlme, mlme') /\ Grows(mlme, mlme') /\ LinkGuarded(mlme, mlme')
      BY <2>2, <3>1, <3>2, NearTrans DEF LinkGuarded
    <3> QED BY <2>9, <3>3, NearKeeps
  <2>3. \/ mlme' = [mlme EXCEPT !.to_join = TRUE]
        \/ \E m \in {mlme} \cup Disassoc(mlme) : \E o \in DoJoin(m) : mlme' = o.m
    BY <1>1 DEF Join
  <2> QED BY <2>1, <2>2, <2>3
<1>2. CASE Disassociate
  <2>9. UNCHANGED <<lock, scan_run, assoc_run>>
    BY <1>2 DEF Disassociate
  <2>1. mlme' \in Disassoc(mlme)
    BY <1>2 DEF Disassociate
  <2>2. Near(mlme, mlme') /\ Grows(mlme, mlme') /\ LinkGuarded(mlme, mlme')
    BY <1>0, <2>1, DisassocFacts DEF LinkGuarded
  <2> QED BY <2>2, <2>9, NearKeeps
<1>3. CASE ScanCmd
  <2>9. UNCHANGED <<lock, scan_run, assoc_run>>
    BY <1>3 DEF ScanCmd
  <2> PICK o \in SiteSurvey(mlme) : mlme' = o.m
    BY <1>3 DEF ScanCmd
  <2>1. Near(mlme, mlme') /\ Grows(mlme, mlme') /\ LinkGuarded(mlme, mlme')
    BY <1>0, SurveyFacts DEF LinkGuarded
  <2> QED BY <2>1, <2>9, NearKeeps
<1>4. CASE HearDeauth
  <2>9. UNCHANGED <<lock, scan_run, assoc_run>>
    BY <1>4 DEF HearDeauth
  <2>1. mlme' \in Queue(mlme, "deauth") \/ UNCHANGED mlme
    BY <1>4 DEF HearDeauth
  <2> QED BY <2>1, <2>9, QueuedKeeps DEF Ops
<1>5. CASE SurveyCmd
  <2>9. UNCHANGED <<lock, scan_run, assoc_run>>
    BY <1>5 DEF SurveyCmd  <2>8. mlme.cmds # <<>> /\ lock # "survey"
    BY <1>5 DEF SurveyCmd, NextCmd, CmdIdle

  <2>1. Pop \in Rec /\ Near(mlme, Pop) /\ Pop.fw_state = mlme.fw_state
    BY <1>0, <2>8, PopFacts
  <2>2. mlme' = Pop \/ mlme' \in Queue(Pop, "surveydone")
    BY <1>5 DEF SurveyCmd, SiteSurveyStep
  <2>3. Near(Pop, mlme') /\ mlme'.fw_state = mlme.fw_state
    BY <2>1, <2>2, QueueFacts, NearSame DEF Ops
  <2>4. Near(mlme, mlme') /\ LinkGuarded(mlme, mlme')
    BY <2>1, <2>3 DEF Near, LinkGuarded
  <2> QED BY <2>4, <2>8, <2>9, NearKeeps
<1>6. CASE JoinCmd
  <2>9. UNCHANGED <<lock, scan_run, assoc_run>>
    BY <1>6 DEF JoinCmd  <2>8. mlme.cmds # <<>> /\ lock # "survey"
    BY <1>6 DEF JoinCmd, NextCmd, CmdIdle

  <2>1. mlme' = Pop
    BY <1>6 DEF JoinCmd
  <2>2. Near(mlme, mlme') /\ LinkGuarded(mlme, mlme')
    BY <1>0, <2>1, <2>8, PopFacts DEF LinkGuarded
  <2> QED BY <2>2, <2>8, <2>9, NearKeeps
<1>7. CASE StartJoin
  <2>9. UNCHANGED <<lock, scan_run, assoc_run>>
    BY <1>7 DEF StartJoin
  <2>1. mlme' = [mlme EXCEPT !.assoc_timer = TRUE]
    BY <1>7 DEF StartJoin
  <2>2. /\ mlme' \in Rec /\ mlme'.fw_state = mlme.fw_state /\ mlme'.to_roaming = mlme.to_roaming
        /\ mlme'.assoc_timer /\ mlme'.scan_timer = mlme.scan_timer /\ mlme'.cmds = mlme.cmds
    BY <1>0, <2>1, FieldFacts
  <2>3. Near(mlme, mlme') /\ Grows(mlme, mlme') /\ LinkGuarded(mlme, mlme')
    BY <2>2 DEF Near, Grows, LinkGuarded
  <2> QED BY <2>3, <2>9, NearKeeps
<1>8. CASE DisconnectCmd
  <2>9. UNCHANGED <<lock, scan_run, assoc_run>>
    BY <1>8 DEF DisconnectCmd  <2>8. mlme.cmds # <<>> /\ lock # "survey"
    BY <1>8 DEF DisconnectCmd, NextCmd, CmdIdle

  <2>1. mlme' = Pop
    BY <1>8 DEF DisconnectCmd
  <2>2. Near(mlme, mlme') /\ LinkGuarded(mlme, mlme')
    BY <1>0, <2>1, <2>8, PopFacts DEF LinkGuarded
  <2> QED BY <2>2, <2>8, <2>9, NearKeeps
<1>9. CASE SurveyDoneCancel
  <2>1. /\ mlme' = [mlme EXCEPT !.scan_timer = FALSE] /\ lock' = "survey" /\ mlme.cmds # <<>>
        /\ UNCHANGED <<scan_run, assoc_run>>
    BY <1>9 DEF SurveyDoneCancel, NextCmd
  <2>2. /\ mlme' \in Rec /\ mlme'.fw_state = mlme.fw_state /\ mlme'.to_roaming = mlme.to_roaming
        /\ mlme'.assoc_timer = mlme.assoc_timer /\ mlme'.cmds = mlme.cmds
    BY <1>0, <2>1, FieldFacts
  <2> QED BY <1>0, <2>1, <2>2 DEF Settled, BusyGuarded, LockInv, MlmeInv
<1>10. CASE SurveyDone
  <2>1. mlme.cmds # <<>> /\ lock' = "free" /\ UNCHANGED <<scan_run, assoc_run>>
    BY <1>10, <1>0 DEF SurveyDone, NextCmd, LockInv
  <2> DEFINE m == Clr(Pop, {"survey"})
  <2>2. mlme' \in SurveyDoneJoin(m)
    BY <1>10 DEF SurveyDone
  <2>3. m \in Rec /\ m.fw_state = mlme.fw_state \ {"survey"} /\ Rest(Pop, m)
    BY <1>0, <2>1, PopFacts, SetFacts DEF FlagNames
  <2> HIDE DEF m
  <2>4. Settled(m) /\ m.assoc_timer = mlme.assoc_timer
    BY <1>0, <2>1, <2>3, PopFacts DEF Settled, Rest, Near
  <2>5. /\ mlme' \in Rec /\ Settled(mlme') /\ LinkGuarded(m, mlme')
        /\ "survey" \in mlme'.fw_state => "survey" \in m.fw_state \/ mlme'.scan_timer
        /\ m.assoc_timer => mlme'.assoc_timer
    BY <2>2, <2>3, <2>4, SurveyDoneFacts
  <2>6. BusyGuarded'
    BY <1>0, <2>1, <2>3, <2>4, <2>5 DEF LinkGuarded, BusyGuarded
  <2> QED BY <2>1, <2>5, <2>6 DEF LockInv, MlmeInv
<1>11. CASE StaDel(TRUE)
  BY <1>11, StaDelKeeps
<1>12. CASE StaDel(FALSE)
  BY <1>12, StaDelKeeps
<1>13. CASE RoamTry
  <2> PICK o \in DoJoin(mlme) :
         LET n == mlme.to_roaming - 1
             m == [o.m EXCEPT !.to_roaming = n]
         IN IF o.ok THEN mlme' = o.m /\ lock' = "free"
            ELSE IF n > 0 THEN mlme' = m /\ UNCHANGED lock
            ELSE mlme' = IndicateDisconnect(m) /\ lock' = "free"
    BY <1>13 DEF RoamTry
  <2>1. /\ Near(mlme, o.m) /\ o.m \in Rec
        /\ "linking" \in o.m.fw_state => o.m.assoc_timer
    BY <1>0, DoJoinFacts DEF Near
  <2>2. mlme.to_roaming > 0 /\ scan_run' = scan_run /\ lock \in {"roam", "timeout"}
    BY <1>13, <1>0 DEF RoamTry, LockInv
  <2> DEFINE n == mlme.to_roaming - 1
             m == [o.m EXCEPT !.to_roaming = n]
  <2>3. n \in 0 .. MaxRoam
    BY <1>0, <2>2, LimitsAssumption DEF Rec
  <2>4. /\ m \in Rec /\ m.to_roaming = n /\ m.fw_state = o.m.fw_state /\ m.cmds = o.m.cmds
        /\ m.assoc_timer = o.m.assoc_timer /\ m.scan_timer = o.m.scan_timer
    <3> HIDE DEF n
    <3> QED BY <2>1, <2>3 DEF Rec
  <2>5. "linked" \notin mlme.fw_state
    BY <1>0, <2>2 DEF Settled
  <2>6. CASE o.ok
    <3>1. mlme' = o.m /\ lock' = "free"
      BY <2>6
    <3>2. BusyGuarded'
      BY <1>0, <2>1, <2>2, <3>1 DEF BusyGuarded, Near
    <3> QED BY <2>1, <2>5, <3>1, <3>2 DEF MlmeInv, LockInv, Settled, Near
  <2>7. CASE ~o.ok /\ n > 0
    <3>1. mlme' = m /\ lock' = lock
      BY <2>7
    <3>2. BusyGuarded'
      <4> HIDE DEF m, n
      <4> QED BY <1>0, <2>1, <2>2, <2>4, <3>1 DEF BusyGuarded, Near
    <3>3. mlme'.to_roaming > 0
      BY <2>4, <2>7, <3>1
    <3> HIDE DEF m, n
    <3> QED BY <2>1, <2>4, <2>5, <3>1, <3>2, <3>3, <2>2 DEF MlmeInv, LockInv, Settled, Near
  <2>8. CASE ~o.ok /\ ~(n > 0)
    <3>1. mlme' = IndicateDisconnect(m) /\ lock' = "free"
      BY <2>8
    <3> HIDE DEF m, n
    <3>2. /\ mlme' \in Rec /\ mlme'.fw_state = m.fw_state \ {"linking", "linked"}
          /\ Rest(m, mlme')
      BY <2>3, <2>4, <3>1, RoamingFacts
    <3>3. BusyGuarded'
      BY <1>0, <2>1, <2>2, <2>4, <3>1, <3>2 DEF BusyGuarded, Near, Rest
    <3> QED BY <3>1, <3>2, <3>3 DEF MlmeInv, LockInv, Settled
  <2> QED BY <2>6, <2>7, <2>8
<1>14. CASE LinkedStatusChk
  <2>9. UNCHANGED <<lock, scan_run, assoc_run>>
    BY <1>14 DEF LinkedStatusChk
  <2>1. mlme' \in Queue(mlme, "expired") \/ UNCHANGED mlme
    BY <1>14 DEF LinkedStatusChk
  <2> QED BY <2>1, <2>9, QueuedKeeps DEF Ops
<1>15. ASSUME NEW r \in Reporters, Prehandle(r) PROVE MlmeInv'
  <2>1. scan_run' = scan_run /\ assoc_run' = assoc_run /\ lock = "free"
    BY <1>15 DEF Prehandle
  <2>2. CASE /\ mlme' = IndicateConnect([mlme EXCEPT !.fw_state = {}, !.assoc_timer = FALSE])
             /\ lock' = "join"
    <3> DEFINE z == [mlme EXCEPT !.fw_state = {}, !.assoc_timer = FALSE]
               y == [z EXCEPT !.to_join = FALSE]
               x == Set(y, {"linked"})
    <3>1. z \in Rec /\ z.fw_state = {}
      BY <1>0 DEF Rec
    <3> HIDE DEF z
    <3>2. y \in Rec /\ y.fw_state = {}
      BY <3>1, FieldFacts
    <3> HIDE DEF y
    <3>3. x \in Rec /\ x.fw_state = {"linked"}
      BY <3>2, SetFacts DEF FlagNames
    <3>4. mlme' = SetRoaming(x, 0)
      BY <2>2 DEF IndicateConnect, x, y, z
    <3> HIDE DEF x
    <3>5. 0 \in 0 .. MaxRoam
      BY LimitsAssumption
    <3>6. mlme' \in Rec /\ mlme'.to_roaming = 0 /\ mlme'.fw_state = {"linked"}
      BY <3>3, <3>4, <3>5, RoamingFacts
    <3> QED BY <2>2, <3>6 DEF MlmeInv, Settled, BusyGuarded, LockInv
  <2>3. CASE mlme' = [mlme EXCEPT !.fw_state = {}] /\ UNCHANGED lock
    <3>1. mlme' \in Rec /\ mlme'.fw_state = {}
      BY <1>0, <2>3 DEF Rec
    <3> QED BY <2>1, <2>3, <3>1 DEF MlmeInv, Settled, BusyGuarded, LockInv
  <2>4. CASE UNCHANGED <<mlme, lock>>
    BY <1>0, <2>1, <2>4 DEF MlmeInv, BusyGuarded, LockInv
  <2>5. CASE mlme' = Clr([mlme EXCEPT !.assoc_timer = TRUE], {"linking"}) /\ UNCHANGED lock
    <3> DEFINE y == [mlme EXCEPT !.assoc_timer = TRUE]
    <3>1. /\ y \in Rec /\ y.fw_state = mlme.fw_state /\ y.to_roaming = mlme.to_roaming
          /\ y.scan_timer = mlme.scan_timer
      BY <1>0, FieldFacts
    <3>2. mlme' = Clr(y, {"linking"})
      BY <2>5
    <3> HIDE DEF y
    <3>3. mlme' \in Rec /\ mlme'.fw_state = y.fw_state \ {"linking"} /\ Rest(y, mlme')
      BY <3>1, <3>2, SetFacts DEF FlagNames
    <3> QED BY <1>0, <2>1, <2>5, <3>1, <3>3 DEF MlmeInv, Settled, BusyGuarded, LockInv, Rest
  <2> QED BY <1>15, <2>2, <2>3, <2>4, <2>5 DEF Prehandle
<1>16. ASSUME NEW r \in Reporters, PrehandleCancel(r) PROVE MlmeInv'
  <2>1. UNCHANGED <<mlme, scan_run, assoc_run>> /\ lock' = "free" /\ rep[r] = "cancel"
    BY <1>16 DEF PrehandleCancel
  <2>2. lock # "survey"
    BY <1>16 DEF RepInv, PrehandleCancel, Reporters
  <2> QED BY <1>0, <2>1, <2>2 DEF MlmeInv, BusyGuarded, LockInv
<1>17. CASE SurveyFire
  <2>9. UNCHANGED <<lock, scan_run, assoc_run>>
    BY <1>17 DEF SurveyFire
  <2>1. mlme' \in Queue(mlme, "survey") \/ UNCHANGED mlme
    BY <1>17 DEF SurveyFire
  <2> QED BY <2>1, <2>9, QueuedKeeps DEF Ops
<1>18. CASE ScanFire
  <2>1. /\ mlme' = [mlme EXCEPT !.scan_timer = FALSE] /\ scan_run' = TRUE
        /\ UNCHANGED <<lock, assoc_run>>
    BY <1>18 DEF ScanFire
  <2>2. /\ mlme' \in Rec /\ mlme'.fw_state = mlme.fw_state /\ mlme'.to_roaming = mlme.to_roaming
        /\ mlme'.assoc_timer = mlme.assoc_timer /\ mlme'.cmds = mlme.cmds
    BY <1>0, <2>1, FieldFacts
  <2> QED BY <1>0, <2>1, <2>2 DEF MlmeInv, Settled, BusyGuarded, LockInv
<1>19. CASE ScanTimeout
  <2>1. mlme' = Clr(mlme, {"survey"}) /\ lock = "free" /\ UNCHANGED <<lock, assoc_run>>
    BY <1>19 DEF ScanTimeout
  <2>2. mlme' \in Rec /\ mlme'.fw_state = mlme.fw_state \ {"survey"} /\ Rest(mlme, mlme')
    BY <1>0, <2>1, SetFacts DEF FlagNames
  <2> QED BY <1>0, <2>1, <2>2 DEF MlmeInv, Settled, BusyGuarded, LockInv, Rest
<1>20. CASE AssocFire
  <2>1. /\ mlme' = [mlme EXCEPT !.assoc_timer = FALSE] /\ assoc_run' = TRUE
        /\ UNCHANGED <<lock, scan_run>>
    BY <1>20 DEF AssocFire
  <2>2. /\ mlme' \in Rec /\ mlme'.fw_state = mlme.fw_state /\ mlme'.to_roaming = mlme.to_roaming
        /\ mlme'.scan_timer = mlme.scan_timer /\ mlme'.cmds = mlme.cmds
    BY <1>0, <2>1, FieldFacts
  <2> QED BY <1>0, <2>1, <2>2 DEF MlmeInv, Settled, BusyGuarded, LockInv
<1>21. CASE JoinTimeout
  <2>1. scan_run' = scan_run /\ lock = "free"
    BY <1>21 DEF JoinTimeout
  <2>2. CASE mlme' = IndicateDisconnect(mlme) /\ UNCHANGED lock
    <3>0. 0 \in 0 .. MaxRoam
      BY LimitsAssumption
    <3>1. mlme' \in Rec /\ mlme'.fw_state = mlme.fw_state \ {"linking", "linked"} /\ Rest(mlme, mlme')
      BY <1>0, <2>2, <3>0, RoamingFacts
    <3> QED BY <1>0, <2>1, <2>2, <3>1 DEF MlmeInv, Settled, BusyGuarded, LockInv, Rest
  <2>3. CASE mlme' = IndicateDisconnect([mlme EXCEPT !.to_roaming = 0]) /\ UNCHANGED lock
    <3>0. 0 \in 0 .. MaxRoam
      BY LimitsAssumption
    <3> DEFINE y == [mlme EXCEPT !.to_roaming = 0]
    <3>1. y \in Rec /\ y.fw_state = mlme.fw_state /\ y.scan_timer = mlme.scan_timer
      BY <1>0, <3>0 DEF Rec
    <3>2. mlme' = IndicateDisconnect(y)
      BY <2>3
    <3> HIDE DEF y
    <3>3. mlme' \in Rec /\ mlme'.fw_state = y.fw_state \ {"linking", "linked"} /\ Rest(y, mlme')
      BY <3>0, <3>1, <3>2, RoamingFacts
    <3> QED BY <1>0, <2>1, <2>3, <3>1, <3>3 DEF MlmeInv, Settled, BusyGuarded, LockInv, Rest
  <2>4. CASE /\ mlme.to_roaming > 1 /\ mlme' = [mlme EXCEPT !.to_roaming = mlme.to_roaming - 1]
             /\ lock' = "timeout" /\ UNCHANGED assoc_run
    <3>1. mlme.to_roaming - 1 \in 0 .. MaxRoam /\ mlme.to_roaming - 1 > 0
      BY <1>0, <2>4, LimitsAssumption DEF Rec
    <3> PICK n \in 0 .. MaxRoam : n = mlme.to_roaming - 1
      BY <3>1
    <3>2. mlme' = [mlme EXCEPT !.to_roaming = n]
      BY <2>4
    <3>3. /\ mlme' \in Rec /\ mlme'.to_roaming = n /\ mlme'.fw_state = mlme.fw_state
          /\ mlme'.assoc_timer = mlme.assoc_timer /\ mlme'.scan_timer = mlme.scan_timer
      BY <1>0, <3>2 DEF Rec
    <3>4. "linked" \notin mlme.fw_state
      BY <1>0, <2>4 DEF Settled
    <3> QED BY <1>0, <2>1, <2>4, <3>1, <3>3, <3>4 DEF MlmeInv, Settled, BusyGuarded, LockInv
  <2> QED BY <1>21, <2>2, <2>3, <2>4 DEF JoinTimeout
<1>22. CASE ScanCheck \/ HearBeacon \/ HearAuth \/ HearAuthMore \/ HearAssocRsp
   \/ StartAuth \/ StartAssoc \/ AssocRsp \/ LinkFire \/ LinkHandle \/ UNCHANGED
   vars
  <2>1. UNCHANGED <<mlme, lock, scan_run, assoc_run>>
    BY <1>22, Zenon DEF ScanCheck, HearBeacon, RxWait, HearAuth, HearAuthMore,
       HearAssocRsp, StartAuth, StartAssoc, AssocRsp, LinkFire, LinkHandle,
       LinkFail, LinkRetry, vars
  <2> QED BY <2>1 DEF MlmeInv, Settled, BusyGuarded, LockInv
<1> QED
  BY NextCases, <1>1, <1>2, <1>3, <1>4, <1>5, <1>6, <1>7, <1>8, <1>9, <1>10,
     <1>11, <1>12, <1>13, <1>14, <1>15, <1>16, <1>17, <1>18, <1>19, <1>20,
     <1>21, <1>22

(* The invariant holds initially.                                          *)
LEMMA InitInv == Init => IInv
<1> SUFFICES ASSUME Init PROVE IInv
  OBVIOUS
<1>1. Flags
  BY Zenon DEF Init, Flags
<1>2. Types /\ RepInv
  BY DEF Init, Types, RepInv, Reporters, Linking
<1>3. mlme \in Rec /\ mlme.fw_state = {}
  <2>1. <<>> \in Seq(Ops) /\ 0 \in 0 .. MaxRoam
    BY LimitsAssumption
  <2> QED BY <2>1 DEF Init, Rec, FlagNames
<1>4. MlmeInv
  BY <1>3 DEF Init, MlmeInv, Settled, BusyGuarded, LockInv
<1> QED BY <1>1, <1>2, <1>4 DEF IInv

(* Every step keeps the invariant.                                         *)
LEMMA StepInv == IInv /\ [Next]_vars => IInv'
  BY FlagsStep, TypesStep, RepStep, MlmeStep DEF IInv

(* IInv is an inductive invariant of the specification.                    *)
THEOREM Inductive == Spec => []IInv
<1>1. Init => IInv
  BY InitInv
<1>2. IInv /\ [Next]_vars => IInv'
  BY StepInv
<1> QED BY <1>1, <1>2, PTL DEF Spec

(* rtw_do_join, rtw_surveydone_event_callback and rtw_sitesurvey_cmd never *)
(* leave the driver busy without a timer that ends it.                     *)
THEOREM BusyGuardedHolds == Spec => []BusyGuarded
<1>1. IInv => BusyGuarded
  BY DEF IInv, MlmeInv
<1> QED BY <1>1, Inductive, PTL

(* While the link is up no roaming goes on, whatever failed on the way,    *)
(* and to_roaming, which four handlers decrement, never wraps.             *)
THEOREM LinkedNotRoamingHolds == Spec => []LinkedNotRoaming
<1>1. IInv => LinkedNotRoaming
  <2> SUFFICES ASSUME IInv PROVE LinkedNotRoaming
    OBVIOUS
  <2>1. {scan_run, assoc_run, link_run, link_timer, survey_timer} \subseteq BOOLEAN
    BY Zenon DEF IInv, Flags
  <2>2. mlme \in Rec
    BY DEF IInv, MlmeInv
  <2>3. /\ mlme.fw_state \subseteq {"linking", "linked", "survey"}
        /\ mlme.to_join \in BOOLEAN /\ mlme.to_roaming \in 0 .. MaxRoam
        /\ mlme.assoc_timer \in BOOLEAN /\ mlme.scan_timer \in BOOLEAN
        /\ mlme.cmds \in Seq(Ops)
    BY <2>2 DEF Rec, FlagNames
  <2>4. TypeOK
    BY <2>1, <2>3 DEF IInv, Types, TypeOK, Ops
  <2> QED BY <2>4 DEF IInv, MlmeInv, Settled, LinkedNotRoaming
<1> QED BY <1>1, Inductive, PTL

=============================================================================
