-------------------------------- MODULE Mlme --------------------------------
(***************************************************************************)
(* Scanning, joining and roaming of a station: mlme_priv, which            *)
(* pmlmepriv->lock protects, and mlme_ext, which nothing protects, driven  *)
(* by the wireless extensions (under rtnl_lock, one at a time), the        *)
(* command thread, the receive tasklet and four timers: scan_to_timer and  *)
(* assoc_timer bound a survey and a join, survey_timer steps through the   *)
(* channels, link_timer repeats authentication and association frames.     *)
(*                                                                         *)
(* A section under pmlmepriv->lock is one step, unless it waits for a      *)
(* timer handler (del_timer_sync) or loops; `lock' then names the section. *)
(* Commands and events share the queue of the command thread; join events, *)
(* whose callback only programs the chip, are left out of it.  Networks    *)
(* are abstracted: whether the list of networks holds one that fits the    *)
(* request, or the network in use, is left open wherever the code looks.   *)
(* Every allocation may fail.                                              *)
(***************************************************************************)
EXTENDS Naturals, Sequences

CONSTANTS
  MaxRoam,        \* registrypriv.max_roaming_times
  MaxCmds         \* bound: no memory for more commands than these

ASSUME LimitsAssumption == {MaxRoam, MaxCmds} \subseteq Nat

VARIABLES
  mlme,           \* struct mlme_priv, its two timers and the command queue
  lock,           \* the section that holds pmlmepriv->lock over several steps
  scan_run, assoc_run, link_run,   \* timer handlers that have been started
  ext_state,      \* pmlmeinfo->state, as the set of its flags
  link_timer,     \* link_timer is queued
  rep,            \* report_join_res in the tasklet and in the link timer
  rx_pc,          \* a receive handler that waits to cancel link_timer
  cmd_pc,         \* join_cmd_hdl before start_clnt_join
  scan,           \* sitesurvey_res.state
  survey_timer,   \* survey_timer is queued
  user_pc         \* rtw_set_802_11_bssid_list_scan before the lock

ext_vars == <<ext_state, link_timer, link_run>>
scan_vars == <<scan, survey_timer>>
timer_vars == <<scan_run, assoc_run>>
pcs == <<rep, rx_pc, cmd_pc, user_pc>>
vars == <<mlme, lock, timer_vars, ext_vars, scan_vars, pcs>>

-----------------------------------------------------------------------------
(* The outcomes of allocating and queueing a command or an event.          *)
Queued(m, op) ==
  IF Len(m.cmds) < MaxCmds THEN {[m EXCEPT !.cmds = Append(@, op)]} ELSE {}
Queue(m, op) == {m} \cup Queued(m, op)
Pop == [mlme EXCEPT !.cmds = Tail(@)]
CmdIdle == cmd_pc = "idle" /\ lock \notin {"survey", "roam"}
NextCmd(op) == CmdIdle /\ mlme.cmds # <<>> /\ Head(mlme.cmds) = op

Set(m, flags) == [m EXCEPT !.fw_state = @ \cup flags]
Clr(m, flags) == [m EXCEPT !.fw_state = @ \ flags]

Linking == {"auth_null", "auth", "auth_success", "assoc"}  \* WIFI_FW_LINKING_STATE
Associated == {"station", "success"} \subseteq ext_state

(* report_join_res, which a lack of memory ends at once.                   *)
Reports(res) == {"idle", res}

RxIdle == rx_pc = "idle" /\ rep["rx"] = "idle"
LinkIdle == ~link_run /\ rep["link"] = "idle"   \* link_timer_hdl does not run

Init ==
  /\ mlme = [fw_state |-> {}, to_join |-> FALSE, to_roaming |-> 0,
             assoc_timer |-> FALSE, scan_timer |-> FALSE, cmds |-> <<>>]
  /\ lock = "free"
  /\ scan_run = FALSE /\ assoc_run = FALSE /\ link_run = FALSE
  /\ ext_state = {}
  /\ link_timer = FALSE
  /\ rep = [r \in {"rx", "link"} |-> "idle"]
  /\ rx_pc = "idle" /\ cmd_pc = "idle" /\ user_pc = "idle"
  /\ scan = "disable" /\ survey_timer = FALSE

(***************************************************************************)
(* Operations on mlme_priv whose callers hold the lock.  Those that may    *)
(* fail or choose return the set of their outcomes.                        *)
(***************************************************************************)
SetRoaming(m, n) == [m EXCEPT !.to_roaming = n, !.to_join = @ /\ n # 0]

(* The roaming cases of rtw_indicate_disconnect differ in who is told.     *)
IndicateDisconnect(m) == Clr(m, {"linking", "linked"})

IndicateConnectRoam(m) == Set([m EXCEPT !.to_join = FALSE], {"linked"})  \* mutant
IndicateConnect(m) == SetRoaming(Set([m EXCEPT !.to_join = FALSE], {"linked"}), 0)

SiteSurveyNoTimer(m) ==            \* mutant: scan_to_timer is not started
  {[ok |-> FALSE, m |-> m]} \cup
  {[ok |-> TRUE, m |-> Set(q, {"survey"})] : q \in Queued(m, "survey")}

SiteSurvey(m) ==
  {[ok |-> FALSE, m |-> m]} \cup
  {[ok |-> TRUE, m |-> Set([q EXCEPT !.scan_timer = TRUE], {"survey"})] :
     q \in Queued(m, "survey")}

(* rtw_disassoc_cmd and what its callers do next: nobody looks at whether  *)
(* the command could be queued.                                            *)
Disassoc(m) == {IndicateDisconnect(q) : q \in Queue(m, "disconnect")}

(* rtw_select_and_join_from_scanned_queue: there may be no candidate; a    *)
(* join command that finds no memory leaves "linking" to the caller.       *)
SelectAndJoin(m) ==
  {[ok |-> FALSE, m |-> m]} \cup
  UNION {{[ok |-> q # d, m |-> Set(q, {"linking"})] : q \in Queue(d, "join")} :
           d \in IF "linked" \in m.fw_state THEN Disassoc(m) ELSE {m}}

(* rtw_do_join: join a network of the list, or survey first and join when  *)
(* the survey is done.  Busy traffic is a reason to fail like the lack of  *)
(* memory.                                                                 *)
DoJoin(m) ==
  LET sel == SelectAndJoin(Set([m EXCEPT !.to_join = TRUE], {"linking"}))
      survey == UNION {SiteSurvey(Clr(o.m, {"linking"})) : o \in {s \in sel : ~s.ok}}
  IN {[ok |-> TRUE, m |-> [o.m EXCEPT !.to_join = FALSE, !.assoc_timer = TRUE]] :
        o \in {s \in sel : s.ok}}
     \cup {s \in survey : s.ok}
     \cup {[ok |-> FALSE, m |-> [o.m EXCEPT !.to_join = FALSE]] : o \in {s \in survey : ~s.ok}}

(***************************************************************************)
(* Requests of the user.                                                   *)
(***************************************************************************)

(* rtw_set_802_11_ssid and rtw_set_802_11_bssid: a request to join waits   *)
(* for a survey in progress and is ignored during a join; one that names   *)
(* another network than the one in use ends the link first.                *)
Join ==
  /\ user_pc = "idle" /\ lock = "free"
  /\ \/ /\ "survey" \in mlme.fw_state
        /\ mlme' = [mlme EXCEPT !.to_join = TRUE]
     \/ /\ mlme.fw_state \cap {"survey", "linking"} = {}
        /\ \E m \in {mlme} \cup (IF "linked" \in mlme.fw_state THEN Disassoc(mlme) ELSE {}) :
             \E o \in DoJoin(m) : mlme' = o.m
  /\ UNCHANGED <<lock, timer_vars, ext_vars, scan_vars, pcs>>

Disassociate ==
  /\ user_pc = "idle" /\ lock = "free" /\ "linked" \in mlme.fw_state
  /\ mlme' \in Disassoc(mlme)
  /\ UNCHANGED <<lock, timer_vars, ext_vars, scan_vars, pcs>>

(* rtw_set_802_11_bssid_list_scan looks at fw_state before it locks.       *)
ScanCheck ==
  /\ user_pc = "idle"
  /\ mlme.fw_state \cap {"survey", "linking"} = {}
  /\ user_pc' = "scan"
  /\ UNCHANGED <<mlme, lock, timer_vars, ext_vars, scan_vars, rep, rx_pc, cmd_pc>>

ScanCmd ==
  /\ user_pc = "scan" /\ lock = "free"
  /\ \E o \in SiteSurvey(mlme) : mlme' = o.m
  /\ user_pc' = "idle"
  /\ UNCHANGED <<lock, timer_vars, ext_vars, scan_vars, rep, rx_pc, cmd_pc>>

(***************************************************************************)
(* The command thread.                                                     *)
(***************************************************************************)

(* site_survey: wait on the next channel, or report that there is none.    *)
SiteSurveyStep(m) ==
  \/ /\ scan' = "process" /\ survey_timer' = TRUE
     /\ mlme' = m
  \/ /\ scan' = "disable" /\ UNCHANGED survey_timer
     /\ mlme' \in Queue(m, "surveydone")

(* sitesurvey_cmd_hdl; a survey of an associated station first tells the   *)
(* access point.                                                           *)
SurveyCmd ==
  /\ NextCmd("survey")
  /\ \/ /\ scan = "disable" /\ Associated
        /\ scan' = "txnull" /\ survey_timer' = TRUE /\ mlme' = Pop
     \/ /\ ~(scan = "disable" /\ Associated)
        /\ SiteSurveyStep(Pop)
  /\ UNCHANGED <<lock, timer_vars, ext_vars, pcs>>

(* join_cmd_hdl up to the new network, with the old link cancelled ...     *)
JoinCmd ==
  /\ NextCmd("join")
  /\ "success" \in ext_state => LinkIdle
  /\ ext_state' = IF "success" \in ext_state THEN {} ELSE ext_state
  /\ link_timer' = (link_timer /\ "success" \notin ext_state)
  /\ mlme' = Pop
  /\ cmd_pc' = "join"
  /\ UNCHANGED <<lock, timer_vars, link_run, scan_vars, rep, rx_pc, user_pc>>

(* ... and start_clnt_join, after the register writes between them.        *)
StartJoin ==
  /\ cmd_pc = "join" /\ LinkIdle
  /\ link_timer' = TRUE
  /\ mlme' = [mlme EXCEPT !.assoc_timer = TRUE]
  /\ ext_state' = {"station", "auth_null"}
  /\ cmd_pc' = "idle"
  /\ UNCHANGED <<lock, timer_vars, link_run, scan_vars, rep, rx_pc, user_pc>>

DisconnectCmd ==
  /\ NextCmd("disconnect") /\ LinkIdle
  /\ ext_state' = {} /\ link_timer' = FALSE
  /\ mlme' = Pop
  /\ UNCHANGED <<lock, timer_vars, link_run, scan_vars, pcs>>

(* rtw_surveydone_event_callback cancels scan_to_timer with the lock held. *)
SurveyDoneCancel ==
  /\ NextCmd("surveydone") /\ lock = "free" /\ "survey" \in mlme.fw_state
  /\ mlme' = [mlme EXCEPT !.scan_timer = FALSE]
  /\ lock' = "survey"
  /\ UNCHANGED <<timer_vars, ext_vars, scan_vars, pcs>>

(* What becomes of a join that waited for the survey.                      *)
SurveyDoneJoin(m) ==
  IF ~m.to_join THEN {m}
  ELSE LET sel == SelectAndJoin(Set([m EXCEPT !.to_join = FALSE], {"linking"}))
           failed == {o.m : o \in {s \in sel : ~s.ok}}
           roam == {[f EXCEPT !.to_roaming = @ - 1] : f \in {g \in failed : g.to_roaming # 0}}
           survey == UNION {SiteSurvey(r) : r \in {s \in roam : s.to_roaming # 0}}
           over == {r \in roam : r.to_roaming = 0} \cup {o.m : o \in {s \in survey : ~s.ok}}
       IN {[o.m EXCEPT !.assoc_timer = TRUE] : o \in {s \in sel : s.ok}}
          \cup {Clr(f, {"linking"}) : f \in {g \in failed : g.to_roaming = 0}}
          \cup {Clr([o.m EXCEPT !.to_join = TRUE], {"linking"}) : o \in {s \in survey : s.ok}}
          \cup {IndicateDisconnect(SetRoaming(r, 0)) : r \in over}

SurveyDone ==
  /\ \/ lock = "survey" /\ ~scan_run
     \/ NextCmd("surveydone") /\ lock = "free" /\ "survey" \notin mlme.fw_state
  /\ mlme' \in SurveyDoneJoin(Clr(Pop, {"survey"}))
  /\ lock' = "free"
  /\ UNCHANGED <<timer_vars, ext_vars, scan_vars, pcs>>

(* rtw_stadel_event_callback: a station that lost its access point without *)
(* being told to leave looks for another one.                              *)
StaDel(expired) ==
  /\ NextCmd(IF expired THEN "expired" ELSE "deauth") /\ lock = "free" /\ LinkIdle
  /\ ext_state' = {} /\ link_timer' = FALSE
  /\ LET n == IF ~expired THEN 0
              ELSE IF mlme.to_roaming > 0 THEN mlme.to_roaming - 1 ELSE MaxRoam
         m == IF ~expired \/ mlme.to_roaming = 0 THEN SetRoaming(Pop, n)
              ELSE [Pop EXCEPT !.to_roaming = n]
     IN /\ mlme' = IndicateDisconnect(m)
        /\ lock' = IF n > 0 THEN "roam" ELSE "free"
  /\ UNCHANGED <<timer_vars, link_run, scan_vars, pcs>>

(* One turn of the loop of _rtw_roaming, run by the command thread, and of *)
(* _rtw_join_timeout_handler.                                              *)
RoamTry ==
  /\ lock \in {"roam", "timeout"}
  /\ \E o \in DoJoin(mlme) :
       LET n == mlme.to_roaming - 1
           m == [o.m EXCEPT !.to_roaming = n]
       IN IF o.ok THEN mlme' = o.m /\ lock' = "free"
          ELSE IF n > 0 THEN mlme' = m /\ UNCHANGED lock
          ELSE mlme' = IndicateDisconnect(m) /\ lock' = "free"
  /\ assoc_run' = (assoc_run /\ ~(lock = "timeout" /\ lock' = "free"))
  /\ UNCHANGED <<scan_run, ext_vars, scan_vars, pcs>>

(* linked_status_chk: nothing was heard from the access point for long.    *)
LinkedStatusChk ==
  /\ CmdIdle /\ Associated
  /\ ext_state' = {}
  /\ mlme' \in Queue(mlme, "expired")
  /\ UNCHANGED <<lock, timer_vars, link_timer, link_run, scan_vars, pcs>>

(***************************************************************************)
(* The receive tasklet.  start_clnt_auth, start_clnt_assoc and OnAssocRsp  *)
(* first wait until link_timer_hdl does not run.                           *)
(***************************************************************************)
RxWait(pc) ==
  /\ RxIdle /\ rx_pc' = pc
  /\ UNCHANGED <<mlme, lock, timer_vars, ext_vars, scan_vars, rep, cmd_pc, user_pc>>

(* OnBeacon, for the network being joined.                                 *)
HearBeacon ==
  /\ scan # "process" /\ "auth_null" \in ext_state
  /\ RxWait("auth")

StartAuth ==
  /\ rx_pc = "auth" /\ LinkIdle
  /\ ext_state' = (ext_state \ {"auth_null"}) \cup {"auth"}
  /\ link_timer' = TRUE
  /\ rx_pc' = "idle"
  /\ UNCHANGED <<mlme, lock, timer_vars, link_run, scan_vars, rep, cmd_pc, user_pc>>

(* OnAuthClient: success, or a refusal or a challenge that sets the timer. *)
HearAuth ==
  /\ "auth" \in ext_state
  /\ RxWait("assoc")

HearAuthMore ==
  /\ RxIdle /\ "auth" \in ext_state
  /\ link_timer' = TRUE
  /\ UNCHANGED <<mlme, lock, timer_vars, ext_state, link_run, scan_vars, pcs>>

StartAssoc ==
  /\ rx_pc = "assoc" /\ LinkIdle
  /\ ext_state' = (ext_state \ {"auth_null", "auth"}) \cup {"auth_success", "assoc"}
  /\ link_timer' = TRUE
  /\ rx_pc' = "idle"
  /\ UNCHANGED <<mlme, lock, timer_vars, link_run, scan_vars, rep, cmd_pc, user_pc>>

HearAssocRsp ==
  /\ ext_state \cap {"auth_success", "assoc"} # {} /\ "success" \notin ext_state
  /\ RxWait("asocrsp")

AssocRsp ==
  /\ rx_pc = "asocrsp" /\ LinkIdle
  /\ link_timer' = FALSE
  /\ \/ /\ ext_state' = (ext_state \ {"assoc"}) \cup {"success"}
        /\ \E r \in Reports("ok") : rep' = [rep EXCEPT !["rx"] = r]
     \/ /\ ext_state' = {}
        /\ \E r \in Reports("fail") : rep' = [rep EXCEPT !["rx"] = r]
  /\ rx_pc' = "idle"
  /\ UNCHANGED <<mlme, lock, timer_vars, link_run, scan_vars, cmd_pc, user_pc>>

(* OnDeAuth, OnDisassoc and a beacon that has changed: receive_disconnect. *)
HearDeauth ==
  /\ RxIdle /\ "station" \in ext_state
  /\ ext_state' = {}
  /\ \/ /\ "success" \in ext_state
        /\ mlme' \in Queue(mlme, "deauth")
        /\ UNCHANGED rep
     \/ /\ "success" \notin ext_state /\ ext_state \cap Linking # {}
        /\ \E r \in Reports("fail") : rep' = [rep EXCEPT !["rx"] = r]
        /\ UNCHANGED mlme
  /\ UNCHANGED <<lock, timer_vars, link_timer, link_run, scan_vars, rx_pc, cmd_pc, user_pc>>

(***************************************************************************)
(* rtw_joinbss_event_prehandle, for a report of the tasklet or of the link *)
(* timer.  It cancels assoc_timer with the lock held.                      *)
(***************************************************************************)
Prehandle(r) ==
  /\ rep[r] \in {"ok", "fail"} /\ lock = "free"
  /\ \/ /\ rep[r] = "ok" /\ "linking" \in mlme.fw_state
        /\ mlme' = IndicateConnect([mlme EXCEPT !.fw_state = {}, !.assoc_timer = FALSE])
        /\ lock' = "join" /\ rep' = [rep EXCEPT ![r] = "cancel"]
     \/ /\ rep[r] = "ok" /\ "linking" \in mlme.fw_state   \* no memory for a sta_info
        /\ mlme' = [mlme EXCEPT !.fw_state = {}]
        /\ rep' = [rep EXCEPT ![r] = "idle"] /\ UNCHANGED lock
     \/ /\ rep[r] = "ok"            \* too late, or the network has left the list
        /\ rep' = [rep EXCEPT ![r] = "idle"] /\ UNCHANGED <<mlme, lock>>
     \/ /\ rep[r] = "fail"
        /\ mlme' = Clr([mlme EXCEPT !.assoc_timer = TRUE], {"linking"})
        /\ rep' = [rep EXCEPT ![r] = "idle"] /\ UNCHANGED lock
  /\ UNCHANGED <<timer_vars, ext_vars, scan_vars, rx_pc, cmd_pc, user_pc>>

PrehandleCancel(r) ==
  /\ rep[r] = "cancel" /\ ~assoc_run
  /\ rep' = [rep EXCEPT ![r] = "idle"] /\ lock' = "free"
  /\ UNCHANGED <<mlme, timer_vars, ext_vars, scan_vars, rx_pc, cmd_pc, user_pc>>

(***************************************************************************)
(* Timers; a handler that has been started may have to wait for the lock.  *)
(***************************************************************************)
LinkFire ==
  /\ link_timer /\ LinkIdle
  /\ link_timer' = FALSE /\ link_run' = TRUE
  /\ UNCHANGED <<mlme, lock, timer_vars, ext_state, scan_vars, pcs>>

LinkFail ==
  /\ ext_state' = {}
  /\ \E r \in Reports("fail") : rep' = [rep EXCEPT !["link"] = r]
  /\ UNCHANGED link_timer

LinkRetry == link_timer' = TRUE /\ UNCHANGED <<ext_state, rep>>

(* link_timer_hdl: without a beacon the join fails; frames are repeated    *)
(* until reauth_count or reassoc_count, left out here, reach their limits. *)
LinkHandle ==
  /\ link_run /\ link_run' = FALSE
  /\ \/ "auth_null" \in ext_state /\ LinkFail
     \/ /\ "auth_null" \notin ext_state /\ ext_state \cap {"auth", "assoc"} # {}
        /\ LinkFail \/ LinkRetry
     \/ /\ ext_state \cap {"auth_null", "auth", "assoc"} = {}
        /\ UNCHANGED <<ext_state, rep, link_timer>>
  /\ UNCHANGED <<mlme, lock, timer_vars, scan_vars, rx_pc, cmd_pc, user_pc>>

(* survey_timer_hdl moves on to the next channel.                          *)
SurveyFire ==
  /\ survey_timer /\ survey_timer' = FALSE
  /\ \/ /\ scan # "disable"
        /\ mlme' \in Queue(mlme, "survey")
     \/ scan = "disable" /\ UNCHANGED mlme
  /\ UNCHANGED <<scan, lock, timer_vars, ext_vars, pcs>>

ScanFire ==
  /\ mlme.scan_timer /\ ~scan_run
  /\ mlme' = [mlme EXCEPT !.scan_timer = FALSE] /\ scan_run' = TRUE
  /\ UNCHANGED <<lock, assoc_run, ext_vars, scan_vars, pcs>>

ScanTimeout ==
  /\ scan_run /\ lock = "free"
  /\ scan_run' = FALSE
  /\ mlme' = Clr(mlme, {"survey"})
  /\ UNCHANGED <<lock, assoc_run, ext_vars, scan_vars, pcs>>

AssocFire ==
  /\ mlme.assoc_timer /\ ~assoc_run
  /\ mlme' = [mlme EXCEPT !.assoc_timer = FALSE] /\ assoc_run' = TRUE
  /\ UNCHANGED <<lock, scan_run, ext_vars, scan_vars, pcs>>

JoinTimeoutKeep ==                 \* mutant: a join that is not a roaming one goes on
  /\ assoc_run /\ lock = "free"
  /\ mlme.to_roaming = 0
  /\ assoc_run' = FALSE
  /\ UNCHANGED <<mlme, lock, scan_run, ext_vars, scan_vars, pcs>>

(* _rtw_join_timeout_handler: a station that roams tries again.            *)
JoinTimeout ==
  /\ assoc_run /\ lock = "free"
  /\ \/ /\ mlme.to_roaming = 0
        /\ mlme' = IndicateDisconnect(mlme)
        /\ assoc_run' = FALSE /\ UNCHANGED lock
     \/ /\ mlme.to_roaming = 1
        /\ mlme' = IndicateDisconnect([mlme EXCEPT !.to_roaming = 0])
        /\ assoc_run' = FALSE /\ UNCHANGED lock
     \/ /\ mlme.to_roaming > 1
        /\ mlme' = [mlme EXCEPT !.to_roaming = @ - 1]
        /\ lock' = "timeout" /\ UNCHANGED assoc_run
  /\ UNCHANGED <<scan_run, ext_vars, scan_vars, pcs>>

-----------------------------------------------------------------------------
User == Join \/ Disassociate \/ ScanCheck \/ ScanCmd

SurveyDoneEvent == SurveyDoneCancel \/ SurveyDone
StaDelEvent == StaDel(TRUE) \/ StaDel(FALSE)
Air == HearBeacon \/ HearAuth \/ HearAuthMore \/ HearAssocRsp \/ HearDeauth
Rx == StartAuth \/ StartAssoc \/ AssocRsp
PrehandleEnd == \E r \in {"rx", "link"} : PrehandleCancel(r)

Next ==
  \/ User \/ Air \/ Rx
  \/ SurveyCmd \/ JoinCmd \/ StartJoin \/ DisconnectCmd \/ SurveyDoneEvent \/ StaDelEvent
  \/ RoamTry \/ LinkedStatusChk
  \/ (\E r \in {"rx", "link"} : Prehandle(r)) \/ PrehandleEnd
  \/ LinkFire \/ LinkHandle \/ SurveyFire \/ ScanFire \/ ScanTimeout \/ AssocFire \/ JoinTimeout

Spec == Init /\ [][Next]_vars

(* Timers expire and their handlers, like the holder of the lock, go on.   *)
(* Who waits for the lock gets it, which spin_lock_bh grants in the order  *)
(* of arrival.  The user and the air promise nothing.                      *)
FairSpec ==
  /\ Spec
  /\ WF_vars(ScanFire) /\ WF_vars(AssocFire) /\ WF_vars(LinkHandle)
  /\ WF_vars(RoamTry) /\ WF_vars(SurveyDone) /\ WF_vars(PrehandleEnd)
  /\ SF_vars(ScanTimeout) /\ SF_vars(JoinTimeout)

-----------------------------------------------------------------------------
(* The state has the types of the code; in particular to_roaming, a u8     *)
(* that four handlers decrement, never wraps.                              *)
TypeOK ==
  /\ mlme.fw_state \subseteq {"linking", "linked", "survey"}
  /\ mlme.to_join \in BOOLEAN /\ mlme.to_roaming \in 0..MaxRoam
  /\ mlme.assoc_timer \in BOOLEAN /\ mlme.scan_timer \in BOOLEAN
  /\ \A i \in DOMAIN mlme.cmds :
       mlme.cmds[i] \in {"survey", "surveydone", "join", "disconnect", "deauth", "expired"}
  /\ lock \in {"free", "survey", "join", "roam", "timeout"}
  /\ {scan_run, assoc_run, link_run, link_timer, survey_timer} \subseteq BOOLEAN
  /\ ext_state \subseteq Linking \cup {"station", "success"}
  /\ scan \in {"disable", "txnull", "process"}
  /\ rep \in [{"rx", "link"} -> {"idle", "ok", "fail", "cancel"}]
  /\ rx_pc \in {"idle", "auth", "assoc", "asocrsp"}
  /\ cmd_pc \in {"idle", "join"} /\ user_pc \in {"idle", "scan"}

(* The flags that make the driver refuse requests to join and to scan have *)
(* a timer to end them: _FW_UNDER_LINKING is never set without assoc_timer *)
(* queued or its handler started, whatever fails, is reported late or is   *)
(* overtaken by another request (rtw_do_join, rtw_surveydone_event_        *)
(* callback); nor is _FW_UNDER_SURVEY without scan_to_timer, except while  *)
(* the end of the survey cancels that timer, also when two surveys overlap *)
(* (rtw_sitesurvey_cmd).                                                   *)
BusyGuarded ==
  /\ "linking" \in mlme.fw_state => mlme.assoc_timer \/ assoc_run
  /\ "survey" \in mlme.fw_state => mlme.scan_timer \/ scan_run \/ lock = "survey"

(* A linked station does not roam: a join completed by any path clears     *)
(* to_roaming (rtw_indicate_connect), and only a lost link sets it, so a   *)
(* timeout that comes late finds no roaming to go on with.  The state has  *)
(* its types: to_roaming, a u8 that four handlers decrement, never wraps.  *)
LinkedNotRoaming ==
  /\ TypeOK
  /\ "linked" \in mlme.fw_state => mlme.to_roaming = 0

(* A timer that is cancelled with the lock held while its handler waits    *)
(* for the lock.                                                           *)
Hung == (lock = "survey" /\ scan_run) \/ (lock = "join" /\ assoc_run)

(* Every join ends, with a link or without one, and every survey is ended  *)
(* by its timeout or reaches its end event, which may start the next one,  *)
(* even if commands, events and frames are lost, unless the lock is hung.  *)
BusyEnds ==
  /\ []<>("linking" \notin mlme.fw_state \/ Hung)
  /\ []<>("survey" \notin mlme.fw_state \/ lock = "survey" \/ Hung)

=============================================================================
