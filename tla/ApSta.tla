------------------------------- MODULE ApSta -------------------------------
(***************************************************************************)
(* The stations of an access point: the table (sta_hash and the free       *)
(* queue), auth_list and asoc_list, the association ids, and the count of  *)
(* stations that need protection.                                          *)
(*                                                                         *)
(* Contexts: the receive tasklet (OnAuth, OnAssocReq, OnDeAuth,            *)
(* OnDisassoc), the command thread (expire_timeout_chk) and an ioctl       *)
(* (rtw_sta_flush, rtw_free_all_stainfo, rtw_del_sta).  Each takes the     *)
(* lock of one list at a time, and none holds a reference to the station   *)
(* it looked up: that another context frees the station meanwhile is       *)
(* recorded in "raced", and nothing is claimed from then on.  So is any    *)
(* free beside that of a rejected authentication, which changes the table, *)
(* its count and the free queue without sta_hash_lock.                     *)
(*                                                                         *)
(* num_sta_non_erp has no lock: OnAssocReq and the flush change it with    *)
(* none, the others under asoc_list_lock.  That another context changes it *)
(* between the load and the store of such a change is recorded in          *)
(* "miscounted".                                                           *)
(*                                                                         *)
(* A station is the peer whose address it has.                             *)
(***************************************************************************)
EXTENDS Integers, Sequences, FiniteSets, SequencesExt

CONSTANTS
  Peers,       \* addresses of stations
  NoPeer,
  NUM_STA,     \* association ids
  MaxNumSta,   \* the values hostapd gives max_num_sta, the largest id used
  PoolSize,    \* stations in free_sta_queue
  Leaving,     \* peers that may go silent for good
  NonErp       \* peers that may ask without an ERP rate

ASSUME PeersAssumption == IsFiniteSet(Peers) /\ NoPeer \notin Peers
                          /\ Leaving \subseteq Peers /\ NonErp \subseteq Peers
ASSUME LimitAssumption == /\ NUM_STA \in Nat \ {0} /\ PoolSize \in Nat
                          /\ MaxNumSta \subseteq 1 .. NUM_STA

VARIABLES
  table,      \* stations in sta_hash
  count,      \* asoc_sta_count, without the multicast station
  auth_list,
  asoc_list,
  free_cnt,   \* stations in free_sta_queue
  state,      \* of psta->state: WIFI_FW_AUTH_SUCCESS, WIFI_FW_ASSOC_SUCCESS
  linked,     \* _FW_LINKED
  aid,        \* psta->aid
  sta_aid,    \* owner of each association id
  non_erp,    \* stations with nonerp_set
  num_non_erp, \* num_sta_non_erp
  rx_pc, rx_sta,   \* the receive tasklet, the station it works on,
  rx_cnt,     \* and the num_sta_non_erp it is about to store
  exp_pc, exp_sta, \* the command thread, the station it frees or asks for
                   \* a sign of life,
  exp_pos,         \* and the node at which it goes on in auth_list
  flush_set,  \* stations rtw_sta_flush took off asoc_list,
  flush_sta, flush_cnt, \* the one whose num_sta_non_erp it is about to store
  off,        \* peers that have gone silent for good
  raced,      \* history: a station was used or freed by two contexts, or
              \* the table changed by two
  miscounted  \* history: num_sta_non_erp was changed by two contexts

table_vars == <<table, count, free_cnt, state, linked, aid, sta_aid, non_erp, num_non_erp>>
list_vars == <<auth_list, asoc_list>>
rx_vars == <<rx_pc, rx_sta, rx_cnt>>
exp_vars == <<exp_pc, exp_sta, exp_pos>>
flush_vars == <<flush_set, flush_sta, flush_cnt>>
history_vars == <<raced, miscounted>>
vars == <<table_vars, list_vars, rx_vars, exp_vars, flush_vars, off, history_vars>>

Slots == 1 .. NUM_STA

Init ==
  /\ table = {} /\ count = 0 /\ free_cnt = PoolSize /\ auth_list = <<>> /\ asoc_list = {}
  /\ state = [p \in Peers |-> {}] /\ linked = {}
  /\ aid = [p \in Peers |-> 0] /\ sta_aid = [i \in Slots |-> NoPeer]
  /\ non_erp = {} /\ num_non_erp = 0
  /\ rx_pc = "idle" /\ rx_sta = NoPeer /\ rx_cnt = 0
  /\ exp_pc = "idle" /\ exp_sta = NoPeer /\ exp_pos = NoPeer
  /\ flush_set = {} /\ flush_sta = NoPeer /\ flush_cnt = 0
  /\ off = {} /\ raced = FALSE /\ miscounted = FALSE

-----------------------------------------------------------------------------
InAuth(p) == \E i \in DOMAIN auth_list : auth_list[i] = p

(* rtw_list_delete: a station is in auth_list at most once.                *)
DropAuth(p) ==
  auth_list' = IF InAuth(p)
               THEN RemoveAt(auth_list, CHOOSE i \in DOMAIN auth_list : auth_list[i] = p)
               ELSE auth_list

(* A context other than c works on station p: it has looked it up, taken   *)
(* it off its list to free it, or goes on from its node; or the tasklet is *)
(* in the free that takes no lock, which is beside that of any station.    *)
HeldBut(c, p) ==
  \/ c # "rx" /\ (rx_sta = p \/ rx_pc = "auth_free")
  \/ c # "exp" /\ exp_pc = "free" /\ exp_sta = p
  \/ exp_pos = p
  \/ c # "flush" /\ p \in flush_set

FreeStainfoTakeAid(c, p) ==     \* mutant: the slot is cleared whoever owns it
  /\ table' = table \ {p} /\ count' = count - 1
  /\ state' = [state EXCEPT ![p] = {}] /\ linked' = linked \ {p}
  /\ non_erp' = non_erp \ {p}
  /\ aid' = [aid EXCEPT ![p] = 0]
  /\ free_cnt' = free_cnt + 1
  /\ sta_aid' = [i \in Slots |-> IF i <= aid[p] THEN NoPeer ELSE sta_aid[i]]
  /\ raced' = (raced \/ HeldBut(c, p) \/ p \in asoc_list')

(* rtw_free_stainfo by context c.  The station also leaves auth_list (its  *)
(* callers), not asoc_list.  One with the last id, which does not fit the  *)
(* bitmaps, goes back neither to the pool nor out of its slot.             *)
FreeStainfo(c, p) ==
  /\ table' = table \ {p} /\ count' = count - 1
  /\ state' = [state EXCEPT ![p] = {}] /\ linked' = linked \ {p}
  /\ non_erp' = non_erp \ {p}
  /\ aid' = [aid EXCEPT ![p] = 0]
  /\ IF aid[p] = NUM_STA THEN UNCHANGED <<free_cnt, sta_aid>>
     ELSE /\ free_cnt' = free_cnt + 1
          /\ sta_aid' = [i \in Slots |-> IF i = aid[p] /\ sta_aid[i] = p THEN NoPeer ELSE sta_aid[i]]
  /\ raced' = (raced \/ HeldBut(c, p) \/ p \in asoc_list')

(* A context other than c has loaded num_sta_non_erp without a lock, and   *)
(* not yet stored it.                                                      *)
CountedBut(c) == (c # "rx" /\ rx_pc = "assoc_store") \/ (c # "flush" /\ flush_sta # NoPeer)
(* The store of a value: of two that overlap either is the last.           *)
StoreCount(n) == num_non_erp' \in {n} \cup (IF miscounted THEN {num_non_erp} ELSE {})

(* ap_free_sta under asoc_list_lock: bss_cap_update_on_sta_leave, then     *)
(* rtw_free_stainfo.                                                       *)
ApFreeSta(c, p) ==
  /\ num_non_erp' = IF p \in non_erp THEN num_non_erp - 1 ELSE num_non_erp
  /\ miscounted' = (miscounted \/ (p \in non_erp /\ CountedBut(c)))
  /\ FreeStainfo(c, p)
  /\ DropAuth(p)

-----------------------------------------------------------------------------
(***************************************************************************)
(* OnAuth.                                                                 *)
(***************************************************************************)
AuthLookupNew(p) ==             \* mutant: a station that is known is allocated again
  /\ rx_pc = "idle" /\ p \notin off /\ free_cnt > 0
  /\ table' = table \cup {p} /\ count' = count + 1 /\ free_cnt' = free_cnt - 1
  /\ asoc_list' = asoc_list \ {p}
  /\ rx_pc' = "auth_add" /\ rx_sta' = p
  /\ UNCHANGED <<state, linked, aid, sta_aid, non_erp, num_non_erp, auth_list, rx_cnt, exp_vars, flush_vars, off, history_vars>>

(* The station is found, and leaves asoc_list, or is allocated.  Requests  *)
(* rejected before this step change nothing.                               *)
AuthLookup(p) ==
  /\ rx_pc = "idle" /\ p \notin off
  /\ \/ /\ p \in table
        /\ asoc_list' = asoc_list \ {p}
        /\ UNCHANGED <<table, count, free_cnt>>
     \/ /\ p \notin table /\ free_cnt > 0
        /\ table' = table \cup {p} /\ count' = count + 1 /\ free_cnt' = free_cnt - 1
        /\ UNCHANGED asoc_list
  /\ rx_pc' = "auth_add" /\ rx_sta' = p
  /\ UNCHANGED <<state, linked, aid, sta_aid, non_erp, num_non_erp, auth_list, rx_cnt, exp_vars, flush_vars, off, history_vars>>

AuthAddForget ==                \* mutant: an old station is not listed again
  /\ rx_pc = "auth_add"
  /\ auth_list' = IF InAuth(rx_sta) \/ rx_sta \in linked THEN auth_list ELSE Append(auth_list, rx_sta)
  /\ rx_pc' = "auth_judge"
  /\ UNCHANGED <<table_vars, asoc_list, rx_sta, rx_cnt, exp_vars, flush_vars, off, history_vars>>

AuthAdd ==
  /\ rx_pc = "auth_add"
  /\ auth_list' = IF InAuth(rx_sta) THEN auth_list ELSE Append(auth_list, rx_sta)
  /\ rx_pc' = "auth_judge"
  /\ UNCHANGED <<table_vars, asoc_list, rx_sta, rx_cnt, exp_vars, flush_vars, off, history_vars>>

(* Accepted, or the first half of a shared key authentication.             *)
AuthAccept ==
  /\ rx_pc = "auth_judge"
  /\ \E s \in {{}, {"auth_success"}} : state' = [state EXCEPT ![rx_sta] = @ \cup s]
  /\ rx_pc' = "idle" /\ rx_sta' = NoPeer
  /\ UNCHANGED <<table, count, free_cnt, linked, aid, sta_aid, non_erp, num_non_erp, list_vars, rx_cnt, exp_vars, flush_vars, off, history_vars>>

(* Rejected (out of sequence, wrong challenge): the station is freed, with *)
(* neither sta_hash_lock nor bss_cap_update_on_sta_leave.  What another    *)
(* context frees from here to AuthFree it frees at the same time.          *)
AuthReject ==
  /\ rx_pc = "auth_judge" /\ rx_pc' = "auth_free"
  /\ UNCHANGED <<table_vars, list_vars, rx_sta, rx_cnt, exp_vars, flush_vars, off, history_vars>>

AuthFree ==
  /\ rx_pc = "auth_free"
  /\ UNCHANGED <<num_non_erp, asoc_list, rx_cnt, exp_vars, flush_vars, off, miscounted>>
  /\ FreeStainfo("rx", rx_sta) /\ DropAuth(rx_sta)
  /\ rx_pc' = "idle" /\ rx_sta' = NoPeer

-----------------------------------------------------------------------------
(***************************************************************************)
(* OnAssocReq.                                                             *)
(***************************************************************************)
(* The station must be authenticated or associated; the request uses up   *)
(* the one or the other.                                                   *)
MayAssociate(p) == rx_pc = "idle" /\ p \in table \ off /\ state[p] # {}
UsedUp(p) == state[p] \ {IF "auth_success" \in state[p] THEN "auth_success" ELSE "assoc_success"}

(* A request whose elements are not accepted: the id is forgotten, the     *)
(* slot of sta_aid stays.                                                  *)
AssocReject(p) ==
  /\ MayAssociate(p)
  /\ state' = [state EXCEPT ![p] = UsedUp(p)]
  /\ aid' = [aid EXCEPT ![p] = 0]
  /\ UNCHANGED <<table, count, free_cnt, linked, sta_aid, non_erp, num_non_erp, list_vars, rx_vars, exp_vars, flush_vars, off, history_vars>>

(* The first id that is free, else the last one.                           *)
NewAid ==
  IF \E i \in Slots : sta_aid[i] = NoPeer
  THEN CHOOSE i \in Slots : sta_aid[i] = NoPeer /\ \A j \in 1 .. i - 1 : sta_aid[j] # NoPeer
  ELSE NUM_STA

AssocNoAid(p) ==
  /\ MayAssociate(p) /\ aid[p] = 0 /\ \E m \in MaxNumSta : NewAid > m
  /\ state' = [state EXCEPT ![p] = UsedUp(p)]
  /\ UNCHANGED <<table, count, free_cnt, linked, aid, sta_aid, non_erp, num_non_erp, list_vars, rx_vars, exp_vars, flush_vars, off, history_vars>>

AssocAid(p) ==
  /\ MayAssociate(p)
  /\ \/ aid[p] > 0 /\ UNCHANGED <<aid, sta_aid>>
     \/ /\ aid[p] = 0 /\ \E m \in MaxNumSta : NewAid <= m
        /\ aid' = [aid EXCEPT ![p] = NewAid]
        /\ sta_aid' = [sta_aid EXCEPT ![NewAid] = p]
  /\ state' = [state EXCEPT ![p] = UsedUp(p) \cup {"assoc_success"}]
  /\ rx_pc' = "assoc_auth" /\ rx_sta' = p
  /\ UNCHANGED <<table, count, free_cnt, linked, non_erp, num_non_erp, list_vars, rx_cnt, exp_vars, flush_vars, off, history_vars>>

AssocLeaveAuth ==
  /\ rx_pc = "assoc_auth"
  /\ DropAuth(rx_sta)
  /\ rx_pc' = "assoc_add"
  /\ UNCHANGED <<table_vars, asoc_list, rx_sta, rx_cnt, exp_vars, flush_vars, off, history_vars>>

AssocAdd ==
  /\ rx_pc = "assoc_add"
  /\ asoc_list' = asoc_list \cup {rx_sta}
  /\ rx_pc' = "assoc_join"
  /\ UNCHANGED <<table_vars, auth_list, rx_sta, rx_cnt, exp_vars, flush_vars, off, history_vars>>

AssocJoinUncounted ==           \* mutant: the station is marked, not counted
  /\ rx_pc = "assoc_join"
  /\ \/ rx_sta \in NonErp /\ non_erp' = non_erp \cup {rx_sta}
     \/ UNCHANGED non_erp
  /\ linked' = linked \cup {rx_sta}
  /\ rx_pc' = "idle" /\ rx_sta' = NoPeer
  /\ UNCHANGED <<table, count, free_cnt, state, aid, sta_aid, num_non_erp, list_vars, rx_cnt, exp_vars, flush_vars, off, history_vars>>

(* bss_cap_update_on_sta_join finds the station marked as it now asks, or  *)
(* marks it and loads the count, and AssocStore stores it; then            *)
(* sta_info_update.                                                        *)
AssocJoin ==
  /\ rx_pc = "assoc_join"
  /\ (rx_sta \in NonErp /\ rx_sta \in non_erp) \/ rx_sta \notin non_erp
  /\ linked' = linked \cup {rx_sta}
  /\ rx_pc' = "idle" /\ rx_sta' = NoPeer
  /\ UNCHANGED <<table, count, free_cnt, state, aid, sta_aid, non_erp, num_non_erp, list_vars, rx_cnt, exp_vars, flush_vars, off, history_vars>>

AssocMark ==
  /\ rx_pc = "assoc_join" /\ rx_pc' = "assoc_store"
  /\ \/ /\ rx_sta \in NonErp \ non_erp
        /\ non_erp' = non_erp \cup {rx_sta} /\ rx_cnt' = num_non_erp + 1
     \/ /\ rx_sta \in non_erp
        /\ non_erp' = non_erp \ {rx_sta} /\ rx_cnt' = num_non_erp - 1
  /\ miscounted' = (miscounted \/ CountedBut("rx"))
  /\ UNCHANGED <<table, count, free_cnt, state, linked, aid, sta_aid, num_non_erp, list_vars, rx_sta, exp_vars, flush_vars, off, raced>>

AssocStore ==
  /\ rx_pc = "assoc_store"
  /\ StoreCount(rx_cnt) /\ rx_cnt' = 0
  /\ linked' = linked \cup {rx_sta}
  /\ rx_pc' = "idle" /\ rx_sta' = NoPeer
  /\ UNCHANGED <<table, count, free_cnt, state, aid, sta_aid, non_erp, list_vars, exp_vars, flush_vars, off, history_vars>>

-----------------------------------------------------------------------------
(* OnDeAuth, OnDisassoc (the receive tasklet, when it holds no station)    *)
(* and rtw_del_sta (any time), under asoc_list_lock.  A station only in    *)
(* auth_list is left alone.                                                *)
Deauth(p) ==
  /\ p \in asoc_list
  /\ asoc_list' = asoc_list \ {p} /\ ApFreeSta("ioctl", p)
  /\ UNCHANGED <<rx_vars, exp_vars, flush_vars, off>>

-----------------------------------------------------------------------------
(***************************************************************************)
(* expire_timeout_chk.                                                     *)
(***************************************************************************)
End == "end"

ExpireStart ==
  /\ exp_pc = "idle" /\ exp_pc' = "auth"
  /\ exp_pos' = IF auth_list = <<>> THEN End ELSE Head(auth_list)
  /\ UNCHANGED <<table_vars, list_vars, rx_vars, exp_sta, flush_vars, off, history_vars>>

(* Back under auth_list_lock, at a node that has left the list meanwhile:  *)
(* its next is itself, and the loop does not end.                          *)
ExpireAuthLost ==
  /\ exp_pc = "auth" /\ exp_pos # End /\ ~InAuth(exp_pos)
  /\ raced' = TRUE
  /\ UNCHANGED <<table_vars, list_vars, rx_vars, exp_vars, flush_vars, off, miscounted>>

ExpireAuthSecond(p) ==          \* mutant: the walk skips the first node
  /\ exp_pc = "auth" /\ exp_pos # End /\ InAuth(exp_pos)
  /\ \E i, j \in DOMAIN auth_list :
       /\ auth_list[i] = exp_pos /\ j > i /\ auth_list[j] = p
       /\ exp_pos' = IF j = Len(auth_list) THEN End ELSE auth_list[j + 1]
  /\ DropAuth(p)
  /\ exp_sta' = p /\ exp_pc' = "free"
  /\ UNCHANGED <<table_vars, asoc_list, rx_vars, flush_vars, off, history_vars>>

(* The next station whose time is up leaves auth_list; the lock is given   *)
(* up before the station is freed.                                         *)
ExpireAuth(p) ==
  /\ exp_pc = "auth" /\ exp_pos # End /\ InAuth(exp_pos)
  /\ \E i, j \in DOMAIN auth_list :
       /\ auth_list[i] = exp_pos /\ j >= i /\ auth_list[j] = p
       /\ exp_pos' = IF j = Len(auth_list) THEN End ELSE auth_list[j + 1]
  /\ DropAuth(p)
  /\ exp_sta' = p /\ exp_pc' = "free"
  /\ UNCHANGED <<table_vars, asoc_list, rx_vars, flush_vars, off, history_vars>>

ExpireAuthFree ==
  /\ exp_pc = "free" /\ exp_pc' = "auth" /\ exp_sta' = NoPeer
  /\ UNCHANGED <<num_non_erp, asoc_list, rx_vars, exp_pos, flush_vars, off, miscounted>>
  /\ FreeStainfo("exp", exp_sta) /\ DropAuth(exp_sta)

(* The other stations of auth_list have time left.                         *)
ExpireAuthEnd ==
  /\ exp_pc = "auth" /\ (exp_pos = End \/ InAuth(exp_pos))
  /\ exp_pc' = "asoc" /\ exp_pos' = NoPeer
  /\ UNCHANGED <<table_vars, list_vars, rx_vars, exp_sta, flush_vars, off, history_vars>>

(* Under asoc_list_lock: a station not heard of for expire_to rounds is    *)
(* remembered by its place in the pool, one in a round; without            *)
(* active_keep_alive_check it is freed at once.                            *)
ExpireAsoc(p) ==
  /\ exp_pc = "asoc" /\ exp_pc' = "keep" /\ p \in asoc_list
  /\ exp_sta' = p
  /\ UNCHANGED <<table_vars, list_vars, rx_vars, exp_pos, flush_vars, off, history_vars>>

ExpireAsocFree(p) ==
  /\ exp_pc = "asoc" /\ exp_pc' = "idle" /\ p \in asoc_list
  /\ asoc_list' = asoc_list \ {p} /\ ApFreeSta("exp", p)
  /\ UNCHANGED <<rx_vars, exp_sta, exp_pos, flush_vars, off>>

ExpireAsocNone ==
  /\ exp_pc = "asoc" /\ exp_pc' = "idle"
  /\ UNCHANGED <<table_vars, list_vars, rx_vars, exp_sta, exp_pos, flush_vars, off, history_vars>>

(* The station is no longer linked, answers the null data, or is asked     *)
(* again later.                                                            *)
KeepAlive ==
  /\ exp_pc = "keep" /\ exp_pc' = "idle" /\ exp_sta' = NoPeer
  /\ UNCHANGED <<table_vars, list_vars, rx_vars, exp_pos, flush_vars, off, history_vars>>

(* The null data of four rounds went unanswered.                           *)
KeepDead ==
  /\ exp_pc = "keep" /\ exp_sta \in linked
  /\ exp_pc' = "idle" /\ exp_sta' = NoPeer
  /\ IF exp_sta \in asoc_list
     THEN asoc_list' = asoc_list \ {exp_sta} /\ ApFreeSta("exp", exp_sta)
     ELSE UNCHANGED <<table_vars, list_vars, history_vars>>
  /\ UNCHANGED <<rx_vars, exp_pos, flush_vars, off>>

-----------------------------------------------------------------------------
(* rtw_sta_flush takes every station off asoc_list, then frees them one    *)
(* by one without the lock.                                                *)
FlushTake ==
  /\ flush_set = {} /\ asoc_list # {}
  /\ flush_set' = asoc_list /\ asoc_list' = {}
  /\ UNCHANGED <<table_vars, auth_list, rx_vars, exp_vars, flush_sta, flush_cnt, off, history_vars>>

(* ap_free_sta without the lock: a station that is counted takes two steps.*)
FlushMark(p) ==
  /\ p \in flush_set \cap non_erp /\ flush_sta = NoPeer
  /\ flush_sta' = p /\ flush_cnt' = num_non_erp - 1
  /\ non_erp' = non_erp \ {p}
  /\ miscounted' = (miscounted \/ CountedBut("flush"))
  /\ UNCHANGED <<table, count, free_cnt, state, linked, aid, sta_aid, num_non_erp, list_vars, rx_vars, exp_vars, flush_set, off, raced>>

FlushFree(p) ==
  /\ p \in flush_set /\ flush_set' = flush_set \ {p}
  /\ \/ flush_sta = p /\ StoreCount(flush_cnt)
     \/ flush_sta = NoPeer /\ p \notin non_erp /\ UNCHANGED num_non_erp
  /\ flush_sta' = NoPeer /\ flush_cnt' = 0
  /\ UNCHANGED <<asoc_list, rx_vars, exp_vars, off, miscounted>>
  /\ FreeStainfo("flush", p) /\ DropAuth(p)

(* rtw_free_all_stainfo, at the end of stop_ap_mode: asoc_list is empty    *)
(* unless a station has joined since the flush.                            *)
FreeAll ==
  /\ flush_set = {} /\ table # {}
  /\ raced' = (raced \/ asoc_list # {} \/ \E p \in table : HeldBut("ioctl", p))
  /\ table' = {} /\ count' = 0 /\ linked' = {} /\ non_erp' = {} /\ auth_list' = <<>>
  /\ free_cnt' = free_cnt + Cardinality({p \in table : aid[p] # NUM_STA})
  /\ state' = [p \in Peers |-> {}] /\ aid' = [p \in Peers |-> 0]
  /\ sta_aid' = [i \in Slots |-> IF i # NUM_STA /\ \E p \in table : sta_aid[i] = p /\ aid[p] = i
                                 THEN NoPeer ELSE sta_aid[i]]
  /\ UNCHANGED <<num_non_erp, asoc_list, rx_vars, exp_vars, flush_vars, off, miscounted>>

(* The peer is switched off or leaves for good.                            *)
PeerOff(p) ==
  /\ p \in Leaving \ off /\ off' = off \cup {p}
  /\ UNCHANGED <<table_vars, list_vars, rx_vars, exp_vars, flush_vars, history_vars>>

-----------------------------------------------------------------------------
RxStep ==
  \/ AuthAdd \/ AuthAccept \/ AuthReject \/ AuthFree
  \/ AssocLeaveAuth \/ AssocAdd \/ AssocJoin \/ AssocMark \/ AssocStore
ExpireStep ==
  \/ ExpireStart \/ ExpireAuthLost \/ ExpireAuthFree \/ ExpireAuthEnd
  \/ ExpireAsocNone \/ KeepAlive \/ KeepDead
  \/ \E p \in Peers : ExpireAuth(p) \/ ExpireAsoc(p) \/ ExpireAsocFree(p)
FlushStep == \E p \in Peers : FlushMark(p) \/ FlushFree(p)

Next ==
  \/ RxStep \/ ExpireStep \/ FlushTake \/ FlushStep \/ FreeAll
  \/ \E p \in Peers :
       \/ AuthLookup(p) \/ AssocReject(p) \/ AssocNoAid(p) \/ AssocAid(p)
       \/ Deauth(p) \/ PeerOff(p)

Spec == Init /\ [][Next]_vars

(* The tasklet, the flush and the command thread run on; a station that    *)
(* stays listed and silent runs out of time in some round.                 *)
FairSpec ==
  /\ Spec /\ WF_vars(RxStep) /\ WF_vars(ExpireStep) /\ WF_vars(FlushStep)
  /\ \A p \in Leaving : /\ SF_vars(p \in off /\ (ExpireAuth(p) \/ ExpireAsoc(p)))
                        /\ SF_vars(p \in off /\ exp_sta = p /\ KeepDead)

-----------------------------------------------------------------------------
TypeOK ==
  /\ table \subseteq Peers /\ asoc_list \subseteq Peers /\ linked \subseteq Peers /\ non_erp \subseteq Peers
  /\ auth_list \in Seq(Peers) /\ count \in Int /\ free_cnt \in Int /\ num_non_erp \in Int
  /\ state \in [Peers -> SUBSET {"auth_success", "assoc_success"}]
  /\ aid \in [Peers -> 0 .. NUM_STA] /\ sta_aid \in [Slots -> Peers \cup {NoPeer}]
  /\ rx_pc \in {"idle", "auth_add", "auth_judge", "auth_free",
               "assoc_auth", "assoc_add", "assoc_join", "assoc_store"}
  /\ rx_sta \in Peers \cup {NoPeer} /\ rx_cnt \in Int
  /\ exp_pc \in {"idle", "auth", "free", "asoc", "keep"} /\ exp_sta \in Peers \cup {NoPeer}
  /\ exp_pos \in Peers \cup {NoPeer, End}
  /\ flush_set \subseteq Peers /\ flush_sta \in Peers \cup {NoPeer} /\ flush_cnt \in Int
  /\ off \subseteq Peers /\ raced \in BOOLEAN /\ miscounted \in BOOLEAN

(* Until two contexts race for a station: the lists hold stations of the   *)
(* table, none in both (except a station the flush works on), and every    *)
(* station of the table can still be found by the expiry or is held by the *)
(* context that will list or free it: no station stays in the table for    *)
(* ever (sta_hash against auth_list and asoc_list in rtw_mlme_ext.c).      *)
Listed(p) == InAuth(p) \/ p \in asoc_list
NoOrphanSta ==
  \/ raced
  \/ /\ \A p \in Peers : Listed(p) => p \in table
     /\ \A p \in Peers : ~(InAuth(p) /\ p \in asoc_list)
     /\ \A p \in table : Listed(p) \/ rx_sta = p \/ exp_sta = p \/ p \in flush_set

(* Two associated stations share an id only if it is the last one, which   *)
(* OnAssocReq hands out again when it finds no free slot.                  *)
AidsUnique ==
  \/ raced
  \/ \A p, q \in table : p # q /\ aid[p] = aid[q] /\ aid[p] > 0 => aid[p] = NUM_STA

(* asoc_sta_count is the number of stations in the table, and no station   *)
(* is given back to the pool twice (rtw_alloc_stainfo, rtw_free_stainfo),  *)
(* until two contexts race for a station or one frees a station while      *)
(* OnAuth frees another without sta_hash_lock.  The state has its types.   *)
PoolExact ==
  /\ TypeOK
  /\ raced \/ (count = Cardinality(table) /\ count + free_cnt <= PoolSize)

(* num_sta_non_erp never drops below the stations that have nonerp_set,    *)
(* but for the one OnAssocReq is counting, so protection stays on while    *)
(* one of them is there; until two contexts change the count at once,      *)
(* which has no lock of its own (bss_cap_update_on_sta_join and _leave).   *)
(* It may stay above: the two ways to free a station that is               *)
(* authenticating again do not count it down (OnAuth, expire_timeout_chk). *)
ProtectionKept ==
  \/ raced \/ miscounted
  \/ num_non_erp >= Cardinality(IF rx_pc = "assoc_store" THEN non_erp \ {rx_sta} ELSE non_erp)

(* A station that goes silent for good is freed in the end, whatever it    *)
(* was doing (expire_timeout_chk).                                         *)
SilentLeaves == \A p \in Leaving : []<>(p \in off => p \notin table \/ raced)
====
