------------------------------ MODULE ApProofs ------------------------------
(***************************************************************************)
(* Proofs about the access point: ApSta, for any number of stations,       *)
(* association ids and places in the pool, and ApSleep, for any stations,  *)
(* AIDs, kinds of categories and numbers of frames.                        *)
(***************************************************************************)
EXTENDS ApSta, ApSleep, FiniteSetTheorems, WellFoundedInduction, TLAPS

-----------------------------------------------------------------------------
(***************************************************************************)
(* The station table.  The ids are right whatever happens; the count of    *)
(* stations that need protection until two contexts change it at once; the *)
(* lists and the pool until two contexts race for a station.  The lists    *)
(* are argued about one station at a time (Place).                         *)
(***************************************************************************)
Sets ==
  /\ table \subseteq Peers /\ asoc_list \subseteq Peers /\ linked \subseteq Peers
  /\ non_erp \subseteq Peers /\ flush_set \subseteq Peers /\ off \subseteq Peers

Counts ==
  /\ count \in Int /\ free_cnt \in Int /\ num_non_erp \in Int
  /\ rx_cnt \in Int /\ flush_cnt \in Int

Maps ==
  /\ state \in [Peers -> SUBSET {"auth_success", "assoc_success"}]
  /\ aid \in [Peers -> 0 .. NUM_STA] /\ sta_aid \in [Slots -> Peers \cup {NoPeer}]

AuthInv == auth_list \in Seq(Peers) /\ IsInjective(auth_list)

(* A context that works on a station is in the middle of something.        *)
PcInv ==
  /\ rx_pc \in {"idle", "auth_add", "auth_judge", "auth_free",
               "assoc_auth", "assoc_add", "assoc_join", "assoc_store"}
  /\ rx_sta \in Peers \cup {NoPeer} /\ (rx_sta = NoPeer <=> rx_pc = "idle")
  /\ exp_pc \in {"idle", "auth", "free", "asoc", "keep"}
  /\ exp_sta \in Peers \cup {NoPeer} /\ (exp_sta # NoPeer <=> exp_pc \in {"free", "keep"})
  /\ exp_pos \in Peers \cup {NoPeer, End} /\ flush_sta \in Peers \cup {NoPeer}

RacedInv == raced \in BOOLEAN /\ miscounted \in BOOLEAN

(* An id that fits the bitmaps is owned by the station that has it.        *)
AidInv == \A p \in Peers : aid[p] \in 1 .. NUM_STA - 1 => sta_aid[aid[p]] = p

(* Until two contexts change the count at once, at most one of OnAssocReq  *)
(* and the flush is about to store it, and stores what it loaded, one more *)
(* or one less.                                                            *)
ErpInv ==
  \/ miscounted
  \/ /\ rx_pc # "assoc_store" /\ flush_sta = NoPeer
     /\ num_non_erp >= Cardinality(non_erp)
  \/ /\ rx_pc = "assoc_store" /\ flush_sta = NoPeer
     /\ rx_cnt = num_non_erp + 1 /\ num_non_erp >= Cardinality(non_erp \ {rx_sta})
  \/ /\ rx_pc = "assoc_store" /\ flush_sta = NoPeer
     /\ rx_cnt = num_non_erp - 1 /\ rx_cnt >= Cardinality(non_erp)
  \/ /\ rx_pc # "assoc_store" /\ flush_sta # NoPeer
     /\ flush_cnt = num_non_erp - 1 /\ flush_cnt >= Cardinality(non_erp)

(* Where station p is: it is in the table exactly when the receive tasklet *)
(* works on it, a list has it, or the context that took it off its list is *)
(* about to free it.                                                       *)
Place(p) ==
  /\ p \in ToSet(auth_list) => p \in table /\ p \notin asoc_list
  /\ p \in asoc_list \cup flush_set => p \in table
  /\ exp_pc = "free" /\ exp_sta = p => p \in table
  /\ p \in table => \/ p \in ToSet(auth_list) \cup asoc_list \cup flush_set
                    \/ rx_sta = p \/ (exp_pc = "free" /\ exp_sta = p)
  /\ rx_sta = p =>
       /\ p \in table
       /\ rx_pc \in {"auth_add", "auth_judge", "auth_free"} => p \notin asoc_list
       /\ rx_pc = "assoc_add" => p \notin ToSet(auth_list)
       /\ rx_pc \in {"auth_judge", "auth_free"} => p \in ToSet(auth_list) \/ (exp_pc = "free" /\ exp_sta = p)
       /\ rx_pc \in {"assoc_join", "assoc_store"} => p \in asoc_list \cup flush_set

PlaceInv == raced \/ \A p \in Peers : Place(p)

PoolInv == raced \/ (count = Cardinality(table) /\ count + free_cnt <= PoolSize)

IInv ==
  /\ Sets /\ Counts /\ Maps /\ AuthInv /\ PcInv /\ RacedInv
  /\ AidInv /\ ErpInv /\ PlaceInv /\ PoolInv

-----------------------------------------------------------------------------
(* The step relation as the disjunction of its actions.                    *)
LEMMA NextCases ==
  ASSUME [Next]_vars
  PROVE  \/ AuthAdd \/ AuthAccept \/ AuthReject \/ AuthFree \/ AssocLeaveAuth
         \/ AssocAdd \/ AssocJoin \/ AssocMark \/ AssocStore \/ ExpireStart
         \/ ExpireAuthLost \/ ExpireAuthFree \/ ExpireAuthEnd \/ ExpireAsocNone
         \/ KeepAlive \/ KeepDead \/ FlushTake \/ FreeAll
         \/ (\E p \in Peers : ExpireAuth(p)) \/ (\E p \in Peers : ExpireAsoc(p))
         \/ (\E p \in Peers : ExpireAsocFree(p)) \/ (\E p \in Peers : AuthLookup(p))
         \/ (\E p \in Peers : AssocReject(p)) \/ (\E p \in Peers : AssocNoAid(p))
         \/ (\E p \in Peers : AssocAid(p)) \/ (\E p \in Peers : Deauth(p))
         \/ (\E p \in Peers : FlushMark(p)) \/ (\E p \in Peers : FlushFree(p))
         \/ (\E p \in Peers : PeerOff(p)) \/ UNCHANGED vars
  BY Zenon DEF Next, RxStep, ExpireStep, FlushStep

(***************************************************************************)
(* Lists and ids.                                                          *)
(***************************************************************************)
(* A list of which one place is taken out.                                 *)
LEMMA RemoveFacts ==
  ASSUME NEW S, NEW q \in Seq(S), NEW i \in 1 .. Len(q)
  PROVE  LET r == RemoveAt(q, i)
         IN /\ r \in Seq(S) /\ Len(r) = Len(q) - 1
            /\ \A j \in 1 .. Len(q) - 1 : r[j] = IF j < i THEN q[j] ELSE q[j + 1]
<1> DEFINE a == SubSeq(q, 1, i - 1)
           b == SubSeq(q, i + 1, Len(q))
           r == RemoveAt(q, i)
<1>1. /\ a \in Seq(S) /\ Len(a) = i - 1 /\ \A j \in 1 .. i - 1 : a[j] = q[j]
  OBVIOUS
<1>2. /\ b \in Seq(S) /\ Len(b) = Len(q) - i /\ \A j \in 1 .. Len(q) - i : b[j] = q[i + j]
  OBVIOUS
<1>3. r = a \o b
  BY DEF RemoveAt
<1> HIDE DEF a, b, r
<1>4. r \in Seq(S) /\ Len(r) = Len(q) - 1
  BY <1>1, <1>2, <1>3
<1>5. ASSUME NEW j \in 1 .. Len(q) - 1 PROVE r[j] = IF j < i THEN q[j] ELSE q[j + 1]
  <2>1. CASE j < i
    BY <1>1, <1>2, <1>3, <2>1
  <2>2. CASE j >= i
    <3>1. r[j] = b[j - Len(a)]
      BY <1>1, <1>2, <1>3, <2>2
    <3>2. j - Len(a) \in 1 .. Len(q) - i
      BY <1>1, <2>2
    <3> QED BY <1>1, <1>2, <2>2, <3>1, <3>2
  <2> QED BY <2>1, <2>2
<1> QED BY <1>4, <1>5 DEF r

(* A list in which each station is once loses the station at that place.   *)
LEMMA DropFacts ==
  ASSUME NEW S, NEW q \in Seq(S), IsInjective(q), NEW i \in 1 .. Len(q)
  PROVE  /\ RemoveAt(q, i) \in Seq(S) /\ IsInjective(RemoveAt(q, i))
         /\ ToSet(RemoveAt(q, i)) = ToSet(q) \ {q[i]}
<1> DEFINE r == RemoveAt(q, i)
<1>1. /\ r \in Seq(S) /\ DOMAIN r = 1 .. Len(q) - 1 /\ DOMAIN q = 1 .. Len(q)
      /\ \A j \in 1 .. Len(q) - 1 : r[j] = IF j < i THEN q[j] ELSE q[j + 1]
  <2>1. r \in Seq(S) /\ Len(r) = Len(q) - 1
    BY RemoveFacts
  <2>2. \A j \in 1 .. Len(q) - 1 : r[j] = IF j < i THEN q[j] ELSE q[j + 1]
    BY RemoveFacts
  <2> HIDE DEF r
  <2> QED BY <2>1, <2>2
<1> HIDE DEF r
<1>2. \A j, k \in 1 .. Len(q) : q[j] = q[k] => j = k
  BY <1>1 DEF IsInjective
<1>3. IsInjective(r)
  <2> SUFFICES ASSUME NEW j \in 1 .. Len(q) - 1, NEW k \in 1 .. Len(q) - 1, r[j] = r[k]
               PROVE  j = k
    BY <1>1 DEF IsInjective
  <2> QED BY <1>1, <1>2
<1>4. ASSUME NEW x \in ToSet(r) PROVE x \in ToSet(q) \ {q[i]}
  <2> PICK j \in 1 .. Len(q) - 1 : x = r[j]
    BY <1>1 DEF ToSet
  <2>1. CASE j < i
    <3>1. x = q[j] /\ j \in 1 .. Len(q)
      BY <1>1, <2>1
    <3> QED BY <1>1, <1>2, <2>1, <3>1 DEF ToSet
  <2>2. CASE j >= i
    <3>1. x = q[j + 1] /\ j + 1 \in 1 .. Len(q)
      BY <1>1, <2>2
    <3> QED BY <1>1, <1>2, <2>2, <3>1 DEF ToSet
  <2> QED BY <2>1, <2>2
<1>5. ASSUME NEW x \in ToSet(q), x # q[i] PROVE x \in ToSet(r)
  <2> PICK j \in 1 .. Len(q) : x = q[j]
    BY <1>1 DEF ToSet
  <2>1. CASE j < i
    <3>1. x = r[j] /\ j \in 1 .. Len(q) - 1
      BY <1>1, <2>1
    <3> QED BY <1>1, <3>1 DEF ToSet
  <2>2. CASE j > i
    <3>1. x = r[j - 1] /\ j - 1 \in 1 .. Len(q) - 1
      BY <1>1, <2>2
    <3> QED BY <1>1, <3>1 DEF ToSet
  <2> QED BY <1>5, <2>1, <2>2
<1> QED BY <1>1, <1>3, <1>4, <1>5 DEF r

(* A station at the end of the list.                                       *)
LEMMA AppendFacts ==
  ASSUME NEW S, NEW q \in Seq(S), NEW x \in S
  PROVE /\ Append(q, x) \in Seq(S) /\ Append(q, x) # <<>>
        /\ ToSet(Append(q, x)) = ToSet(q) \cup {x}
        /\ IsInjective(q) /\ x \notin ToSet(q) => IsInjective(Append(q, x))
<1> DEFINE a == Append(q, x)
<1>1. /\ DOMAIN a = 1 .. Len(q) + 1 /\ DOMAIN q = 1 .. Len(q) /\ Len(q) \in Nat
      /\ a[Len(q) + 1] = x /\ \A i \in 1 .. Len(q) : a[i] = q[i]
  <2>1. /\ a \in Seq(S) /\ Len(a) = Len(q) + 1 /\ Len(q) \in Nat
        /\ a[Len(q) + 1] = x /\ \A i \in 1 .. Len(q) : a[i] = q[i]
    OBVIOUS
  <2> HIDE DEF a
  <2> QED BY <2>1
<1> HIDE DEF a
<1>2. ToSet(a) = ToSet(q) \cup {x}
  <2>1. ToSet(a) \subseteq ToSet(q) \cup {x}
    BY <1>1 DEF ToSet
  <2>2. ASSUME NEW y \in ToSet(q) PROVE y \in ToSet(a)
    <3> PICK i \in 1 .. Len(q) : y = q[i]
      BY <1>1 DEF ToSet
    <3>1. i \in 1 .. Len(q) + 1 /\ a[i] = y
      BY <1>1
    <3> QED BY <1>1, <3>1 DEF ToSet
  <2>3. x \in ToSet(a)
    <3>1. Len(q) + 1 \in 1 .. Len(q) + 1
      BY <1>1
    <3> QED BY <1>1, <3>1 DEF ToSet
  <2> QED BY <2>1, <2>2, <2>3
<1>3. IsInjective(q) /\ x \notin ToSet(q) => IsInjective(a)
  <2> SUFFICES ASSUME IsInjective(q), x \notin ToSet(q), NEW i \in 1 .. Len(q) + 1,
                      NEW j \in 1 .. Len(q) + 1, a[i] = a[j]
               PROVE  i = j
    BY <1>1 DEF IsInjective
  <2>1. CASE i \in 1 .. Len(q) /\ j \in 1 .. Len(q)
    BY <1>1, <2>1 DEF IsInjective
  <2>2. CASE i = Len(q) + 1 /\ j = Len(q) + 1
    BY <2>2
  <2>3. CASE (i = Len(q) + 1 /\ j \in 1 .. Len(q)) \/ (j = Len(q) + 1 /\ i \in 1 .. Len(q))
    BY <1>1, <2>3 DEF ToSet
  <2> QED BY <1>1, <2>1, <2>2, <2>3
<1>4. a \in Seq(S) /\ a # <<>>
  <2>1. a \in Seq(S)
    BY DEF a
  <2> QED BY <1>1, <2>1
<1> QED BY <1>4, <1>2, <1>3 DEF a

(* A set of numbers that is not empty has a least one.                     *)
LEMMA LeastFacts ==
  ASSUME NEW S, S \subseteq Nat, S # {}
  PROVE  \E x \in S : \A y \in S : x =< y
<1>1. PICK x \in S : \A y \in S : ~(<<y, x>> \in OpToRel(<, Nat))
  BY NatLessThanWellFounded, WFMin, Zenon
<1>2. ASSUME NEW y \in S PROVE x =< y
  <2>1. x \in Nat /\ y \in Nat
    OBVIOUS
  <2>2. y < x => <<y, x>> \in OpToRel(<, Nat)
    BY <2>1 DEF OpToRel
  <2>3. ~(y < x)
    BY <1>1, <2>2, Zenon
  <2> QED BY <2>1, <2>3
<1> QED BY <1>2

(* OnAssocReq: the id it finds is free, or the last one.                   *)
LEMMA NewAidFacts ==
  ASSUME Maps
  PROVE  NewAid \in Slots /\ (sta_aid[NewAid] = NoPeer \/ NewAid = NUM_STA)
<1> DEFINE F == {i \in Slots : sta_aid[i] = NoPeer}
           Good(i) == sta_aid[i] = NoPeer /\ \A j \in 1 .. i - 1 : sta_aid[j] # NoPeer
<1>1. NUM_STA \in Nat \ {0} /\ Slots = 1 .. NUM_STA
  BY LimitAssumption DEF Slots
<1>2. CASE F # {}
  <2>1. PICK i \in F : \A j \in F : i =< j
    <3>1. F \subseteq Nat
      BY <1>1
    <3> HIDE DEF F
    <3> QED BY <1>2, <3>1, LeastFacts
  <2>2. \E k \in Slots : Good(k)
    BY <1>1, <2>1
  <2>3. NewAid = CHOOSE k \in Slots : Good(k)
    BY <1>2 DEF NewAid
  <2>4. NewAid \in Slots /\ Good(NewAid)
    <3> HIDE DEF Good
    <3> QED BY <2>2, <2>3
  <2> QED BY <2>4
<1>3. CASE F = {}
  BY <1>1, <1>3 DEF NewAid
<1> QED BY <1>2, <1>3

(* rtw_list_delete: the station, and no other, leaves auth_list.           *)
LEMMA DropAuthFacts ==
  ASSUME AuthInv, NEW p, DropAuth(p)
  PROVE  AuthInv' /\ ToSet(auth_list') = ToSet(auth_list) \ {p}
<1>1. auth_list \in Seq(Peers) /\ IsInjective(auth_list) /\ DOMAIN auth_list = 1 .. Len(auth_list)
  BY DEF AuthInv
<1>2. CASE InAuth(p)
  <2> DEFINE i == CHOOSE i \in DOMAIN auth_list : auth_list[i] = p
  <2>1. i \in DOMAIN auth_list /\ auth_list[i] = p
    BY <1>2 DEF InAuth
  <2>2. auth_list' = RemoveAt(auth_list, i)
    BY <1>2 DEF DropAuth
  <2> HIDE DEF i
  <2>3. /\ RemoveAt(auth_list, i) \in Seq(Peers) /\ IsInjective(RemoveAt(auth_list, i))
        /\ ToSet(RemoveAt(auth_list, i)) = ToSet(auth_list) \ {auth_list[i]}
    BY <1>1, <2>1, DropFacts
  <2> QED BY <2>1, <2>2, <2>3 DEF AuthInv
<1>3. CASE ~InAuth(p)
  <2>1. auth_list' = auth_list
    BY <1>3 DEF DropAuth
  <2>2. p \notin ToSet(auth_list)
    BY <1>3 DEF InAuth, ToSet
  <2> QED BY <1>1, <2>1, <2>2 DEF AuthInv
<1> QED BY <1>2, <1>3

(* rtw_free_stainfo while nobody else works on the station.                *)
LEMMA FreeAlone ==
  ASSUME NEW cx, NEW p, FreeStainfo(cx, p), ~raced'
  PROVE  ~raced /\ ~HeldBut(cx, p) /\ p \notin asoc_list' /\ table' = table \ {p}
  BY Zenon DEF FreeStainfo

(* Every step keeps the sets of stations.                                  *)
LEMMA SetsStep == Sets /\ PcInv /\ [Next]_vars => Sets'
<1> SUFFICES ASSUME Sets, PcInv, [Next]_vars PROVE Sets'
  OBVIOUS
<1> USE PeersAssumption DEF Sets, PcInv, table_vars, list_vars, rx_vars,
   exp_vars, flush_vars, history_vars
<1>1. CASE AuthFree
  BY <1>1 DEF AuthFree, FreeStainfo, DropAuth
<1>2. CASE AssocAdd
  BY <1>2 DEF AssocAdd
<1>3. CASE AssocJoin
  BY <1>3 DEF AssocJoin
<1>4. CASE AssocMark
  BY <1>4 DEF AssocMark
<1>5. CASE AssocStore
  BY <1>5 DEF AssocStore, StoreCount
<1>6. CASE ExpireAuthFree
  BY <1>6 DEF ExpireAuthFree, FreeStainfo, DropAuth
<1>7. CASE KeepDead
  BY <1>7 DEF KeepDead, ApFreeSta, FreeStainfo, DropAuth
<1>8. CASE FlushTake
  BY <1>8 DEF FlushTake
<1>9. CASE FreeAll
  BY <1>9 DEF FreeAll
<1>10. ASSUME NEW p \in Peers, ExpireAsocFree(p) PROVE Sets'
  BY <1>10 DEF ExpireAsocFree, ApFreeSta, FreeStainfo, DropAuth
<1>11. ASSUME NEW p \in Peers, AuthLookup(p) PROVE Sets'
  BY <1>11 DEF AuthLookup
<1>12. ASSUME NEW p \in Peers, Deauth(p) PROVE Sets'
  BY <1>12 DEF Deauth, ApFreeSta, FreeStainfo, DropAuth
<1>13. ASSUME NEW p \in Peers, FlushMark(p) PROVE Sets'
  BY <1>13 DEF FlushMark
<1>14. ASSUME NEW p \in Peers, FlushFree(p) PROVE Sets'
  BY <1>14 DEF FlushFree, StoreCount, FreeStainfo, DropAuth
<1>15. ASSUME NEW p \in Peers, PeerOff(p) PROVE Sets'
  BY <1>15 DEF PeerOff
<1>16. CASE AuthAdd \/ AuthAccept \/ AuthReject \/ AssocLeaveAuth \/ ExpireStart
   \/ ExpireAuthLost \/ ExpireAuthEnd \/ ExpireAsocNone \/ KeepAlive \/
   UNCHANGED vars
  <2>1. UNCHANGED <<table, asoc_list, linked, non_erp, flush_set, off>>
    BY <1>16, Zenon DEF AuthAdd, AuthAccept, AuthReject, AssocLeaveAuth,
       DropAuth, ExpireStart, ExpireAuthLost, ExpireAuthEnd, ExpireAsocNone,
       KeepAlive, vars
  <2> QED BY <2>1
<1>17. ASSUME NEW p \in Peers, ExpireAuth(p) \/ ExpireAsoc(p) \/ AssocReject(p)
   \/ AssocNoAid(p) \/ AssocAid(p) PROVE Sets'
  <2>1. UNCHANGED <<table, asoc_list, linked, non_erp, flush_set, off>>
    BY <1>17, Zenon DEF ExpireAuth, DropAuth, ExpireAsoc, AssocReject,
       AssocNoAid, AssocAid
  <2> QED BY <2>1
<1> HIDE DEF Sets
<1> QED
  BY NextCases, <1>1, <1>2, <1>3, <1>4, <1>5, <1>6, <1>7, <1>8, <1>9, <1>10,
     <1>11, <1>12, <1>13, <1>14, <1>15, <1>16, <1>17

(* Every step keeps the counts numbers.                                    *)
LEMMA CountsStep == Counts /\ Sets /\ [Next]_vars => Counts'
<1> SUFFICES ASSUME Counts, Sets, [Next]_vars PROVE Counts'
  OBVIOUS
<1> USE LimitAssumption DEF Counts, table_vars, list_vars, rx_vars, exp_vars,
   flush_vars, history_vars
<1>1. CASE AuthFree
  BY <1>1 DEF AuthFree, FreeStainfo, DropAuth
<1>2. CASE AssocMark
  BY <1>2 DEF AssocMark
<1>3. CASE AssocStore
  BY <1>3 DEF AssocStore, StoreCount
<1>4. CASE ExpireAuthFree
  BY <1>4 DEF ExpireAuthFree, FreeStainfo, DropAuth
<1>5. CASE KeepDead
  BY <1>5 DEF KeepDead, ApFreeSta, FreeStainfo, DropAuth
<1>6. CASE FreeAll
  <2>1. /\ count' = 0 /\ UNCHANGED <<num_non_erp, rx_cnt, flush_cnt>>
        /\ free_cnt' = free_cnt + Cardinality({p \in table : aid[p] # NUM_STA})
    BY <1>6 DEF FreeAll
  <2>2. Cardinality({p \in table : aid[p] # NUM_STA}) \in Nat
    BY PeersAssumption, FS_Subset, FS_CardinalityType DEF Sets
  <2> QED BY <2>1, <2>2
<1>7. ASSUME NEW p \in Peers, ExpireAsocFree(p) PROVE Counts'
  BY <1>7 DEF ExpireAsocFree, ApFreeSta, FreeStainfo, DropAuth
<1>8. ASSUME NEW p \in Peers, AuthLookup(p) PROVE Counts'
  BY <1>8 DEF AuthLookup
<1>9. ASSUME NEW p \in Peers, Deauth(p) PROVE Counts'
  BY <1>9 DEF Deauth, ApFreeSta, FreeStainfo, DropAuth
<1>10. ASSUME NEW p \in Peers, FlushMark(p) PROVE Counts'
  BY <1>10 DEF FlushMark
<1>11. ASSUME NEW p \in Peers, FlushFree(p) PROVE Counts'
  BY <1>11 DEF FlushFree, StoreCount, FreeStainfo, DropAuth
<1>12. CASE AuthAdd \/ AuthAccept \/ AuthReject \/ AssocLeaveAuth \/ AssocAdd \/
   AssocJoin \/ ExpireStart \/ ExpireAuthLost \/ ExpireAuthEnd \/ ExpireAsocNone
   \/ KeepAlive \/ FlushTake \/ UNCHANGED vars
  <2>1. UNCHANGED <<count, free_cnt, num_non_erp, rx_cnt, flush_cnt>>
    BY <1>12, Zenon DEF AuthAdd, AuthAccept, AuthReject, AssocLeaveAuth,
       DropAuth, AssocAdd, AssocJoin, ExpireStart, ExpireAuthLost,
       ExpireAuthEnd, ExpireAsocNone, KeepAlive, FlushTake, vars
  <2> QED BY <2>1
<1>13. ASSUME NEW p \in Peers, ExpireAuth(p) \/ ExpireAsoc(p) \/ AssocReject(p)
   \/ AssocNoAid(p) \/ AssocAid(p) \/ PeerOff(p) PROVE Counts'
  <2>1. UNCHANGED <<count, free_cnt, num_non_erp, rx_cnt, flush_cnt>>
    BY <1>13, Zenon DEF ExpireAuth, DropAuth, ExpireAsoc, AssocReject,
       AssocNoAid, AssocAid, PeerOff
  <2> QED BY <2>1
<1> HIDE DEF Counts
<1> QED
  BY NextCases, <1>1, <1>2, <1>3, <1>4, <1>5, <1>6, <1>7, <1>8, <1>9, <1>10,
     <1>11, <1>12, <1>13

(* rtw_free_stainfo keeps those types.                                     *)
LEMMA FreeMaps ==
  ASSUME Maps, NEW cx, NEW p \in Peers, FreeStainfo(cx, p)
  PROVE  Maps'
<1>1. /\ state' = [state EXCEPT ![p] = {}] /\ aid' = [aid EXCEPT ![p] = 0]
      /\ \/ sta_aid' = sta_aid
         \/ sta_aid' = [i \in Slots |-> IF i = aid[p] /\ sta_aid[i] = p THEN NoPeer ELSE sta_aid[i]]
  BY Zenon DEF FreeStainfo
<1>2. 0 \in 0 .. NUM_STA
  BY LimitAssumption
<1> QED BY <1>1, <1>2 DEF Maps

(* Every step keeps the types of what is kept for each station and each id.*)
LEMMA MapsStep == Maps /\ PcInv /\ [Next]_vars => Maps'
<1> SUFFICES ASSUME Maps, PcInv, [Next]_vars PROVE Maps'
  OBVIOUS
<1> USE LimitAssumption DEF Maps, table_vars, list_vars, rx_vars, exp_vars,
   flush_vars, history_vars
<1>1. CASE AuthAccept
  BY <1>1 DEF AuthAccept
<1>2. CASE AuthFree
  <2>1. FreeStainfo("rx", rx_sta)
    BY <1>2 DEF AuthFree
  <2>2. rx_sta \in Peers
    BY <1>2 DEF AuthFree, PcInv
  <2> QED BY <2>1, <2>2, FreeMaps
<1>3. CASE ExpireAuthFree
  <2>1. FreeStainfo("exp", exp_sta)
    BY <1>3 DEF ExpireAuthFree
  <2>2. exp_sta \in Peers
    BY <1>3 DEF ExpireAuthFree, PcInv
  <2> QED BY <2>1, <2>2, FreeMaps
<1>4. CASE KeepDead
  BY <1>4 DEF KeepDead, ApFreeSta, FreeStainfo, DropAuth
<1>5. CASE FreeAll
  BY <1>5 DEF FreeAll
<1>6. ASSUME NEW p \in Peers, ExpireAsocFree(p) PROVE Maps'
  BY <1>6 DEF ExpireAsocFree, ApFreeSta, FreeStainfo, DropAuth
<1>7. ASSUME NEW p \in Peers, AssocReject(p) PROVE Maps'
  BY <1>7 DEF AssocReject, UsedUp
<1>8. ASSUME NEW p \in Peers, AssocNoAid(p) PROVE Maps'
  BY <1>8 DEF AssocNoAid, UsedUp
<1>9. ASSUME NEW p \in Peers, AssocAid(p) PROVE Maps'
  <2>1. NewAid \in Slots /\ Slots = 1 .. NUM_STA /\ NUM_STA \in Nat \ {0}
    BY NewAidFacts, LimitAssumption DEF Slots
  <2>2. /\ aid' = [aid EXCEPT ![p] = NewAid] \/ aid' = aid
        /\ sta_aid' = [sta_aid EXCEPT ![NewAid] = p] \/ sta_aid' = sta_aid
        /\ state' = [state EXCEPT ![p] = UsedUp(p) \cup {"assoc_success"}]
    BY <1>9 DEF AssocAid
  <2>3. NewAid \in 0 .. NUM_STA
    BY <2>1
  <2>4. UsedUp(p) \cup {"assoc_success"} \in SUBSET {"auth_success", "assoc_success"}
    BY DEF UsedUp
  <2>5. aid' \in [Peers -> 0 .. NUM_STA]
    BY <2>2, <2>3
  <2>6. sta_aid' \in [Slots -> Peers \cup {NoPeer}]
    BY <2>1, <2>2
  <2>7. state' \in [Peers -> SUBSET {"auth_success", "assoc_success"}]
    BY <2>2, <2>4
  <2> QED BY <2>5, <2>6, <2>7
<1>10. ASSUME NEW p \in Peers, Deauth(p) PROVE Maps'
  BY <1>10 DEF Deauth, ApFreeSta, FreeStainfo, DropAuth
<1>11. ASSUME NEW p \in Peers, FlushFree(p) PROVE Maps'
  BY <1>11 DEF FlushFree, StoreCount, FreeStainfo, DropAuth
<1>12. CASE AuthAdd \/ AuthReject \/ AssocLeaveAuth \/ AssocAdd \/ AssocJoin \/
   AssocMark \/ AssocStore \/ ExpireStart \/ ExpireAuthLost \/ ExpireAuthEnd \/
   ExpireAsocNone \/ KeepAlive \/ FlushTake \/ UNCHANGED vars
  <2>1. UNCHANGED <<state, aid, sta_aid>>
    BY <1>12, Zenon DEF AuthAdd, AuthReject, AssocLeaveAuth, DropAuth, AssocAdd,
       AssocJoin, AssocMark, AssocStore, StoreCount, ExpireStart,
       ExpireAuthLost, ExpireAuthEnd, ExpireAsocNone, KeepAlive, FlushTake, vars
  <2> QED BY <2>1
<1>13. ASSUME NEW p \in Peers, ExpireAuth(p) \/ ExpireAsoc(p) \/ AuthLookup(p)
   \/ FlushMark(p) \/ PeerOff(p) PROVE Maps'
  <2>1. UNCHANGED <<state, aid, sta_aid>>
    BY <1>13, Zenon DEF ExpireAuth, DropAuth, ExpireAsoc, AuthLookup, FlushMark,
       PeerOff
  <2> QED BY <2>1
<1> HIDE DEF Maps
<1> QED
  BY NextCases, <1>1, <1>2, <1>3, <1>4, <1>5, <1>6, <1>7, <1>8, <1>9, <1>10,
     <1>11, <1>12, <1>13

(* Every step keeps each station in auth_list at most once.                *)
LEMMA AuthStep == AuthInv /\ PcInv /\ [Next]_vars => AuthInv'
<1> SUFFICES ASSUME AuthInv, PcInv, [Next]_vars PROVE AuthInv'
  OBVIOUS
<1> USE DEF table_vars, list_vars, rx_vars, exp_vars, flush_vars, history_vars
<1>1. CASE AuthAdd
  <2>1. CASE InAuth(rx_sta)
    <3>1. auth_list' = auth_list
      BY <1>1, <2>1 DEF AuthAdd
    <3> QED BY <3>1 DEF AuthInv
  <2>2. CASE ~InAuth(rx_sta)
    <3>1. auth_list' = Append(auth_list, rx_sta)
      BY <1>1, <2>2 DEF AuthAdd
    <3>2. rx_sta \in Peers /\ rx_sta \notin ToSet(auth_list)
      BY <1>1, <2>2 DEF AuthAdd, PcInv, InAuth, ToSet
    <3> QED BY <3>1, <3>2, AppendFacts DEF AuthInv
  <2> QED BY <2>1, <2>2
<1>2. CASE AuthFree
  BY <1>2, DropAuthFacts, Zenon DEF AuthFree
<1>3. CASE AssocLeaveAuth
  BY <1>3, DropAuthFacts, Zenon DEF AssocLeaveAuth
<1>4. CASE ExpireAuthFree
  BY <1>4, DropAuthFacts, Zenon DEF ExpireAuthFree
<1>5. CASE KeepDead
  <2>1. CASE exp_sta \in asoc_list
    BY <1>5, <2>1, DropAuthFacts, Zenon DEF KeepDead, ApFreeSta
  <2>2. CASE exp_sta \notin asoc_list
    <3>1. auth_list' = auth_list
      BY <1>5, <2>2, Zenon DEF KeepDead
    <3> QED BY <3>1 DEF AuthInv
  <2> QED BY <2>1, <2>2
<1>6. CASE FreeAll
  <2>1. auth_list' = <<>>
    BY <1>6 DEF FreeAll
  <2> QED BY <2>1 DEF AuthInv, IsInjective
<1>7. ASSUME NEW p \in Peers, ExpireAuth(p) PROVE AuthInv'
  BY <1>7, DropAuthFacts, Zenon DEF ExpireAuth
<1>8. ASSUME NEW p \in Peers, ExpireAsocFree(p) PROVE AuthInv'
  BY <1>8, DropAuthFacts, Zenon DEF ExpireAsocFree, ApFreeSta
<1>9. ASSUME NEW p \in Peers, Deauth(p) PROVE AuthInv'
  BY <1>9, DropAuthFacts, Zenon DEF Deauth, ApFreeSta
<1>10. ASSUME NEW p \in Peers, FlushFree(p) PROVE AuthInv'
  BY <1>10, DropAuthFacts, Zenon DEF FlushFree
<1>11. CASE AuthAccept \/ AuthReject \/ AssocAdd \/ AssocJoin \/ AssocMark \/
   AssocStore \/ ExpireStart \/ ExpireAuthLost \/ ExpireAuthEnd \/
   ExpireAsocNone \/ KeepAlive \/ FlushTake \/ UNCHANGED vars
  <2>1. UNCHANGED auth_list
    BY <1>11, Zenon DEF AuthAccept, AuthReject, AssocAdd, AssocJoin, AssocMark,
       AssocStore, StoreCount, ExpireStart, ExpireAuthLost, ExpireAuthEnd,
       ExpireAsocNone, KeepAlive, FlushTake, vars
  <2> QED BY <2>1 DEF AuthInv
<1>12. ASSUME NEW p \in Peers, ExpireAsoc(p) \/ AuthLookup(p) \/ AssocReject(p)
   \/ AssocNoAid(p) \/ AssocAid(p) \/ FlushMark(p) \/ PeerOff(p) PROVE AuthInv'
  <2>1. UNCHANGED auth_list
    BY <1>12, Zenon DEF ExpireAsoc, AuthLookup, AssocReject, AssocNoAid,
       AssocAid, FlushMark, PeerOff
  <2> QED BY <2>1 DEF AuthInv
<1> QED
  BY NextCases, <1>1, <1>2, <1>3, <1>4, <1>5, <1>6, <1>7, <1>8, <1>9, <1>10,
     <1>11, <1>12

(* Every step keeps the control points.                                    *)
LEMMA PcStep == PcInv /\ AuthInv /\ Sets /\ [Next]_vars => PcInv'
<1> SUFFICES ASSUME PcInv, AuthInv, Sets, [Next]_vars PROVE PcInv'
  OBVIOUS
<1> USE PeersAssumption DEF PcInv, table_vars, list_vars, rx_vars, exp_vars,
   flush_vars, history_vars
<1>1. CASE AuthAdd
  BY <1>1 DEF AuthAdd
<1>2. CASE AuthAccept
  BY <1>2 DEF AuthAccept
<1>3. CASE AuthReject
  BY <1>3 DEF AuthReject
<1>4. CASE AuthFree
  BY <1>4 DEF AuthFree, FreeStainfo, DropAuth
<1>5. CASE AssocLeaveAuth
  BY <1>5 DEF AssocLeaveAuth, DropAuth
<1>6. CASE AssocAdd
  BY <1>6 DEF AssocAdd
<1>7. CASE AssocJoin
  BY <1>7 DEF AssocJoin
<1>8. CASE AssocMark
  BY <1>8 DEF AssocMark
<1>9. CASE AssocStore
  BY <1>9 DEF AssocStore, StoreCount
<1>10. CASE ExpireStart
  <2>1. /\ exp_pc = "idle" /\ exp_pc' = "auth" /\ UNCHANGED <<rx_pc, rx_sta, exp_sta, flush_sta>>
        /\ exp_pos' = IF auth_list = <<>> THEN End ELSE Head(auth_list)
    BY <1>10 DEF ExpireStart
  <2>2. exp_pos' \in Peers \cup {End}
    BY <2>1 DEF AuthInv
  <2> QED BY <2>1, <2>2
<1>11. CASE ExpireAuthFree
  BY <1>11 DEF ExpireAuthFree, FreeStainfo, DropAuth
<1>12. CASE ExpireAuthEnd
  BY <1>12 DEF ExpireAuthEnd
<1>13. CASE ExpireAsocNone
  BY <1>13 DEF ExpireAsocNone
<1>14. CASE KeepAlive
  BY <1>14 DEF KeepAlive
<1>15. CASE KeepDead
  BY <1>15 DEF KeepDead, ApFreeSta, FreeStainfo, DropAuth
<1>16. ASSUME NEW p \in Peers, ExpireAuth(p) PROVE PcInv'
  <2>1. exp_sta' = p /\ exp_pc' = "free" /\ rx_pc' = rx_pc /\ rx_sta' = rx_sta /\ flush_sta' = flush_sta
    BY <1>16 DEF ExpireAuth
  <2>2. exp_pos' \in Peers \cup {End}
    <3> PICK i, j \in DOMAIN auth_list : exp_pos' = IF j = Len(auth_list) THEN End ELSE auth_list[j + 1]
      BY <1>16 DEF ExpireAuth
    <3> QED BY DEF AuthInv
  <2> QED BY <2>1, <2>2
<1>17. ASSUME NEW p \in Peers, ExpireAsoc(p) PROVE PcInv'
  <2>1. p \in Peers
    OBVIOUS
  <2> QED BY <1>17, <2>1 DEF ExpireAsoc
<1>18. ASSUME NEW p \in Peers, ExpireAsocFree(p) PROVE PcInv'
  BY <1>18 DEF ExpireAsocFree, ApFreeSta, FreeStainfo, DropAuth
<1>19. ASSUME NEW p \in Peers, AuthLookup(p) PROVE PcInv'
  BY <1>19 DEF AuthLookup
<1>20. ASSUME NEW p \in Peers, AssocAid(p) PROVE PcInv'
  BY <1>20 DEF AssocAid
<1>21. ASSUME NEW p \in Peers, FlushMark(p) PROVE PcInv'
  BY <1>21 DEF FlushMark
<1>22. ASSUME NEW p \in Peers, FlushFree(p) PROVE PcInv'
  BY <1>22 DEF FlushFree, StoreCount, FreeStainfo, DropAuth
<1>23. CASE ExpireAuthLost \/ FlushTake \/ FreeAll \/ UNCHANGED vars
  <2>1. UNCHANGED <<rx_pc, rx_sta, exp_pc, exp_sta, exp_pos, flush_sta>>
    BY <1>23, Zenon DEF ExpireAuthLost, FlushTake, FreeAll, vars
  <2> QED BY <2>1
<1>24. ASSUME NEW p \in Peers, AssocReject(p) \/ AssocNoAid(p) \/ Deauth(p) \/
   PeerOff(p) PROVE PcInv'
  <2>1. UNCHANGED <<rx_pc, rx_sta, exp_pc, exp_sta, exp_pos, flush_sta>>
    BY <1>24, Zenon DEF AssocReject, AssocNoAid, Deauth, ApFreeSta, FreeStainfo,
       DropAuth, PeerOff
  <2> QED BY <2>1
<1> HIDE DEF PcInv
<1> QED
  BY NextCases, <1>1, <1>2, <1>3, <1>4, <1>5, <1>6, <1>7, <1>8, <1>9, <1>10,
     <1>11, <1>12, <1>13, <1>14, <1>15, <1>16, <1>17, <1>18, <1>19, <1>20,
     <1>21, <1>22, <1>23, <1>24

(* Every step keeps the histories Boolean.                                 *)
LEMMA RacedStep == RacedInv /\ [Next]_vars => RacedInv'
<1> SUFFICES ASSUME RacedInv, [Next]_vars PROVE RacedInv'
  OBVIOUS
<1> USE DEF RacedInv, table_vars, list_vars, rx_vars, exp_vars, flush_vars,
   history_vars
<1>1. CASE AuthFree
  BY <1>1, Zenon DEF AuthFree, FreeStainfo, DropAuth
<1>2. CASE AssocMark
  BY <1>2, Zenon DEF AssocMark
<1>3. CASE ExpireAuthLost
  BY <1>3, Zenon DEF ExpireAuthLost
<1>4. CASE ExpireAuthFree
  BY <1>4, Zenon DEF ExpireAuthFree, FreeStainfo, DropAuth
<1>5. CASE KeepDead
  BY <1>5, Zenon DEF KeepDead, ApFreeSta, FreeStainfo, DropAuth
<1>6. CASE FreeAll
  BY <1>6, Zenon DEF FreeAll
<1>7. ASSUME NEW p \in Peers, ExpireAsocFree(p) PROVE RacedInv'
  BY <1>7, Zenon DEF ExpireAsocFree, ApFreeSta, FreeStainfo, DropAuth
<1>8. ASSUME NEW p \in Peers, Deauth(p) PROVE RacedInv'
  BY <1>8, Zenon DEF Deauth, ApFreeSta, FreeStainfo, DropAuth
<1>9. ASSUME NEW p \in Peers, FlushMark(p) PROVE RacedInv'
  BY <1>9, Zenon DEF FlushMark
<1>10. ASSUME NEW p \in Peers, FlushFree(p) PROVE RacedInv'
  BY <1>10, Zenon DEF FlushFree, StoreCount, FreeStainfo, DropAuth
<1>11. CASE AuthAdd \/ AuthAccept \/ AuthReject \/ AssocLeaveAuth \/ AssocAdd \/
   AssocJoin \/ AssocStore \/ ExpireStart \/ ExpireAuthEnd \/ ExpireAsocNone \/
   KeepAlive \/ FlushTake \/ UNCHANGED vars
  BY <1>11, Zenon DEF AuthAdd, AuthAccept, AuthReject, AssocLeaveAuth, DropAuth,
     AssocAdd, AssocJoin, AssocStore, StoreCount, ExpireStart, ExpireAuthEnd,
     ExpireAsocNone, KeepAlive, FlushTake, vars
<1>12. ASSUME NEW p \in Peers, ExpireAuth(p) \/ ExpireAsoc(p) \/ AuthLookup(p)
   \/ AssocReject(p) \/ AssocNoAid(p) \/ AssocAid(p) \/ PeerOff(p) PROVE
   RacedInv'
  BY <1>12, Zenon DEF ExpireAuth, DropAuth, ExpireAsoc, AuthLookup, AssocReject,
     AssocNoAid, AssocAid, PeerOff
<1> HIDE DEF RacedInv
<1> QED
  BY NextCases, <1>1, <1>2, <1>3, <1>4, <1>5, <1>6, <1>7, <1>8, <1>9, <1>10,
     <1>11, <1>12

(***************************************************************************)
(* Association ids and protection.                                         *)
(***************************************************************************)
(* rtw_free_stainfo clears no slot that another station owns.              *)
LEMMA FreeAid ==
  ASSUME Maps, AidInv, NEW cx, NEW p \in Peers, FreeStainfo(cx, p)
  PROVE  AidInv'
<1>1. /\ aid' = [aid EXCEPT ![p] = 0]
      /\ \/ sta_aid' = sta_aid
         \/ sta_aid' = [i \in Slots |-> IF i = aid[p] /\ sta_aid[i] = p THEN NoPeer ELSE sta_aid[i]]
  BY Zenon DEF FreeStainfo
<1>2. ASSUME NEW q \in Peers, aid'[q] \in 1 .. NUM_STA - 1 PROVE sta_aid'[aid'[q]] = q
  <2>1. q # p /\ aid'[q] = aid[q]
    BY <1>1, <1>2 DEF Maps
  <2>2. sta_aid[aid[q]] = q /\ aid[q] \in Slots
    BY <1>2, <2>1, LimitAssumption DEF AidInv, Slots
  <2> QED BY <1>1, <2>1, <2>2
<1> QED BY <1>2 DEF AidInv

(* Every step keeps the ids with their owners.                             *)
LEMMA AidStep == AidInv /\ Maps /\ Sets /\ PcInv /\ [Next]_vars => AidInv'
<1> SUFFICES ASSUME AidInv, Maps, Sets, PcInv, [Next]_vars PROVE AidInv'
  OBVIOUS
<1> USE DEF table_vars, list_vars, rx_vars, exp_vars, flush_vars, history_vars
<1>1. CASE AuthFree
  <2>1. FreeStainfo("rx", rx_sta)
    BY <1>1, Zenon DEF AuthFree
  <2>2. rx_sta \in Peers
    BY <1>1 DEF AuthFree, PcInv, Sets
  <2> QED BY <2>1, <2>2, FreeAid
<1>2. CASE ExpireAuthFree
  <2>1. FreeStainfo("exp", exp_sta)
    BY <1>2, Zenon DEF ExpireAuthFree
  <2>2. exp_sta \in Peers
    BY <1>2 DEF ExpireAuthFree, PcInv, Sets
  <2> QED BY <2>1, <2>2, FreeAid
<1>3. CASE KeepDead
  <2>1. CASE exp_sta \in asoc_list
    <3>1. FreeStainfo("exp", exp_sta) /\ exp_sta \in Peers
      BY <1>3, <2>1 DEF KeepDead, ApFreeSta, Sets
    <3> QED BY <3>1, FreeAid
  <2>2. CASE exp_sta \notin asoc_list
    <3>1. UNCHANGED <<aid, sta_aid>>
      BY <1>3, <2>2, Zenon DEF KeepDead
    <3> QED BY <3>1 DEF AidInv
  <2> QED BY <2>1, <2>2
<1>4. CASE FreeAll
  <2>1. \A p \in Peers : aid'[p] = 0
    BY <1>4 DEF FreeAll
  <2> QED BY <2>1 DEF AidInv
<1>5. ASSUME NEW p \in Peers, ExpireAsocFree(p) PROVE AidInv'
  <2>1. FreeStainfo("exp", p)
    BY <1>5, Zenon DEF ExpireAsocFree, ApFreeSta
  <2>2. p \in Peers
    BY <1>5 DEF ExpireAsocFree, PcInv, Sets
  <2> QED BY <2>1, <2>2, FreeAid
<1>6. ASSUME NEW p \in Peers, AssocReject(p) PROVE AidInv'
  <2>1. sta_aid' = sta_aid /\ aid' = [aid EXCEPT ![p] = 0]
    BY <1>6, Zenon DEF AssocReject
  <2> QED BY <2>1 DEF AidInv, Maps
<1>7. ASSUME NEW p \in Peers, AssocAid(p) PROVE AidInv'
  <2>1. CASE UNCHANGED <<aid, sta_aid>>
    BY <2>1 DEF AidInv
  <2>2. CASE aid[p] = 0 /\ aid' = [aid EXCEPT ![p] = NewAid] /\ sta_aid' = [sta_aid EXCEPT ![NewAid] = p]
    <3>1. NewAid \in Slots /\ (sta_aid[NewAid] = NoPeer \/ NewAid = NUM_STA)
      BY NewAidFacts
    <3>2. ASSUME NEW q \in Peers, aid'[q] \in 1 .. NUM_STA - 1 PROVE sta_aid'[aid'[q]] = q
      <4>1. CASE q = p
        BY <2>2, <3>1, <4>1 DEF Maps
      <4>2. CASE q # p
        <5>1. aid'[q] = aid[q]
          BY <2>2, <4>2 DEF Maps
        <5>2. sta_aid[aid[q]] = q /\ aid[q] # NUM_STA /\ q # NoPeer
          BY <3>2, <5>1, LimitAssumption, PeersAssumption DEF AidInv
        <5>3. aid[q] # NewAid
          BY <3>1, <5>2
        <5>4. aid[q] \in Slots
          BY <3>2, <5>1, LimitAssumption DEF Slots
        <5> QED BY <2>2, <5>1, <5>2, <5>3, <5>4 DEF Maps
      <4> QED BY <4>1, <4>2
    <3> QED BY <3>2 DEF AidInv
  <2> QED BY <1>7, <2>1, <2>2 DEF AssocAid
<1>8. ASSUME NEW p \in Peers, Deauth(p) PROVE AidInv'
  <2>1. FreeStainfo("ioctl", p)
    BY <1>8, Zenon DEF Deauth, ApFreeSta
  <2>2. p \in Peers
    BY <1>8 DEF Deauth, PcInv, Sets
  <2> QED BY <2>1, <2>2, FreeAid
<1>9. ASSUME NEW p \in Peers, FlushFree(p) PROVE AidInv'
  <2>1. FreeStainfo("flush", p)
    BY <1>9, Zenon DEF FlushFree
  <2>2. p \in Peers
    BY <1>9 DEF FlushFree, PcInv, Sets
  <2> QED BY <2>1, <2>2, FreeAid
<1>10. CASE AuthAdd \/ AuthAccept \/ AuthReject \/ AssocLeaveAuth \/ AssocAdd \/
   AssocJoin \/ AssocMark \/ AssocStore \/ ExpireStart \/ ExpireAuthLost \/
   ExpireAuthEnd \/ ExpireAsocNone \/ KeepAlive \/ FlushTake \/ UNCHANGED vars
  <2>1. UNCHANGED <<aid, sta_aid>>
    BY <1>10, Zenon DEF AuthAdd, AuthAccept, AuthReject, AssocLeaveAuth,
       DropAuth, AssocAdd, AssocJoin, AssocMark, AssocStore, StoreCount,
       ExpireStart, ExpireAuthLost, ExpireAuthEnd, ExpireAsocNone, KeepAlive,
       FlushTake, vars
  <2> QED BY <2>1 DEF AidInv
<1>11. ASSUME NEW p \in Peers, ExpireAuth(p) \/ ExpireAsoc(p) \/ AuthLookup(p)
   \/ AssocNoAid(p) \/ FlushMark(p) \/ PeerOff(p) PROVE AidInv'
  <2>1. UNCHANGED <<aid, sta_aid>>
    BY <1>11, Zenon DEF ExpireAuth, DropAuth, ExpireAsoc, AuthLookup,
       AssocNoAid, FlushMark, PeerOff
  <2> QED BY <2>1 DEF AidInv
<1> QED
  BY NextCases, <1>1, <1>2, <1>3, <1>4, <1>5, <1>6, <1>7, <1>8, <1>9, <1>10,
     <1>11

(* A set of stations is finite, and loses at most one station at a time.   *)
LEMMA OneLess ==
  ASSUME NEW S \in SUBSET Peers, NEW p
  PROVE  /\ Cardinality(S) \in Nat
         /\ Cardinality(S \ {p}) = IF p \in S THEN Cardinality(S) - 1 ELSE Cardinality(S)
         /\ Cardinality(S \cup {p}) = IF p \in S THEN Cardinality(S) ELSE Cardinality(S) + 1
<1>1. IsFiniteSet(S)
  BY PeersAssumption, FS_Subset
<1> QED BY <1>1, FS_CardinalityType, FS_RemoveElement, FS_AddElement

(* A set of stations without one is no larger.                             *)
LEMMA NotMore ==
  ASSUME NEW S \in SUBSET Peers, NEW p
  PROVE  /\ Cardinality(S) \in Nat /\ Cardinality(S \ {p}) \in Nat
         /\ Cardinality(S \ {p}) <= Cardinality(S)
         /\ Cardinality(S) <= Cardinality(S \ {p}) + 1
<1>1. S \ {p} \in SUBSET Peers
  OBVIOUS
<1>2. Cardinality(S) \in Nat /\ Cardinality(S \ {p}) \in Nat
  BY <1>1, OneLess
<1>3. Cardinality(S \ {p}) = IF p \in S THEN Cardinality(S) - 1 ELSE Cardinality(S)
  BY OneLess
<1> QED BY <1>2, <1>3

(* OnAssocReq is not storing the count before the step, nor after it.      *)
LEMMA ErpIdle ==
  ASSUME ErpInv, rx_pc # "assoc_store", rx_pc' # "assoc_store",
         UNCHANGED <<num_non_erp, non_erp, flush_sta, flush_cnt, miscounted>>
  PROVE  ErpInv'
  BY DEF ErpInv

(* A station is freed, and the count is not touched.                       *)
LEMMA FreeErp ==
  ASSUME Sets, Counts, ErpInv, NEW cx, NEW p, FreeStainfo(cx, p),
         UNCHANGED <<num_non_erp, rx_sta, rx_cnt, flush_sta, flush_cnt, miscounted>>,
         rx_pc' = rx_pc \/ (rx_pc # "assoc_store" /\ rx_pc' # "assoc_store")
  PROVE  ErpInv'
<1>1. non_erp' = non_erp \ {p}
  BY Zenon DEF FreeStainfo
<1>2. non_erp \in SUBSET Peers /\ non_erp \ {rx_sta} \in SUBSET Peers
  BY DEF Sets
<1>3. /\ Cardinality(non_erp) \in Nat /\ Cardinality(non_erp \ {p}) \in Nat
      /\ Cardinality(non_erp \ {p}) <= Cardinality(non_erp)
  BY <1>2, NotMore
<1>4. /\ Cardinality(non_erp \ {rx_sta}) \in Nat
      /\ Cardinality((non_erp \ {rx_sta}) \ {p}) \in Nat
      /\ Cardinality((non_erp \ {rx_sta}) \ {p}) <= Cardinality(non_erp \ {rx_sta})
  BY <1>2, NotMore
<1>5. non_erp' \ {rx_sta'} = (non_erp \ {rx_sta}) \ {p}
  BY <1>1
<1> QED BY <1>1, <1>3, <1>4, <1>5 DEF ErpInv, Counts

(* A station is freed under asoc_list_lock: it is counted down if it was   *)
(* counted, which neither OnAssocReq nor the flush may be doing then.      *)
LEMMA ApFreeErp ==
  ASSUME Sets, Counts, RacedInv, ErpInv, NEW cx \in {"exp", "ioctl"}, NEW p, ApFreeSta(cx, p),
         UNCHANGED <<rx_pc, rx_sta, rx_cnt, flush_sta, flush_cnt>>
  PROVE  ErpInv'
<1>1. /\ FreeStainfo(cx, p)
      /\ num_non_erp' = IF p \in non_erp THEN num_non_erp - 1 ELSE num_non_erp
  BY Zenon DEF ApFreeSta
<1>2. /\ miscounted => miscounted'
      /\ p \notin non_erp => miscounted' = miscounted
      /\ p \in non_erp /\ ~miscounted' => ~CountedBut(cx)
  BY Zenon DEF ApFreeSta, RacedInv
<1>3. CASE p \notin non_erp
  <2>1. UNCHANGED <<num_non_erp, miscounted>>
    BY <1>1, <1>2, <1>3
  <2> QED BY <1>1, <2>1, FreeErp
<1>4. CASE p \in non_erp /\ ~miscounted'
  <2>1. rx_pc # "assoc_store" /\ flush_sta = NoPeer /\ ~miscounted
    BY <1>2, <1>4 DEF CountedBut
  <2>2. non_erp' = non_erp \ {p}
    BY <1>1, Zenon DEF FreeStainfo
  <2>3. Cardinality(non_erp) \in Nat /\ Cardinality(non_erp \ {p}) = Cardinality(non_erp) - 1
    BY <1>4, OneLess DEF Sets
  <2>4. num_non_erp >= Cardinality(non_erp)
    BY <2>1 DEF ErpInv
  <2> QED BY <1>1, <1>4, <2>1, <2>2, <2>3, <2>4 DEF ErpInv, Counts
<1>5. CASE miscounted'
  BY <1>5 DEF ErpInv
<1> QED BY <1>3, <1>4, <1>5

(* Every step keeps the count of stations that need protection high enough,*)
(* until two contexts change it at once.                                   *)
LEMMA ErpStep ==
  ErpInv /\ Sets /\ Counts /\ PcInv /\ RacedInv /\ [Next]_vars => ErpInv'
<1> SUFFICES ASSUME ErpInv, Sets, Counts, PcInv, RacedInv, [Next]_vars PROVE ErpInv'
  OBVIOUS
<1> USE DEF table_vars, list_vars, rx_vars, exp_vars, flush_vars, history_vars
<1>1. CASE AuthAdd
  <2>1. /\ rx_pc = "auth_add" /\ rx_pc' = "auth_judge"
        /\ UNCHANGED <<num_non_erp, non_erp, flush_sta, flush_cnt, miscounted>>
    BY <1>1, Zenon DEF AuthAdd
  <2> QED BY <2>1, ErpIdle
<1>2. CASE AuthAccept
  <2>1. /\ rx_pc = "auth_judge" /\ rx_pc' = "idle"
        /\ UNCHANGED <<num_non_erp, non_erp, flush_sta, flush_cnt, miscounted>>
    BY <1>2, Zenon DEF AuthAccept
  <2> QED BY <2>1, ErpIdle
<1>3. CASE AuthReject
  <2>1. /\ rx_pc = "auth_judge" /\ rx_pc' = "auth_free"
        /\ UNCHANGED <<num_non_erp, non_erp, flush_sta, flush_cnt, miscounted>>
    BY <1>3, Zenon DEF AuthReject
  <2> QED BY <2>1, ErpIdle
<1>4. CASE AuthFree
  <2>1. /\ rx_pc = "auth_free" /\ rx_pc' = "idle" /\ non_erp' = non_erp \ {rx_sta}
        /\ UNCHANGED <<num_non_erp, flush_sta, flush_cnt, miscounted>>
    BY <1>4, Zenon DEF AuthFree, FreeStainfo
  <2>2. /\ Cardinality(non_erp) \in Nat /\ Cardinality(non_erp \ {rx_sta}) \in Nat
        /\ Cardinality(non_erp \ {rx_sta}) <= Cardinality(non_erp)
    BY NotMore DEF Sets
  <2> QED BY <2>1, <2>2 DEF ErpInv, Counts
<1>5. CASE AssocLeaveAuth
  <2>1. /\ rx_pc = "assoc_auth" /\ rx_pc' = "assoc_add"
        /\ UNCHANGED <<num_non_erp, non_erp, flush_sta, flush_cnt, miscounted>>
    BY <1>5, Zenon DEF AssocLeaveAuth
  <2> QED BY <2>1, ErpIdle
<1>6. CASE AssocAdd
  <2>1. /\ rx_pc = "assoc_add" /\ rx_pc' = "assoc_join"
        /\ UNCHANGED <<num_non_erp, non_erp, flush_sta, flush_cnt, miscounted>>
    BY <1>6, Zenon DEF AssocAdd
  <2> QED BY <2>1, ErpIdle
<1>7. CASE AssocJoin
  <2>1. /\ rx_pc = "assoc_join" /\ rx_pc' = "idle"
        /\ UNCHANGED <<num_non_erp, non_erp, flush_sta, flush_cnt, miscounted>>
    BY <1>7, Zenon DEF AssocJoin
  <2> QED BY <2>1, ErpIdle
<1>8. CASE AssocMark
  <2>1. /\ rx_pc = "assoc_join" /\ rx_pc' = "assoc_store"
        /\ UNCHANGED <<num_non_erp, rx_sta, flush_sta, flush_cnt>>
        /\ \/ /\ rx_sta \in NonErp \ non_erp
              /\ non_erp' = non_erp \cup {rx_sta} /\ rx_cnt' = num_non_erp + 1
           \/ /\ rx_sta \in non_erp
              /\ non_erp' = non_erp \ {rx_sta} /\ rx_cnt' = num_non_erp - 1
    BY <1>8 DEF AssocMark
  <2>2. ~miscounted' => ~miscounted /\ ~CountedBut("rx")
    BY <1>8, Zenon DEF AssocMark
  <2> SUFFICES ASSUME ~miscounted' PROVE ErpInv'
    BY DEF ErpInv
  <2>3. flush_sta = NoPeer /\ num_non_erp >= Cardinality(non_erp)
    BY <2>1, <2>2 DEF CountedBut, ErpInv
  <2>4. /\ Cardinality(non_erp) \in Nat
        /\ Cardinality(non_erp \ {rx_sta}) = IF rx_sta \in non_erp THEN Cardinality(non_erp) - 1 ELSE Cardinality(non_erp)
    BY OneLess DEF Sets
  <2>5. CASE /\ rx_sta \in NonErp \ non_erp
             /\ non_erp' = non_erp \cup {rx_sta} /\ rx_cnt' = num_non_erp + 1
    <3>1. non_erp' \ {rx_sta'} = non_erp
      BY <2>1, <2>5
    <3> QED BY <2>1, <2>3, <2>5, <3>1 DEF ErpInv, Counts
  <2>6. CASE /\ rx_sta \in non_erp
             /\ non_erp' = non_erp \ {rx_sta} /\ rx_cnt' = num_non_erp - 1
    BY <2>1, <2>3, <2>4, <2>6 DEF ErpInv, Counts
  <2> QED BY <2>1, <2>5, <2>6
<1>9. CASE AssocStore
  <2>1. /\ rx_pc = "assoc_store" /\ rx_pc' = "idle" /\ UNCHANGED <<non_erp, flush_sta>>
        /\ num_non_erp' \in {rx_cnt} \cup (IF miscounted THEN {num_non_erp} ELSE {})
    BY <1>9 DEF AssocStore, StoreCount
  <2>2. miscounted' = miscounted
    BY <1>9, Zenon DEF AssocStore
  <2>3. CASE miscounted
    BY <2>2, <2>3 DEF ErpInv
  <2>4. CASE ~miscounted
    <3>1. num_non_erp' = rx_cnt
      BY <2>1, <2>4
    <3>2. /\ Cardinality(non_erp) \in Nat /\ Cardinality(non_erp \ {rx_sta}) \in Nat
          /\ Cardinality(non_erp) <= Cardinality(non_erp \ {rx_sta}) + 1
      BY NotMore DEF Sets
    <3> QED BY <2>1, <2>4, <3>1, <3>2 DEF ErpInv, Counts
  <2> QED BY <2>3, <2>4
<1>10. CASE ExpireAuthFree
  <2>1. /\ FreeStainfo("exp", exp_sta)
        /\ UNCHANGED <<num_non_erp, rx_pc, rx_sta, rx_cnt, flush_sta, flush_cnt, miscounted>>
    BY <1>10, Zenon DEF ExpireAuthFree
  <2> QED BY <2>1, FreeErp
<1>11. CASE KeepDead
  <2>1. UNCHANGED <<rx_pc, rx_sta, rx_cnt, flush_sta, flush_cnt>>
    BY <1>11, Zenon DEF KeepDead
  <2>2. CASE exp_sta \in asoc_list
    <3>1. ApFreeSta("exp", exp_sta)
      BY <1>11, <2>2, Zenon DEF KeepDead
    <3> QED BY <2>1, <3>1, ApFreeErp
  <2>3. CASE exp_sta \notin asoc_list
    <3>1. UNCHANGED <<num_non_erp, non_erp, miscounted>>
      BY <1>11, <2>3, Zenon DEF KeepDead
    <3> QED BY <2>1, <3>1 DEF ErpInv
  <2> QED BY <2>2, <2>3
<1>12. CASE FreeAll
  <2>1. non_erp' = {} /\ UNCHANGED <<num_non_erp, rx_pc, rx_sta, rx_cnt, flush_sta, flush_cnt>>
    BY <1>12 DEF FreeAll
  <2>2. miscounted' = miscounted
    BY <1>12, Zenon DEF FreeAll
  <2>3. Cardinality(non_erp) \in Nat /\ Cardinality(non_erp \ {rx_sta}) \in Nat /\ Cardinality({}) = 0
    BY NotMore, FS_EmptySet DEF Sets
  <2>4. non_erp' = {} /\ non_erp' \ {rx_sta'} = {}
    BY <2>1
  <2> QED BY <2>1, <2>2, <2>3, <2>4 DEF ErpInv, Counts
<1>13. ASSUME NEW p \in Peers, ExpireAsocFree(p) PROVE ErpInv'
  <2>1. ApFreeSta("exp", p) /\ UNCHANGED <<rx_pc, rx_sta, rx_cnt, flush_sta, flush_cnt>>
    BY <1>13, Zenon DEF ExpireAsocFree
  <2> QED BY <2>1, ApFreeErp
<1>14. ASSUME NEW p \in Peers, AuthLookup(p) PROVE ErpInv'
  <2>1. /\ rx_pc = "idle" /\ rx_pc' = "auth_add"
        /\ UNCHANGED <<num_non_erp, non_erp, flush_sta, flush_cnt, miscounted>>
    BY <1>14, Zenon DEF AuthLookup
  <2> QED BY <2>1, ErpIdle
<1>15. ASSUME NEW p \in Peers, AssocAid(p) PROVE ErpInv'
  <2>1. /\ rx_pc = "idle" /\ rx_pc' = "assoc_auth"
        /\ UNCHANGED <<num_non_erp, non_erp, flush_sta, flush_cnt, miscounted>>
    BY <1>15, Zenon DEF AssocAid, MayAssociate
  <2> QED BY <2>1, ErpIdle
<1>16. ASSUME NEW p \in Peers, Deauth(p) PROVE ErpInv'
  <2>1. ApFreeSta("ioctl", p) /\ UNCHANGED <<rx_pc, rx_sta, rx_cnt, flush_sta, flush_cnt>>
    BY <1>16, Zenon DEF Deauth
  <2> QED BY <2>1, ApFreeErp
<1>17. ASSUME NEW p \in Peers, FlushMark(p) PROVE ErpInv'
  <2>1. /\ p \in non_erp /\ flush_sta = NoPeer /\ flush_sta' = p /\ flush_cnt' = num_non_erp - 1
        /\ non_erp' = non_erp \ {p} /\ UNCHANGED <<num_non_erp, rx_pc>>
    BY <1>17 DEF FlushMark
  <2>2. ~miscounted' => ~miscounted /\ ~CountedBut("flush")
    BY <1>17, Zenon DEF FlushMark
  <2> SUFFICES ASSUME ~miscounted' PROVE ErpInv'
    BY DEF ErpInv
  <2>3. rx_pc # "assoc_store" /\ num_non_erp >= Cardinality(non_erp)
    BY <2>1, <2>2 DEF CountedBut, ErpInv
  <2>4. Cardinality(non_erp) \in Nat /\ Cardinality(non_erp \ {p}) = Cardinality(non_erp) - 1
    BY <2>1, OneLess DEF Sets
  <2> QED BY <2>1, <2>3, <2>4, PeersAssumption DEF ErpInv, Counts
<1>18. ASSUME NEW p \in Peers, FlushFree(p) PROVE ErpInv'
  <2>1. /\ flush_sta' = NoPeer /\ UNCHANGED <<rx_pc, rx_sta, rx_cnt>> /\ non_erp' = non_erp \ {p}
        /\ \/ flush_sta = p /\ num_non_erp' \in {flush_cnt} \cup (IF miscounted THEN {num_non_erp} ELSE {})
           \/ flush_sta = NoPeer /\ p \notin non_erp /\ num_non_erp' = num_non_erp
    BY <1>18 DEF FlushFree, FreeStainfo, StoreCount
  <2>2. miscounted' = miscounted
    BY <1>18, Zenon DEF FlushFree
  <2>3. CASE miscounted
    BY <2>2, <2>3 DEF ErpInv
  <2>4. CASE ~miscounted /\ flush_sta = p
    <3>1. num_non_erp' = flush_cnt
      BY <2>1, <2>4, PeersAssumption
    <3>2. /\ Cardinality(non_erp) \in Nat /\ Cardinality(non_erp \ {p}) \in Nat
          /\ Cardinality(non_erp \ {p}) <= Cardinality(non_erp)
      BY NotMore DEF Sets
    <3> QED BY <2>1, <2>4, <3>1, <3>2, PeersAssumption DEF ErpInv, Counts
  <2>5. CASE ~miscounted /\ flush_sta # p
    <3>1. flush_sta = NoPeer /\ non_erp' = non_erp /\ num_non_erp' = num_non_erp
      BY <2>1, <2>5
    <3> QED BY <2>1, <2>2, <2>5, <3>1 DEF ErpInv
  <2> QED BY <2>3, <2>4, <2>5
<1>19. CASE ExpireStart \/ ExpireAuthLost \/ ExpireAuthEnd \/ ExpireAsocNone \/
   KeepAlive \/ FlushTake \/ UNCHANGED vars
  <2>1. UNCHANGED <<num_non_erp, non_erp, rx_pc, rx_sta, rx_cnt, flush_sta,
     flush_cnt, miscounted>>
    BY <1>19, Zenon DEF ExpireStart, ExpireAuthLost, ExpireAuthEnd,
       ExpireAsocNone, KeepAlive, FlushTake, vars
  <2> QED BY <2>1 DEF ErpInv
<1>20. ASSUME NEW p \in Peers, ExpireAuth(p) \/ ExpireAsoc(p) \/ AssocReject(p)
   \/ AssocNoAid(p) \/ PeerOff(p) PROVE ErpInv'
  <2>1. UNCHANGED <<num_non_erp, non_erp, rx_pc, rx_sta, rx_cnt, flush_sta,
     flush_cnt, miscounted>>
    BY <1>20, Zenon DEF ExpireAuth, DropAuth, ExpireAsoc, AssocReject,
       AssocNoAid, PeerOff
  <2> QED BY <2>1 DEF ErpInv
<1> QED
  BY NextCases, <1>1, <1>2, <1>3, <1>4, <1>5, <1>6, <1>7, <1>8, <1>9, <1>10,
     <1>11, <1>12, <1>13, <1>14, <1>15, <1>16, <1>17, <1>18, <1>19, <1>20

(***************************************************************************)
(* The lists and the pool.                                                 *)
(***************************************************************************)
(* A walk of auth_list finds the stations of it.                           *)
LEMMA WalkFacts ==
  ASSUME AuthInv, NEW p, ExpireAuth(p)
  PROVE  p \in ToSet(auth_list)
<1>1. PICK j \in DOMAIN auth_list : auth_list[j] = p
  BY DEF ExpireAuth
<1> QED BY <1>1 DEF ToSet

(* AuthAdd puts the station at the end of auth_list unless it is there.    *)
LEMMA AddFacts ==
  ASSUME AuthInv, PcInv, AuthAdd
  PROVE  ToSet(auth_list') = ToSet(auth_list) \cup {rx_sta}
<1>1. rx_sta \in Peers
  BY DEF AuthAdd, PcInv
<1>2. CASE InAuth(rx_sta)
  BY <1>2 DEF AuthAdd, InAuth, ToSet
<1>3. CASE ~InAuth(rx_sta)
  <2>1. auth_list' = Append(auth_list, rx_sta)
    BY <1>3 DEF AuthAdd
  <2> QED BY <1>1, <2>1, AppendFacts DEF AuthInv
<1> QED BY <1>2, <1>3

(* Until two contexts race for a station, every step keeps each station where*)
(* it can be found.                                                        *)
LEMMA PlaceStep == PlaceInv /\ Sets /\ PcInv /\ AuthInv /\ [Next]_vars => PlaceInv'
<1> SUFFICES ASSUME PlaceInv, Sets, PcInv, AuthInv, [Next]_vars PROVE PlaceInv'
  OBVIOUS
<1> USE DEF table_vars, list_vars, rx_vars, exp_vars, flush_vars, history_vars
<1>1. CASE AuthAdd
  <2> SUFFICES ASSUME ~raced', NEW q \in Peers PROVE Place(q)'
    BY Zenon DEF PlaceInv
  <2>2. ~raced
    BY <1>1, Zenon DEF AuthAdd
  <2>3. /\ rx_pc = "auth_add" /\ rx_pc' = "auth_judge"
     /\ ToSet(auth_list') = ToSet(auth_list) \cup {rx_sta}
     /\ UNCHANGED <<table, asoc_list, flush_set, rx_sta, exp_pc, exp_sta>>
    BY <1>1, AddFacts DEF AuthAdd
  <2>4. Place(q)
    BY <2>2 DEF PlaceInv
  <2> QED BY <2>2, <2>3, <2>4, PeersAssumption DEF Place, PcInv
<1>2. CASE AuthAccept
  <2> SUFFICES ASSUME ~raced', NEW q \in Peers PROVE Place(q)'
    BY Zenon DEF PlaceInv
  <2>2. ~raced
    BY <1>2, Zenon DEF AuthAccept
  <2>3. /\ rx_pc = "auth_judge"
     /\ rx_pc' = "idle" /\ rx_sta' = NoPeer
     /\ UNCHANGED <<table, auth_list, asoc_list, flush_set, exp_pc, exp_sta>>
    BY <1>2 DEF AuthAccept
  <2>4. Place(q)
    BY <2>2 DEF PlaceInv
  <2> QED BY <2>2, <2>3, <2>4, PeersAssumption DEF Place, PcInv
<1>3. CASE AuthReject
  <2> SUFFICES ASSUME ~raced', NEW q \in Peers PROVE Place(q)'
    BY Zenon DEF PlaceInv
  <2>2. ~raced
    BY <1>3, Zenon DEF AuthReject
  <2>3. /\ rx_pc = "auth_judge" /\ rx_pc' = "auth_free"
     /\ UNCHANGED <<table, auth_list, asoc_list, flush_set, rx_sta, exp_pc, exp_sta>>
    BY <1>3 DEF AuthReject
  <2>4. Place(q)
    BY <2>2 DEF PlaceInv
  <2> QED BY <2>2, <2>3, <2>4, PeersAssumption DEF Place, PcInv
<1>4. CASE AuthFree
  <2> SUFFICES ASSUME ~raced', NEW q \in Peers PROVE Place(q)'
    BY Zenon DEF PlaceInv
  <2>1. FreeStainfo("rx", rx_sta) /\ DropAuth(rx_sta)
    BY <1>4, Zenon DEF AuthFree
  <2>2. /\ ~raced /\ ~HeldBut("rx", rx_sta) /\ rx_sta \notin asoc_list' /\ table' = table \ {rx_sta}
       /\ ToSet(auth_list') = ToSet(auth_list) \ {rx_sta}
    BY <2>1, FreeAlone, DropAuthFacts, Zenon
  <2>3. /\ rx_pc = "auth_free"
     /\ rx_pc' = "idle" /\ rx_sta' = NoPeer
     /\ UNCHANGED <<asoc_list, flush_set, exp_pc, exp_sta>>
    BY <1>4 DEF AuthFree
  <2>4. Place(q)
    BY <2>2 DEF PlaceInv
  <2> QED BY <2>2, <2>3, <2>4, PeersAssumption DEF Place, PcInv, HeldBut
<1>5. CASE AssocLeaveAuth
  <2> SUFFICES ASSUME ~raced', NEW q \in Peers PROVE Place(q)'
    BY Zenon DEF PlaceInv
  <2>1. ToSet(auth_list') = ToSet(auth_list) \ {rx_sta}
    BY <1>5, DropAuthFacts DEF AssocLeaveAuth
  <2>2. ~raced
    BY <1>5, Zenon DEF AssocLeaveAuth
  <2>3. /\ rx_pc = "assoc_auth" /\ rx_pc' = "assoc_add"
     /\ UNCHANGED <<table, asoc_list, flush_set, rx_sta, exp_pc, exp_sta>>
    BY <1>5 DEF AssocLeaveAuth
  <2>4. Place(q)
    BY <2>2 DEF PlaceInv
  <2> QED BY <2>2, <2>3, <2>1, <2>4, PeersAssumption DEF Place, PcInv
<1>6. CASE AssocAdd
  <2> SUFFICES ASSUME ~raced', NEW q \in Peers PROVE Place(q)'
    BY Zenon DEF PlaceInv
  <2>2. ~raced
    BY <1>6, Zenon DEF AssocAdd
  <2>3. /\ rx_pc = "assoc_add" /\ rx_pc' = "assoc_join"
     /\ asoc_list' = asoc_list \cup {rx_sta}
     /\ UNCHANGED <<table, auth_list, flush_set, rx_sta, exp_pc, exp_sta>>
    BY <1>6 DEF AssocAdd
  <2>4. Place(q)
    BY <2>2 DEF PlaceInv
  <2> QED BY <2>2, <2>3, <2>4, PeersAssumption DEF Place, PcInv
<1>7. CASE AssocJoin
  <2> SUFFICES ASSUME ~raced', NEW q \in Peers PROVE Place(q)'
    BY Zenon DEF PlaceInv
  <2>2. ~raced
    BY <1>7, Zenon DEF AssocJoin
  <2>3. /\ rx_pc = "assoc_join"
     /\ rx_pc' = "idle" /\ rx_sta' = NoPeer
     /\ UNCHANGED <<table, auth_list, asoc_list, flush_set, exp_pc, exp_sta>>
    BY <1>7 DEF AssocJoin
  <2>4. Place(q)
    BY <2>2 DEF PlaceInv
  <2> QED BY <2>2, <2>3, <2>4, PeersAssumption DEF Place, PcInv
<1>8. CASE AssocMark
  <2> SUFFICES ASSUME ~raced', NEW q \in Peers PROVE Place(q)'
    BY Zenon DEF PlaceInv
  <2>2. ~raced
    BY <1>8, Zenon DEF AssocMark
  <2>3. /\ rx_pc = "assoc_join" /\ rx_pc' = "assoc_store"
     /\ UNCHANGED <<table, auth_list, asoc_list, flush_set, rx_sta, exp_pc, exp_sta>>
    BY <1>8 DEF AssocMark
  <2>4. Place(q)
    BY <2>2 DEF PlaceInv
  <2> QED BY <2>2, <2>3, <2>4, PeersAssumption DEF Place, PcInv
<1>9. CASE AssocStore
  <2> SUFFICES ASSUME ~raced', NEW q \in Peers PROVE Place(q)'
    BY Zenon DEF PlaceInv
  <2>2. ~raced
    BY <1>9, Zenon DEF AssocStore
  <2>3. /\ rx_pc = "assoc_store"
     /\ rx_pc' = "idle" /\ rx_sta' = NoPeer
     /\ UNCHANGED <<table, auth_list, asoc_list, flush_set, exp_pc, exp_sta>>
    BY <1>9 DEF AssocStore
  <2>4. Place(q)
    BY <2>2 DEF PlaceInv
  <2> QED BY <2>2, <2>3, <2>4, PeersAssumption DEF Place, PcInv
<1>10. CASE ExpireStart
  <2> SUFFICES ASSUME ~raced', NEW q \in Peers PROVE Place(q)'
    BY Zenon DEF PlaceInv
  <2>2. ~raced
    BY <1>10, Zenon DEF ExpireStart
  <2>3. /\ exp_pc = "idle" /\ exp_pc' = "auth"
     /\ UNCHANGED <<table, auth_list, asoc_list, flush_set, rx_pc, rx_sta, exp_sta>>
    BY <1>10 DEF ExpireStart
  <2>4. Place(q)
    BY <2>2 DEF PlaceInv
  <2> QED BY <2>2, <2>3, <2>4, PeersAssumption DEF Place, PcInv
<1>11. CASE ExpireAuthLost
  <2>1. raced'
    BY <1>11, Zenon DEF ExpireAuthLost
  <2> QED BY <2>1, Zenon DEF PlaceInv
<1>12. CASE ExpireAuthFree
  <2> SUFFICES ASSUME ~raced', NEW q \in Peers PROVE Place(q)'
    BY Zenon DEF PlaceInv
  <2>1. FreeStainfo("exp", exp_sta) /\ DropAuth(exp_sta)
    BY <1>12, Zenon DEF ExpireAuthFree
  <2>2. /\ ~raced /\ ~HeldBut("exp", exp_sta) /\ exp_sta \notin asoc_list' /\ table' = table \ {exp_sta}
       /\ ToSet(auth_list') = ToSet(auth_list) \ {exp_sta}
    BY <2>1, FreeAlone, DropAuthFacts, Zenon
  <2>3. /\ exp_pc = "free" /\ exp_pc' = "auth" /\ exp_sta' = NoPeer
     /\ UNCHANGED <<asoc_list, flush_set, rx_pc, rx_sta>>
    BY <1>12 DEF ExpireAuthFree
  <2>4. Place(q)
    BY <2>2 DEF PlaceInv
  <2> QED BY <2>2, <2>3, <2>4, PeersAssumption DEF Place, PcInv, HeldBut
<1>13. CASE ExpireAuthEnd
  <2> SUFFICES ASSUME ~raced', NEW q \in Peers PROVE Place(q)'
    BY Zenon DEF PlaceInv
  <2>2. ~raced
    BY <1>13, Zenon DEF ExpireAuthEnd
  <2>3. /\ exp_pc = "auth" /\ exp_pc' = "asoc"
     /\ UNCHANGED <<table, auth_list, asoc_list, flush_set, rx_pc, rx_sta, exp_sta>>
    BY <1>13 DEF ExpireAuthEnd
  <2>4. Place(q)
    BY <2>2 DEF PlaceInv
  <2> QED BY <2>2, <2>3, <2>4, PeersAssumption DEF Place, PcInv
<1>14. CASE ExpireAsocNone
  <2> SUFFICES ASSUME ~raced', NEW q \in Peers PROVE Place(q)'
    BY Zenon DEF PlaceInv
  <2>2. ~raced
    BY <1>14, Zenon DEF ExpireAsocNone
  <2>3. /\ exp_pc = "asoc" /\ exp_pc' = "idle"
     /\ UNCHANGED <<table, auth_list, asoc_list, flush_set, rx_pc, rx_sta, exp_sta>>
    BY <1>14 DEF ExpireAsocNone
  <2>4. Place(q)
    BY <2>2 DEF PlaceInv
  <2> QED BY <2>2, <2>3, <2>4, PeersAssumption DEF Place, PcInv
<1>15. CASE KeepAlive
  <2> SUFFICES ASSUME ~raced', NEW q \in Peers PROVE Place(q)'
    BY Zenon DEF PlaceInv
  <2>2. ~raced
    BY <1>15, Zenon DEF KeepAlive
  <2>3. /\ exp_pc = "keep" /\ exp_pc' = "idle" /\ exp_sta' = NoPeer
     /\ UNCHANGED <<table, auth_list, asoc_list, flush_set, rx_pc, rx_sta>>
    BY <1>15 DEF KeepAlive
  <2>4. Place(q)
    BY <2>2 DEF PlaceInv
  <2> QED BY <2>2, <2>3, <2>4, PeersAssumption DEF Place, PcInv
<1>16. CASE KeepDead
  <2>1. CASE exp_sta \in asoc_list
    <3> SUFFICES ASSUME ~raced', NEW q \in Peers PROVE Place(q)'
      BY Zenon DEF PlaceInv
    <3>1. FreeStainfo("exp", exp_sta) /\ DropAuth(exp_sta)
      BY <1>16, <2>1, Zenon DEF KeepDead, ApFreeSta
    <3>2. /\ ~raced /\ ~HeldBut("exp", exp_sta) /\ exp_sta \notin asoc_list' /\ table' = table \ {exp_sta}
         /\ ToSet(auth_list') = ToSet(auth_list) \ {exp_sta}
      BY <3>1, FreeAlone, DropAuthFacts, Zenon
    <3>3. /\ exp_pc = "keep" /\ exp_pc' = "idle" /\ exp_sta' = NoPeer
     /\ asoc_list' = asoc_list \ {exp_sta}
     /\ UNCHANGED <<flush_set, rx_pc, rx_sta>>
      BY <1>16, <2>1 DEF KeepDead, ApFreeSta
    <3>4. Place(q)
      BY <3>2 DEF PlaceInv
    <3> QED BY <3>2, <3>3, <3>4, PeersAssumption DEF Place, PcInv, HeldBut
  <2>2. CASE exp_sta \notin asoc_list
    <3> SUFFICES ASSUME ~raced', NEW q \in Peers PROVE Place(q)'
      BY Zenon DEF PlaceInv
    <3>2. ~raced
      BY <1>16, <2>2, Zenon DEF KeepDead, ApFreeSta
    <3>3. /\ exp_pc = "keep" /\ exp_pc' = "idle" /\ exp_sta' = NoPeer
     /\ UNCHANGED <<table, auth_list, asoc_list, flush_set, rx_pc, rx_sta>>
      BY <1>16, <2>2 DEF KeepDead, ApFreeSta
    <3>4. Place(q)
      BY <3>2 DEF PlaceInv
    <3> QED BY <3>2, <3>3, <3>4, PeersAssumption DEF Place, PcInv
  <2> QED BY <2>1, <2>2
<1>17. CASE FlushTake
  <2> SUFFICES ASSUME ~raced', NEW q \in Peers PROVE Place(q)'
    BY Zenon DEF PlaceInv
  <2>2. ~raced
    BY <1>17, Zenon DEF FlushTake
  <2>3. /\ flush_set = {} /\ flush_set' = asoc_list /\ asoc_list' = {}
     /\ UNCHANGED <<table, auth_list, rx_pc, rx_sta, exp_pc, exp_sta>>
    BY <1>17 DEF FlushTake
  <2>4. Place(q)
    BY <2>2 DEF PlaceInv
  <2> QED BY <2>2, <2>3, <2>4, PeersAssumption DEF Place, PcInv
<1>18. CASE FreeAll
  <2> SUFFICES ASSUME ~raced', NEW q \in Peers PROVE Place(q)'
    BY Zenon DEF PlaceInv
  <2>1. ~(raced \/ asoc_list # {} \/ \E p \in table : HeldBut("ioctl", p))
    BY <1>18, Zenon DEF FreeAll
  <2>2. ~raced /\ asoc_list = {} /\ \A p \in table : ~HeldBut("ioctl", p)
    BY <2>1, Zenon
  <2>3. /\ flush_set = {} /\ table' = {} /\ auth_list' = <<>>
        /\ UNCHANGED <<asoc_list, rx_pc, rx_sta, exp_pc, exp_sta, flush_set>>
    BY <1>18 DEF FreeAll
  <2>4. Place(q) /\ ToSet(<<>>) = {}
    BY <2>2 DEF PlaceInv, ToSet
  <2> QED BY <2>2, <2>3, <2>4, PeersAssumption DEF Place, PcInv, HeldBut
<1>19. ASSUME NEW p \in Peers, ExpireAuth(p) PROVE PlaceInv'
  <2> SUFFICES ASSUME ~raced', NEW q \in Peers PROVE Place(q)'
    BY Zenon DEF PlaceInv
  <2>1. ToSet(auth_list') = ToSet(auth_list) \ {p}
    BY <1>19, DropAuthFacts DEF ExpireAuth
  <2>2. ~raced
    BY <1>19, Zenon DEF ExpireAuth
  <2>3. /\ exp_pc = "auth" /\ exp_pc' = "free" /\ exp_sta' = p
     /\ p \in ToSet(auth_list)
     /\ UNCHANGED <<table, asoc_list, flush_set, rx_pc, rx_sta>>
    BY <1>19, WalkFacts DEF ExpireAuth
  <2>4. Place(q)
    BY <2>2 DEF PlaceInv
  <2> QED BY <2>2, <2>3, <2>1, <2>4, PeersAssumption DEF Place, PcInv
<1>20. ASSUME NEW p \in Peers, ExpireAsoc(p) PROVE PlaceInv'
  <2> SUFFICES ASSUME ~raced', NEW q \in Peers PROVE Place(q)'
    BY Zenon DEF PlaceInv
  <2>2. ~raced
    BY <1>20, Zenon DEF ExpireAsoc
  <2>3. /\ exp_pc = "asoc" /\ exp_pc' = "keep" /\ exp_sta' = p
     /\ UNCHANGED <<table, auth_list, asoc_list, flush_set, rx_pc, rx_sta>>
    BY <1>20 DEF ExpireAsoc
  <2>4. Place(q)
    BY <2>2 DEF PlaceInv
  <2> QED BY <2>2, <2>3, <2>4, PeersAssumption DEF Place, PcInv
<1>21. ASSUME NEW p \in Peers, ExpireAsocFree(p) PROVE PlaceInv'
  <2> SUFFICES ASSUME ~raced', NEW q \in Peers PROVE Place(q)'
    BY Zenon DEF PlaceInv
  <2>1. FreeStainfo("exp", p) /\ DropAuth(p)
    BY <1>21, Zenon DEF ExpireAsocFree, ApFreeSta
  <2>2. /\ ~raced /\ ~HeldBut("exp", p) /\ p \notin asoc_list' /\ table' = table \ {p}
       /\ ToSet(auth_list') = ToSet(auth_list) \ {p}
    BY <2>1, FreeAlone, DropAuthFacts, Zenon
  <2>3. /\ exp_pc = "asoc" /\ exp_pc' = "idle"
     /\ p \in asoc_list /\ asoc_list' = asoc_list \ {p}
     /\ UNCHANGED <<flush_set, rx_pc, rx_sta, exp_sta>>
    BY <1>21 DEF ExpireAsocFree, ApFreeSta
  <2>4. Place(q)
    BY <2>2 DEF PlaceInv
  <2> QED BY <2>2, <2>3, <2>4, PeersAssumption DEF Place, PcInv, HeldBut
<1>22. ASSUME NEW p \in Peers, AuthLookup(p) PROVE PlaceInv'
  <2> SUFFICES ASSUME ~raced', NEW q \in Peers PROVE Place(q)'
    BY Zenon DEF PlaceInv
  <2>2. ~raced
    BY <1>22, Zenon DEF AuthLookup
  <2>3. /\ rx_pc = "idle" /\ rx_pc' = "auth_add" /\ rx_sta' = p
     /\ \/ p \in table /\ asoc_list' = asoc_list \ {p} /\ table' = table
        \/ p \notin table /\ asoc_list' = asoc_list /\ table' = table \cup {p}
     /\ UNCHANGED <<auth_list, flush_set, exp_pc, exp_sta>>
    BY <1>22 DEF AuthLookup
  <2>4. Place(q)
    BY <2>2 DEF PlaceInv
  <2> QED BY <2>2, <2>3, <2>4, PeersAssumption DEF Place, PcInv
<1>23. ASSUME NEW p \in Peers, AssocAid(p) PROVE PlaceInv'
  <2> SUFFICES ASSUME ~raced', NEW q \in Peers PROVE Place(q)'
    BY Zenon DEF PlaceInv
  <2>2. ~raced
    BY <1>23, Zenon DEF AssocAid, MayAssociate
  <2>3. /\ rx_pc = "idle" /\ rx_pc' = "assoc_auth" /\ rx_sta' = p
     /\ p \in table
     /\ UNCHANGED <<table, auth_list, asoc_list, flush_set, exp_pc, exp_sta>>
    BY <1>23 DEF AssocAid, MayAssociate
  <2>4. Place(q)
    BY <2>2 DEF PlaceInv
  <2> QED BY <2>2, <2>3, <2>4, PeersAssumption DEF Place, PcInv
<1>24. ASSUME NEW p \in Peers, Deauth(p) PROVE PlaceInv'
  <2> SUFFICES ASSUME ~raced', NEW q \in Peers PROVE Place(q)'
    BY Zenon DEF PlaceInv
  <2>1. FreeStainfo("ioctl", p) /\ DropAuth(p)
    BY <1>24, Zenon DEF Deauth, ApFreeSta
  <2>2. /\ ~raced /\ ~HeldBut("ioctl", p) /\ p \notin asoc_list' /\ table' = table \ {p}
       /\ ToSet(auth_list') = ToSet(auth_list) \ {p}
    BY <2>1, FreeAlone, DropAuthFacts, Zenon
  <2>3. /\ p \in asoc_list /\ asoc_list' = asoc_list \ {p}
     /\ UNCHANGED <<flush_set, rx_pc, rx_sta, exp_pc, exp_sta>>
    BY <1>24 DEF Deauth, ApFreeSta
  <2>4. Place(q)
    BY <2>2 DEF PlaceInv
  <2> QED BY <2>2, <2>3, <2>4, PeersAssumption DEF Place, PcInv, HeldBut
<1>25. ASSUME NEW p \in Peers, FlushFree(p) PROVE PlaceInv'
  <2> SUFFICES ASSUME ~raced', NEW q \in Peers PROVE Place(q)'
    BY Zenon DEF PlaceInv
  <2>1. FreeStainfo("flush", p) /\ DropAuth(p)
    BY <1>25, Zenon DEF FlushFree
  <2>2. /\ ~raced /\ ~HeldBut("flush", p) /\ p \notin asoc_list' /\ table' = table \ {p}
       /\ ToSet(auth_list') = ToSet(auth_list) \ {p}
    BY <2>1, FreeAlone, DropAuthFacts, Zenon
  <2>3. /\ p \in flush_set /\ flush_set' = flush_set \ {p}
     /\ UNCHANGED <<asoc_list, rx_pc, rx_sta, exp_pc, exp_sta>>
    BY <1>25 DEF FlushFree
  <2>4. Place(q)
    BY <2>2 DEF PlaceInv
  <2> QED BY <2>2, <2>3, <2>4, PeersAssumption DEF Place, PcInv, HeldBut
<1>26. ASSUME NEW p \in Peers, AssocReject(p) \/ AssocNoAid(p) \/ FlushMark(p)
   \/ PeerOff(p) PROVE PlaceInv'
  <2>1. UNCHANGED <<raced, table, auth_list, asoc_list, flush_set, rx_pc,
     rx_sta, exp_pc, exp_sta>>
    BY <1>26, Zenon DEF AssocReject, AssocNoAid, FlushMark, PeerOff
  <2> QED BY <2>1 DEF PlaceInv, Place
<1>27. CASE UNCHANGED vars
  <2>1. UNCHANGED <<raced, table, auth_list, asoc_list, flush_set, rx_pc,
     rx_sta, exp_pc, exp_sta>>
    BY <1>27, Zenon DEF vars
  <2> QED BY <2>1 DEF PlaceInv, Place
<1> QED
  BY NextCases, <1>1, <1>2, <1>3, <1>4, <1>5, <1>6, <1>7, <1>8, <1>9, <1>10,
     <1>11, <1>12, <1>13, <1>14, <1>15, <1>16, <1>17, <1>18, <1>19, <1>20,
     <1>21, <1>22, <1>23, <1>24, <1>25, <1>26, <1>27

(* rtw_free_stainfo gives back at most the place of one station, which was *)
(* in the table.                                                           *)
LEMMA FreePool ==
  ASSUME Sets, Counts, PoolInv, PlaceInv, NEW cx, NEW p, FreeStainfo(cx, p),
         ~raced => p \in table
  PROVE  PoolInv'
<1> SUFFICES ASSUME ~raced'
             PROVE  count' = Cardinality(table') /\ count' + free_cnt' <= PoolSize
  BY Zenon DEF PoolInv
<1>1. ~raced /\ table' = table \ {p}
  BY FreeAlone, Zenon
<1>2. p \in table /\ count = Cardinality(table) /\ count + free_cnt <= PoolSize
  BY <1>1 DEF PoolInv
<1>3. count' = count - 1 /\ (free_cnt' = free_cnt \/ free_cnt' = free_cnt + 1)
  BY DEF FreeStainfo
<1>4. Cardinality(table) \in Nat /\ Cardinality(table \ {p}) = Cardinality(table) - 1
  BY <1>2, OneLess DEF Sets
<1> QED BY <1>1, <1>2, <1>3, <1>4, LimitAssumption DEF Counts

(* Until two contexts race for a station, every step keeps the pool in step*)
(* with the table.                                                         *)
LEMMA PoolStep ==
  PoolInv /\ PlaceInv /\ Sets /\ Counts /\ PcInv /\ [Next]_vars => PoolInv'
<1> SUFFICES ASSUME PoolInv, PlaceInv, Sets, Counts, PcInv, [Next]_vars PROVE PoolInv'
  OBVIOUS
<1> USE DEF table_vars, list_vars, rx_vars, exp_vars, flush_vars, history_vars
<1>1. CASE AuthFree
  <2>1. FreeStainfo("rx", rx_sta)
    BY <1>1, Zenon DEF AuthFree
  <2>2. ~raced => rx_sta \in table
    BY <1>1 DEF AuthFree, PlaceInv, Place, Sets, PcInv
  <2> QED BY <2>1, <2>2, FreePool
<1>2. CASE ExpireAuthLost
  <2>1. raced'
    BY <1>2, Zenon DEF ExpireAuthLost
  <2> QED BY <2>1, Zenon DEF PoolInv
<1>3. CASE ExpireAuthFree
  <2>1. FreeStainfo("exp", exp_sta)
    BY <1>3, Zenon DEF ExpireAuthFree
  <2>2. ~raced => exp_sta \in table
    BY <1>3 DEF ExpireAuthFree, PlaceInv, Place, Sets, PcInv
  <2> QED BY <2>1, <2>2, FreePool
<1>4. CASE KeepDead
  <2>1. CASE exp_sta \in asoc_list
    <3>1. FreeStainfo("exp", exp_sta)
      BY <1>4, <2>1, Zenon DEF KeepDead, ApFreeSta
    <3>2. ~raced => exp_sta \in table
      BY <2>1 DEF PlaceInv, Place, Sets
    <3> QED BY <3>1, <3>2, FreePool
  <2>2. CASE exp_sta \notin asoc_list
    <3>1. UNCHANGED <<table, count, free_cnt, raced>>
      BY <1>4, <2>2, Zenon DEF KeepDead
    <3> QED BY <3>1 DEF PoolInv
  <2> QED BY <2>1, <2>2
<1>5. CASE FreeAll
  <2> DEFINE S == {p \in table : aid[p] # NUM_STA}
  <2> SUFFICES ASSUME ~raced'
               PROVE  count' = Cardinality(table') /\ count' + free_cnt' <= PoolSize
    BY Zenon DEF PoolInv
  <2>1. ~raced
    BY <1>5, Zenon DEF FreeAll
  <2>2. count' = 0 /\ table' = {} /\ free_cnt' = free_cnt + Cardinality(S)
    BY <1>5 DEF FreeAll
  <2>3. Cardinality({}) = 0
    BY FS_EmptySet
  <2>4. /\ Cardinality(S) \in Nat /\ Cardinality(table) \in Nat
        /\ Cardinality(S) <= Cardinality(table)
    <3>1. IsFiniteSet(table) /\ S \subseteq table
      BY PeersAssumption, FS_Subset DEF Sets
    <3> QED BY <3>1, FS_Subset, FS_CardinalityType
  <2>5. count = Cardinality(table) /\ count + free_cnt <= PoolSize
    BY <2>1 DEF PoolInv
  <2> HIDE DEF S
  <2> QED BY <2>2, <2>3, <2>4, <2>5, LimitAssumption DEF Counts
<1>6. ASSUME NEW p \in Peers, ExpireAsocFree(p) PROVE PoolInv'
  <2>1. FreeStainfo("exp", p)
    BY <1>6, Zenon DEF ExpireAsocFree, ApFreeSta
  <2>2. ~raced => p \in table
    BY <1>6 DEF ExpireAsocFree, PlaceInv, Place, Sets, PcInv
  <2> QED BY <2>1, <2>2, FreePool
<1>7. ASSUME NEW p \in Peers, AuthLookup(p) PROVE PoolInv'
  <2> SUFFICES ASSUME ~raced'
               PROVE  count' = Cardinality(table') /\ count' + free_cnt' <= PoolSize
    BY Zenon DEF PoolInv
  <2>1. ~raced
    BY <1>7, Zenon DEF AuthLookup
  <2>2. count = Cardinality(table) /\ count + free_cnt <= PoolSize
    BY <2>1 DEF PoolInv
  <2>3. CASE UNCHANGED <<table, count, free_cnt>>
    BY <2>2, <2>3
  <2>4. CASE /\ p \notin table /\ table' = table \cup {p}
             /\ count' = count + 1 /\ free_cnt' = free_cnt - 1
    <3>1. Cardinality(table \cup {p}) = Cardinality(table) + 1 /\ Cardinality(table) \in Nat
      BY <2>4, OneLess DEF Sets
    <3> QED BY <2>2, <2>4, <3>1, LimitAssumption DEF Counts
  <2> QED BY <1>7, <2>3, <2>4 DEF AuthLookup
<1>8. ASSUME NEW p \in Peers, Deauth(p) PROVE PoolInv'
  <2>1. FreeStainfo("ioctl", p)
    BY <1>8, Zenon DEF Deauth, ApFreeSta
  <2>2. ~raced => p \in table
    BY <1>8 DEF Deauth, PlaceInv, Place, Sets, PcInv
  <2> QED BY <2>1, <2>2, FreePool
<1>9. ASSUME NEW p \in Peers, FlushFree(p) PROVE PoolInv'
  <2>1. FreeStainfo("flush", p)
    BY <1>9, Zenon DEF FlushFree
  <2>2. ~raced => p \in table
    BY <1>9 DEF FlushFree, PlaceInv, Place, Sets, PcInv
  <2> QED BY <2>1, <2>2, FreePool
<1>10. CASE AuthAdd \/ AuthAccept \/ AuthReject \/ AssocLeaveAuth \/ AssocAdd \/
   AssocJoin \/ AssocMark \/ AssocStore \/ ExpireStart \/ ExpireAuthEnd \/
   ExpireAsocNone \/ KeepAlive \/ FlushTake \/ UNCHANGED vars
  <2>1. UNCHANGED <<raced, table, count, free_cnt>>
    BY <1>10, Zenon DEF AuthAdd, AuthAccept, AuthReject, AssocLeaveAuth,
       DropAuth, AssocAdd, AssocJoin, AssocMark, AssocStore, StoreCount,
       ExpireStart, ExpireAuthEnd, ExpireAsocNone, KeepAlive, FlushTake, vars
  <2> QED BY <2>1 DEF PoolInv
<1>11. ASSUME NEW p \in Peers, ExpireAuth(p) \/ ExpireAsoc(p) \/ AssocReject(p)
   \/ AssocNoAid(p) \/ AssocAid(p) \/ FlushMark(p) \/ PeerOff(p) PROVE PoolInv'
  <2>1. UNCHANGED <<raced, table, count, free_cnt>>
    BY <1>11, Zenon DEF ExpireAuth, DropAuth, ExpireAsoc, AssocReject,
       AssocNoAid, AssocAid, FlushMark, PeerOff
  <2> QED BY <2>1 DEF PoolInv
<1> QED
  BY NextCases, <1>1, <1>2, <1>3, <1>4, <1>5, <1>6, <1>7, <1>8, <1>9, <1>10,
     <1>11

-----------------------------------------------------------------------------
(* The conjunction is inductive: it holds of an access point without       *)
(* stations and every step of a context keeps it.                          *)
THEOREM Inductive == Spec => []IInv
<1>1. Init => IInv
  <2> SUFFICES ASSUME Init PROVE IInv
    OBVIOUS
  <2>1. Cardinality({}) = 0 /\ ToSet(<<>>) = {}
    BY FS_EmptySet DEF ToSet
  <2>2. Sets /\ Counts /\ PcInv
    BY PeersAssumption, LimitAssumption DEF Init, Sets, Counts, PcInv
  <2>6. RacedInv
    BY Zenon DEF Init, RacedInv
  <2>3. Maps /\ AuthInv /\ AidInv
    BY LimitAssumption DEF Init, Maps, AuthInv, AidInv, IsInjective
  <2>4. ErpInv /\ PoolInv
    BY <2>1, LimitAssumption DEF Init, ErpInv, PoolInv
  <2>5. PlaceInv
    BY <2>1, PeersAssumption DEF Init, PlaceInv, Place
  <2> QED BY <2>2, <2>3, <2>4, <2>5, <2>6 DEF IInv
<1>2. IInv /\ [Next]_vars => IInv'
  BY SetsStep, CountsStep, MapsStep, AuthStep, PcStep, RacedStep, AidStep, ErpStep,
     PlaceStep, PoolStep, Zenon DEF IInv
<1> QED BY <1>1, <1>2, PTL DEF Spec

(* Until two contexts race for a station, none is listed that is not in    *)
(* the table, and none stays in the table that nothing will find again.    *)
THEOREM NoOrphanStaHolds == Spec => []NoOrphanSta
<1>1. IInv => NoOrphanSta
  <2> SUFFICES ASSUME IInv, ~raced PROVE NoOrphanSta
    BY DEF NoOrphanSta
  <2>1. \A p \in Peers : Place(p)
    BY DEF IInv, PlaceInv
  <2>2. \A p : InAuth(p) <=> p \in ToSet(auth_list)
    BY DEF InAuth, ToSet
  <2>3. table \subseteq Peers
    BY DEF IInv, Sets
  <2>4. \A p \in Peers : /\ InAuth(p) \/ p \in asoc_list => p \in table
                         /\ ~(InAuth(p) /\ p \in asoc_list)
                         /\ p \in table => \/ InAuth(p) \/ p \in asoc_list
                                           \/ rx_sta = p \/ exp_sta = p \/ p \in flush_set
    BY <2>1, <2>2 DEF Place
  <2> QED BY <2>3, <2>4 DEF NoOrphanSta, Listed
<1> QED BY <1>1, Inductive, PTL

(* Two stations share an association id only if it is the last one.        *)
THEOREM AidsUniqueHolds == Spec => []AidsUnique
<1>1. IInv => AidsUnique
  <2> SUFFICES ASSUME IInv, NEW p \in table, NEW q \in table, p # q, aid[p] = aid[q], aid[p] > 0
               PROVE  aid[p] = NUM_STA
    BY DEF AidsUnique
  <2>1. p \in Peers /\ q \in Peers /\ aid[p] \in 0 .. NUM_STA
    BY DEF IInv, Sets, Maps
  <2>2. AidInv
    BY DEF IInv
  <2> QED BY <2>1, <2>2, LimitAssumption DEF AidInv
<1> QED BY <1>1, Inductive, PTL

(* The count of stations is that of the table, and no place of the pool is *)
(* given back twice.                                                       *)
THEOREM PoolExactHolds == Spec => []PoolExact
<1>1. IInv => PoolExact
  <2> SUFFICES ASSUME IInv PROVE PoolExact
    OBVIOUS
  <2>1. TypeOK
    BY DEF IInv, Sets, Counts, Maps, AuthInv, PcInv, RacedInv, TypeOK
  <2> QED BY <2>1 DEF IInv, PoolInv, PoolExact
<1> QED BY <1>1, Inductive, PTL

(* Protection stays on while a station that needs it is there, until two   *)
(* contexts change the count at once, whatever else they do to each other. *)
THEOREM ProtectionKeptHolds == Spec => []ProtectionKept
<1>1. IInv => ProtectionKept
  <2> SUFFICES ASSUME IInv, ~miscounted PROVE ProtectionKept
    BY DEF ProtectionKept
  <2>1. ErpInv /\ Counts
    BY DEF IInv
  <2>2. /\ Cardinality(non_erp) \in Nat /\ Cardinality(non_erp \ {rx_sta}) \in Nat
        /\ Cardinality(non_erp \ {rx_sta}) <= Cardinality(non_erp)
    BY NotMore DEF IInv, Sets
  <2> QED BY <2>1, <2>2 DEF ErpInv, Counts, ProtectionKept
<1> QED BY <1>1, Inductive, PTL

-----------------------------------------------------------------------------
(***************************************************************************)
(* Power save.  Lemmas say of each handler what it does to the queues, the *)
(* bitmaps and the beacon (HoldFacts, StopFacts, WakeFacts, PsPollFacts,   *)
(* TriggerFacts), and of each way to change an AID to whom the bit belongs *)
(* (NameFacts); the parts of the invariant follow from them.               *)
(***************************************************************************)
SleepSets ==
  /\ present \subseteq Stas /\ freeing \subseteq Stas \ present
  /\ associated \subseteq present /\ sleeping \subseteq present
  /\ alive_chk \subseteq sleeping /\ misnamed \subseteq sleeping /\ ac_extra \subseteq Stas
SleepAids == sleep_aid \in [Stas -> Aids \cup {0}] /\ aids_used \subseteq Aids
SleepQueues == sleep_q \in [Dests -> Seq({"l", "u"})]
SleepCounts ==
  /\ plain \in [Servqs -> Nat] /\ trig \in [Servqs -> Nat]
  /\ hiq \in Nat /\ listed \subseteq Servqs /\ left_behind \subseteq Servqs
SleepMaps == dz \subseteq 0 .. 15 /\ tim \subseteq 0 .. 15 /\ bcn \subseteq 0 .. 15
SleepPcs ==
  /\ cmds \in Seq({"bcn", "chk"})
  /\ cmd_pc \in {"idle", "window", "chk_wait"}
  /\ waking \in [Contexts -> {"no", "read", "flush"}]
  /\ tx_force \in Dests \cup {NoSta} /\ polled \in Stas \cup {NoSta}
SleepFlags == lost \in BOOLEAN /\ bmc_lost \in BOOLEAN /\ torn \in BOOLEAN

(* An AID belongs to one station of the table, or one that leaves it, and  *)
(* is in use.                                                              *)
OwnAidInv ==
  /\ \A s \in Stas : sleep_aid[s] # 0 => s \in present \cup freeing /\ sleep_aid[s] \in aids_used
  /\ \A s, r \in Stas : sleep_aid[s] # 0 /\ sleep_aid[s] = sleep_aid[r] => s = r

(* The bitmaps have no bit of an AID that is free.                         *)
StrayInv == torn \/ (dz \cup tim) \ {0} \subseteq aids_used

(* A sleep queue has frames of the station's categories.                   *)
KindInv == \A s \in Dests : \A i \in DOMAIN sleep_q[s] : sleep_q[s][i] \in Acs(s)

(* The parts of DozeConsistent and HeldAdvertised.                         *)
DozeInv ==
  torn \/ \A s \in Stas : /\ Named(s) /\ sleep_aid[s] < 16 => (s \in sleeping <=> sleep_aid[s] \in dz)
                          /\ sleep_q[s] # <<>> => s \in sleeping
TimInv ==
  torn \/ \A s \in Stas :
    Named(s) /\ (\E i \in DOMAIN sleep_q[s] : InTim(s, sleep_q[s][i])) => sleep_aid[s] \in tim
McastInv == torn \/ (sleep_q[0] # <<>> /\ ~bmc_lost => 0 \in tim)

(* What the beacon may lack are bits that are not prompt.                  *)
BcnInv == torn \/ TimIe(tim \cap Prompt) \subseteq bcn

(* Waiting frames are in a listed queue, whatever is torn.                 *)
ListInv == \A k \in Servqs : plain[k] > 0 => k \in listed \cup left_behind

SleepIInv ==
  /\ SleepSets /\ SleepAids /\ SleepQueues /\ SleepCounts /\ SleepMaps /\ SleepPcs /\ SleepFlags
  /\ OwnAidInv /\ StrayInv /\ KindInv /\ DozeInv /\ TimInv /\ McastInv /\ BcnInv /\ ListInv

-----------------------------------------------------------------------------
(* The step relation as the disjunction of its actions.                    *)
LEMMA SleepCases ==
  ASSUME [SleepNext]_sleep_vars
  PROVE  \/ (\E k \in Servqs : QueuePlain(k[1], k[2]))
         \/ (\E s \in Stas : \E ac \in Acs(s) : HoldUnicast(s, ac)) \/ HoldMulticast
         \/ (\E s \in Stas : StopStaXmit(s)) \/ (\E s \in Stas : WakeByPwrBit(s))
         \/ (\E s \in Stas : PsPoll(s)) \/ (\E s \in Stas : Trigger(s))
         \/ (\E s \in Stas : WakeByExpiry(s)) \/ (\E s \in Stas : AliveCheck(s))
         \/ (\E s \in Stas : Authenticate(s)) \/ (\E s \in Stas : Associate(s))
         \/ (\E s \in Stas : RejectAgain(s)) \/ (\E s \in Stas : FreeSta(s))
         \/ (\E s \in Stas : FreeBits(s)) \/ WakeByLength \/ PsPollEmpty
         \/ (\E c \in Contexts : WakeRead(c)) \/ (\E c \in Contexts : WakeFlush(c))
         \/ (\E k \in Servqs : XmitPending(k)) \/ CmdBeacon \/ CmdFlush \/ CmdChk
         \/ CmdChkRetry \/ CmdChkClear \/ UNCHANGED sleep_vars
  BY Zenon DEF SleepNext, Send, WakeStep, CmdStep

(***************************************************************************)
(* The operators of the model.                                             *)
(***************************************************************************)
(* The destinations and their categories.                                  *)
LEMMA DestFacts ==
  /\ 0 \in Dests /\ Stas \subseteq Dests /\ 0 \notin Stas /\ Acs(0) = {"l"}
  /\ Stas \subseteq Nat \ {0} /\ NoSta \notin Dests
  /\ \A s \in Dests : Acs(s) \subseteq {"l", "u"}
<1>1. /\ 0 \in Dests /\ Stas \subseteq Dests /\ 0 \notin Stas /\ Stas \subseteq Nat \ {0}
      /\ NoSta \notin Dests
  BY StasAssumption DEF Dests, NoSta
<1>2. 0 \notin Mixed /\ 0 \notin AllUapsd
  BY <1>1, UapsdAssumption
<1>3. Acs(0) = {"l"}
  BY <1>2 DEF Acs
<1>4. \A s \in Dests : Acs(s) \subseteq {"l", "u"}
  BY DEF Acs
<1> QED BY <1>1, <1>3, <1>4

(* The bit of a destination, which is that of no other station with an AID.*)
LEMMA BitFacts ==
  ASSUME SleepAids, OwnAidInv, NEW s \in Dests
  PROVE  /\ BitOf(s) \subseteq 0 .. 15
         /\ s = 0 => BitOf(s) = {0}
         /\ s # 0 => s \in Stas /\ sleep_aid[s] \in Nat /\ BitOf(s) \subseteq {sleep_aid[s]}
         /\ s # 0 /\ sleep_aid[s] < 16 => BitOf(s) = {sleep_aid[s]}
         /\ \A d \in Stas \ {s} : sleep_aid[d] # 0 => sleep_aid[d] \notin BitOf(s)
<1>1. s # 0 => s \in Stas
  BY DEF Dests
<1>2. \A d \in Stas : sleep_aid[d] \in Nat
  <2>1. Aids \cup {0} \subseteq Nat
    BY AidsAssumption
  <2> QED BY <2>1 DEF SleepAids
<1>3. s = 0 => BitOf(s) = {0}
  BY DEF BitOf
<1>4. s # 0 => /\ BitOf(s) \subseteq {sleep_aid[s]} /\ BitOf(s) \subseteq 0 .. 15
               /\ sleep_aid[s] < 16 => BitOf(s) = {sleep_aid[s]}
  <2> SUFFICES ASSUME s # 0
               PROVE  /\ BitOf(s) \subseteq {sleep_aid[s]} /\ BitOf(s) \subseteq 0 .. 15
                      /\ sleep_aid[s] < 16 => BitOf(s) = {sleep_aid[s]}
    OBVIOUS
  <2>1. BitOf(s) = {sleep_aid[s]} \cap 0 .. 15 /\ sleep_aid[s] \in Nat
    BY <1>1, <1>2 DEF BitOf, Bit
  <2>2. sleep_aid[s] < 16 => sleep_aid[s] \in 0 .. 15
    BY <2>1
  <2> QED BY <2>1, <2>2
<1>5. \A d \in Stas \ {s} : sleep_aid[d] # 0 => sleep_aid[d] \notin BitOf(s)
  <2> SUFFICES ASSUME NEW d \in Stas \ {s}, sleep_aid[d] # 0, sleep_aid[d] \in BitOf(s) PROVE FALSE
    OBVIOUS
  <2>1. CASE s = 0
    BY <1>3, <2>1
  <2>2. CASE s # 0
    BY <1>1, <1>4, <2>2 DEF OwnAidInv
  <2> QED BY <2>1, <2>2
<1> QED BY <1>1, <1>2, <1>3, <1>4, <1>5

(* The AIDs of Prompt.                                                     *)
LEMMA PromptFacts ==
  /\ \A a : a \in Prompt <=> \E s \in Stas \ Mixed : Named(s) /\ a = sleep_aid[s]
  /\ \A a : a \in Prompt' <=> \E s \in Stas \ Mixed : Named(s)' /\ a = sleep_aid'[s]
BY DEF Prompt

(* Names stay when neither the table nor the AIDs change.                  *)
LEMMA NamedSame ==
  ASSUME UNCHANGED <<present, sleep_aid, misnamed>>
  PROVE  Prompt' = Prompt /\ \A s : Named(s)' = Named(s)
BY DEF Prompt, Named

(* A queue is a destination and one of its categories.                     *)
LEMMA ServqFacts ==
  /\ \A k \in Servqs : k[1] \in Dests /\ k[2] \in Acs(k[1]) /\ k = <<k[1], k[2]>>
  /\ \A s \in Dests : \A ac \in Acs(s) : <<s, ac>> \in Servqs
BY DestFacts DEF Servqs

(* The frames of a kind in a queue are finitely many.                      *)
LEMMA NumberFacts ==
  ASSUME NEW q \in Seq({"l", "u"}), NEW ac
  PROVE  Number(q, ac) \in Nat
<1>1. IsFiniteSet(1 .. Len(q))
  BY FS_Interval
<1>2. {i \in DOMAIN q : q[i] = ac} \subseteq 1 .. Len(q)
  OBVIOUS
<1>3. IsFiniteSet({i \in DOMAIN q : q[i] = ac})
  BY <1>1, <1>2, FS_Subset
<1> QED BY <1>3, FS_CardinalityType DEF Number

(* A queue of n equal frames.                                              *)
LEMMA FramesFacts ==
  ASSUME NEW n \in Nat, NEW ac \in {"l", "u"}
  PROVE  /\ Frames(n, ac) \in Seq({"l", "u"}) /\ Len(Frames(n, ac)) = n
         /\ \A i \in DOMAIN Frames(n, ac) : Frames(n, ac)[i] = ac
         /\ Frames(n, ac) = <<>> <=> n = 0
BY DEF Frames

(* Two queues in a row have the frames of both.                            *)
LEMMA ConcatFacts ==
  ASSUME NEW q \in Seq({"l", "u"}), NEW r \in Seq({"l", "u"})
  PROVE  /\ q \o r \in Seq({"l", "u"})
         /\ \A i \in DOMAIN (q \o r) :
              \/ i \in DOMAIN q /\ (q \o r)[i] = q[i]
              \/ i - Len(q) \in DOMAIN r /\ (q \o r)[i] = r[i - Len(q)]
         /\ q \o r = <<>> <=> q = <<>> /\ r = <<>>
         /\ q # <<>> => Head(q \o r) = q[1] /\ 1 \in DOMAIN q
         /\ q = <<>> => q \o r = r
OBVIOUS

(* The element grows with the bitmap.                                      *)
LEMMA TimIeMono ==
  ASSUME NEW t, NEW u, u \subseteq 0 .. 15, t \subseteq u
  PROVE  TimIe(t) \subseteq TimIe(u)
BY DEF TimIe

(* Frames that leave a sleep queue.                                        *)
LEMMA ReleaseFacts ==
  ASSUME SleepCounts, NEW s \in Dests, NEW fs \in Seq({"l", "u"}),
         \A i \in DOMAIN fs : fs[i] \in Acs(s), Release(s, fs)
  PROVE  /\ trig' \in [Servqs -> Nat] /\ listed' \subseteq Servqs /\ left_behind' \subseteq Servqs
         /\ listed \cup left_behind \subseteq listed' \cup left_behind'
<1>1. \A ac : Number(fs, ac) \in Nat
  BY NumberFacts
<1>2. trig' \in [Servqs -> Nat]
  BY <1>1 DEF Release, SleepCounts
<1> DEFINE ks == {<<s, fs[i]>> : i \in DOMAIN fs}
<1>3. listed' = listed \cup ks /\ left_behind' = left_behind \ ks
  BY Zenon DEF Release, List
<1>4. ks \subseteq Servqs
  BY ServqFacts
<1> HIDE DEF ks
<1> QED BY <1>2, <1>3, <1>4 DEF SleepCounts

(***************************************************************************)
(* The types.                                                              *)
(***************************************************************************)
(* The stations of the table, those that sleep and those that are checked. *)
LEMMA SetsInv == SleepSets /\ SleepPcs /\ [SleepNext]_sleep_vars => SleepSets'
<1> SUFFICES ASSUME SleepSets, SleepPcs, [SleepNext]_sleep_vars PROVE SleepSets'
  OBVIOUS
<1> USE DEF SleepSets, queue_vars, sta_vars, aid_vars, map_vars, bcn_vars,
   other_vars
<1>1. ASSUME NEW s \in Stas, StopStaXmit(s) PROVE SleepSets'
  BY <1>1 DEF StopStaXmit, UpdateBeacon, KeepBeacon
<1>2. ASSUME NEW s \in Stas, WakeByPwrBit(s) PROVE SleepSets'
  BY <1>2 DEF WakeByPwrBit, WakeSta, Release, List, BmcLost
<1>3. ASSUME NEW s \in Stas, PsPoll(s) PROVE SleepSets'
  <2>1. /\ alive_chk' = alive_chk \ {s} /\ (ac_extra' = ac_extra \/ ac_extra' = ac_extra \cup {s})
        /\ UNCHANGED <<present, associated, freeing, sleeping, misnamed>>
    BY <1>3, Zenon DEF PsPoll
  <2> QED BY <2>1
<1>4. ASSUME NEW s \in Stas, WakeByExpiry(s) PROVE SleepSets'
  BY <1>4 DEF WakeByExpiry, WakeSta, Release, List, BmcLost
<1>5. ASSUME NEW s \in Stas, AliveCheck(s) PROVE SleepSets'
  BY <1>5 DEF AliveCheck, UpdateBeacon
<1>6. ASSUME NEW s \in Stas, Authenticate(s) PROVE SleepSets'
  BY <1>6 DEF Authenticate
<1>7. ASSUME NEW s \in Stas, Associate(s) PROVE SleepSets'
  BY <1>7 DEF Associate
<1>8. ASSUME NEW s \in Stas, RejectAgain(s) PROVE SleepSets'
  BY <1>8 DEF RejectAgain
<1>9. ASSUME NEW s \in Stas, FreeSta(s) PROVE SleepSets'
  BY <1>9 DEF FreeSta
<1>10. ASSUME NEW s \in Stas, FreeBits(s) PROVE SleepSets'
  BY <1>10 DEF FreeBits, BmcLost
<1>11. CASE WakeByLength
  BY <1>11 DEF WakeByLength, WakeSta, Release, List, BmcLost
<1>12. ASSUME NEW k \in Servqs, QueuePlain(k[1], k[2]) \/ XmitPending(k) PROVE
   SleepSets'
  <2>1. UNCHANGED <<present, associated, freeing, sleeping, alive_chk, misnamed,
     ac_extra>>
    BY <1>12, Zenon DEF QueuePlain, List, XmitPending
  <2> QED BY <2>1
<1>13. ASSUME NEW s \in Stas, NEW ac \in Acs(s), HoldUnicast(s, ac) PROVE
   SleepSets'
  <2>1. UNCHANGED <<present, associated, freeing, sleeping, alive_chk, misnamed,
     ac_extra>>
    BY <1>13, Zenon DEF HoldUnicast, UpdateBeacon, KeepBeacon, ForceIfLong
  <2> QED BY <2>1
<1>14. CASE HoldMulticast \/ PsPollEmpty \/ CmdBeacon \/ CmdFlush
  <2>1. UNCHANGED <<present, associated, freeing, sleeping, alive_chk, misnamed,
     ac_extra>>
    BY <1>14, Zenon DEF HoldMulticast, UpdateBeacon, ForceIfLong, PsPollEmpty,
       BmcLost, KeepBeacon, CmdBeacon, CmdFlush, List
  <2> QED BY <2>1
<1>15. CASE CmdChk \/ CmdChkRetry \/ CmdChkClear \/ UNCHANGED sleep_vars
  <2>1. UNCHANGED <<present, associated, freeing, sleeping, alive_chk, misnamed,
     ac_extra>>
    BY <1>15, Zenon DEF CmdChk, CmdChkRetry, CmdChkClear, UpdateBeacon, BmcLost,
       sleep_vars
  <2> QED BY <2>1
<1>16. ASSUME NEW s \in Stas, Trigger(s) PROVE SleepSets'
  <2>1. UNCHANGED <<present, associated, freeing, sleeping, alive_chk, misnamed,
     ac_extra>>
    BY <1>16, Zenon DEF Trigger, Release, List, BmcLost, UpdateBeacon,
       KeepBeacon
  <2> QED BY <2>1
<1>17. ASSUME NEW c \in Contexts, WakeRead(c) \/ WakeFlush(c) PROVE SleepSets'
  <2>1. UNCHANGED <<present, associated, freeing, sleeping, alive_chk, misnamed,
     ac_extra>>
    BY <1>17, Zenon DEF WakeRead, KeepBeacon, UpdateBeacon, WakeFlush, Release,
       List, BmcLost
  <2> QED BY <2>1
<1> HIDE DEF SleepSets
<1> QED
  BY SleepCases, <1>1, <1>2, <1>3, <1>4, <1>5, <1>6, <1>7, <1>8, <1>9, <1>10,
     <1>11, <1>12, <1>13, <1>14, <1>15, <1>16, <1>17

(* The AIDs.                                                               *)
LEMMA AidsInv == SleepAids /\ [SleepNext]_sleep_vars => SleepAids'
<1> SUFFICES ASSUME SleepAids, [SleepNext]_sleep_vars PROVE SleepAids'
  OBVIOUS
<1> USE DEF SleepAids, queue_vars, sta_vars, aid_vars, map_vars, bcn_vars,
   other_vars
<1>1. ASSUME NEW s \in Stas, Associate(s) PROVE SleepAids'
  BY <1>1 DEF Associate
<1>2. ASSUME NEW s \in Stas, RejectAgain(s) PROVE SleepAids'
  BY <1>2 DEF RejectAgain
<1>3. ASSUME NEW s \in Stas, FreeBits(s) PROVE SleepAids'
  BY <1>3 DEF FreeBits, BmcLost
<1>4. ASSUME NEW k \in Servqs, QueuePlain(k[1], k[2]) \/ XmitPending(k) PROVE
   SleepAids'
  <2>1. UNCHANGED <<sleep_aid, aids_used>>
    BY <1>4, Zenon DEF QueuePlain, List, XmitPending
  <2> QED BY <2>1
<1>5. ASSUME NEW s \in Stas, NEW ac \in Acs(s), HoldUnicast(s, ac) PROVE
   SleepAids'
  <2>1. UNCHANGED <<sleep_aid, aids_used>>
    BY <1>5, Zenon DEF HoldUnicast, UpdateBeacon, KeepBeacon, ForceIfLong
  <2> QED BY <2>1
<1>6. CASE HoldMulticast \/ WakeByLength \/ PsPollEmpty \/ CmdBeacon
  <2>1. UNCHANGED <<sleep_aid, aids_used>>
    BY <1>6, Zenon DEF HoldMulticast, UpdateBeacon, ForceIfLong, WakeByLength,
       WakeSta, Release, List, BmcLost, PsPollEmpty, KeepBeacon, CmdBeacon
  <2> QED BY <2>1
<1>7. CASE CmdFlush \/ CmdChk \/ CmdChkRetry \/ CmdChkClear
  <2>1. UNCHANGED <<sleep_aid, aids_used>>
    BY <1>7, Zenon DEF CmdFlush, List, CmdChk, CmdChkRetry, CmdChkClear,
       UpdateBeacon, BmcLost
  <2> QED BY <2>1
<1>8. CASE UNCHANGED sleep_vars
  <2>1. UNCHANGED <<sleep_aid, aids_used>>
    BY <1>8, Zenon DEF sleep_vars
  <2> QED BY <2>1
<1>9. ASSUME NEW s \in Stas, StopStaXmit(s) \/ WakeByPwrBit(s) \/ PsPoll(s) \/
   Trigger(s) PROVE SleepAids'
  <2>1. UNCHANGED <<sleep_aid, aids_used>>
    BY <1>9, Zenon DEF StopStaXmit, UpdateBeacon, KeepBeacon, WakeByPwrBit,
       WakeSta, Release, List, BmcLost, PsPoll, Trigger
  <2> QED BY <2>1
<1>10. ASSUME NEW s \in Stas, WakeByExpiry(s) \/ AliveCheck(s) \/
   Authenticate(s) \/ FreeSta(s) PROVE SleepAids'
  <2>1. UNCHANGED <<sleep_aid, aids_used>>
    BY <1>10, Zenon DEF WakeByExpiry, WakeSta, Release, List, BmcLost,
       AliveCheck, UpdateBeacon, Authenticate, FreeSta
  <2> QED BY <2>1
<1>11. ASSUME NEW c \in Contexts, WakeRead(c) \/ WakeFlush(c) PROVE SleepAids'
  <2>1. UNCHANGED <<sleep_aid, aids_used>>
    BY <1>11, Zenon DEF WakeRead, KeepBeacon, UpdateBeacon, WakeFlush, Release,
       List, BmcLost
  <2> QED BY <2>1
<1> HIDE DEF SleepAids
<1> QED
  BY SleepCases, <1>1, <1>2, <1>3, <1>4, <1>5, <1>6, <1>7, <1>8, <1>9, <1>10,
     <1>11

(* A step keeps every AID with its owner.                                  *)
LEMMA OwnAidStep ==
  OwnAidInv /\ SleepAids /\ SleepSets /\ [SleepNext]_sleep_vars => OwnAidInv'
<1> SUFFICES ASSUME OwnAidInv, SleepAids, SleepSets, [SleepNext]_sleep_vars PROVE
      OwnAidInv'
  OBVIOUS
<1> USE DEF queue_vars, sta_vars, aid_vars, map_vars, bcn_vars, other_vars
<1>1. ASSUME NEW s \in Stas, Authenticate(s) PROVE OwnAidInv'
  BY <1>1, AidsAssumption DEF Authenticate, OwnAidInv, SleepAids, SleepSets
<1>2. ASSUME NEW s \in Stas, Associate(s) PROVE OwnAidInv'
  BY <1>2, AidsAssumption DEF Associate, OwnAidInv, SleepAids, SleepSets
<1>3. ASSUME NEW s \in Stas, RejectAgain(s) PROVE OwnAidInv'
  BY <1>3, AidsAssumption DEF RejectAgain, OwnAidInv, SleepAids, SleepSets
<1>4. ASSUME NEW s \in Stas, FreeSta(s) PROVE OwnAidInv'
  BY <1>4, AidsAssumption DEF FreeSta, OwnAidInv, SleepAids, SleepSets
<1>5. ASSUME NEW s \in Stas, FreeBits(s) PROVE OwnAidInv'
  BY <1>5, AidsAssumption DEF FreeBits, BmcLost, OwnAidInv, SleepAids, SleepSets
<1>6. ASSUME NEW k \in Servqs, QueuePlain(k[1], k[2]) \/ XmitPending(k) PROVE
   OwnAidInv'
  <2>1. UNCHANGED <<present, freeing, sleep_aid, aids_used>>
    BY <1>6, Zenon DEF QueuePlain, List, XmitPending
  <2> QED BY <2>1 DEF OwnAidInv
<1>7. ASSUME NEW s \in Stas, NEW ac \in Acs(s), HoldUnicast(s, ac) PROVE
   OwnAidInv'
  <2>1. UNCHANGED <<present, freeing, sleep_aid, aids_used>>
    BY <1>7, Zenon DEF HoldUnicast, UpdateBeacon, KeepBeacon, ForceIfLong
  <2> QED BY <2>1 DEF OwnAidInv
<1>8. CASE HoldMulticast \/ WakeByLength \/ PsPollEmpty \/ CmdBeacon
  <2>1. UNCHANGED <<present, freeing, sleep_aid, aids_used>>
    BY <1>8, Zenon DEF HoldMulticast, UpdateBeacon, ForceIfLong, WakeByLength,
       WakeSta, Release, List, BmcLost, PsPollEmpty, KeepBeacon, CmdBeacon
  <2> QED BY <2>1 DEF OwnAidInv
<1>9. CASE CmdFlush \/ CmdChk \/ CmdChkRetry \/ CmdChkClear
  <2>1. UNCHANGED <<present, freeing, sleep_aid, aids_used>>
    BY <1>9, Zenon DEF CmdFlush, List, CmdChk, CmdChkRetry, CmdChkClear,
       UpdateBeacon, BmcLost
  <2> QED BY <2>1 DEF OwnAidInv
<1>10. CASE UNCHANGED sleep_vars
  <2>1. UNCHANGED <<present, freeing, sleep_aid, aids_used>>
    BY <1>10, Zenon DEF sleep_vars
  <2> QED BY <2>1 DEF OwnAidInv
<1>11. ASSUME NEW s \in Stas, StopStaXmit(s) \/ WakeByPwrBit(s) \/ PsPoll(s) \/
   Trigger(s) PROVE OwnAidInv'
  <2>1. UNCHANGED <<present, freeing, sleep_aid, aids_used>>
    BY <1>11, Zenon DEF StopStaXmit, UpdateBeacon, KeepBeacon, WakeByPwrBit,
       WakeSta, Release, List, BmcLost, PsPoll, Trigger
  <2> QED BY <2>1 DEF OwnAidInv
<1>12. ASSUME NEW s \in Stas, WakeByExpiry(s) \/ AliveCheck(s) PROVE OwnAidInv'
  <2>1. UNCHANGED <<present, freeing, sleep_aid, aids_used>>
    BY <1>12, Zenon DEF WakeByExpiry, WakeSta, Release, List, BmcLost,
       AliveCheck, UpdateBeacon
  <2> QED BY <2>1 DEF OwnAidInv
<1>13. ASSUME NEW c \in Contexts, WakeRead(c) \/ WakeFlush(c) PROVE OwnAidInv'
  <2>1. UNCHANGED <<present, freeing, sleep_aid, aids_used>>
    BY <1>13, Zenon DEF WakeRead, KeepBeacon, UpdateBeacon, WakeFlush, Release,
       List, BmcLost
  <2> QED BY <2>1 DEF OwnAidInv
<1> QED
  BY SleepCases, <1>1, <1>2, <1>3, <1>4, <1>5, <1>6, <1>7, <1>8, <1>9, <1>10,
     <1>11, <1>12, <1>13

(* The sleep queues are queues of frames.                                  *)
LEMMA QueuesInv ==
  SleepQueues /\ SleepCounts /\ SleepPcs /\ [SleepNext]_sleep_vars => SleepQueues'
<1> SUFFICES ASSUME SleepQueues, SleepCounts, SleepPcs, [SleepNext]_sleep_vars PROVE
      SleepQueues'
  OBVIOUS
<1> USE DestFacts, ServqFacts DEF queue_vars, sta_vars, aid_vars, map_vars,
   bcn_vars, other_vars
<1>1. ASSUME NEW s \in Stas, NEW ac \in Acs(s), HoldUnicast(s, ac) PROVE SleepQueues'
  <2>1. sleep_q' = [sleep_q EXCEPT ![s] = Append(sleep_q[s], ac)] /\ ac \in {"l", "u"}
    BY <1>1 DEF HoldUnicast
  <2> QED BY <2>1 DEF SleepQueues
<1>2. CASE HoldMulticast
  <2>1. sleep_q' = [sleep_q EXCEPT ![0] = Append(sleep_q[0], "l")]
    BY <1>2 DEF HoldMulticast
  <2> QED BY <2>1 DEF SleepQueues
<1>3. ASSUME NEW s \in Stas, StopStaXmit(s) PROVE SleepQueues'
  <2>1. PICK mu \in Nat, ml \in Nat, mc \in Nat :
          sleep_q' = [sleep_q EXCEPT ![s] = sleep_q[s] \o (Frames(mu, "u") \o Frames(ml, "l")),
                                     ![0] = sleep_q[0] \o Frames(mc, "l")]
    <3> DEFINE n(ac) == IF ac \in Acs(s) /\ BitOf(s) # {} THEN plain[<<s, ac>>] ELSE 0
               mcast == IF dz \cup BitOf(s) # {} THEN plain[<<0, "l">>] ELSE 0
    <3>1. n("u") \in Nat /\ n("l") \in Nat /\ mcast \in Nat
      BY DEF SleepCounts
    <3>2. sleep_q' = [sleep_q EXCEPT ![s] = sleep_q[s] \o (Frames(n("u"), "u") \o Frames(n("l"), "l")),
                                     ![0] = sleep_q[0] \o Frames(mcast, "l")]
      BY <1>3, Zenon DEF StopStaXmit
    <3> HIDE DEF n, mcast
    <3> QED BY <3>1, <3>2
  <2>2. /\ Frames(mu, "u") \o Frames(ml, "l") \in Seq({"l", "u"})
        /\ Frames(mc, "l") \in Seq({"l", "u"})
    BY FramesFacts, ConcatFacts
  <2>3. /\ sleep_q[s] \o (Frames(mu, "u") \o Frames(ml, "l")) \in Seq({"l", "u"})
        /\ sleep_q[0] \o Frames(mc, "l") \in Seq({"l", "u"})
    BY <2>2, ConcatFacts DEF SleepQueues
  <2> QED BY <2>1, <2>3 DEF SleepQueues
<1>4. ASSUME NEW s \in Stas, WakeByPwrBit(s) PROVE SleepQueues'
  BY <1>4 DEF WakeByPwrBit, WakeSta, Release, List, BmcLost, SleepQueues
<1>5. ASSUME NEW s \in Stas, PsPoll(s) PROVE SleepQueues'
  <2>1. \/ sleep_q' = sleep_q
        \/ sleep_q[s] # <<>> /\ sleep_q' = [sleep_q EXCEPT ![s] = Tail(sleep_q[s])]
    BY <1>5, Zenon DEF PsPoll
  <2>2. sleep_q[s] \in Seq({"l", "u"}) /\ (sleep_q[s] # <<>> => Tail(sleep_q[s]) \in Seq({"l", "u"}))
    BY DEF SleepQueues
  <2>3. CASE sleep_q' = sleep_q
    BY <2>3 DEF SleepQueues
  <2>4. CASE sleep_q[s] # <<>> /\ sleep_q' = [sleep_q EXCEPT ![s] = Tail(sleep_q[s])]
    BY <2>2, <2>4 DEF SleepQueues
  <2> QED BY <2>1, <2>3, <2>4
<1>6. ASSUME NEW s \in Stas, Trigger(s) PROVE SleepQueues'
  <2>1. Number(sleep_q[s], "l") \in Nat
    BY NumberFacts DEF SleepQueues
  <2>2. Frames(Number(sleep_q[s], "l"), "l") \in Seq({"l", "u"})
    BY <2>1, FramesFacts
  <2>3. sleep_q' = [sleep_q EXCEPT ![s] = Frames(Number(sleep_q[s], "l"), "l")]
    BY <1>6, Zenon DEF Trigger
  <2> QED BY <2>2, <2>3 DEF SleepQueues
<1>7. ASSUME NEW s \in Stas, WakeByExpiry(s) PROVE SleepQueues'
  BY <1>7 DEF WakeByExpiry, WakeSta, Release, List, BmcLost, SleepQueues
<1>8. ASSUME NEW s \in Stas, FreeSta(s) PROVE SleepQueues'
  BY <1>8 DEF FreeSta, SleepQueues
<1>9. ASSUME NEW s \in Stas, FreeBits(s) PROVE SleepQueues'
  <2>1. sleep_q' = sleep_q
    BY <1>9, Zenon DEF FreeBits
  <2> QED BY <2>1 DEF SleepQueues
<1>10. CASE WakeByLength
  BY <1>10 DEF WakeByLength, WakeSta, Release, List, BmcLost, SleepQueues,
     SleepPcs, Dests, NoSta
<1>11. CASE PsPollEmpty
  <2>1. sleep_q' = sleep_q
    BY <1>11, Zenon DEF PsPollEmpty
  <2> QED BY <2>1 DEF SleepQueues
<1>12. ASSUME NEW c \in Contexts, WakeFlush(c) PROVE SleepQueues'
  BY <1>12 DEF WakeFlush, Release, List, UpdateBeacon, BmcLost, SleepQueues
<1>13. CASE CmdFlush
  BY <1>13 DEF CmdFlush, List, SleepQueues
<1>14. CASE CmdChkClear
  <2>1. sleep_q' = sleep_q
    BY <1>14, Zenon DEF CmdChkClear
  <2> QED BY <2>1 DEF SleepQueues
<1>15. ASSUME NEW k \in Servqs, QueuePlain(k[1], k[2]) \/ XmitPending(k) PROVE
   SleepQueues'
  <2>1. UNCHANGED sleep_q
    BY <1>15, Zenon DEF QueuePlain, List, XmitPending
  <2> QED BY <2>1 DEF SleepQueues
<1>16. ASSUME NEW s \in Stas, AliveCheck(s) \/ Authenticate(s) \/ Associate(s)
   \/ RejectAgain(s) PROVE SleepQueues'
  <2>1. UNCHANGED sleep_q
    BY <1>16, Zenon DEF AliveCheck, UpdateBeacon, Authenticate, Associate,
       RejectAgain
  <2> QED BY <2>1 DEF SleepQueues
<1>17. ASSUME NEW c \in Contexts, WakeRead(c) PROVE SleepQueues'
  <2>1. UNCHANGED sleep_q
    BY <1>17, Zenon DEF WakeRead, KeepBeacon, UpdateBeacon
  <2> QED BY <2>1 DEF SleepQueues
<1>18. CASE CmdBeacon \/ CmdChk \/ CmdChkRetry \/ UNCHANGED sleep_vars
  <2>1. UNCHANGED sleep_q
    BY <1>18, Zenon DEF CmdBeacon, CmdChk, CmdChkRetry, sleep_vars
  <2> QED BY <2>1 DEF SleepQueues
<1> HIDE DEF SleepQueues
<1> QED
  BY SleepCases, <1>1, <1>2, <1>3, <1>4, <1>5, <1>6, <1>7, <1>8, <1>9, <1>10,
     <1>11, <1>12, <1>13, <1>14, <1>15, <1>16, <1>17, <1>18

(* What stop_sta_xmit does to the queues, the bits and the beacon.         *)
LEMMA StopFacts ==
  ASSUME SleepQueues, SleepCounts, NEW s \in Stas, StopStaXmit(s)
  PROVE  \E moved, back \in Seq({"l", "u"}) :
           /\ \A i \in DOMAIN moved : moved[i] \in Acs(s)
           /\ moved # <<>> => BitOf(s) # {}
           /\ \A i \in DOMAIN back : back[i] = "l"
           /\ sleep_q'[s] = sleep_q[s] \o moved /\ sleep_q'[0] = sleep_q[0] \o back
           /\ \A d \in Stas \ {s} : sleep_q'[d] = sleep_q[d]
           /\ tim' = tim \cup (IF \E i \in DOMAIN moved : InTim(s, moved[i]) THEN BitOf(s) ELSE {})
                         \cup (IF back # <<>> THEN {0} ELSE {})
           /\ dz' = dz \cup BitOf(s) \cup (IF back # <<>> THEN {0} ELSE {})
           /\ IF (moved # <<>> /\ InTim(s, Head(moved)) /\ sleep_q[s] = <<>>) \/ back # <<>>
              THEN bcn' = TimIe(tim') ELSE bcn' = bcn
           /\ bmc_lost' = IF back # <<>> THEN FALSE ELSE bmc_lost
<1> DEFINE n(ac) == IF ac \in Acs(s) /\ BitOf(s) # {} THEN plain[<<s, ac>>] ELSE 0
           mcast == IF dz \cup BitOf(s) # {} THEN plain[<<0, "l">>] ELSE 0
           moved == Frames(n("u"), "u") \o Frames(n("l"), "l")
           back == Frames(mcast, "l")
<1>1. /\ n("u") \in Nat /\ n("l") \in Nat /\ mcast \in Nat
      /\ (n("u") # 0 => "u" \in Acs(s) /\ BitOf(s) # {})
      /\ (n("l") # 0 => "l" \in Acs(s) /\ BitOf(s) # {})
  BY DestFacts, ServqFacts DEF SleepCounts
<1>2. /\ sleep_q' = [sleep_q EXCEPT ![s] = sleep_q[s] \o moved, ![0] = sleep_q[0] \o back]
      /\ tim' = tim \cup (IF mcast > 0 THEN {0} ELSE {})
                    \cup (IF \E i \in DOMAIN moved : InTim(s, moved[i]) THEN BitOf(s) ELSE {})
      /\ dz' = dz \cup BitOf(s) \cup (IF mcast > 0 THEN {0} ELSE {})
      /\ IF (moved # <<>> /\ InTim(s, Head(moved)) /\ sleep_q[s] = <<>>) \/ mcast > 0
         THEN UpdateBeacon(tim', cmds) ELSE KeepBeacon
      /\ bmc_lost' = IF mcast > 0 THEN FALSE ELSE bmc_lost
  BY Zenon DEF StopStaXmit
<1>3. /\ (n("u") = 0 => Frames(n("u"), "u") = <<>>) /\ (n("l") = 0 => Frames(n("l"), "l") = <<>>)
      /\ Frames(n("u"), "u") \in Seq({"l", "u"}) /\ Frames(n("l"), "l") \in Seq({"l", "u"})
      /\ \A i \in DOMAIN Frames(n("u"), "u") : Frames(n("u"), "u")[i] = "u"
      /\ \A i \in DOMAIN Frames(n("l"), "l") : Frames(n("l"), "l")[i] = "l"
      /\ DOMAIN Frames(n("u"), "u") = 1 .. n("u") /\ DOMAIN Frames(n("l"), "l") = 1 .. n("l")
  <2> HIDE DEF n
  <2>1. \A k \in Nat : \A ac \in {"l", "u"} :
          /\ Frames(k, ac) \in Seq({"l", "u"}) /\ DOMAIN Frames(k, ac) = 1 .. k
          /\ \A i \in DOMAIN Frames(k, ac) : Frames(k, ac)[i] = ac
          /\ k = 0 => Frames(k, ac) = <<>>
    BY FramesFacts DEF Frames
  <2> QED BY <1>1, <2>1
<1>4. /\ back \in Seq({"l", "u"}) /\ (\A i \in DOMAIN back : back[i] = "l")
      /\ (back # <<>> <=> mcast > 0)
  <2> HIDE DEF mcast
  <2>1. mcast \in Nat /\ (mcast # 0 <=> mcast > 0)
    BY <1>1
  <2>2. /\ Frames(mcast, "l") \in Seq({"l", "u"})
        /\ \A i \in DOMAIN Frames(mcast, "l") : Frames(mcast, "l")[i] = "l"
        /\ Frames(mcast, "l") = <<>> <=> mcast = 0
    BY <2>1, FramesFacts
  <2> QED BY <2>1, <2>2
<1>5. moved \in Seq({"l", "u"}) /\ \A i \in DOMAIN moved : moved[i] \in Acs(s) /\ BitOf(s) # {}
  <2>1. DOMAIN Frames(n("u"), "u") # {} => n("u") # 0
    BY <1>1, <1>3
  <2>2. DOMAIN Frames(n("l"), "l") # {} => n("l") # 0
    BY <1>1, <1>3
  <2> HIDE DEF n
  <2> QED BY <1>1, <1>3, <2>1, <2>2, ConcatFacts
<1>6. moved # <<>> => BitOf(s) # {}
  <2> HIDE DEF moved
  <2> QED BY <1>5
<1>7. /\ sleep_q'[s] = sleep_q[s] \o moved /\ sleep_q'[0] = sleep_q[0] \o back
      /\ \A d \in Stas \ {s} : sleep_q'[d] = sleep_q[d]
  <2> HIDE DEF moved, back
  <2> QED BY <1>2, DestFacts DEF SleepQueues
<1> HIDE DEF moved, back, mcast
<1>8. /\ tim' = tim \cup (IF \E i \in DOMAIN moved : InTim(s, moved[i]) THEN BitOf(s) ELSE {})
                    \cup (IF back # <<>> THEN {0} ELSE {})
      /\ dz' = dz \cup BitOf(s) \cup (IF back # <<>> THEN {0} ELSE {})
  BY <1>2, <1>4
<1>9. /\ IF (moved # <<>> /\ InTim(s, Head(moved)) /\ sleep_q[s] = <<>>) \/ back # <<>>
         THEN bcn' = TimIe(tim') ELSE bcn' = bcn
      /\ bmc_lost' = IF back # <<>> THEN FALSE ELSE bmc_lost
  BY <1>2, <1>4, Zenon DEF UpdateBeacon, KeepBeacon, bcn_vars
<1> QED BY <1>4, <1>5, <1>6, <1>7, <1>8, <1>9, Zenon

(* What wakeup_sta_to_xmit does to them.                                   *)
LEMMA WakeFacts ==
  ASSUME SleepQueues, NEW c, NEW s \in Dests, WakeSta(c, s)
  PROVE  /\ sleep_q'[s] = <<>> /\ \A d \in Dests \ {s} : sleep_q'[d] = sleep_q[d]
         /\ tim' = tim \ BitOf(s) /\ dz' = dz \ BitOf(s) /\ BmcLost(BitOf(s))
         /\ sleeping' = sleeping \ {s} /\ misnamed' = misnamed \ {s}
         /\ UNCHANGED <<present, sleep_aid, aids_used, bcn, torn>>
<1>1. /\ sleep_q' = [sleep_q EXCEPT ![s] = <<>>]
      /\ tim' = tim \ BitOf(s) /\ dz' = dz \ BitOf(s) /\ BmcLost(BitOf(s))
      /\ sleeping' = sleeping \ {s} /\ misnamed' = misnamed \ {s}
      /\ UNCHANGED <<present, sleep_aid, aids_used, bcn, torn>>
  BY Zenon DEF WakeSta, bcn_vars, aid_vars
<1>2. sleep_q'[s] = <<>> /\ \A d \in Dests \ {s} : sleep_q'[d] = sleep_q[d]
  BY <1>1 DEF SleepQueues
<1> QED BY <1>1, <1>2

(* The flag of lost multicast frames, when bits are cleared.               *)
LEMMA BmcFacts ==
  ASSUME NEW B, BmcLost(B)
  PROVE  (0 \in B /\ sleep_q'[0] # <<>> => bmc_lost') /\ (0 \notin B /\ bmc_lost => bmc_lost')
BY Zenon DEF BmcLost

(* A queue without frames of a kind has none of it.                        *)
LEMMA NumberZero ==
  ASSUME NEW q \in Seq({"l", "u"}), NEW ac, Number(q, ac) # 0
  PROVE  \E i \in DOMAIN q : q[i] = ac
<1> SUFFICES ASSUME \A i \in DOMAIN q : q[i] # ac PROVE FALSE
  OBVIOUS
<1>1. {i \in DOMAIN q : q[i] = ac} = {}
  OBVIOUS
<1>2. Cardinality({}) = 0
  BY FS_EmptySet, Zenon
<1> QED BY <1>1, <1>2 DEF Number

(* What a trigger frame does.                                              *)
LEMMA TriggerFacts ==
  ASSUME SleepQueues, NEW s \in Stas, Trigger(s)
  PROVE  /\ \A i \in DOMAIN sleep_q'[s] :
              sleep_q'[s][i] = "l" /\ \E j \in DOMAIN sleep_q[s] : sleep_q[s][j] = "l"
         /\ sleep_q'[s] # <<>> => sleep_q[s] # <<>>
         /\ \A d \in Dests \ {s} : sleep_q'[d] = sleep_q[d]
         /\ \/ tim' = tim /\ bcn' = bcn /\ bmc_lost' = bmc_lost
            \/ tim' = tim \ BitOf(s) /\ bcn' = TimIe(tim') /\ BmcLost(BitOf(s)) /\ s \in AllUapsd
         /\ UNCHANGED <<present, sleep_aid, aids_used, misnamed, sleeping, dz, torn>>
<1> DEFINE n == Number(sleep_q[s], "l")
<1>1. sleep_q[s] \in Seq({"l", "u"}) /\ s \in Dests
  BY DestFacts DEF SleepQueues
<1>2. n \in Nat /\ (n # 0 => \E j \in DOMAIN sleep_q[s] : sleep_q[s][j] = "l")
  BY <1>1, NumberFacts, NumberZero
<1>3. /\ sleep_q' = [sleep_q EXCEPT ![s] = Frames(n, "l")]
      /\ \/ tim' = tim /\ bcn' = bcn /\ bmc_lost' = bmc_lost
         \/ tim' = tim \ BitOf(s) /\ bcn' = TimIe(tim') /\ BmcLost(BitOf(s)) /\ s \in AllUapsd
      /\ UNCHANGED <<present, sleep_aid, aids_used, misnamed, sleeping, dz, torn>>
  BY Zenon DEF Trigger, UpdateBeacon, KeepBeacon, bcn_vars, sta_vars, aid_vars
<1> HIDE DEF n
<1>4. /\ DOMAIN Frames(n, "l") # {} => n # 0
      /\ \A i \in DOMAIN Frames(n, "l") : Frames(n, "l")[i] = "l"
      /\ (Frames(n, "l") # <<>> => n # 0)
  BY <1>2, FramesFacts DEF Frames
<1>5. sleep_q'[s] = Frames(n, "l") /\ \A d \in Dests \ {s} : sleep_q'[d] = sleep_q[d]
  BY <1>1, <1>3 DEF SleepQueues
<1> QED BY <1>2, <1>3, <1>4, <1>5

(* What a PS-Poll does under the lock ...                                  *)
LEMMA PsPollFacts ==
  ASSUME SleepQueues, NEW s \in Stas, PsPoll(s)
  PROVE  /\ sleep_q'[s] = sleep_q[s] \/ (sleep_q[s] # <<>> /\ sleep_q'[s] = Tail(sleep_q[s]))
         /\ \A d \in Dests \ {s} : sleep_q'[d] = sleep_q[d]
         /\ \/ tim' = tim /\ bcn' = bcn /\ bmc_lost' = bmc_lost
            \/ tim' = tim \ BitOf(s) /\ bcn' = TimIe(tim') /\ BmcLost(BitOf(s)) /\ sleep_q'[s] = <<>>
         /\ UNCHANGED <<present, sleep_aid, aids_used, misnamed, sleeping, dz, torn>>
<1>1. sleep_q[s] \in Seq({"l", "u"}) /\ s \in Dests /\ sleep_q \in [Dests -> Seq({"l", "u"})]
  BY DestFacts DEF SleepQueues
<1> DEFINE q == sleep_q[s]
           dozes == Dozes(s)
<1>2. /\ IF dozes /\ q # <<>>
         THEN sleep_q' = [sleep_q EXCEPT ![s] = Tail(q)] ELSE sleep_q' = sleep_q
      /\ IF dozes /\ Len(q) = 1 THEN tim' = tim \ BitOf(s) /\ BmcLost(BitOf(s)) /\ bcn' = TimIe(tim')
         ELSE tim' = tim /\ bcn' = bcn /\ bmc_lost' = bmc_lost
      /\ UNCHANGED <<present, sleep_aid, aids_used, misnamed, sleeping, dz, torn>>
  BY Zenon DEF PsPoll, UpdateBeacon, KeepBeacon, bcn_vars, aid_vars
<1>3. Len(q) = 1 => q # <<>> /\ Tail(q) = <<>>
  <2>1. Len(q) <= 1 => q = <<>> \/ Tail(q) = <<>>
    BY <1>1
  <2>2. Len(q) = 1 => q # <<>> /\ Len(q) <= 1
    OBVIOUS
  <2> QED BY <2>1, <2>2
<1> HIDE DEF dozes
<1>4. CASE dozes /\ q # <<>>
  <2>1. sleep_q'[s] = Tail(q) /\ \A d \in Dests \ {s} : sleep_q'[d] = sleep_q[d]
    BY <1>1, <1>2, <1>4
  <2> QED BY <1>2, <1>3, <1>4, <2>1
<1>5. CASE ~(dozes /\ q # <<>>)
  BY <1>2, <1>3, <1>5
<1> QED BY <1>4, <1>5

(* ... and after it, for a station whose queue was empty: a bit that was   *)
(* needed meanwhile is torn.                                               *)
LEMMA PollEmptyFacts ==
  ASSUME SleepPcs, PsPollEmpty
  PROVE  /\ polled \in Stas
         /\ UNCHANGED <<sleep_q, present, sleep_aid, aids_used, misnamed, sleeping, dz>>
         /\ torn => torn'
         /\ bcn' = bcn \/ bcn' = TimIe(tim')
         /\ \/ torn'
            \/ tim' = tim /\ bcn' = bcn /\ bmc_lost' = bmc_lost /\ torn' = torn
            \/ /\ tim' = tim \ BitOf(polled) /\ bcn' = TimIe(tim') /\ BmcLost(BitOf(polled))
               /\ sleep_q[polled] = <<>>
<1>1. polled \in Stas
  BY DEF SleepPcs, PsPollEmpty
<1>2. UNCHANGED <<sleep_q, present, sleep_aid, aids_used, misnamed, sleeping, dz>>
  BY Zenon DEF PsPollEmpty, queue_vars, sta_vars, aid_vars
<1>3. CASE BitOf(polled) \cap tim # {}
  BY <1>1, <1>2, <1>3, Zenon DEF PsPollEmpty, UpdateBeacon
<1>4. CASE BitOf(polled) \cap tim = {}
  BY <1>1, <1>2, <1>4, Zenon DEF PsPollEmpty, KeepBeacon, bcn_vars
<1> QED BY <1>3, <1>4

(* Frames that wait are counted, in queues that exist.                     *)
LEMMA WakeCounts ==
  ASSUME SleepCounts, SleepQueues, KindInv, NEW c, NEW s \in Dests, WakeSta(c, s)
  PROVE  SleepCounts'
<1>1. Release(s, sleep_q[s]) /\ UNCHANGED <<plain, hiq>>
  BY Zenon DEF WakeSta
<1>2. sleep_q[s] \in Seq({"l", "u"}) /\ \A i \in DOMAIN sleep_q[s] : sleep_q[s][i] \in Acs(s)
  BY DEF SleepQueues, KindInv
<1>3. trig' \in [Servqs -> Nat] /\ listed' \subseteq Servqs /\ left_behind' \subseteq Servqs
  BY <1>1, <1>2, ReleaseFacts
<1> QED BY <1>1, <1>3 DEF SleepCounts

(* A step keeps the counts.                                                *)
LEMMA CountsInv ==
  SleepCounts /\ SleepQueues /\ SleepPcs /\ KindInv /\ [SleepNext]_sleep_vars =>
        SleepCounts'
<1> SUFFICES ASSUME SleepCounts, SleepQueues, SleepPcs, KindInv,
      [SleepNext]_sleep_vars PROVE SleepCounts'
  OBVIOUS
<1> USE DEF queue_vars, sta_vars, aid_vars, map_vars, bcn_vars, other_vars
<1>1. ASSUME NEW k \in Servqs, QueuePlain(k[1], k[2]) PROVE SleepCounts'
  <2>1. <<k[1], k[2]>> = k
    BY ServqFacts
  <2>2. plain' = [plain EXCEPT ![k] = plain[k] + 1] /\ listed' = listed \cup {k}
        /\ left_behind' = left_behind \ {k} /\ UNCHANGED <<trig, hiq>>
    BY <1>1, <2>1 DEF QueuePlain, List
  <2> QED BY <2>2 DEF SleepCounts
<1>2. ASSUME NEW s \in Stas, StopStaXmit(s) PROVE SleepCounts'
  <2> DEFINE emptied(d) == IF d = 0 THEN dz \cup BitOf(s) # {} ELSE d = s /\ BitOf(s) # {}
  <2>1. /\ plain' = [k \in Servqs |-> IF emptied(k[1]) THEN 0 ELSE plain[k]]
        /\ listed' = {k \in listed : k[1] \notin {s, 0}} /\ UNCHANGED <<trig, hiq>>
        /\ left_behind' = left_behind \cup {k \in Servqs : k[1] \in {s, 0} /\ ~emptied(k[1]) /\ plain[k] > 0}
    BY <1>2, Zenon DEF StopStaXmit
  <2> HIDE DEF emptied
  <2> QED BY <2>1 DEF SleepCounts
<1>3. ASSUME NEW s \in Stas, WakeByPwrBit(s) PROVE SleepCounts'
  BY <1>3, DestFacts, WakeCounts DEF WakeByPwrBit
<1>4. ASSUME NEW s \in Stas, PsPoll(s) PROVE SleepCounts'
  <2>1. UNCHANGED <<plain, hiq>> /\ \/ UNCHANGED <<trig, listed, left_behind>>
                                    \/ sleep_q[s] # <<>> /\ Release(s, <<Head(sleep_q[s])>>)
    BY <1>4, Zenon DEF PsPoll
  <2>2. CASE sleep_q[s] # <<>> /\ Release(s, <<Head(sleep_q[s])>>)
    <3>1. /\ <<Head(sleep_q[s])>> \in Seq({"l", "u"}) /\ s \in Dests
          /\ \A i \in DOMAIN <<Head(sleep_q[s])>> : <<Head(sleep_q[s])>>[i] \in Acs(s)
      BY <2>2, DestFacts DEF SleepQueues, KindInv
    <3>2. trig' \in [Servqs -> Nat] /\ listed' \subseteq Servqs /\ left_behind' \subseteq Servqs
      BY <2>2, <3>1, ReleaseFacts
    <3> QED BY <2>1, <3>2 DEF SleepCounts
  <2>3. CASE UNCHANGED <<trig, listed, left_behind>>
    BY <2>1, <2>3 DEF SleepCounts
  <2> QED BY <2>1, <2>2, <2>3
<1>5. ASSUME NEW s \in Stas, Trigger(s) PROVE SleepCounts'
  <2> DEFINE us == Frames(Number(sleep_q[s], "u"), "u")
  <2>1. UNCHANGED <<plain, hiq>> /\ Release(s, us) /\ s \in Mixed \cup AllUapsd
    BY <1>5, Zenon DEF Trigger
  <2>2. sleep_q[s] \in Seq({"l", "u"}) /\ s \in Dests /\ "u" \in Acs(s)
    BY <2>1, DestFacts DEF SleepQueues, Acs
  <2>3. us \in Seq({"l", "u"}) /\ \A i \in DOMAIN us : us[i] \in Acs(s)
    BY <2>2, NumberFacts, FramesFacts
  <2> HIDE DEF us
  <2>4. trig' \in [Servqs -> Nat] /\ listed' \subseteq Servqs /\ left_behind' \subseteq Servqs
    BY <2>1, <2>2, <2>3, ReleaseFacts
  <2> QED BY <2>1, <2>4 DEF SleepCounts
<1>6. ASSUME NEW s \in Stas, WakeByExpiry(s) PROVE SleepCounts'
  BY <1>6, DestFacts, WakeCounts DEF WakeByExpiry
<1>7. ASSUME NEW s \in Stas, FreeSta(s) PROVE SleepCounts'
  BY <1>7 DEF FreeSta, SleepCounts
<1>8. CASE WakeByLength
  <2>1. tx_force \in Dests /\ WakeSta("tx", tx_force)
    BY <1>8 DEF WakeByLength, SleepPcs
  <2> QED BY <2>1, WakeCounts
<1>9. ASSUME NEW c \in Contexts, WakeFlush(c) PROVE SleepCounts'
  <2>1. Release(0, sleep_q[0]) /\ UNCHANGED <<plain, hiq>>
    BY <1>9, Zenon DEF WakeFlush
  <2>2. sleep_q[0] \in Seq({"l", "u"}) /\ \A i \in DOMAIN sleep_q[0] : sleep_q[0][i] \in Acs(0)
    BY DestFacts DEF SleepQueues, KindInv
  <2>3. trig' \in [Servqs -> Nat] /\ listed' \subseteq Servqs /\ left_behind' \subseteq Servqs
    BY <2>1, <2>2, DestFacts, ReleaseFacts
  <2> QED BY <2>1, <2>3 DEF SleepCounts
<1>10. ASSUME NEW k \in Servqs, XmitPending(k) PROVE SleepCounts'
  <2>1. /\ \/ plain[k] > 0 /\ plain' = [plain EXCEPT ![k] = plain[k] - 1] /\ UNCHANGED <<trig, hiq>>
           \/ trig[k] > 0 /\ trig' = [trig EXCEPT ![k] = trig[k] - 1] /\ UNCHANGED <<plain, hiq>>
           \/ hiq > 0 /\ hiq' = hiq - 1 /\ UNCHANGED <<plain, trig>>
        /\ listed' \subseteq listed /\ left_behind' = left_behind
    BY <1>10 DEF XmitPending
  <2> QED BY <2>1 DEF SleepCounts
<1>11. CASE CmdFlush
  <2>1. /\ hiq' = hiq + Len(sleep_q[0]) /\ UNCHANGED <<plain, trig>>
        /\ listed' \subseteq listed \cup {<<0, "l">>} /\ left_behind' \subseteq left_behind
    BY <1>11 DEF CmdFlush, List
  <2>2. <<0, "l">> \in Servqs /\ Len(sleep_q[0]) \in Nat
    BY DestFacts, ServqFacts DEF SleepQueues
  <2>3. hiq' \in Nat
    BY <2>1, <2>2 DEF SleepCounts
  <2>4. listed' \subseteq Servqs /\ left_behind' \subseteq Servqs
    BY <2>1, <2>2 DEF SleepCounts
  <2> QED BY <2>1, <2>3, <2>4 DEF SleepCounts
<1>12. ASSUME NEW s \in Stas, NEW ac \in Acs(s), HoldUnicast(s, ac) PROVE
   SleepCounts'
  <2>1. UNCHANGED <<plain, trig, hiq, listed, left_behind>>
    BY <1>12, Zenon DEF HoldUnicast, UpdateBeacon, KeepBeacon, ForceIfLong
  <2> QED BY <2>1 DEF SleepCounts
<1>13. CASE HoldMulticast \/ PsPollEmpty \/ CmdBeacon \/ CmdChk
  <2>1. UNCHANGED <<plain, trig, hiq, listed, left_behind>>
    BY <1>13, Zenon DEF HoldMulticast, UpdateBeacon, ForceIfLong, PsPollEmpty,
       BmcLost, KeepBeacon, CmdBeacon, CmdChk
  <2> QED BY <2>1 DEF SleepCounts
<1>14. CASE CmdChkRetry \/ CmdChkClear \/ UNCHANGED sleep_vars
  <2>1. UNCHANGED <<plain, trig, hiq, listed, left_behind>>
    BY <1>14, Zenon DEF CmdChkRetry, CmdChkClear, UpdateBeacon, BmcLost, sleep_vars
  <2> QED BY <2>1 DEF SleepCounts
<1>15. ASSUME NEW s \in Stas, AliveCheck(s) \/ Authenticate(s) \/ Associate(s)
   \/ RejectAgain(s) PROVE SleepCounts'
  <2>1. UNCHANGED <<plain, trig, hiq, listed, left_behind>>
    BY <1>15, Zenon DEF AliveCheck, UpdateBeacon, Authenticate, Associate,
       RejectAgain
  <2> QED BY <2>1 DEF SleepCounts
<1>16. ASSUME NEW s \in Stas, FreeBits(s) PROVE SleepCounts'
  <2>1. UNCHANGED <<plain, trig, hiq, listed, left_behind>>
    BY <1>16, Zenon DEF FreeBits, BmcLost
  <2> QED BY <2>1 DEF SleepCounts
<1>17. ASSUME NEW c \in Contexts, WakeRead(c) PROVE SleepCounts'
  <2>1. UNCHANGED <<plain, trig, hiq, listed, left_behind>>
    BY <1>17, Zenon DEF WakeRead, KeepBeacon, UpdateBeacon
  <2> QED BY <2>1 DEF SleepCounts
<1> QED
  BY SleepCases, <1>1, <1>2, <1>3, <1>4, <1>5, <1>6, <1>7, <1>8, <1>9, <1>10,
     <1>11, <1>12, <1>13, <1>14, <1>15, <1>16, <1>17

(* The bitmaps have 16 bits, and so has the element.                       *)
LEMMA BitmapFacts ==
  \A t \in SUBSET (0 .. 15) : TimIe(t) \subseteq t /\ \A u \in Stores(t) : u \subseteq 0 .. 15
BY DEF TimIe, Stores, Bit

(* A step keeps the width of the bitmaps.                                  *)
LEMMA MapsInv ==
  SleepMaps /\ SleepAids /\ OwnAidInv /\ SleepQueues /\ SleepCounts /\ SleepPcs /\
        [SleepNext]_sleep_vars => SleepMaps'
<1> SUFFICES ASSUME SleepMaps, SleepAids, OwnAidInv, SleepQueues, SleepCounts,
      SleepPcs, [SleepNext]_sleep_vars PROVE SleepMaps'
  OBVIOUS
<1> USE DEF queue_vars, sta_vars, aid_vars, map_vars, bcn_vars, other_vars
<1>1. ASSUME NEW s \in Stas, NEW ac \in Acs(s), HoldUnicast(s, ac) PROVE SleepMaps'
  <2>1. /\ tim' \subseteq 0 .. 15 /\ dz' \subseteq 0 .. 15
        /\ bcn' = bcn \/ bcn' = TimIe(tim')
    <3>1. /\ dz' = dz /\ (tim' = tim \/ tim' = tim \cup BitOf(s))
          /\ bcn' = bcn \/ bcn' = TimIe(tim')
      BY <1>1, Zenon DEF HoldUnicast, UpdateBeacon, KeepBeacon, bcn_vars
    <3> QED BY <3>1, BitFacts, DestFacts DEF SleepMaps
  <2> QED BY <2>1, BitmapFacts DEF SleepMaps
<1>2. CASE HoldMulticast
  <2>1. /\ tim' \subseteq 0 .. 15 /\ dz' \subseteq 0 .. 15
        /\ bcn' = bcn \/ bcn' = TimIe(tim')
    BY <1>2, BitmapFacts, BitFacts, DestFacts DEF HoldMulticast, UpdateBeacon,
          KeepBeacon, bcn_vars, SleepMaps
  <2> QED BY <2>1, BitmapFacts DEF SleepMaps
<1>3. ASSUME NEW s \in Stas, StopStaXmit(s) PROVE SleepMaps'
  <2>1. /\ tim' \subseteq 0 .. 15 /\ dz' \subseteq 0 .. 15
        /\ bcn' = bcn \/ bcn' = TimIe(tim')
    <3>1. PICK moved \in Seq({"l", "u"}), back \in Seq({"l", "u"}) :
            /\ tim' = tim \cup (IF \E i \in DOMAIN moved : InTim(s, moved[i]) THEN BitOf(s) ELSE {})
                          \cup (IF back # <<>> THEN {0} ELSE {})
            /\ dz' = dz \cup BitOf(s) \cup (IF back # <<>> THEN {0} ELSE {})
            /\ bcn' = TimIe(tim') \/ bcn' = bcn
      BY <1>3, StopFacts
    <3> QED BY <3>1, BitFacts, DestFacts DEF SleepMaps
  <2> QED BY <2>1, BitmapFacts DEF SleepMaps
<1>4. ASSUME NEW s \in Stas, WakeByPwrBit(s) PROVE SleepMaps'
  <2>1. s \in Stas /\ WakeSta("rx", s)
    BY <1>4 DEF WakeByPwrBit
  <2> QED BY <2>1, DestFacts, WakeFacts DEF SleepMaps
<1>5. ASSUME NEW s \in Stas, PsPoll(s) PROVE SleepMaps'
  BY <1>5, PsPollFacts, BitmapFacts DEF SleepMaps
<1>6. ASSUME NEW s \in Stas, Trigger(s) PROVE SleepMaps'
  BY <1>6, TriggerFacts, BitmapFacts DEF SleepMaps
<1>7. ASSUME NEW s \in Stas, WakeByExpiry(s) PROVE SleepMaps'
  <2>1. WakeSta("cmd", s)
    BY <1>7 DEF WakeByExpiry
  <2> QED BY <2>1, DestFacts, WakeFacts DEF SleepMaps
<1>8. ASSUME NEW s \in Stas, AliveCheck(s) PROVE SleepMaps'
  <2>1. /\ tim' \subseteq 0 .. 15 /\ dz' \subseteq 0 .. 15
        /\ bcn' = bcn \/ bcn' = TimIe(tim')
    BY <1>8, BitmapFacts, BitFacts, DestFacts DEF AliveCheck, UpdateBeacon,
          KeepBeacon, bcn_vars, SleepMaps
  <2> QED BY <2>1, BitmapFacts DEF SleepMaps
<1>9. ASSUME NEW s \in Stas, FreeBits(s) PROVE SleepMaps'
  <2>1. /\ tim' \subseteq 0 .. 15 /\ dz' \subseteq 0 .. 15
        /\ bcn' = bcn \/ bcn' = TimIe(tim')
    BY <1>9, BitmapFacts, BitFacts, DestFacts DEF FreeBits, UpdateBeacon,
          KeepBeacon, bcn_vars, SleepMaps
  <2> QED BY <2>1, BitmapFacts DEF SleepMaps
<1>10. CASE WakeByLength
  <2>1. tx_force \in Dests /\ WakeSta("tx", tx_force)
    BY <1>10 DEF WakeByLength, SleepPcs
  <2> QED BY <2>1, DestFacts, WakeFacts DEF SleepMaps
<1>11. CASE PsPollEmpty
  <2>1. /\ tim' \subseteq 0 .. 15 /\ dz' \subseteq 0 .. 15
        /\ bcn' = bcn \/ bcn' = TimIe(tim')
    <3>1. tim' = tim \/ tim' \in Stores(tim \ BitOf(polled))
      BY <1>11, Zenon DEF PsPollEmpty
    <3> QED BY <1>11, <3>1, PollEmptyFacts, BitmapFacts DEF SleepMaps
  <2> QED BY <2>1, BitmapFacts DEF SleepMaps
<1>12. ASSUME NEW c \in Contexts, WakeRead(c) PROVE SleepMaps'
  <2>1. /\ tim' \subseteq 0 .. 15 /\ dz' \subseteq 0 .. 15
        /\ bcn' = bcn \/ bcn' = TimIe(tim')
    BY <1>12, BitmapFacts, BitFacts, DestFacts DEF WakeRead, UpdateBeacon,
          KeepBeacon, bcn_vars, SleepMaps
  <2> QED BY <2>1, BitmapFacts DEF SleepMaps
<1>13. ASSUME NEW c \in Contexts, WakeFlush(c) PROVE SleepMaps'
  <2>1. /\ tim' \subseteq 0 .. 15 /\ dz' \subseteq 0 .. 15
        /\ bcn' = bcn \/ bcn' = TimIe(tim')
    BY <1>13, BitmapFacts, BitFacts, DestFacts DEF WakeFlush, UpdateBeacon,
          KeepBeacon, bcn_vars, SleepMaps
  <2> QED BY <2>1, BitmapFacts DEF SleepMaps
<1>14. CASE CmdChkClear
  <2>1. /\ tim' \subseteq 0 .. 15 /\ dz' \subseteq 0 .. 15
        /\ bcn' = bcn \/ bcn' = TimIe(tim')
    BY <1>14, BitmapFacts, BitFacts, DestFacts DEF CmdChkClear, UpdateBeacon,
          KeepBeacon, bcn_vars, SleepMaps
  <2> QED BY <2>1, BitmapFacts DEF SleepMaps
<1>15. ASSUME NEW k \in Servqs, QueuePlain(k[1], k[2]) \/ XmitPending(k) PROVE
   SleepMaps'
  <2>1. UNCHANGED <<dz, tim, bcn>>
    BY <1>15, Zenon DEF QueuePlain, List, XmitPending
  <2> QED BY <2>1 DEF SleepMaps
<1>16. ASSUME NEW s \in Stas, Authenticate(s) \/ Associate(s) \/ RejectAgain(s)
   \/ FreeSta(s) PROVE SleepMaps'
  <2>1. UNCHANGED <<dz, tim, bcn>>
    BY <1>16, Zenon DEF Authenticate, Associate, RejectAgain, FreeSta
  <2> QED BY <2>1 DEF SleepMaps
<1>17. CASE CmdBeacon \/ CmdFlush \/ CmdChk \/ CmdChkRetry
  <2>1. UNCHANGED <<dz, tim, bcn>>
    BY <1>17, Zenon DEF CmdBeacon, CmdFlush, List, CmdChk, CmdChkRetry
  <2> QED BY <2>1 DEF SleepMaps
<1>18. CASE UNCHANGED sleep_vars
  <2>1. UNCHANGED <<dz, tim, bcn>>
    BY <1>18, Zenon DEF sleep_vars
  <2> QED BY <2>1 DEF SleepMaps
<1> QED
  BY SleepCases, <1>1, <1>2, <1>3, <1>4, <1>5, <1>6, <1>7, <1>8, <1>9, <1>10,
     <1>11, <1>12, <1>13, <1>14, <1>15, <1>16, <1>17, <1>18

(* A step keeps the commands and the control points.                       *)
LEMMA QueueCmdFacts ==
  ASSUME NEW cm \in {"bcn", "chk"}, NEW q \in Seq({"bcn", "chk"})
  PROVE  QueueCmd(cm, q) \in Seq({"bcn", "chk"})
BY DEF QueueCmd

(* The control points.                                                     *)
LEMMA PcsInv == SleepPcs /\ [SleepNext]_sleep_vars => SleepPcs'
<1> SUFFICES ASSUME SleepPcs, [SleepNext]_sleep_vars PROVE SleepPcs'
  OBVIOUS
<1> USE DEF SleepPcs, queue_vars, sta_vars, aid_vars, map_vars, bcn_vars,
   other_vars
<1>1. ASSUME \/ cmds' = cmds \/ cmds' = QueueCmd("bcn", cmds) \/ cmds' = QueueCmd("chk", cmds)
             \/ (cmds # <<>> /\ cmds' = Tail(cmds))
      PROVE  cmds' \in Seq({"bcn", "chk"})
  <2>1. cmds \in Seq({"bcn", "chk"}) /\ (cmds # <<>> => Tail(cmds) \in Seq({"bcn", "chk"}))
    OBVIOUS
  <2>2. QueueCmd("bcn", cmds) \in Seq({"bcn", "chk"}) /\ QueueCmd("chk", cmds) \in Seq({"bcn", "chk"})
    BY <2>1, QueueCmdFacts
  <2> QED BY <1>1, <2>1, <2>2
<1>2. ASSUME NEW s \in Stas, NEW ac \in Acs(s), HoldUnicast(s, ac) PROVE SleepPcs'
  <2>1. cmds' = cmds \/ cmds' = QueueCmd("bcn", cmds) \/ cmds' = QueueCmd("chk", cmds)
        \/ (cmds # <<>> /\ cmds' = Tail(cmds))
    BY <1>2, Zenon DEF HoldUnicast, UpdateBeacon, KeepBeacon, bcn_vars
  <2>2. cmds' \in Seq({"bcn", "chk"})
    BY <2>1, <1>1
  <2>3. cmd_pc' \in {"idle", "window", "chk_wait"} /\ waking' \in [Contexts -> {"no", "read", "flush"}]
        /\ tx_force' \in Dests \cup {NoSta} /\ polled' \in Stas \cup {NoSta}
    BY <1>2, DestFacts DEF HoldUnicast, ForceIfLong
  <2> QED BY <2>2, <2>3
<1>3. CASE HoldMulticast
  <2>1. cmds' = cmds \/ cmds' = QueueCmd("bcn", cmds) \/ cmds' = QueueCmd("chk", cmds)
        \/ (cmds # <<>> /\ cmds' = Tail(cmds))
    BY <1>3, Zenon DEF HoldMulticast, UpdateBeacon, KeepBeacon, bcn_vars
  <2>2. cmds' \in Seq({"bcn", "chk"})
    BY <2>1, <1>1
  <2>3. cmd_pc' \in {"idle", "window", "chk_wait"} /\ waking' \in [Contexts -> {"no", "read", "flush"}]
        /\ tx_force' \in Dests \cup {NoSta} /\ polled' \in Stas \cup {NoSta}
    BY <1>3, DestFacts DEF HoldMulticast, ForceIfLong
  <2> QED BY <2>2, <2>3
<1>4. ASSUME NEW s \in Stas, StopStaXmit(s) PROVE SleepPcs'
  <2>1. cmds' = cmds \/ cmds' = QueueCmd("bcn", cmds) \/ cmds' = QueueCmd("chk", cmds)
        \/ (cmds # <<>> /\ cmds' = Tail(cmds))
    BY <1>4, Zenon DEF StopStaXmit, UpdateBeacon, KeepBeacon, bcn_vars
  <2>2. cmds' \in Seq({"bcn", "chk"})
    BY <2>1, <1>1
  <2>3. cmd_pc' \in {"idle", "window", "chk_wait"} /\ waking' \in [Contexts -> {"no", "read", "flush"}]
        /\ tx_force' \in Dests \cup {NoSta} /\ polled' \in Stas \cup {NoSta}
    BY <1>4, DestFacts DEF StopStaXmit
  <2> QED BY <2>2, <2>3
<1>5. ASSUME NEW s \in Stas, WakeByPwrBit(s) PROVE SleepPcs'
  BY <1>5, DestFacts DEF WakeByPwrBit, WakeSta, Release, List, BmcLost, Contexts
<1>6. ASSUME NEW s \in Stas, PsPoll(s) PROVE SleepPcs'
  <2>1. cmds' = cmds \/ cmds' = QueueCmd("bcn", cmds) \/ cmds' = QueueCmd("chk", cmds)
        \/ (cmds # <<>> /\ cmds' = Tail(cmds))
    BY <1>6, Zenon DEF PsPoll, UpdateBeacon, KeepBeacon, bcn_vars
  <2>2. cmds' \in Seq({"bcn", "chk"})
    BY <2>1, <1>1
  <2>3. cmd_pc' \in {"idle", "window", "chk_wait"} /\ waking' \in [Contexts -> {"no", "read", "flush"}]
        /\ tx_force' \in Dests \cup {NoSta} /\ polled' \in Stas \cup {NoSta}
    BY <1>6, DestFacts DEF PsPoll
  <2> QED BY <2>2, <2>3
<1>7. ASSUME NEW s \in Stas, Trigger(s) PROVE SleepPcs'
  <2>1. cmds' = cmds \/ cmds' = QueueCmd("bcn", cmds) \/ cmds' = QueueCmd("chk", cmds)
        \/ (cmds # <<>> /\ cmds' = Tail(cmds))
    BY <1>7, Zenon DEF Trigger, UpdateBeacon, KeepBeacon, bcn_vars
  <2>2. cmds' \in Seq({"bcn", "chk"})
    BY <2>1, <1>1
  <2>3. cmd_pc' \in {"idle", "window", "chk_wait"} /\ waking' \in [Contexts -> {"no", "read", "flush"}]
        /\ tx_force' \in Dests \cup {NoSta} /\ polled' \in Stas \cup {NoSta}
    BY <1>7, DestFacts DEF Trigger
  <2> QED BY <2>2, <2>3
<1>8. ASSUME NEW s \in Stas, WakeByExpiry(s) PROVE SleepPcs'
  BY <1>8, DestFacts DEF WakeByExpiry, WakeSta, Release, List, BmcLost, Contexts
<1>9. ASSUME NEW s \in Stas, AliveCheck(s) PROVE SleepPcs'
  <2>1. cmds' = cmds \/ cmds' = QueueCmd("bcn", cmds) \/ cmds' = QueueCmd("chk", cmds)
        \/ (cmds # <<>> /\ cmds' = Tail(cmds))
    BY <1>9, Zenon DEF AliveCheck, UpdateBeacon, KeepBeacon, bcn_vars
  <2>2. cmds' \in Seq({"bcn", "chk"})
    BY <2>1, <1>1
  <2>3. cmd_pc' \in {"idle", "window", "chk_wait"} /\ waking' \in [Contexts -> {"no", "read", "flush"}]
        /\ tx_force' \in Dests \cup {NoSta} /\ polled' \in Stas \cup {NoSta}
    BY <1>9, DestFacts DEF AliveCheck
  <2> QED BY <2>2, <2>3
<1>10. CASE WakeByLength
  BY <1>10, DestFacts DEF WakeByLength, WakeSta, Release, List, BmcLost,
     Contexts
<1>11. CASE PsPollEmpty
  <2>1. cmds' = cmds \/ cmds' = QueueCmd("bcn", cmds) \/ cmds' = QueueCmd("chk", cmds)
        \/ (cmds # <<>> /\ cmds' = Tail(cmds))
    BY <1>11, Zenon DEF PsPollEmpty, UpdateBeacon, KeepBeacon, bcn_vars
  <2>2. cmds' \in Seq({"bcn", "chk"})
    BY <2>1, <1>1
  <2>3. cmd_pc' \in {"idle", "window", "chk_wait"} /\ waking' \in [Contexts -> {"no", "read", "flush"}]
        /\ tx_force' \in Dests \cup {NoSta} /\ polled' \in Stas \cup {NoSta}
    BY <1>11, DestFacts DEF PsPollEmpty
  <2> QED BY <2>2, <2>3
<1>12. ASSUME NEW c \in Contexts, WakeRead(c) PROVE SleepPcs'
  <2>1. cmds' = cmds \/ cmds' = QueueCmd("bcn", cmds) \/ cmds' = QueueCmd("chk", cmds)
        \/ (cmds # <<>> /\ cmds' = Tail(cmds))
    BY <1>12, Zenon DEF WakeRead, UpdateBeacon, KeepBeacon, bcn_vars
  <2>2. cmds' \in Seq({"bcn", "chk"})
    BY <2>1, <1>1
  <2>3. cmd_pc' \in {"idle", "window", "chk_wait"} /\ waking' \in [Contexts -> {"no", "read", "flush"}]
        /\ tx_force' \in Dests \cup {NoSta} /\ polled' \in Stas \cup {NoSta}
    BY <1>12, DestFacts DEF WakeRead
  <2> QED BY <2>2, <2>3
<1>13. ASSUME NEW c \in Contexts, WakeFlush(c) PROVE SleepPcs'
  <2>1. cmds' = cmds \/ cmds' = QueueCmd("bcn", cmds) \/ cmds' = QueueCmd("chk", cmds)
        \/ (cmds # <<>> /\ cmds' = Tail(cmds))
    BY <1>13, Zenon DEF WakeFlush, UpdateBeacon, KeepBeacon, bcn_vars
  <2>2. cmds' \in Seq({"bcn", "chk"})
    BY <2>1, <1>1
  <2>3. cmd_pc' \in {"idle", "window", "chk_wait"} /\ waking' \in [Contexts -> {"no", "read", "flush"}]
        /\ tx_force' \in Dests \cup {NoSta} /\ polled' \in Stas \cup {NoSta}
    BY <1>13, DestFacts DEF WakeFlush
  <2> QED BY <2>2, <2>3
<1>14. ASSUME NEW k \in Servqs, XmitPending(k) PROVE SleepPcs'
  <2>1. cmds' = cmds \/ cmds' = QueueCmd("bcn", cmds) \/ cmds' = QueueCmd("chk", cmds)
        \/ (cmds # <<>> /\ cmds' = Tail(cmds))
    BY <1>14, Zenon DEF XmitPending, UpdateBeacon, KeepBeacon, bcn_vars
  <2>2. cmds' \in Seq({"bcn", "chk"})
    BY <2>1, <1>1
  <2>3. cmd_pc' \in {"idle", "window", "chk_wait"} /\ waking' \in [Contexts -> {"no", "read", "flush"}]
        /\ tx_force' \in Dests \cup {NoSta} /\ polled' \in Stas \cup {NoSta}
    BY <1>14, DestFacts DEF XmitPending
  <2> QED BY <2>2, <2>3
<1>15. CASE CmdBeacon
  <2>1. cmds' = cmds \/ cmds' = QueueCmd("bcn", cmds) \/ cmds' = QueueCmd("chk", cmds)
        \/ (cmds # <<>> /\ cmds' = Tail(cmds))
    BY <1>15, Zenon DEF CmdBeacon, UpdateBeacon, KeepBeacon, bcn_vars
  <2>2. cmds' \in Seq({"bcn", "chk"})
    BY <2>1, <1>1
  <2>3. cmd_pc' \in {"idle", "window", "chk_wait"} /\ waking' \in [Contexts -> {"no", "read", "flush"}]
        /\ tx_force' \in Dests \cup {NoSta} /\ polled' \in Stas \cup {NoSta}
    BY <1>15, DestFacts DEF CmdBeacon
  <2> QED BY <2>2, <2>3
<1>16. CASE CmdFlush
  BY <1>16, DestFacts DEF CmdFlush, List
<1>17. CASE CmdChk
  <2>1. cmds' = cmds \/ cmds' = QueueCmd("bcn", cmds) \/ cmds' = QueueCmd("chk", cmds)
        \/ (cmds # <<>> /\ cmds' = Tail(cmds))
    BY <1>17, Zenon DEF CmdChk, UpdateBeacon, KeepBeacon, bcn_vars
  <2>2. cmds' \in Seq({"bcn", "chk"})
    BY <2>1, <1>1
  <2>3. cmd_pc' \in {"idle", "window", "chk_wait"} /\ waking' \in [Contexts -> {"no", "read", "flush"}]
        /\ tx_force' \in Dests \cup {NoSta} /\ polled' \in Stas \cup {NoSta}
    BY <1>17, DestFacts DEF CmdChk
  <2> QED BY <2>2, <2>3
<1>18. CASE CmdChkRetry
  <2>1. cmds' = cmds \/ cmds' = QueueCmd("bcn", cmds) \/ cmds' = QueueCmd("chk", cmds)
        \/ (cmds # <<>> /\ cmds' = Tail(cmds))
    BY <1>18, Zenon DEF CmdChkRetry, UpdateBeacon, KeepBeacon, bcn_vars
  <2>2. cmds' \in Seq({"bcn", "chk"})
    BY <2>1, <1>1
  <2>3. cmd_pc' \in {"idle", "window", "chk_wait"} /\ waking' \in [Contexts -> {"no", "read", "flush"}]
        /\ tx_force' \in Dests \cup {NoSta} /\ polled' \in Stas \cup {NoSta}
    BY <1>18, DestFacts DEF CmdChkRetry
  <2> QED BY <2>2, <2>3
<1>19. CASE CmdChkClear
  <2>1. cmds' = cmds \/ cmds' = QueueCmd("bcn", cmds) \/ cmds' = QueueCmd("chk", cmds)
        \/ (cmds # <<>> /\ cmds' = Tail(cmds))
    BY <1>19, Zenon DEF CmdChkClear, UpdateBeacon, KeepBeacon, bcn_vars
  <2>2. cmds' \in Seq({"bcn", "chk"})
    BY <2>1, <1>1
  <2>3. cmd_pc' \in {"idle", "window", "chk_wait"} /\ waking' \in [Contexts -> {"no", "read", "flush"}]
        /\ tx_force' \in Dests \cup {NoSta} /\ polled' \in Stas \cup {NoSta}
    BY <1>19, DestFacts DEF CmdChkClear
  <2> QED BY <2>2, <2>3
<1>20. ASSUME NEW k \in Servqs, QueuePlain(k[1], k[2]) PROVE SleepPcs'
  <2>1. UNCHANGED <<cmds, cmd_pc, waking, tx_force, polled>>
    BY <1>20, Zenon DEF QueuePlain, List
  <2> QED BY <2>1
<1>21. ASSUME NEW s \in Stas, Authenticate(s) \/ Associate(s) \/ RejectAgain(s)
   \/ FreeSta(s) PROVE SleepPcs'
  <2>1. UNCHANGED <<cmds, cmd_pc, waking, tx_force, polled>>
    BY <1>21, Zenon DEF Authenticate, Associate, RejectAgain, FreeSta
  <2> QED BY <2>1
<1>22. ASSUME NEW s \in Stas, FreeBits(s) PROVE SleepPcs'
  <2>1. UNCHANGED <<cmds, cmd_pc, waking, tx_force, polled>>
    BY <1>22, Zenon DEF FreeBits, BmcLost
  <2> QED BY <2>1
<1>23. CASE UNCHANGED sleep_vars
  <2>1. UNCHANGED <<cmds, cmd_pc, waking, tx_force, polled>>
    BY <1>23, Zenon DEF sleep_vars
  <2> QED BY <2>1
<1> HIDE DEF SleepPcs
<1> QED
  BY SleepCases, <1>2, <1>3, <1>4, <1>5, <1>6, <1>7, <1>8, <1>9, <1>10, <1>11,
     <1>12, <1>13, <1>14, <1>15, <1>16, <1>17, <1>18, <1>19, <1>20, <1>21,
     <1>22, <1>23

(* The flags are Boolean.                                                  *)
LEMMA FlagsInv == SleepFlags /\ [SleepNext]_sleep_vars => SleepFlags'
<1> SUFFICES ASSUME SleepFlags, [SleepNext]_sleep_vars PROVE SleepFlags'
  OBVIOUS
<1> USE DEF SleepFlags, queue_vars, sta_vars, aid_vars, map_vars, bcn_vars,
   other_vars
<1>1. ASSUME NEW s \in Stas, NEW ac \in Acs(s), HoldUnicast(s, ac) PROVE SleepFlags'
  BY <1>1, Zenon DEF HoldUnicast, UpdateBeacon, KeepBeacon, ForceIfLong
<1>2. CASE HoldMulticast
  BY <1>2, Zenon DEF HoldMulticast, UpdateBeacon, ForceIfLong
<1>3. ASSUME NEW s \in Stas, StopStaXmit(s) PROVE SleepFlags'
  BY <1>3, Zenon DEF StopStaXmit, UpdateBeacon, KeepBeacon
<1>4. ASSUME NEW s \in Stas, WakeByPwrBit(s) PROVE SleepFlags'
  BY <1>4, Zenon DEF WakeByPwrBit, WakeSta, Release, List, BmcLost
<1>5. ASSUME NEW s \in Stas, PsPoll(s) PROVE SleepFlags'
  BY <1>5, Zenon DEF PsPoll, Release, List, BmcLost, UpdateBeacon, KeepBeacon
<1>6. ASSUME NEW s \in Stas, Trigger(s) PROVE SleepFlags'
  BY <1>6, Zenon DEF Trigger, Release, List, BmcLost, UpdateBeacon, KeepBeacon
<1>7. ASSUME NEW s \in Stas, WakeByExpiry(s) PROVE SleepFlags'
  BY <1>7, Zenon DEF WakeByExpiry, WakeSta, Release, List, BmcLost
<1>8. ASSUME NEW s \in Stas, AliveCheck(s) PROVE SleepFlags'
  BY <1>8, Zenon DEF AliveCheck, UpdateBeacon
<1>9. ASSUME NEW s \in Stas, FreeBits(s) PROVE SleepFlags'
  BY <1>9, Zenon DEF FreeBits, BmcLost
<1>10. CASE WakeByLength
  BY <1>10, Zenon DEF WakeByLength, WakeSta, Release, List, BmcLost
<1>11. CASE PsPollEmpty
  BY <1>11, Zenon DEF PsPollEmpty, UpdateBeacon, BmcLost, KeepBeacon
<1>12. ASSUME NEW c \in Contexts, WakeRead(c) PROVE SleepFlags'
  BY <1>12, Zenon DEF WakeRead, KeepBeacon, UpdateBeacon
<1>13. ASSUME NEW c \in Contexts, WakeFlush(c) PROVE SleepFlags'
  BY <1>13, Zenon DEF WakeFlush, Release, List, UpdateBeacon, BmcLost
<1>14. CASE CmdBeacon
  BY <1>14, Zenon DEF CmdBeacon
<1>15. CASE CmdFlush
  BY <1>15, Zenon DEF CmdFlush, List
<1>16. CASE CmdChkClear
  BY <1>16, Zenon DEF CmdChkClear, UpdateBeacon, BmcLost
<1>17. ASSUME NEW k \in Servqs, QueuePlain(k[1], k[2]) \/ XmitPending(k) PROVE
   SleepFlags'
  BY <1>17, Zenon DEF QueuePlain, List, XmitPending
<1>18. ASSUME NEW s \in Stas, Authenticate(s) \/ Associate(s) \/ RejectAgain(s)
   \/ FreeSta(s) PROVE SleepFlags'
  BY <1>18, Zenon DEF Authenticate, Associate, RejectAgain, FreeSta
<1>19. CASE CmdChk \/ CmdChkRetry \/ UNCHANGED sleep_vars
  BY <1>19, Zenon DEF CmdChk, CmdChkRetry, sleep_vars
<1> HIDE DEF SleepFlags
<1> QED
  BY SleepCases, <1>1, <1>2, <1>3, <1>4, <1>5, <1>6, <1>7, <1>8, <1>9, <1>10,
     <1>11, <1>12, <1>13, <1>14, <1>15, <1>16, <1>17, <1>18, <1>19

(***************************************************************************)
(* What is held, and what is advertised of it.                             *)
(***************************************************************************)
(* What holding a frame does.                                              *)
LEMMA HoldFacts ==
  ASSUME SleepQueues, NEW s \in Stas, NEW ac \in Acs(s), HoldUnicast(s, ac)
  PROVE  /\ \A i \in DOMAIN sleep_q'[s] :
              sleep_q'[s][i] = ac \/ (i \in DOMAIN sleep_q[s] /\ sleep_q'[s][i] = sleep_q[s][i])
         /\ \A d \in Dests \ {s} : sleep_q'[d] = sleep_q[d]
         /\ s \in sleeping /\ BitOf(s) # {}
         /\ IF InTim(s, ac)
            THEN /\ tim' = tim \cup BitOf(s)
                 /\ bcn' = IF sleep_q[s] = <<>> THEN TimIe(tim') ELSE bcn
            ELSE tim' = tim /\ bcn' = bcn
         /\ UNCHANGED <<present, sleep_aid, aids_used, misnamed, sleeping, dz, bmc_lost, torn>>
<1>1. /\ sleep_q[s] \in Seq({"l", "u"}) /\ s \in Dests /\ ac \in {"l", "u"}
      /\ sleep_q \in [Dests -> Seq({"l", "u"})]
  BY DestFacts DEF SleepQueues
<1>2. sleep_q' = [sleep_q EXCEPT ![s] = Append(sleep_q[s], ac)]
  BY Zenon DEF HoldUnicast
<1>3. sleep_q'[s] = Append(sleep_q[s], ac) /\ \A d \in Dests \ {s} : sleep_q'[d] = sleep_q[d]
  BY <1>1, <1>2
<1>4. \A i \in DOMAIN sleep_q'[s] :
        sleep_q'[s][i] = ac \/ (i \in DOMAIN sleep_q[s] /\ sleep_q'[s][i] = sleep_q[s][i])
  BY <1>1, <1>3
<1>5. /\ IF InTim(s, ac)
         THEN /\ tim' = tim \cup BitOf(s)
              /\ bcn' = IF sleep_q[s] = <<>> THEN TimIe(tim') ELSE bcn
         ELSE tim' = tim /\ bcn' = bcn
      /\ UNCHANGED <<present, sleep_aid, aids_used, misnamed, sleeping, dz, bmc_lost, torn>>
  BY Zenon DEF HoldUnicast, UpdateBeacon, KeepBeacon, bcn_vars, sta_vars, aid_vars
<1>6. s \in sleeping /\ BitOf(s) # {}
  BY DEF HoldUnicast, Dozes
<1> QED BY <1>3, <1>4, <1>5, <1>6, Zenon

(* What holding a multicast frame does.                                    *)
LEMMA HoldMulticastFacts ==
  ASSUME SleepQueues, HoldMulticast
  PROVE  /\ \A i \in DOMAIN sleep_q'[0] :
              sleep_q'[0][i] = "l" \/ (i \in DOMAIN sleep_q[0] /\ sleep_q'[0][i] = sleep_q[0][i])
         /\ \A d \in Stas : sleep_q'[d] = sleep_q[d]
         /\ tim' = tim \cup {0} /\ dz' = dz \cup {0} /\ bcn' = TimIe(tim')
         /\ UNCHANGED <<present, sleep_aid, aids_used, misnamed, sleeping, torn>>
<1>1. /\ sleep_q[0] \in Seq({"l", "u"}) /\ 0 \in Dests /\ Stas \subseteq Dests \ {0}
      /\ sleep_q \in [Dests -> Seq({"l", "u"})]
  BY DestFacts DEF SleepQueues
<1>2. /\ sleep_q' = [sleep_q EXCEPT ![0] = Append(sleep_q[0], "l")]
      /\ tim' = tim \cup {0} /\ dz' = dz \cup {0} /\ bcn' = TimIe(tim')
      /\ UNCHANGED <<present, sleep_aid, aids_used, misnamed, sleeping, torn>>
  BY Zenon DEF HoldMulticast, UpdateBeacon, sta_vars, aid_vars
<1>3. sleep_q'[0] = Append(sleep_q[0], "l") /\ \A d \in Stas : sleep_q'[d] = sleep_q[d]
  BY <1>1, <1>2
<1> QED BY <1>1, <1>2, <1>3

(* Frees and stores without the lock: what is not torn is as it should be, *)
(* and a torn store is not forgotten.                                      *)
LEMMA TornFacts ==
  /\ CmdChkClear => /\ (torn => torn') /\ (torn' \/ (tim' = tim \ {0} /\ dz' = dz \ {0}))
                    /\ UNCHANGED <<sleep_q, present, sleep_aid, aids_used, misnamed, sleeping>>
                    /\ BmcLost({0}) /\ bcn' = TimIe(tim')
  /\ \A s \in Stas : AliveCheck(s) =>
       /\ (torn => torn') /\ (torn' \/ tim' = tim \cup BitOf(s))
       /\ UNCHANGED <<sleep_q, present, sleep_aid, aids_used, misnamed, sleeping, dz, bmc_lost>>
       /\ bcn' = TimIe(tim')
  /\ \A s \in Stas : FreeBits(s) =>
       /\ (torn => torn') /\ (torn' \/ (tim' = tim \ BitOf(s) /\ dz' = dz \ BitOf(s)))
       /\ UNCHANGED <<sleep_q, present, misnamed, sleeping, bcn>> /\ BmcLost(BitOf(s))
       /\ s \in freeing /\ freeing' = freeing \ {s}
       /\ sleep_aid' = [sleep_aid EXCEPT ![s] = 0] /\ aids_used' = aids_used \ {sleep_aid[s]}
<1>1. CmdChkClear => /\ (torn => torn') /\ (torn' \/ (tim' = tim \ {0} /\ dz' = dz \ {0}))
                     /\ UNCHANGED <<sleep_q, present, sleep_aid, aids_used, misnamed, sleeping>>
                     /\ BmcLost({0}) /\ bcn' = TimIe(tim')
  BY Zenon DEF CmdChkClear, UpdateBeacon, queue_vars, sta_vars, aid_vars
<1>2. \A s \in Stas : AliveCheck(s) =>
        /\ (torn => torn') /\ (torn' \/ tim' = tim \cup BitOf(s))
        /\ UNCHANGED <<sleep_q, present, sleep_aid, aids_used, misnamed, sleeping, dz, bmc_lost>>
        /\ bcn' = TimIe(tim')
  BY Zenon DEF AliveCheck, UpdateBeacon, queue_vars, aid_vars
<1>3. \A s \in Stas : FreeBits(s) =>
        /\ (torn => torn') /\ (torn' \/ (tim' = tim \ BitOf(s) /\ dz' = dz \ BitOf(s)))
        /\ UNCHANGED <<sleep_q, present, misnamed, sleeping, bcn>> /\ BmcLost(BitOf(s))
        /\ s \in freeing /\ freeing' = freeing \ {s}
        /\ sleep_aid' = [sleep_aid EXCEPT ![s] = 0] /\ aids_used' = aids_used \ {sleep_aid[s]}
  BY Zenon DEF FreeBits, queue_vars, bcn_vars
<1> QED BY <1>1, <1>2, <1>3, Zenon

(* What the comings and goings of a station do to its name: nobody gets    *)
(* one but a station that is awake, with an AID that was free.             *)
LEMMA NameFacts ==
  ASSUME SleepSets, SleepAids, OwnAidInv, SleepQueues, NEW s \in Stas,
         Authenticate(s) \/ Associate(s) \/ RejectAgain(s) \/ FreeSta(s) \/ FreeBits(s)
  PROVE  /\ \A d \in Stas \ {s} : Named(d)' = Named(d) /\ sleep_aid'[d] = sleep_aid[d]
         /\ Named(s)' => Associate(s) /\ s \notin sleeping /\ s \notin sleeping'
                         /\ sleep_aid'[s] \notin aids_used /\ sleep_aid'[s] # 0
         /\ Associate(s) => aids_used \subseteq aids_used'
         /\ ~FreeBits(s) => UNCHANGED <<tim, dz, bcn, bmc_lost, torn>> /\ aids_used \subseteq aids_used'
         /\ ~FreeSta(s) => UNCHANGED <<sleep_q, sleeping>>
         /\ FreeSta(s) => /\ sleep_q'[s] = <<>> /\ sleeping' = sleeping \ {s}
                          /\ \A d \in Dests \ {s} : sleep_q'[d] = sleep_q[d]
<1> USE DEF aid_vars, queue_vars, other_vars, map_vars, bcn_vars
<1>1. CASE Authenticate(s)
  <2>1. /\ s \notin present \cup freeing /\ present' = present \cup {s}
        /\ UNCHANGED <<sleep_aid, aids_used, misnamed, sleeping, sleep_q, tim, dz, bcn, bmc_lost, torn>>
    BY <1>1, Zenon DEF Authenticate
  <2>2. sleep_aid[s] = 0
    BY <2>1 DEF OwnAidInv
  <2>3. ~FreeSta(s)
    BY <2>1 DEF FreeSta, SleepSets
  <2> QED BY <2>1, <2>2, <2>3 DEF Named
<1>2. CASE Associate(s)
  <2>1. /\ UNCHANGED <<present, sleeping, sleep_q, tim, dz, bcn, bmc_lost, torn>>
        /\ misnamed' = IF s \in sleeping THEN misnamed \cup {s} ELSE misnamed
    BY <1>2, Zenon DEF Associate
  <2>2. PICK a \in Aids \ aids_used :
          sleep_aid' = [sleep_aid EXCEPT ![s] = a] /\ aids_used' = aids_used \cup {a}
    BY <1>2, Zenon DEF Associate
  <2>3. sleep_aid'[s] = a /\ \A d \in Stas \ {s} : sleep_aid'[d] = sleep_aid[d]
    BY <2>2 DEF SleepAids
  <2>4. a # 0
    BY AidsAssumption
  <2>5. ~FreeSta(s)
    BY <2>1 DEF FreeSta
  <2>6. \A d \in Stas \ {s} : Named(d)' = Named(d)
    BY <2>1, <2>3 DEF Named
  <2>7. Named(s)' => s \notin sleeping /\ s \notin sleeping'
    BY <2>1 DEF Named
  <2>8. aids_used \subseteq aids_used'
    BY <2>2
  <2> QED BY <1>2, <2>1, <2>2, <2>3, <2>4, <2>5, <2>6, <2>7, <2>8
<1>3. CASE RejectAgain(s)
  <2>1. /\ UNCHANGED <<present, aids_used, sleeping, sleep_q, tim, dz, bcn, bmc_lost, torn>>
        /\ misnamed' = IF s \in sleeping THEN misnamed \cup {s} ELSE misnamed
        /\ sleep_aid' = [sleep_aid EXCEPT ![s] = 0] /\ s \in present
    BY <1>3, Zenon DEF RejectAgain
  <2>2. sleep_aid'[s] = 0 /\ \A d \in Stas \ {s} : sleep_aid'[d] = sleep_aid[d]
    BY <2>1 DEF SleepAids
  <2>3. ~FreeSta(s)
    BY <2>1 DEF FreeSta
  <2> QED BY <2>1, <2>2, <2>3 DEF Named
<1>4. CASE FreeSta(s)
  <2>1. /\ present' = present \ {s} /\ misnamed' = misnamed \ {s} /\ s \in present
        /\ sleep_q' = [sleep_q EXCEPT ![s] = <<>>] /\ sleeping' = sleeping \ {s}
        /\ UNCHANGED <<sleep_aid, aids_used, tim, dz, bcn, bmc_lost, torn>>
    BY <1>4, Zenon DEF FreeSta
  <2>2. sleep_q'[s] = <<>> /\ \A d \in Dests \ {s} : sleep_q'[d] = sleep_q[d]
    BY <2>1, DestFacts DEF SleepQueues
  <2>3. ~FreeBits(s)
    BY <2>1 DEF FreeBits, SleepSets
  <2> QED BY <1>4, <2>1, <2>2, <2>3 DEF Named
<1>5. CASE FreeBits(s)
  <2>1. /\ UNCHANGED <<sleep_q, sleeping, present, misnamed>>
        /\ s \in freeing /\ sleep_aid' = [sleep_aid EXCEPT ![s] = 0]
    BY <1>5, TornFacts
  <2>2. sleep_aid'[s] = 0 /\ \A d \in Stas \ {s} : sleep_aid'[d] = sleep_aid[d]
    BY <2>1 DEF SleepAids
  <2>3. ~FreeSta(s) /\ ~Associate(s)
    BY <2>1 DEF FreeSta, Associate, SleepSets
  <2> QED BY <1>5, <2>1, <2>2, <2>3 DEF Named
<1> QED BY <1>1, <1>2, <1>3, <1>4, <1>5

(* A bit that is set is that of an AID in use.                             *)
LEMMA BitUsed ==
  ASSUME SleepAids, OwnAidInv, NEW s \in Dests
  PROVE  BitOf(s) \subseteq aids_used \cup {0}
BY BitFacts DEF OwnAidInv

(* The bitmaps have no bit of a free AID when they get no other bits.      *)
LEMMA StrayKeep ==
  ASSUME StrayInv, SleepAids, OwnAidInv, NEW s \in Dests, torn => torn', aids_used \subseteq aids_used',
         torn' \/ (tim' \subseteq tim \cup BitOf(s) \cup {0} /\ dz' \subseteq dz \cup BitOf(s) \cup {0})
  PROVE  StrayInv'
BY BitUsed DEF StrayInv

(* A step keeps the bitmaps free of other bits.                            *)
LEMMA StrayStep ==
  StrayInv /\ SleepSets /\ SleepAids /\ OwnAidInv /\ SleepMaps /\ SleepQueues /\
        SleepCounts /\ SleepPcs /\ [SleepNext]_sleep_vars => StrayInv'
<1> SUFFICES ASSUME StrayInv, SleepSets, SleepAids, OwnAidInv, SleepMaps,
      SleepQueues, SleepCounts, SleepPcs, [SleepNext]_sleep_vars PROVE StrayInv'
  OBVIOUS
<1> USE DEF queue_vars, sta_vars, aid_vars, map_vars, bcn_vars, other_vars
<1>1. ASSUME NEW s \in Stas, NEW ac \in Acs(s), HoldUnicast(s, ac) PROVE StrayInv'
  BY <1>1, HoldFacts, DestFacts, StrayKeep
<1>2. CASE HoldMulticast
  BY <1>2, HoldMulticastFacts, DestFacts, StrayKeep
<1>3. ASSUME NEW s \in Stas, StopStaXmit(s) PROVE StrayInv'
  <2>1. /\ tim' \subseteq tim \cup BitOf(s) \cup {0} /\ dz' \subseteq dz \cup BitOf(s) \cup {0}
    BY <1>3, StopFacts
  <2>2. UNCHANGED <<aids_used, torn>>
    BY <1>3, Zenon DEF StopStaXmit, aid_vars
  <2> QED BY <2>1, <2>2, DestFacts, StrayKeep
<1>4. ASSUME NEW s \in Stas, WakeByPwrBit(s) PROVE StrayInv'
  <2>1. s \in Stas /\ WakeSta("rx", s)
    BY <1>4 DEF WakeByPwrBit
  <2> QED BY <2>1, DestFacts, WakeFacts, StrayKeep
<1>5. ASSUME NEW s \in Stas, PsPoll(s) PROVE StrayInv'
  BY <1>5, PsPollFacts, DestFacts, StrayKeep
<1>6. ASSUME NEW s \in Stas, Trigger(s) PROVE StrayInv'
  BY <1>6, TriggerFacts, DestFacts, StrayKeep
<1>7. ASSUME NEW s \in Stas, WakeByExpiry(s) PROVE StrayInv'
  <2>1. WakeSta("cmd", s)
    BY <1>7 DEF WakeByExpiry
  <2> QED BY <2>1, DestFacts, WakeFacts, StrayKeep
<1>8. ASSUME NEW s \in Stas, AliveCheck(s) PROVE StrayInv'
  BY <1>8, TornFacts, DestFacts, StrayKeep
<1>9. ASSUME NEW s \in Stas, Associate(s) PROVE StrayInv'
  <2>1. ~FreeBits(s)
    BY <1>9 DEF FreeBits, Associate, SleepSets
  <2> QED BY <1>9, <2>1, NameFacts, DestFacts, StrayKeep
<1>10. ASSUME NEW s \in Stas, FreeBits(s) PROVE StrayInv'
  <2>1. /\ torn' \/ (tim' = tim \ BitOf(s) /\ dz' = dz \ BitOf(s))
        /\ aids_used' = aids_used \ {sleep_aid[s]} /\ (torn => torn')
    BY <1>10, TornFacts
  <2>2. sleep_aid[s] \in 0 .. 15 => sleep_aid[s] \in BitOf(s)
    BY BitFacts, DestFacts
  <2>3. CASE torn'
    BY <2>3 DEF StrayInv
  <2>4. CASE ~torn'
    <3>1. tim' = tim \ BitOf(s) /\ dz' = dz \ BitOf(s) /\ (dz \cup tim) \ {0} \subseteq aids_used
      BY <2>1, <2>4 DEF StrayInv
    <3>2. ASSUME NEW b \in (dz' \cup tim') \ {0} PROVE b \in aids_used'
      <4>1. b \in dz \cup tim /\ b \notin BitOf(s) /\ b \in 0 .. 15 /\ b \in aids_used
        BY <3>1, <3>2 DEF SleepMaps
      <4> QED BY <2>1, <2>2, <4>1
    <3> QED BY <3>2 DEF StrayInv
  <2> QED BY <2>3, <2>4
<1>11. CASE WakeByLength
  <2>1. tx_force \in Dests /\ WakeSta("tx", tx_force)
    BY <1>11 DEF WakeByLength, SleepPcs
  <2> QED BY <2>1, DestFacts, WakeFacts, StrayKeep
<1>12. CASE PsPollEmpty
  <2>1. UNCHANGED <<aids_used, dz>> /\ (torn => torn') /\ (torn' \/ tim' \subseteq tim)
    BY <1>12, PollEmptyFacts
  <2> QED BY <2>1, DestFacts, StrayKeep
<1>13. ASSUME NEW c \in Contexts, WakeFlush(c) PROVE StrayInv'
  <2>1. tim' \subseteq tim /\ dz' \subseteq dz /\ UNCHANGED <<aids_used, torn>>
    BY <1>13, Zenon DEF WakeFlush, aid_vars
  <2> QED BY <2>1, DestFacts, StrayKeep
<1>14. CASE CmdChkClear
  BY <1>14, TornFacts, DestFacts, StrayKeep
<1>15. ASSUME NEW k \in Servqs, QueuePlain(k[1], k[2]) \/ XmitPending(k) PROVE
   StrayInv'
  <2>1. UNCHANGED <<dz, tim, torn, aids_used>>
    BY <1>15, Zenon DEF QueuePlain, List, XmitPending
  <2> QED BY <2>1 DEF StrayInv
<1>16. ASSUME NEW s \in Stas, Authenticate(s) \/ RejectAgain(s) \/ FreeSta(s)
   PROVE StrayInv'
  <2>1. UNCHANGED <<dz, tim, torn, aids_used>>
    BY <1>16, Zenon DEF Authenticate, RejectAgain, FreeSta
  <2> QED BY <2>1 DEF StrayInv
<1>17. ASSUME NEW c \in Contexts, WakeRead(c) PROVE StrayInv'
  <2>1. UNCHANGED <<dz, tim, torn, aids_used>>
    BY <1>17, Zenon DEF WakeRead, KeepBeacon, UpdateBeacon
  <2> QED BY <2>1 DEF StrayInv
<1>18. CASE CmdBeacon \/ CmdFlush \/ CmdChk \/ CmdChkRetry
  <2>1. UNCHANGED <<dz, tim, torn, aids_used>>
    BY <1>18, Zenon DEF CmdBeacon, CmdFlush, List, CmdChk, CmdChkRetry
  <2> QED BY <2>1 DEF StrayInv
<1>19. CASE UNCHANGED sleep_vars
  <2>1. UNCHANGED <<dz, tim, torn, aids_used>>
    BY <1>19, Zenon DEF sleep_vars
  <2> QED BY <2>1 DEF StrayInv
<1> QED
  BY SleepCases, <1>1, <1>2, <1>3, <1>4, <1>5, <1>6, <1>7, <1>8, <1>9, <1>10,
     <1>11, <1>12, <1>13, <1>14, <1>15, <1>16, <1>17, <1>18, <1>19

(* Only frames of its categories wait for a destination.                   *)
LEMMA WakeKinds ==
  ASSUME KindInv, SleepQueues, NEW c, NEW s \in Dests, WakeSta(c, s)
  PROVE  KindInv'
BY WakeFacts DEF KindInv

(* A step keeps the categories.                                            *)
LEMMA KindStep ==
  KindInv /\ SleepQueues /\ SleepCounts /\ SleepPcs /\ [SleepNext]_sleep_vars => KindInv'
<1> SUFFICES ASSUME KindInv, SleepQueues, SleepCounts, SleepPcs,
      [SleepNext]_sleep_vars PROVE KindInv'
  OBVIOUS
<1> USE DEF queue_vars, sta_vars, aid_vars, map_vars, bcn_vars, other_vars
<1>1. ASSUME NEW s \in Stas, NEW ac \in Acs(s), HoldUnicast(s, ac) PROVE KindInv'
  BY <1>1, HoldFacts DEF KindInv
<1>2. CASE HoldMulticast
  BY <1>2, HoldMulticastFacts, DestFacts DEF KindInv, Dests
<1>3. ASSUME NEW s \in Stas, StopStaXmit(s) PROVE KindInv'
  <2>1. PICK moved \in Seq({"l", "u"}), back \in Seq({"l", "u"}) :
          /\ \A i \in DOMAIN moved : moved[i] \in Acs(s)
          /\ \A i \in DOMAIN back : back[i] = "l"
          /\ sleep_q'[s] = sleep_q[s] \o moved /\ sleep_q'[0] = sleep_q[0] \o back
          /\ \A d \in Stas \ {s} : sleep_q'[d] = sleep_q[d]
    BY <1>3, StopFacts
  <2>2. sleep_q[s] \in Seq({"l", "u"}) /\ sleep_q[0] \in Seq({"l", "u"}) /\ s \in Dests /\ 0 \in Dests
    BY DestFacts DEF SleepQueues
  <2>3. \A i \in DOMAIN sleep_q'[s] : sleep_q'[s][i] \in Acs(s)
    BY <2>1, <2>2, ConcatFacts DEF KindInv
  <2>4. \A i \in DOMAIN sleep_q'[0] : sleep_q'[0][i] \in Acs(0)
    <3>1. Acs(0) = {"l"} /\ \A i \in DOMAIN sleep_q[0] : sleep_q[0][i] \in Acs(0)
      BY <2>2, DestFacts DEF KindInv
    <3>2. \A i \in DOMAIN (sleep_q[0] \o back) :
            \/ i \in DOMAIN sleep_q[0] /\ (sleep_q[0] \o back)[i] = sleep_q[0][i]
            \/ i - Len(sleep_q[0]) \in DOMAIN back
               /\ (sleep_q[0] \o back)[i] = back[i - Len(sleep_q[0])]
      BY <2>2, ConcatFacts
    <3> QED BY <2>1, <3>1, <3>2
  <2> QED BY <2>1, <2>3, <2>4, DestFacts DEF KindInv, Dests
<1>4. ASSUME NEW s \in Stas, WakeByPwrBit(s) PROVE KindInv'
  <2>1. s \in Stas /\ WakeSta("rx", s)
    BY <1>4 DEF WakeByPwrBit
  <2> QED BY <2>1, DestFacts, WakeKinds
<1>5. ASSUME NEW s \in Stas, PsPoll(s) PROVE KindInv'
  <2>1. /\ sleep_q'[s] = sleep_q[s] \/ (sleep_q[s] # <<>> /\ sleep_q'[s] = Tail(sleep_q[s]))
        /\ \A d \in Dests \ {s} : sleep_q'[d] = sleep_q[d]
    BY <1>5, PsPollFacts
  <2>2. sleep_q[s] \in Seq({"l", "u"}) /\ s \in Dests
    BY DestFacts DEF SleepQueues
  <2>3. sleep_q[s] # <<>> => \A i \in DOMAIN Tail(sleep_q[s]) :
          i + 1 \in DOMAIN sleep_q[s] /\ Tail(sleep_q[s])[i] = sleep_q[s][i + 1]
    BY <2>2
  <2>4. \A i \in DOMAIN sleep_q'[s] : sleep_q'[s][i] \in Acs(s)
    <3>1. CASE sleep_q'[s] = sleep_q[s]
      BY <2>2, <3>1 DEF KindInv
    <3>2. CASE sleep_q[s] # <<>> /\ sleep_q'[s] = Tail(sleep_q[s])
      BY <2>2, <2>3, <3>2 DEF KindInv
    <3> QED BY <2>1, <3>1, <3>2
  <2> QED BY <2>1, <2>4 DEF KindInv
<1>6. ASSUME NEW s \in Stas, Trigger(s) PROVE KindInv'
  <2>1. /\ \A i \in DOMAIN sleep_q'[s] :
             sleep_q'[s][i] = "l" /\ \E j \in DOMAIN sleep_q[s] : sleep_q[s][j] = "l"
        /\ \A d \in Dests \ {s} : sleep_q'[d] = sleep_q[d]
    BY <1>6, TriggerFacts
  <2> QED BY <2>1, DestFacts DEF KindInv
<1>7. ASSUME NEW s \in Stas, WakeByExpiry(s) PROVE KindInv'
  <2>1. WakeSta("cmd", s)
    BY <1>7 DEF WakeByExpiry
  <2> QED BY <2>1, DestFacts, WakeKinds
<1>8. ASSUME NEW s \in Stas, FreeSta(s) PROVE KindInv'
  BY <1>8, DestFacts DEF FreeSta, KindInv, SleepQueues
<1>9. ASSUME NEW s \in Stas, FreeBits(s) PROVE KindInv'
  <2>1. sleep_q' = sleep_q
    BY <1>9, Zenon DEF FreeBits
  <2> QED BY <2>1 DEF KindInv
<1>10. CASE WakeByLength
  <2>1. tx_force \in Dests /\ WakeSta("tx", tx_force)
    BY <1>10 DEF WakeByLength, SleepPcs
  <2> QED BY <2>1, DestFacts, WakeKinds
<1>11. CASE PsPollEmpty
  <2>1. sleep_q' = sleep_q
    BY <1>11, Zenon DEF PsPollEmpty
  <2> QED BY <2>1 DEF KindInv
<1>12. ASSUME NEW c \in Contexts, WakeFlush(c) PROVE KindInv'
  BY <1>12, DestFacts DEF WakeFlush, KindInv, SleepQueues
<1>13. CASE CmdFlush
  BY <1>13, DestFacts DEF CmdFlush, KindInv, SleepQueues
<1>14. CASE CmdChkClear
  <2>1. sleep_q' = sleep_q
    BY <1>14, Zenon DEF CmdChkClear
  <2> QED BY <2>1 DEF KindInv
<1>15. ASSUME NEW k \in Servqs, QueuePlain(k[1], k[2]) \/ XmitPending(k) PROVE
   KindInv'
  <2>1. UNCHANGED sleep_q
    BY <1>15, Zenon DEF QueuePlain, List, XmitPending
  <2> QED BY <2>1 DEF KindInv
<1>16. ASSUME NEW s \in Stas, AliveCheck(s) \/ Authenticate(s) \/ Associate(s)
   \/ RejectAgain(s) PROVE KindInv'
  <2>1. UNCHANGED sleep_q
    BY <1>16, Zenon DEF AliveCheck, UpdateBeacon, Authenticate, Associate,
       RejectAgain
  <2> QED BY <2>1 DEF KindInv
<1>17. ASSUME NEW c \in Contexts, WakeRead(c) PROVE KindInv'
  <2>1. UNCHANGED sleep_q
    BY <1>17, Zenon DEF WakeRead, KeepBeacon, UpdateBeacon
  <2> QED BY <2>1 DEF KindInv
<1>18. CASE CmdBeacon \/ CmdChk \/ CmdChkRetry \/ UNCHANGED sleep_vars
  <2>1. UNCHANGED sleep_q
    BY <1>18, Zenon DEF CmdBeacon, CmdChk, CmdChkRetry, sleep_vars
  <2> QED BY <2>1 DEF KindInv
<1> QED
  BY SleepCases, <1>1, <1>2, <1>3, <1>4, <1>5, <1>6, <1>7, <1>8, <1>9, <1>10,
     <1>11, <1>12, <1>13, <1>14, <1>15, <1>16, <1>17, <1>18

(* The bits of sta_dz_bitmap and the sleeping stations stay in line when   *)
(* those of one destination are cleared together.                          *)
LEMMA DozeClear ==
  ASSUME DozeInv, SleepAids, OwnAidInv, NEW s \in Dests, torn => torn',
         torn' \/ dz' = dz \ BitOf(s),
         \A d \in Stas \ {s} : /\ Named(d)' = Named(d) /\ sleep_aid'[d] = sleep_aid[d]
                               /\ (d \in sleeping' <=> d \in sleeping) /\ sleep_q'[d] = sleep_q[d],
         s \in Stas => /\ Named(s)' => s \notin sleeping' /\ sleep_aid'[s] = sleep_aid[s]
                       /\ sleep_q'[s] # <<>> => s \in sleeping'
  PROVE  DozeInv'
<1> SUFFICES ASSUME ~torn' PROVE DozeInv'
  BY DEF DozeInv
<1>1. \A d \in Stas \ {s} : /\ Named(d)' /\ sleep_aid'[d] < 16 => (d \in sleeping' <=> sleep_aid'[d] \in dz')
                            /\ sleep_q'[d] # <<>> => d \in sleeping'
  <2> SUFFICES ASSUME NEW d \in Stas \ {s}
               PROVE  /\ Named(d)' /\ sleep_aid'[d] < 16 => (d \in sleeping' <=> sleep_aid'[d] \in dz')
                      /\ sleep_q'[d] # <<>> => d \in sleeping'
    OBVIOUS
  <2>1. Named(d) => sleep_aid[d] # 0
    BY DEF Named
  <2>2. sleep_aid[d] # 0 => sleep_aid[d] \notin BitOf(s)
    BY BitFacts
  <2> QED BY <2>1, <2>2 DEF DozeInv
<1>2. s \in Stas /\ Named(s)' /\ sleep_aid'[s] < 16 => (s \in sleeping' <=> sleep_aid'[s] \in dz')
  BY BitFacts, DestFacts
<1> QED BY <1>1, <1>2 DEF DozeInv

(* They stay in line when neither changes.                                 *)
LEMMA DozeKeep ==
  ASSUME DozeInv, SleepAids, OwnAidInv, torn => torn', torn' \/ dz' \ {0} = dz \ {0},
         \A d \in Stas : /\ Named(d)' = Named(d) /\ sleep_aid'[d] = sleep_aid[d]
                         /\ (d \in sleeping' <=> d \in sleeping)
                         /\ sleep_q'[d] # <<>> => sleep_q[d] # <<>> \/ d \in sleeping
  PROVE  DozeInv'
<1> SUFFICES ASSUME ~torn' PROVE DozeInv'
  BY DEF DozeInv
<1>1. \A d \in Stas : Named(d) => sleep_aid[d] # 0
  BY DEF Named
<1> QED BY <1>1 DEF DozeInv

(* A station that is woken dozes no more, and nothing is held for it.      *)
LEMMA WakeDoze ==
  ASSUME DozeInv, SleepAids, OwnAidInv, SleepQueues, NEW c, NEW s \in Dests, WakeSta(c, s)
  PROVE  DozeInv'
<1>1. \A d \in Stas \ {s} : /\ Named(d)' = Named(d) /\ sleep_aid'[d] = sleep_aid[d]
                            /\ (d \in sleeping' <=> d \in sleeping) /\ sleep_q'[d] = sleep_q[d]
  BY WakeFacts, DestFacts DEF Named
<1>2. s \notin sleeping' /\ sleep_q'[s] = <<>> /\ UNCHANGED <<sleep_aid, torn>> /\ dz' = dz \ BitOf(s)
  BY WakeFacts
<1> QED BY <1>1, <1>2, DozeClear

(* A step keeps the doze bits in line with the states.                     *)
LEMMA DozeStep ==
  DozeInv /\ StrayInv /\ SleepSets /\ SleepAids /\ OwnAidInv /\ SleepMaps /\
        SleepQueues /\ SleepCounts /\ SleepPcs /\ [SleepNext]_sleep_vars => DozeInv'
<1> SUFFICES ASSUME DozeInv, StrayInv, SleepSets, SleepAids, OwnAidInv, SleepMaps,
      SleepQueues, SleepCounts, SleepPcs, [SleepNext]_sleep_vars PROVE DozeInv'
  OBVIOUS
<1> USE DEF queue_vars, sta_vars, aid_vars, map_vars, bcn_vars, other_vars
<1>1. ASSUME NEW s \in Stas, NEW ac \in Acs(s), HoldUnicast(s, ac) PROVE DozeInv'
  <2>1. UNCHANGED <<present, sleep_aid, misnamed>>
    BY <1>1, HoldFacts
  <2>2. \A d \in Stas : Named(d)' = Named(d)
    BY <2>1, NamedSame
  <2> QED BY <1>1, <2>1, <2>2, HoldFacts, DestFacts, DozeKeep
<1>2. CASE HoldMulticast
  <2>1. UNCHANGED <<present, sleep_aid, misnamed>>
    BY <1>2, HoldMulticastFacts
  <2>2. \A d \in Stas : Named(d)' = Named(d)
    BY <2>1, NamedSame
  <2> QED BY <1>2, <2>1, <2>2, HoldMulticastFacts, DestFacts, DozeKeep
<1>3. ASSUME NEW s \in Stas, StopStaXmit(s) PROVE DozeInv'
  <2>1. PICK moved \in Seq({"l", "u"}), back \in Seq({"l", "u"}) :
          /\ \A d \in Stas \ {s} : sleep_q'[d] = sleep_q[d]
          /\ dz' = dz \cup BitOf(s) \cup (IF back # <<>> THEN {0} ELSE {})
    BY <1>3, StopFacts
  <2>2. sleeping' = sleeping \cup {s} /\ UNCHANGED <<present, sleep_aid, misnamed, torn>>
    BY <1>3, Zenon DEF StopStaXmit, aid_vars
  <2>3. \A d \in Stas : Named(d)' = Named(d) /\ (Named(d) => sleep_aid[d] # 0)
    BY <2>2, NamedSame DEF Named
  <2>4. \A d \in Stas : Named(d) => /\ d # s => (sleep_aid[d] \in dz' <=> sleep_aid[d] \in dz)
                                    /\ d = s /\ sleep_aid[s] < 16 => sleep_aid[d] \in dz'
    BY <2>1, <2>3, BitFacts, DestFacts
  <2> QED BY <2>1, <2>2, <2>3, <2>4 DEF DozeInv
<1>4. ASSUME NEW s \in Stas, WakeByPwrBit(s) PROVE DozeInv'
  <2>1. s \in Stas /\ WakeSta("rx", s)
    BY <1>4 DEF WakeByPwrBit
  <2> QED BY <2>1, DestFacts, WakeDoze
<1>5. ASSUME NEW s \in Stas, PsPoll(s) PROVE DozeInv'
  <2>1. UNCHANGED <<present, sleep_aid, misnamed>>
    BY <1>5, PsPollFacts
  <2>2. \A d \in Stas : Named(d)' = Named(d)
    BY <2>1, NamedSame
  <2> QED BY <1>5, <2>1, <2>2, PsPollFacts, DestFacts, DozeKeep
<1>6. ASSUME NEW s \in Stas, Trigger(s) PROVE DozeInv'
  <2>1. UNCHANGED <<present, sleep_aid, misnamed>>
    BY <1>6, TriggerFacts
  <2>2. \A d \in Stas : Named(d)' = Named(d)
    BY <2>1, NamedSame
  <2> QED BY <1>6, <2>1, <2>2, TriggerFacts, DestFacts, DozeKeep
<1>7. ASSUME NEW s \in Stas, WakeByExpiry(s) PROVE DozeInv'
  <2>1. WakeSta("cmd", s)
    BY <1>7 DEF WakeByExpiry
  <2> QED BY <2>1, DestFacts, WakeDoze
<1>8. ASSUME NEW s \in Stas, AliveCheck(s) PROVE DozeInv'
  <2>1. UNCHANGED <<present, sleep_aid, misnamed>>
    BY <1>8, TornFacts
  <2>2. \A d \in Stas : Named(d)' = Named(d)
    BY <2>1, NamedSame
  <2> QED BY <1>8, <2>1, <2>2, TornFacts, DestFacts, DozeKeep
<1>9. ASSUME NEW s \in Stas, Authenticate(s) PROVE DozeInv'
  <2>1. /\ \A d \in Stas \ {s} : Named(d)' = Named(d) /\ sleep_aid'[d] = sleep_aid[d]
        /\ Named(s)' => Associate(s) /\ s \notin sleeping /\ s \notin sleeping'
                        /\ sleep_aid'[s] \notin aids_used /\ sleep_aid'[s] # 0
    BY <1>9, NameFacts
  <2>2. ~Named(s)'
    BY <1>9, <2>1 DEF Authenticate, Associate
  <2>3. UNCHANGED <<sleep_q, sleeping, dz, torn>>
    BY <1>9, Zenon DEF Authenticate, queue_vars, other_vars, map_vars
  <2> QED BY <2>1, <2>2, <2>3 DEF DozeInv
<1>10. ASSUME NEW s \in Stas, Associate(s) PROVE DozeInv'
  <2>1. /\ \A d \in Stas \ {s} : Named(d)' = Named(d) /\ sleep_aid'[d] = sleep_aid[d]
        /\ Named(s)' => Associate(s) /\ s \notin sleeping /\ s \notin sleeping'
                        /\ sleep_aid'[s] \notin aids_used /\ sleep_aid'[s] # 0
    BY <1>10, NameFacts
  <2>2. UNCHANGED <<sleep_q, sleeping, dz, torn>>
    BY <1>10, Zenon DEF Associate, queue_vars, other_vars, map_vars
  <2>3. Named(s)' /\ ~torn => sleep_aid'[s] \notin dz
    BY <2>1 DEF StrayInv
  <2> QED BY <2>1, <2>2, <2>3 DEF DozeInv
<1>11. ASSUME NEW s \in Stas, RejectAgain(s) PROVE DozeInv'
  <2>1. /\ \A d \in Stas \ {s} : Named(d)' = Named(d) /\ sleep_aid'[d] = sleep_aid[d]
        /\ Named(s)' => Associate(s) /\ s \notin sleeping /\ s \notin sleeping'
                        /\ sleep_aid'[s] \notin aids_used /\ sleep_aid'[s] # 0
    BY <1>11, NameFacts
  <2>2. ~Named(s)'
    BY <1>11, <2>1 DEF RejectAgain, Associate
  <2>3. UNCHANGED <<sleep_q, sleeping, dz, torn>>
    BY <1>11, Zenon DEF RejectAgain, queue_vars, other_vars, map_vars
  <2> QED BY <2>1, <2>2, <2>3 DEF DozeInv
<1>12. ASSUME NEW s \in Stas, FreeSta(s) PROVE DozeInv'
  <2>1. /\ \A d \in Stas \ {s} : Named(d)' = Named(d) /\ sleep_aid'[d] = sleep_aid[d]
        /\ Named(s)' => Associate(s) /\ s \notin sleeping /\ s \notin sleeping'
                        /\ sleep_aid'[s] \notin aids_used /\ sleep_aid'[s] # 0
    BY <1>12, NameFacts
  <2>2. ~Named(s)'
    BY <1>12, Zenon DEF FreeSta, Named
  <2>3. /\ UNCHANGED <<dz, torn>> /\ sleeping' = sleeping \ {s} /\ sleep_q'[s] = <<>>
        /\ \A d \in Stas \ {s} : sleep_q'[d] = sleep_q[d]
    BY <1>12, DestFacts DEF FreeSta, other_vars, map_vars, SleepQueues
  <2> QED BY <2>1, <2>2, <2>3 DEF DozeInv
<1>13. ASSUME NEW s \in Stas, FreeBits(s) PROVE DozeInv'
  <2>1. /\ \A d \in Stas \ {s} : Named(d)' = Named(d) /\ sleep_aid'[d] = sleep_aid[d]
        /\ Named(s)' => Associate(s) /\ s \notin sleeping /\ s \notin sleeping'
                        /\ sleep_aid'[s] \notin aids_used /\ sleep_aid'[s] # 0
    BY <1>13, NameFacts
  <2>2. ~Named(s)'
    BY <1>13, <2>1 DEF FreeBits, Associate, SleepSets
  <2>3. UNCHANGED <<sleep_q, sleeping>> /\ (torn => torn') /\ (torn' \/ dz' = dz \ BitOf(s)) /\ s \notin sleeping
    BY <1>13, TornFacts DEF SleepSets
  <2>4. CASE torn'
    BY <2>4 DEF DozeInv
  <2>5. CASE ~torn'
    <3>1. sleep_q'[s] # <<>> => s \in sleeping'
      BY <2>3, <2>5 DEF DozeInv
    <3> QED BY <2>1, <2>2, <2>3, <3>1, DestFacts, DozeClear
  <2> QED BY <2>4, <2>5
<1>14. CASE WakeByLength
  <2>1. tx_force \in Dests /\ WakeSta("tx", tx_force)
    BY <1>14 DEF WakeByLength, SleepPcs
  <2> QED BY <2>1, DestFacts, WakeDoze
<1>15. CASE PsPollEmpty
  <2>1. UNCHANGED <<present, sleep_aid, misnamed>>
    BY <1>15, PollEmptyFacts
  <2>2. \A d \in Stas : Named(d)' = Named(d)
    BY <2>1, NamedSame
  <2> QED BY <1>15, <2>1, <2>2, PollEmptyFacts, DestFacts, DozeKeep
<1>16. ASSUME NEW c \in Contexts, WakeFlush(c) PROVE DozeInv'
  <2>1. UNCHANGED <<present, sleep_aid, misnamed, sleeping, torn>> /\ dz' = dz \ {0}
    BY <1>16, Zenon DEF WakeFlush, aid_vars
  <2>2. \A d \in Stas : Named(d)' = Named(d) /\ sleep_q'[d] = sleep_q[d]
    BY <1>16, <2>1, NamedSame, DestFacts DEF WakeFlush, SleepQueues
  <2> QED BY <2>1, <2>2, DozeKeep
<1>17. CASE CmdFlush
  <2>1. UNCHANGED <<present, sleep_aid, misnamed, sleeping, torn, dz>>
    BY <1>17, Zenon DEF CmdFlush, aid_vars
  <2>2. \A d \in Stas : Named(d)' = Named(d) /\ sleep_q'[d] = sleep_q[d]
    BY <1>17, <2>1, NamedSame, DestFacts DEF CmdFlush, SleepQueues
  <2> QED BY <2>1, <2>2, DozeKeep
<1>18. CASE CmdChkClear
  <2>1. UNCHANGED <<present, sleep_aid, misnamed>>
    BY <1>18, TornFacts
  <2>2. \A d \in Stas : Named(d)' = Named(d)
    BY <2>1, NamedSame
  <2> QED BY <1>18, <2>1, <2>2, TornFacts, DestFacts, DozeKeep
<1>19. ASSUME NEW k \in Servqs, QueuePlain(k[1], k[2]) \/ XmitPending(k) PROVE
   DozeInv'
  <2>1. UNCHANGED <<sleep_q, sleeping, dz, torn, present, sleep_aid, misnamed>>
    BY <1>19, Zenon DEF QueuePlain, List, XmitPending
  <2> QED BY <2>1 DEF DozeInv, Named
<1>20. ASSUME NEW c \in Contexts, WakeRead(c) PROVE DozeInv'
  <2>1. UNCHANGED <<sleep_q, sleeping, dz, torn, present, sleep_aid, misnamed>>
    BY <1>20, Zenon DEF WakeRead, KeepBeacon, UpdateBeacon
  <2> QED BY <2>1 DEF DozeInv, Named
<1>21. CASE CmdBeacon \/ CmdChk \/ CmdChkRetry \/ UNCHANGED sleep_vars
  <2>1. UNCHANGED <<sleep_q, sleeping, dz, torn, present, sleep_aid, misnamed>>
    BY <1>21, Zenon DEF CmdBeacon, CmdChk, CmdChkRetry, sleep_vars
  <2> QED BY <2>1 DEF DozeInv, Named
<1> QED
  BY SleepCases, <1>1, <1>2, <1>3, <1>4, <1>5, <1>6, <1>7, <1>8, <1>9, <1>10,
     <1>11, <1>12, <1>13, <1>14, <1>15, <1>16, <1>17, <1>18, <1>19, <1>20, <1>21

(* The TIM bits stay when one station loses its own with its frames.       *)
LEMMA TimClear ==
  ASSUME TimInv, SleepAids, OwnAidInv, NEW s \in Dests, torn => torn',
         torn' \/ tim' = tim \ BitOf(s),
         \A d \in Stas \ {s} : /\ Named(d)' = Named(d) /\ sleep_aid'[d] = sleep_aid[d]
                               /\ sleep_q'[d] = sleep_q[d],
         s \in Stas /\ Named(s)' /\ ~torn' => \A i \in DOMAIN sleep_q'[s] : FALSE
  PROVE  TimInv'
<1> SUFFICES ASSUME ~torn' PROVE TimInv'
  BY DEF TimInv
<1> SUFFICES ASSUME NEW d \in Stas, Named(d)', \E i \in DOMAIN sleep_q'[d] :
      InTim(d, sleep_q'[d][i])
             PROVE  sleep_aid'[d] \in tim'
  BY DEF TimInv, InTim
<1>1. d # s
  OBVIOUS
<1>2. sleep_aid[d] # 0
  BY <1>1 DEF Named
<1>3. sleep_aid[d] \notin BitOf(s)
  BY <1>1, <1>2, BitFacts
<1>4. sleep_aid[d] \in tim
  BY <1>1 DEF TimInv
<1> QED BY <1>1, <1>3, <1>4

(* They stay when no frame comes and no bit but 0 goes.                    *)
LEMMA TimKeep ==
  ASSUME TimInv, torn => torn', torn' \/ tim \subseteq tim' \cup {0},
         \A d \in Stas : /\ Named(d)' => Named(d) /\ sleep_aid'[d] = sleep_aid[d]
                         /\ Named(d)' => \A i \in DOMAIN sleep_q'[d] : \E j \in DOMAIN sleep_q[d] : sleep_q'[d][i] = sleep_q[d][j]
  PROVE  TimInv'
<1> SUFFICES ASSUME ~torn' PROVE TimInv'
  BY DEF TimInv
<1> SUFFICES ASSUME NEW d \in Stas, Named(d)', NEW i \in DOMAIN sleep_q'[d],
      InTim(d, sleep_q'[d][i])
             PROVE  sleep_aid'[d] \in tim'
  BY DEF TimInv, InTim
<1>1. Named(d) /\ sleep_aid'[d] = sleep_aid[d] /\ sleep_aid[d] # 0
  BY DEF Named
<1>2. PICK j \in DOMAIN sleep_q[d] : sleep_q'[d][i] = sleep_q[d][j]
  OBVIOUS
<1>3. InTim(d, sleep_q[d][j])
  BY <1>2
<1> QED BY <1>1, <1>3 DEF TimInv

(* The frames the TIM bit of a station stands for.                         *)
LEMMA WakeTim ==
  ASSUME TimInv, SleepAids, OwnAidInv, SleepQueues, NEW c, NEW s \in Dests, WakeSta(c, s)
  PROVE  TimInv'
<1>1. \A d \in Stas \ {s} : /\ Named(d)' = Named(d) /\ sleep_aid'[d] = sleep_aid[d]
                            /\ sleep_q'[d] = sleep_q[d]
  BY WakeFacts, DestFacts DEF Named
<1>2. sleep_q'[s] = <<>> /\ UNCHANGED <<sleep_aid, torn>> /\ tim' = tim \ BitOf(s)
  BY WakeFacts
<1> QED BY <1>1, <1>2, TimClear

(* A step keeps the TIM bits of the stations with frames.                  *)
LEMMA TimStep ==
  TimInv /\ DozeInv /\ KindInv /\ SleepSets /\ SleepAids /\ OwnAidInv /\ SleepMaps
        /\ SleepQueues /\ SleepCounts /\ SleepPcs /\ [SleepNext]_sleep_vars =>
        TimInv'
<1> SUFFICES ASSUME TimInv, DozeInv, KindInv, SleepSets, SleepAids, OwnAidInv,
      SleepMaps, SleepQueues, SleepCounts, SleepPcs, [SleepNext]_sleep_vars PROVE
      TimInv'
  OBVIOUS
<1> USE DEF queue_vars, sta_vars, aid_vars, map_vars, bcn_vars, other_vars
<1>1. ASSUME NEW s \in Stas, NEW ac \in Acs(s), HoldUnicast(s, ac) PROVE TimInv'
  <2>8. UNCHANGED <<present, sleep_aid, misnamed>>
    BY <1>1, HoldFacts
  <2>9. \A d \in Stas : Named(d)' = Named(d)
    BY <2>8, NamedSame
  <2>1. \A d \in Stas \ {s} : sleep_q'[d] = sleep_q[d]
    BY <1>1, HoldFacts, DestFacts
  <2>2. ~torn /\ Named(s) /\ (\E i \in DOMAIN sleep_q'[s] : InTim(s, sleep_q'[s][i])) => sleep_aid[s] \in tim'
    <3> SUFFICES ASSUME ~torn, Named(s), NEW i \in DOMAIN sleep_q'[s], InTim(s, sleep_q'[s][i])
                 PROVE  sleep_aid[s] \in tim'
      OBVIOUS
    <3>1. BitOf(s) = {sleep_aid[s]} /\ tim \subseteq tim'
      BY <1>1, HoldFacts, BitFacts, DestFacts
    <3>2. CASE sleep_q'[s][i] = ac
      <4>1. InTim(s, ac)
        BY <3>2
      <4> QED BY <1>1, <3>1, <4>1, HoldFacts
    <3>3. CASE i \in DOMAIN sleep_q[s] /\ sleep_q'[s][i] = sleep_q[s][i]
      <4>1. sleep_aid[s] \in tim
        BY <3>3 DEF TimInv
      <4> QED BY <3>1, <4>1
    <3> QED BY <1>1, <3>2, <3>3, HoldFacts
  <2>3. tim \subseteq tim' /\ torn' = torn
    BY <1>1, HoldFacts
  <2> QED BY <2>1, <2>2, <2>3, <2>8, <2>9 DEF TimInv
<1>2. CASE HoldMulticast
  <2>8. UNCHANGED <<present, sleep_aid, misnamed>>
    BY <1>2, HoldMulticastFacts
  <2>9. \A d \in Stas : Named(d)' = Named(d)
    BY <2>8, NamedSame
  <2> QED BY <1>2, <2>8, <2>9, HoldMulticastFacts, TimKeep
<1>3. ASSUME NEW s \in Stas, StopStaXmit(s) PROVE TimInv'
  <2>1. PICK moved \in Seq({"l", "u"}), back \in Seq({"l", "u"}) :
          /\ moved # <<>> => BitOf(s) # {}
          /\ sleep_q'[s] = sleep_q[s] \o moved
          /\ \A d \in Stas \ {s} : sleep_q'[d] = sleep_q[d]
          /\ tim' = tim \cup (IF \E i \in DOMAIN moved : InTim(s, moved[i]) THEN BitOf(s) ELSE {})
                        \cup (IF back # <<>> THEN {0} ELSE {})
    BY <1>3, StopFacts
  <2>2. UNCHANGED <<present, sleep_aid, misnamed, torn>>
    BY <1>3, Zenon DEF StopStaXmit, aid_vars
  <2>9. \A d \in Stas : Named(d)' = Named(d)
    BY <2>2, NamedSame
  <2>3. \A i \in DOMAIN (sleep_q[s] \o moved) :
          \/ i \in DOMAIN sleep_q[s] /\ (sleep_q[s] \o moved)[i] = sleep_q[s][i]
          \/ i - Len(sleep_q[s]) \in DOMAIN moved
             /\ (sleep_q[s] \o moved)[i] = moved[i - Len(sleep_q[s])]
    BY ConcatFacts, DestFacts DEF SleepQueues
  <2>4. moved # <<>> => BitOf(s) = {sleep_aid[s]}
    BY <2>1, BitFacts, DestFacts
  <2>5. ASSUME ~torn, Named(s), NEW i \in DOMAIN sleep_q'[s], InTim(s, sleep_q'[s][i]) PROVE sleep_aid[s] \in tim'
    <3>1. CASE i \in DOMAIN sleep_q[s] /\ sleep_q'[s][i] = sleep_q[s][i]
      <4>1. sleep_aid[s] \in tim
        BY <2>5, <3>1 DEF TimInv
      <4> QED BY <2>1, <4>1
    <3>2. CASE \E j \in DOMAIN moved : sleep_q'[s][i] = moved[j]
      <4>1. \E j \in DOMAIN moved : InTim(s, moved[j])
        BY <2>5, <3>2
      <4>2. moved # <<>>
        BY <4>1
      <4> QED BY <2>1, <2>4, <4>1, <4>2
    <3> QED BY <2>1, <2>3, <2>5, <3>1, <3>2
  <2>6. tim \subseteq tim'
    BY <2>1
  <2> QED BY <2>1, <2>2, <2>5, <2>6, <2>9 DEF TimInv
<1>4. ASSUME NEW s \in Stas, WakeByPwrBit(s) PROVE TimInv'
  <2>1. s \in Stas /\ WakeSta("rx", s)
    BY <1>4 DEF WakeByPwrBit
  <2> QED BY <2>1, DestFacts, WakeTim
<1>5. ASSUME NEW s \in Stas, PsPoll(s) PROVE TimInv'
  <2>8. UNCHANGED <<present, sleep_aid, misnamed>>
    BY <1>5, PsPollFacts
  <2>9. \A d \in Stas : Named(d)' = Named(d)
    BY <2>8, NamedSame
  <2>1. /\ sleep_q'[s] = sleep_q[s] \/ (sleep_q[s] # <<>> /\ sleep_q'[s] = Tail(sleep_q[s]))
        /\ \A d \in Stas \ {s} : sleep_q'[d] = sleep_q[d]
        /\ tim' = tim \/ (tim' = tim \ BitOf(s) /\ sleep_q'[s] = <<>>)
        /\ torn' = torn
    BY <1>5, PsPollFacts, DestFacts
  <2>2. sleep_q[s] \in Seq({"l", "u"}) /\ s \in Dests
    BY DestFacts DEF SleepQueues
  <2>3. \A i \in DOMAIN sleep_q'[s] : \E j \in DOMAIN sleep_q[s] : sleep_q'[s][i] = sleep_q[s][j]
    <3>1. CASE sleep_q'[s] = sleep_q[s]
      BY <3>1
    <3>2. CASE sleep_q[s] # <<>> /\ sleep_q'[s] = Tail(sleep_q[s])
      <4>1. \A i \in DOMAIN Tail(sleep_q[s]) :
              i + 1 \in DOMAIN sleep_q[s] /\ Tail(sleep_q[s])[i] = sleep_q[s][i + 1]
        BY <2>2, <3>2
      <4> QED BY <3>2, <4>1
    <3> QED BY <2>1, <3>1, <3>2
  <2>4. CASE tim' = tim
    <3>1. \A d \in Stas : \A i \in DOMAIN sleep_q'[d] : \E j \in DOMAIN sleep_q[d] : sleep_q'[d][i] = sleep_q[d][j]
      BY <2>1, <2>3
    <3> QED BY <2>1, <2>4, <2>8, <2>9, <3>1, TimKeep
  <2>5. CASE tim' = tim \ BitOf(s) /\ sleep_q'[s] = <<>>
    BY <2>1, <2>2, <2>5, <2>8, <2>9, TimClear
  <2> QED BY <2>1, <2>4, <2>5
<1>6. ASSUME NEW s \in Stas, Trigger(s) PROVE TimInv'
  <2>8. UNCHANGED <<present, sleep_aid, misnamed>>
    BY <1>6, TriggerFacts
  <2>9. \A d \in Stas : Named(d)' = Named(d)
    BY <2>8, NamedSame
  <2>1. /\ \A i \in DOMAIN sleep_q'[s] :
             sleep_q'[s][i] = "l" /\ \E j \in DOMAIN sleep_q[s] : sleep_q[s][j] = "l"
        /\ \A d \in Stas \ {s} : sleep_q'[d] = sleep_q[d]
        /\ tim' = tim \/ (tim' = tim \ BitOf(s) /\ s \in AllUapsd)
        /\ torn' = torn
    BY <1>6, TriggerFacts, DestFacts
  <2>2. s \in AllUapsd => \A i \in DOMAIN sleep_q'[s] : FALSE
    <3>1. s \in AllUapsd => Acs(s) = {"u"}
      BY UapsdAssumption DEF Acs
    <3>2. \A j \in DOMAIN sleep_q[s] : sleep_q[s][j] \in Acs(s)
      BY DestFacts DEF KindInv
    <3> QED BY <2>1, <3>1, <3>2
  <2>3. CASE tim' = tim
    <3>1. \A d \in Stas : \A i \in DOMAIN sleep_q'[d] : \E j \in DOMAIN sleep_q[d] : sleep_q'[d][i] = sleep_q[d][j]
      BY <2>1
    <3> QED BY <2>1, <2>3, <2>8, <2>9, <3>1, TimKeep
  <2>4. CASE tim' = tim \ BitOf(s) /\ s \in AllUapsd
    BY <2>1, <2>2, <2>4, <2>8, <2>9, DestFacts, TimClear
  <2> QED BY <2>1, <2>3, <2>4
<1>7. ASSUME NEW s \in Stas, WakeByExpiry(s) PROVE TimInv'
  <2>1. WakeSta("cmd", s)
    BY <1>7 DEF WakeByExpiry
  <2> QED BY <2>1, DestFacts, WakeTim
<1>8. ASSUME NEW s \in Stas, AliveCheck(s) PROVE TimInv'
  <2>8. UNCHANGED <<present, sleep_aid, misnamed>>
    BY <1>8, TornFacts
  <2>9. \A d \in Stas : Named(d)' = Named(d)
    BY <2>8, NamedSame
  <2> QED BY <1>8, <2>8, <2>9, TornFacts, TimKeep
<1>9. ASSUME NEW s \in Stas, Authenticate(s) PROVE TimInv'
  <2>1. /\ \A d \in Stas \ {s} : Named(d)' = Named(d) /\ sleep_aid'[d] = sleep_aid[d]
        /\ Named(s)' => Associate(s) /\ s \notin sleeping /\ s \notin sleeping'
                        /\ sleep_aid'[s] \notin aids_used /\ sleep_aid'[s] # 0
    BY <1>9, NameFacts
  <2>2. ~Named(s)'
    BY <1>9, <2>1 DEF Authenticate, Associate
  <2>3. UNCHANGED <<sleep_q, tim, torn>>
    BY <1>9, Zenon DEF Authenticate, queue_vars, other_vars, map_vars
  <2> QED BY <2>1, <2>2, <2>3, TimKeep
<1>10. ASSUME NEW s \in Stas, Associate(s) PROVE TimInv'
  <2>1. /\ \A d \in Stas \ {s} : Named(d)' = Named(d) /\ sleep_aid'[d] = sleep_aid[d]
        /\ Named(s)' => Associate(s) /\ s \notin sleeping /\ s \notin sleeping'
                        /\ sleep_aid'[s] \notin aids_used /\ sleep_aid'[s] # 0
    BY <1>10, NameFacts
  <2>2. UNCHANGED <<sleep_q, sleeping, tim, torn>>
    BY <1>10, Zenon DEF Associate, queue_vars, other_vars, map_vars
  <2>3. CASE torn
    BY <2>2, <2>3 DEF TimInv
  <2>4. CASE ~torn
    <3>1. Named(s)' => sleep_q[s] = <<>>
      BY <2>1, <2>4 DEF DozeInv
    <3>2. \A d \in Stas \ {s} : Named(d)' /\ (\E i \in DOMAIN sleep_q[d] : InTim(d, sleep_q[d][i])) => sleep_aid'[d] \in tim
      BY <2>1, <2>4 DEF TimInv
    <3> QED BY <2>2, <3>1, <3>2 DEF TimInv
  <2> QED BY <2>3, <2>4
<1>11. ASSUME NEW s \in Stas, RejectAgain(s) PROVE TimInv'
  <2>1. /\ \A d \in Stas \ {s} : Named(d)' = Named(d) /\ sleep_aid'[d] = sleep_aid[d]
        /\ Named(s)' => Associate(s) /\ s \notin sleeping /\ s \notin sleeping'
                        /\ sleep_aid'[s] \notin aids_used /\ sleep_aid'[s] # 0
    BY <1>11, NameFacts
  <2>2. ~Named(s)'
    BY <1>11, <2>1 DEF RejectAgain, Associate
  <2>3. UNCHANGED <<sleep_q, tim, torn>>
    BY <1>11, Zenon DEF RejectAgain, queue_vars, other_vars, map_vars
  <2> QED BY <2>1, <2>2, <2>3, TimKeep
<1>12. ASSUME NEW s \in Stas, FreeSta(s) PROVE TimInv'
  <2>1. /\ \A d \in Stas \ {s} : Named(d)' = Named(d) /\ sleep_aid'[d] = sleep_aid[d]
        /\ Named(s)' => Associate(s) /\ s \notin sleeping /\ s \notin sleeping'
                        /\ sleep_aid'[s] \notin aids_used /\ sleep_aid'[s] # 0
    BY <1>12, NameFacts
  <2>2. ~Named(s)'
    BY <1>12, Zenon DEF FreeSta, Named
  <2>3. UNCHANGED <<tim, torn>> /\ \A d \in Stas \ {s} : sleep_q'[d] = sleep_q[d]
    BY <1>12, DestFacts DEF FreeSta, other_vars, map_vars, SleepQueues
  <2> QED BY <2>1, <2>2, <2>3, TimKeep
<1>13. ASSUME NEW s \in Stas, FreeBits(s) PROVE TimInv'
  <2>1. /\ \A d \in Stas \ {s} : Named(d)' = Named(d) /\ sleep_aid'[d] = sleep_aid[d]
        /\ Named(s)' => Associate(s) /\ s \notin sleeping /\ s \notin sleeping'
                        /\ sleep_aid'[s] \notin aids_used /\ sleep_aid'[s] # 0
    BY <1>13, NameFacts
  <2>2. ~Named(s)'
    BY <1>13, <2>1 DEF FreeBits, Associate, SleepSets
  <2>3. sleep_q' = sleep_q /\ (torn => torn') /\ (torn' \/ tim' = tim \ BitOf(s))
    BY <1>13, TornFacts
  <2> QED BY <2>1, <2>2, <2>3, DestFacts, TimClear
<1>14. CASE WakeByLength
  <2>1. tx_force \in Dests /\ WakeSta("tx", tx_force)
    BY <1>14 DEF WakeByLength, SleepPcs
  <2> QED BY <2>1, DestFacts, WakeTim
<1>15. CASE PsPollEmpty
  <2>8. UNCHANGED <<present, sleep_aid, misnamed>>
    BY <1>15, PollEmptyFacts
  <2>9. \A d \in Stas : Named(d)' = Named(d)
    BY <2>8, NamedSame
  <2>1. /\ polled \in Dests /\ polled \in Stas /\ sleep_q' = sleep_q /\ (torn => torn')
        /\ torn' \/ tim' = tim \/ (tim' = tim \ BitOf(polled) /\ sleep_q[polled] = <<>>)
    BY <1>15, PollEmptyFacts, DestFacts
  <2>2. CASE torn' \/ tim' = tim
    BY <2>1, <2>2, <2>8, <2>9, TimKeep
  <2>3. CASE tim' = tim \ BitOf(polled) /\ sleep_q[polled] = <<>>
    BY <2>1, <2>3, <2>8, <2>9, TimClear
  <2> QED BY <2>1, <2>2, <2>3
<1>16. ASSUME NEW c \in Contexts, WakeFlush(c) PROVE TimInv'
  <2>1. UNCHANGED <<present, sleep_aid, misnamed, torn>> /\ tim' = tim \ {0}
    BY <1>16, Zenon DEF WakeFlush, aid_vars
  <2>2. \A d \in Stas : Named(d)' = Named(d) /\ sleep_q'[d] = sleep_q[d]
    BY <1>16, <2>1, NamedSame, DestFacts DEF WakeFlush, SleepQueues
  <2> QED BY <2>1, <2>2, TimKeep
<1>17. CASE CmdFlush
  <2>1. UNCHANGED <<present, sleep_aid, misnamed, torn, tim>>
    BY <1>17, Zenon DEF CmdFlush, aid_vars, map_vars
  <2>2. \A d \in Stas : Named(d)' = Named(d) /\ sleep_q'[d] = sleep_q[d]
    BY <1>17, <2>1, NamedSame, DestFacts DEF CmdFlush, SleepQueues
  <2> QED BY <2>1, <2>2, TimKeep
<1>18. CASE CmdChkClear
  <2>8. UNCHANGED <<present, sleep_aid, misnamed>>
    BY <1>18, TornFacts
  <2>9. \A d \in Stas : Named(d)' = Named(d)
    BY <2>8, NamedSame
  <2> QED BY <1>18, <2>8, <2>9, TornFacts, TimKeep
<1>19. ASSUME NEW k \in Servqs, QueuePlain(k[1], k[2]) \/ XmitPending(k) PROVE
   TimInv'
  <2>1. UNCHANGED <<sleep_q, tim, torn, present, sleep_aid, misnamed>>
    BY <1>19, Zenon DEF QueuePlain, List, XmitPending
  <2> QED BY <2>1 DEF TimInv, Named
<1>20. ASSUME NEW c \in Contexts, WakeRead(c) PROVE TimInv'
  <2>1. UNCHANGED <<sleep_q, tim, torn, present, sleep_aid, misnamed>>
    BY <1>20, Zenon DEF WakeRead, KeepBeacon, UpdateBeacon
  <2> QED BY <2>1 DEF TimInv, Named
<1>21. CASE CmdBeacon \/ CmdChk \/ CmdChkRetry \/ UNCHANGED sleep_vars
  <2>1. UNCHANGED <<sleep_q, tim, torn, present, sleep_aid, misnamed>>
    BY <1>21, Zenon DEF CmdBeacon, CmdChk, CmdChkRetry, sleep_vars
  <2> QED BY <2>1 DEF TimInv, Named
<1> QED
  BY SleepCases, <1>1, <1>2, <1>3, <1>4, <1>5, <1>6, <1>7, <1>8, <1>9, <1>10,
     <1>11, <1>12, <1>13, <1>14, <1>15, <1>16, <1>17, <1>18, <1>19, <1>20, <1>21

(* Held multicast frames keep bit 0 when bits are cleared with the flag.   *)
LEMMA McastClear ==
  ASSUME McastInv, NEW B, BmcLost(B), torn => torn', torn' \/ tim' = tim \ B,
         sleep_q'[0] # <<>> => sleep_q[0] # <<>>
  PROVE  McastInv'
<1>1. (0 \in B /\ sleep_q'[0] # <<>> => bmc_lost') /\ (0 \notin B /\ bmc_lost => bmc_lost')
  BY BmcFacts
<1> QED BY <1>1 DEF McastInv

(* They keep it when it is not cleared.                                    *)
LEMMA McastKeep ==
  ASSUME McastInv, torn => torn', bmc_lost => bmc_lost', torn' \/ tim \subseteq tim', sleep_q'[0] = sleep_q[0]
  PROVE  McastInv'
BY DEF McastInv

(* Held multicast frames have bit 0, unless it was cleared under them.     *)
LEMMA WakeMcast ==
  ASSUME McastInv, SleepQueues, NEW c, NEW s \in Dests, WakeSta(c, s)
  PROVE  McastInv'
<1>1. torn' = torn /\ tim' = tim \ BitOf(s) /\ BmcLost(BitOf(s))
  BY WakeFacts
<1>2. sleep_q'[0] # <<>> => sleep_q[0] # <<>>
  BY WakeFacts, DestFacts
<1> QED BY <1>1, <1>2, McastClear

(* A step keeps bit 0.                                                     *)
LEMMA McastStep ==
  McastInv /\ SleepSets /\ SleepAids /\ OwnAidInv /\ SleepMaps /\ SleepQueues /\
        SleepCounts /\ SleepPcs /\ [SleepNext]_sleep_vars => McastInv'
<1> SUFFICES ASSUME McastInv, SleepSets, SleepAids, OwnAidInv, SleepMaps,
      SleepQueues, SleepCounts, SleepPcs, [SleepNext]_sleep_vars PROVE McastInv'
  OBVIOUS
<1> USE DEF queue_vars, sta_vars, aid_vars, map_vars, bcn_vars, other_vars
<1>1. ASSUME NEW s \in Stas, NEW ac \in Acs(s), HoldUnicast(s, ac) PROVE McastInv'
  <2>1. UNCHANGED <<bmc_lost, torn>> /\ tim \subseteq tim' /\ sleep_q'[0] = sleep_q[0]
    BY <1>1, HoldFacts, DestFacts
  <2> QED BY <2>1, McastKeep
<1>2. CASE HoldMulticast
  BY <1>2, HoldMulticastFacts DEF McastInv
<1>3. ASSUME NEW s \in Stas, StopStaXmit(s) PROVE McastInv'
  <2>1. PICK moved \in Seq({"l", "u"}), back \in Seq({"l", "u"}) :
          /\ sleep_q'[0] = sleep_q[0] \o back
          /\ tim' = tim \cup (IF \E i \in DOMAIN moved : InTim(s, moved[i]) THEN BitOf(s) ELSE {})
                        \cup (IF back # <<>> THEN {0} ELSE {})
          /\ bmc_lost' = IF back # <<>> THEN FALSE ELSE bmc_lost
    BY <1>3, StopFacts
  <2>2. torn' = torn
    BY <1>3, Zenon DEF StopStaXmit
  <2>3. CASE back # <<>>
    BY <2>1, <2>3 DEF McastInv
  <2>4. CASE back = <<>>
    <3>1. sleep_q[0] \o back = sleep_q[0] /\ tim \subseteq tim'
      BY <2>1, <2>4, DestFacts DEF SleepQueues
    <3>2. bmc_lost' = bmc_lost
      BY <2>1, <2>4, Zenon
    <3> QED BY <2>1, <2>2, <3>1, <3>2 DEF McastInv
  <2> QED BY <2>3, <2>4
<1>4. ASSUME NEW s \in Stas, WakeByPwrBit(s) PROVE McastInv'
  <2>1. s \in Stas /\ WakeSta("rx", s)
    BY <1>4 DEF WakeByPwrBit
  <2> QED BY <2>1, DestFacts, WakeMcast
<1>5. ASSUME NEW s \in Stas, PsPoll(s) PROVE McastInv'
  <2>1. torn' = torn /\ sleep_q'[0] = sleep_q[0]
    BY <1>5, PsPollFacts, DestFacts
  <2>2. (tim' = tim /\ bmc_lost' = bmc_lost) \/ (tim' = tim \ BitOf(s) /\ BmcLost(BitOf(s)))
    BY <1>5, PsPollFacts
  <2> QED BY <2>1, <2>2, McastKeep, McastClear
<1>6. ASSUME NEW s \in Stas, Trigger(s) PROVE McastInv'
  <2>1. torn' = torn /\ sleep_q'[0] = sleep_q[0]
    BY <1>6, TriggerFacts, DestFacts
  <2>2. (tim' = tim /\ bmc_lost' = bmc_lost) \/ (tim' = tim \ BitOf(s) /\ BmcLost(BitOf(s)))
    BY <1>6, TriggerFacts
  <2> QED BY <2>1, <2>2, McastKeep, McastClear
<1>7. ASSUME NEW s \in Stas, WakeByExpiry(s) PROVE McastInv'
  <2>1. WakeSta("cmd", s)
    BY <1>7 DEF WakeByExpiry
  <2> QED BY <2>1, DestFacts, WakeMcast
<1>8. ASSUME NEW s \in Stas, AliveCheck(s) PROVE McastInv'
  BY <1>8, TornFacts, McastKeep
<1>9. ASSUME NEW s \in Stas, FreeSta(s) PROVE McastInv'
  BY <1>9, DestFacts DEF FreeSta, McastInv, SleepQueues, other_vars
<1>10. ASSUME NEW s \in Stas, FreeBits(s) PROVE McastInv'
  BY <1>10, TornFacts, McastClear
<1>11. CASE WakeByLength
  <2>1. tx_force \in Dests /\ WakeSta("tx", tx_force)
    BY <1>11 DEF WakeByLength, SleepPcs
  <2> QED BY <2>1, DestFacts, WakeMcast
<1>12. CASE PsPollEmpty
  <2>1. (torn => torn') /\ sleep_q' = sleep_q
    BY <1>12, PollEmptyFacts
  <2>2. \/ torn' \/ (tim' = tim /\ bmc_lost' = bmc_lost)
        \/ tim' = tim \ BitOf(polled) /\ BmcLost(BitOf(polled))
    BY <1>12, PollEmptyFacts
  <2>3. CASE torn'
    BY <2>3 DEF McastInv
  <2>4. CASE ~torn'
    BY <2>1, <2>2, <2>4, McastKeep, McastClear
  <2> QED BY <2>3, <2>4
<1>13. ASSUME NEW c \in Contexts, WakeFlush(c) PROVE McastInv'
  BY <1>13, DestFacts DEF WakeFlush, McastInv, SleepQueues, other_vars
<1>14. CASE CmdFlush
  BY <1>14, DestFacts DEF CmdFlush, McastInv, SleepQueues, other_vars
<1>15. CASE CmdChkClear
  BY <1>15, TornFacts, McastClear
<1>16. ASSUME NEW k \in Servqs, QueuePlain(k[1], k[2]) \/ XmitPending(k) PROVE
   McastInv'
  <2>1. UNCHANGED <<sleep_q, tim, bmc_lost, torn>>
    BY <1>16, Zenon DEF QueuePlain, List, XmitPending
  <2> QED BY <2>1 DEF McastInv
<1>17. ASSUME NEW s \in Stas, Authenticate(s) \/ Associate(s) \/ RejectAgain(s)
   PROVE McastInv'
  <2>1. UNCHANGED <<sleep_q, tim, bmc_lost, torn>>
    BY <1>17, Zenon DEF Authenticate, Associate, RejectAgain
  <2> QED BY <2>1 DEF McastInv
<1>18. ASSUME NEW c \in Contexts, WakeRead(c) PROVE McastInv'
  <2>1. UNCHANGED <<sleep_q, tim, bmc_lost, torn>>
    BY <1>18, Zenon DEF WakeRead, KeepBeacon, UpdateBeacon
  <2> QED BY <2>1 DEF McastInv
<1>19. CASE CmdBeacon \/ CmdChk \/ CmdChkRetry \/ UNCHANGED sleep_vars
  <2>1. UNCHANGED <<sleep_q, tim, bmc_lost, torn>>
    BY <1>19, Zenon DEF CmdBeacon, CmdChk, CmdChkRetry, sleep_vars
  <2> QED BY <2>1 DEF McastInv
<1> QED
  BY SleepCases, <1>1, <1>2, <1>3, <1>4, <1>5, <1>6, <1>7, <1>8, <1>9, <1>10,
     <1>11, <1>12, <1>13, <1>14, <1>15, <1>16, <1>17, <1>18, <1>19

(* A beacon that is updated shows the bitmap, and one that is not need not *)
(* show more than before.                                                  *)
LEMMA BcnNew ==
  ASSUME SleepMaps', bcn' = TimIe(tim')
  PROVE  BcnInv'
<1>1. tim' \cap Prompt' \subseteq tim' /\ tim' \subseteq 0 .. 15
  BY DEF SleepMaps
<1>2. TimIe(tim' \cap Prompt') \subseteq TimIe(tim')
  BY <1>1, TimIeMono
<1> QED BY <1>2 DEF BcnInv

(* The bits that are new may only be such that are not prompt.             *)
LEMMA BcnKeep ==
  ASSUME BcnInv, SleepMaps, bcn' = bcn, torn => torn', ~torn' => tim' \cap Prompt' \subseteq tim \cap Prompt
  PROVE  BcnInv'
<1> SUFFICES ASSUME ~torn' PROVE BcnInv'
  BY DEF BcnInv
<1>1. tim' \cap Prompt' \subseteq tim \cap Prompt /\ tim \cap Prompt \subseteq 0 .. 15
  BY DEF SleepMaps
<1>2. TimIe(tim' \cap Prompt') \subseteq TimIe(tim \cap Prompt)
  BY <1>1, TimIeMono
<1> QED BY <1>2 DEF BcnInv

(* A name that a station has not yet is not in the bitmap.                 *)
LEMMA PromptKeep ==
  ASSUME tim' \subseteq tim,
         \A d \in Stas : Named(d)' => sleep_aid'[d] \notin tim' \/ (Named(d) /\ sleep_aid'[d] = sleep_aid[d])
  PROVE  tim' \cap Prompt' \subseteq tim \cap Prompt
BY PromptFacts

(* A station without mixed categories has frames of one kind, which its    *)
(* bit stands for.                                                         *)
LEMMA OneKind ==
  ASSUME NEW s \in Stas, s \notin Mixed, NEW ac \in Acs(s)
  PROVE  InTim(s, ac)
BY UapsdAssumption DEF Acs, InTim

(* A prompt bit of a station is its own.                                   *)
LEMMA PromptOwn ==
  ASSUME SleepAids, OwnAidInv, NEW s \in Stas, NEW a \in BitOf(s) \cap Prompt
  PROVE  s \notin Mixed /\ Named(s) /\ a = sleep_aid[s]
<1>1. PICK r \in Stas \ Mixed : Named(r) /\ a = sleep_aid[r]
  BY PromptFacts
<1>2. a # 0
  BY <1>1 DEF Named
<1>3. r = s
  BY <1>1, <1>2, BitFacts, DestFacts
<1> QED BY <1>1, <1>3

(* A station that is woken has no bit, and the others keep theirs.         *)
LEMMA WakeBcn ==
  ASSUME BcnInv, SleepSets, SleepMaps, SleepAids, OwnAidInv, SleepQueues, NEW c, NEW s \in Dests, WakeSta(c, s)
  PROVE  BcnInv'
<1>1. UNCHANGED <<bcn, torn, present, sleep_aid>> /\ tim' = tim \ BitOf(s) /\ misnamed' = misnamed \ {s}
  BY WakeFacts
<1>2. \A d \in Stas \ {s} : Named(d)' => Named(d)
  BY <1>1 DEF Named
<1>3. s \in Stas => sleep_aid[s] \notin tim'
  BY <1>1, BitFacts, DestFacts DEF SleepMaps
<1>4. tim' \cap Prompt' \subseteq tim \cap Prompt
  BY <1>1, <1>2, <1>3, PromptKeep
<1> QED BY <1>1, <1>4, BcnKeep

(* A step keeps what the beacon shows.                                     *)
LEMMA BcnStep ==
  BcnInv /\ SleepMaps' /\ KindInv /\ DozeInv /\ TimInv /\ StrayInv /\ SleepSets /\
        SleepAids /\ OwnAidInv /\ SleepMaps /\ SleepQueues /\ SleepCounts /\
        SleepPcs /\ [SleepNext]_sleep_vars => BcnInv'
<1> SUFFICES ASSUME BcnInv, SleepMaps', KindInv, DozeInv, TimInv, StrayInv,
      SleepSets, SleepAids, OwnAidInv, SleepMaps, SleepQueues, SleepCounts,
      SleepPcs, [SleepNext]_sleep_vars PROVE BcnInv'
  OBVIOUS
<1> USE DEF queue_vars, sta_vars, aid_vars, map_vars, bcn_vars, other_vars
<1>1. ASSUME NEW s \in Stas, NEW ac \in Acs(s), HoldUnicast(s, ac) PROVE BcnInv'
  <2>1. CASE bcn' = TimIe(tim')
    BY <2>1, BcnNew
  <2>2. CASE bcn' = bcn /\ (tim' = tim \/ (tim' = tim \cup BitOf(s) /\ sleep_q[s] # <<>>))
    <3>1. UNCHANGED <<present, sleep_aid, misnamed, torn>>
      BY <1>1, HoldFacts
    <3>2. Prompt' = Prompt
      BY <3>1, NamedSame
    <3>3. ASSUME ~torn, NEW a \in BitOf(s) \cap Prompt, sleep_q[s] # <<>> PROVE a \in tim
      <4>1. s \notin Mixed /\ Named(s) /\ a = sleep_aid[s]
        BY <3>3, PromptOwn
      <4>2. sleep_q[s] \in Seq({"l", "u"}) /\ s \in Dests
        BY DestFacts DEF SleepQueues
      <4>3. 1 \in DOMAIN sleep_q[s]
        BY <3>3, <4>2
      <4>4. sleep_q[s][1] \in Acs(s)
        BY <4>2, <4>3 DEF KindInv
      <4>5. InTim(s, sleep_q[s][1])
        BY <4>1, <4>4, OneKind
      <4> QED BY <3>3, <4>1, <4>3, <4>5 DEF TimInv
    <3>4. ~torn' => tim' \cap Prompt' \subseteq tim \cap Prompt
      BY <2>2, <3>1, <3>2, <3>3
    <3> QED BY <2>2, <3>1, <3>4, BcnKeep
  <2>3. bcn' = TimIe(tim') \/ (bcn' = bcn /\ (tim' = tim \/ (tim' = tim \cup BitOf(s) /\ sleep_q[s] # <<>>)))
    BY <1>1, HoldFacts
  <2> QED BY <2>1, <2>2, <2>3
<1>2. CASE HoldMulticast
  BY <1>2, HoldMulticastFacts, BcnNew
<1>3. ASSUME NEW s \in Stas, StopStaXmit(s) PROVE BcnInv'
  <2>1. PICK moved \in Seq({"l", "u"}), back \in Seq({"l", "u"}) :
          /\ \A i \in DOMAIN moved : moved[i] \in Acs(s)
          /\ tim' = tim \cup (IF \E i \in DOMAIN moved : InTim(s, moved[i]) THEN BitOf(s) ELSE {})
                        \cup (IF back # <<>> THEN {0} ELSE {})
          /\ IF (moved # <<>> /\ InTim(s, Head(moved)) /\ sleep_q[s] = <<>>) \/ back # <<>>
             THEN bcn' = TimIe(tim') ELSE bcn' = bcn
    BY <1>3, StopFacts
  <2>2. UNCHANGED <<present, sleep_aid, misnamed, torn>> /\ s \notin sleeping
    BY <1>3, Zenon DEF StopStaXmit, aid_vars
  <2>3. CASE bcn' = TimIe(tim')
    BY <2>3, BcnNew
  <2>4. CASE bcn' # TimIe(tim')
    <3>1. /\ back = <<>> /\ bcn' = bcn
          /\ ~(moved # <<>> /\ InTim(s, Head(moved)) /\ sleep_q[s] = <<>>)
      BY <2>1, <2>4, Zenon
    <3>2. tim' \subseteq tim \cup BitOf(s) /\ (moved = <<>> => tim' = tim)
      BY <2>1, <3>1
    <3>3. ASSUME s \notin Mixed, ~torn, moved # <<>> PROVE FALSE
      <4>1. Head(moved) \in Acs(s)
        BY <2>1, <3>3
      <4>2. InTim(s, Head(moved))
        BY <3>3, <4>1, OneKind
      <4>3. sleep_q[s] = <<>>
        BY <2>2, <3>3 DEF DozeInv
      <4> QED BY <3>1, <3>3, <4>2, <4>3
    <3>4. Prompt' = Prompt
      BY <2>2, NamedSame
    <3>5. s \in Mixed => BitOf(s) \cap Prompt = {}
      BY PromptOwn
    <3>6. ~torn' => tim' \cap Prompt' \subseteq tim \cap Prompt
      BY <2>2, <3>2, <3>3, <3>4, <3>5
    <3> QED BY <2>2, <3>1, <3>6, BcnKeep
  <2> QED BY <2>3, <2>4
<1>4. ASSUME NEW s \in Stas, WakeByPwrBit(s) PROVE BcnInv'
  <2>1. s \in Stas /\ WakeSta("rx", s)
    BY <1>4 DEF WakeByPwrBit
  <2> QED BY <2>1, DestFacts, WakeBcn
<1>5. ASSUME NEW s \in Stas, PsPoll(s) PROVE BcnInv'
  <2>1. UNCHANGED <<present, sleep_aid, misnamed, torn>>
    BY <1>5, PsPollFacts
  <2>2. (tim' = tim /\ bcn' = bcn) \/ bcn' = TimIe(tim')
    BY <1>5, PsPollFacts
  <2>3. Prompt' = Prompt
    BY <2>1, NamedSame
  <2> QED BY <2>1, <2>2, <2>3, BcnNew, BcnKeep
<1>6. ASSUME NEW s \in Stas, Trigger(s) PROVE BcnInv'
  <2>1. UNCHANGED <<present, sleep_aid, misnamed, torn>>
    BY <1>6, TriggerFacts
  <2>2. (tim' = tim /\ bcn' = bcn) \/ bcn' = TimIe(tim')
    BY <1>6, TriggerFacts
  <2>3. Prompt' = Prompt
    BY <2>1, NamedSame
  <2> QED BY <2>1, <2>2, <2>3, BcnNew, BcnKeep
<1>7. ASSUME NEW s \in Stas, WakeByExpiry(s) PROVE BcnInv'
  <2>1. WakeSta("cmd", s)
    BY <1>7 DEF WakeByExpiry
  <2> QED BY <2>1, DestFacts, WakeBcn
<1>8. ASSUME NEW s \in Stas, AliveCheck(s) PROVE BcnInv'
  BY <1>8, TornFacts, BcnNew
<1>9. ASSUME NEW s \in Stas, Authenticate(s) PROVE BcnInv'
  <2>1. /\ \A d \in Stas \ {s} : Named(d)' = Named(d) /\ sleep_aid'[d] = sleep_aid[d]
        /\ Named(s)' => Associate(s) /\ s \notin sleeping /\ s \notin sleeping'
                        /\ sleep_aid'[s] \notin aids_used /\ sleep_aid'[s] # 0
    BY <1>9, NameFacts
  <2>2. ~Named(s)'
    BY <1>9, <2>1 DEF Authenticate, Associate, Named
  <2>3. UNCHANGED <<tim, bcn, torn>>
    BY <1>9, Zenon DEF Authenticate, other_vars, map_vars, bcn_vars
  <2>4. tim' \cap Prompt' \subseteq tim \cap Prompt
    BY <2>1, <2>2, <2>3, PromptKeep
  <2> QED BY <2>3, <2>4, BcnKeep
<1>10. ASSUME NEW s \in Stas, Associate(s) PROVE BcnInv'
  <2>1. /\ \A d \in Stas \ {s} : Named(d)' = Named(d) /\ sleep_aid'[d] = sleep_aid[d]
        /\ Named(s)' => Associate(s) /\ s \notin sleeping /\ s \notin sleeping'
                        /\ sleep_aid'[s] \notin aids_used /\ sleep_aid'[s] # 0
    BY <1>10, NameFacts
  <2>2. UNCHANGED <<tim, bcn, torn>>
    BY <1>10, Zenon DEF Associate, other_vars, map_vars, bcn_vars
  <2>3. CASE torn
    BY <2>2, <2>3 DEF BcnInv
  <2>4. CASE ~torn
    <3>1. Named(s)' => sleep_aid'[s] \notin tim'
      BY <2>1, <2>2, <2>4 DEF StrayInv
    <3>2. tim' \cap Prompt' \subseteq tim \cap Prompt
      BY <2>1, <2>2, <3>1, PromptKeep
    <3> QED BY <2>2, <3>2, BcnKeep
  <2> QED BY <2>3, <2>4
<1>11. ASSUME NEW s \in Stas, RejectAgain(s) PROVE BcnInv'
  <2>1. /\ \A d \in Stas \ {s} : Named(d)' = Named(d) /\ sleep_aid'[d] = sleep_aid[d]
        /\ Named(s)' => Associate(s) /\ s \notin sleeping /\ s \notin sleeping'
                        /\ sleep_aid'[s] \notin aids_used /\ sleep_aid'[s] # 0
    BY <1>11, NameFacts
  <2>2. ~Named(s)'
    BY <1>11, <2>1 DEF RejectAgain, Associate, Named
  <2>3. UNCHANGED <<tim, bcn, torn>>
    BY <1>11, Zenon DEF RejectAgain, other_vars, map_vars, bcn_vars
  <2>4. tim' \cap Prompt' \subseteq tim \cap Prompt
    BY <2>1, <2>2, <2>3, PromptKeep
  <2> QED BY <2>3, <2>4, BcnKeep
<1>12. ASSUME NEW s \in Stas, FreeSta(s) PROVE BcnInv'
  <2>1. /\ \A d \in Stas \ {s} : Named(d)' = Named(d) /\ sleep_aid'[d] = sleep_aid[d]
        /\ Named(s)' => Associate(s) /\ s \notin sleeping /\ s \notin sleeping'
                        /\ sleep_aid'[s] \notin aids_used /\ sleep_aid'[s] # 0
    BY <1>12, NameFacts
  <2>2. ~Named(s)'
    BY <1>12, <2>1 DEF FreeSta, Associate, Named
  <2>3. UNCHANGED <<tim, bcn, torn>>
    BY <1>12, Zenon DEF FreeSta, other_vars, map_vars, bcn_vars
  <2>4. tim' \cap Prompt' \subseteq tim \cap Prompt
    BY <2>1, <2>2, <2>3, PromptKeep
  <2> QED BY <2>3, <2>4, BcnKeep
<1>13. ASSUME NEW s \in Stas, FreeBits(s) PROVE BcnInv'
  <2>1. /\ \A d \in Stas \ {s} : Named(d)' = Named(d) /\ sleep_aid'[d] = sleep_aid[d]
        /\ Named(s)' => Associate(s) /\ s \notin sleeping /\ s \notin sleeping'
                        /\ sleep_aid'[s] \notin aids_used /\ sleep_aid'[s] # 0
    BY <1>13, NameFacts
  <2>2. ~Named(s)'
    BY <1>13, <2>1 DEF FreeBits, Associate, SleepSets
  <2>3. bcn' = bcn /\ (torn => torn') /\ (torn' \/ tim' = tim \ BitOf(s))
    BY <1>13, TornFacts
  <2>4. CASE torn'
    BY <2>4 DEF BcnInv
  <2>5. CASE tim' = tim \ BitOf(s)
    <3>1. tim' \cap Prompt' \subseteq tim \cap Prompt
      BY <2>1, <2>2, <2>5, PromptKeep
    <3> QED BY <2>3, <3>1, BcnKeep
  <2> QED BY <2>3, <2>4, <2>5
<1>14. CASE WakeByLength
  <2>1. tx_force \in Dests /\ WakeSta("tx", tx_force)
    BY <1>14 DEF WakeByLength, SleepPcs
  <2> QED BY <2>1, DestFacts, WakeBcn
<1>15. CASE PsPollEmpty
  <2>1. UNCHANGED <<present, sleep_aid, misnamed>> /\ (torn => torn')
    BY <1>15, PollEmptyFacts
  <2>2. torn' \/ (tim' = tim /\ bcn' = bcn) \/ bcn' = TimIe(tim')
    BY <1>15, PollEmptyFacts
  <2>3. Prompt' = Prompt
    BY <2>1, NamedSame
  <2>4. CASE torn'
    BY <2>4 DEF BcnInv
  <2>5. CASE ~torn'
    BY <2>1, <2>2, <2>3, <2>5, BcnNew, BcnKeep
  <2> QED BY <2>4, <2>5
<1>16. ASSUME NEW c \in Contexts, WakeRead(c) PROVE BcnInv'
  <2>1. UNCHANGED <<tim, torn, present, sleep_aid, misnamed>> /\ (bcn' = bcn \/ bcn' = TimIe(tim'))
    BY <1>16, Zenon DEF WakeRead, UpdateBeacon, KeepBeacon, bcn_vars, aid_vars, map_vars
  <2> QED BY <2>1, NamedSame, BcnNew, BcnKeep
<1>17. ASSUME NEW c \in Contexts, WakeFlush(c) PROVE BcnInv'
  BY <1>17, Zenon, BcnNew DEF WakeFlush, UpdateBeacon
<1>18. CASE CmdChkClear
  BY <1>18, TornFacts, BcnNew
<1>19. ASSUME NEW k \in Servqs, QueuePlain(k[1], k[2]) \/ XmitPending(k) PROVE
   BcnInv'
  <2>1. UNCHANGED <<tim, bcn, torn, present, sleep_aid, misnamed>>
    BY <1>19, Zenon DEF QueuePlain, List, XmitPending
  <2> QED BY <2>1, NamedSame, BcnKeep
<1>20. CASE CmdBeacon \/ CmdFlush \/ CmdChk \/ CmdChkRetry
  <2>1. UNCHANGED <<tim, bcn, torn, present, sleep_aid, misnamed>>
    BY <1>20, Zenon DEF CmdBeacon, CmdFlush, List, CmdChk, CmdChkRetry
  <2> QED BY <2>1, NamedSame, BcnKeep
<1>21. CASE UNCHANGED sleep_vars
  <2>1. UNCHANGED <<tim, bcn, torn, present, sleep_aid, misnamed>>
    BY <1>21, Zenon DEF sleep_vars
  <2> QED BY <2>1, NamedSame, BcnKeep
<1> QED
  BY SleepCases, <1>1, <1>2, <1>3, <1>4, <1>5, <1>6, <1>7, <1>8, <1>9, <1>10,
     <1>11, <1>12, <1>13, <1>14, <1>15, <1>16, <1>17, <1>18, <1>19, <1>20, <1>21

(* Frames that wait are in a listed queue.                                 *)
LEMMA PlainGrow ==
  ASSUME ListInv, plain' = plain, listed \cup left_behind \subseteq listed' \cup left_behind'
  PROVE  ListInv'
BY DEF ListInv

(* A step keeps the list.                                                  *)
LEMMA ListedStep == ListInv /\ SleepCounts /\ SleepPcs /\ [SleepNext]_sleep_vars => ListInv'
<1> SUFFICES ASSUME ListInv, SleepCounts, SleepPcs, [SleepNext]_sleep_vars PROVE ListInv'
  OBVIOUS
<1> USE DEF queue_vars, sta_vars, aid_vars, map_vars, bcn_vars, other_vars
<1>1. ASSUME NEW k \in Servqs, QueuePlain(k[1], k[2]) PROVE ListInv'
  <2>1. <<k[1], k[2]>> = k
    BY ServqFacts
  <2>2. plain' = [plain EXCEPT ![k] = plain[k] + 1] /\ listed' = listed \cup {k} /\ left_behind' = left_behind \ {k}
    BY <1>1, <2>1 DEF QueuePlain, List
  <2>3. \A j \in Servqs : j # k => plain'[j] = plain[j]
    BY <2>2 DEF SleepCounts
  <2> QED BY <2>2, <2>3 DEF ListInv
<1>2. ASSUME NEW s \in Stas, StopStaXmit(s) PROVE ListInv'
  <2> DEFINE emptied(d) == IF d = 0 THEN dz \cup BitOf(s) # {} ELSE d = s /\ BitOf(s) # {}
  <2>1. /\ plain' = [k \in Servqs |-> IF emptied(k[1]) THEN 0 ELSE plain[k]]
        /\ listed' = {k \in listed : k[1] \notin {s, 0}}
        /\ left_behind' = left_behind \cup {k \in Servqs : k[1] \in {s, 0} /\ ~emptied(k[1]) /\ plain[k] > 0}
    BY <1>2, Zenon DEF StopStaXmit
  <2> HIDE DEF emptied
  <2> QED BY <2>1 DEF ListInv
<1>3. ASSUME NEW s \in Stas, WakeByPwrBit(s) PROVE ListInv'
  <2>1. plain' = plain /\ listed \cup left_behind \subseteq listed' \cup left_behind'
    BY <1>3 DEF WakeByPwrBit, WakeSta, Release, List
  <2> QED BY <2>1, PlainGrow
<1>4. ASSUME NEW s \in Stas, PsPoll(s) PROVE ListInv'
  <2>1. plain' = plain /\ listed \cup left_behind \subseteq listed' \cup left_behind'
    BY <1>4 DEF PsPoll, Release, List
  <2> QED BY <2>1, PlainGrow
<1>5. ASSUME NEW s \in Stas, Trigger(s) PROVE ListInv'
  <2>1. plain' = plain /\ listed \cup left_behind \subseteq listed' \cup left_behind'
    BY <1>5 DEF Trigger, Release, List
  <2> QED BY <2>1, PlainGrow
<1>6. ASSUME NEW s \in Stas, WakeByExpiry(s) PROVE ListInv'
  <2>1. plain' = plain /\ listed \cup left_behind \subseteq listed' \cup left_behind'
    BY <1>6 DEF WakeByExpiry, WakeSta, Release, List
  <2> QED BY <2>1, PlainGrow
<1>7. ASSUME NEW s \in Stas, FreeSta(s) PROVE ListInv'
  <2>1. /\ plain' = [k \in Servqs |-> IF k[1] = s THEN 0 ELSE plain[k]]
        /\ listed' = {k \in listed : k[1] # s} /\ left_behind' = {k \in left_behind : k[1] # s}
    BY <1>7, Zenon DEF FreeSta
  <2> QED BY <2>1 DEF ListInv
<1>8. CASE WakeByLength
  <2>1. plain' = plain /\ listed \cup left_behind \subseteq listed' \cup left_behind'
    BY <1>8 DEF WakeByLength, WakeSta, Release, List
  <2> QED BY <2>1, PlainGrow
<1>9. ASSUME NEW c \in Contexts, WakeFlush(c) PROVE ListInv'
  <2>1. plain' = plain /\ listed \cup left_behind \subseteq listed' \cup left_behind'
    BY <1>9 DEF WakeFlush, Release, List
  <2> QED BY <2>1, PlainGrow
<1>10. ASSUME NEW k \in Servqs, XmitPending(k) PROVE ListInv'
  <2>1. /\ \/ plain[k] > 0 /\ plain' = [plain EXCEPT ![k] = plain[k] - 1]
           \/ trig[k] > 0 /\ plain' = plain
           \/ k = <<0, "l">> /\ hiq > 0 /\ plain' = plain
        /\ listed' = IF Waiting(k) = 1 THEN listed \ {k} ELSE listed
        /\ left_behind' = left_behind
    BY <1>10 DEF XmitPending
  <2>2. plain[k] \in Nat /\ trig[k] \in Nat /\ hiq \in Nat /\ plain \in [Servqs -> Nat]
    BY DEF SleepCounts
  <2>3. Waiting(k) = 1 => ~(plain'[k] > 0)
    BY <2>1, <2>2 DEF Waiting
  <2>4. \A j \in Servqs : j # k => plain'[j] = plain[j] /\ (j \in listed => j \in listed')
    BY <2>1, <2>2
  <2>5. plain'[k] > 0 => plain[k] > 0 /\ listed' = listed
    BY <2>1, <2>2, <2>3
  <2> QED BY <2>1, <2>4, <2>5 DEF ListInv
<1>11. CASE CmdFlush
  <2>1. plain' = plain /\ listed \cup left_behind \subseteq listed' \cup left_behind'
    BY <1>11 DEF CmdFlush, List
  <2> QED BY <2>1, PlainGrow
<1>12. ASSUME NEW s \in Stas, NEW ac \in Acs(s), HoldUnicast(s, ac) PROVE
   ListInv'
  <2>1. UNCHANGED <<plain, listed, left_behind>>
    BY <1>12, Zenon DEF HoldUnicast, UpdateBeacon, KeepBeacon, ForceIfLong
  <2> QED BY <2>1, PlainGrow
<1>13. CASE HoldMulticast \/ PsPollEmpty \/ CmdBeacon \/ CmdChk
  <2>1. UNCHANGED <<plain, listed, left_behind>>
    BY <1>13, Zenon DEF HoldMulticast, UpdateBeacon, ForceIfLong, PsPollEmpty,
       BmcLost, KeepBeacon, CmdBeacon, CmdChk
  <2> QED BY <2>1, PlainGrow
<1>14. CASE CmdChkRetry \/ CmdChkClear \/ UNCHANGED sleep_vars
  <2>1. UNCHANGED <<plain, listed, left_behind>>
    BY <1>14, Zenon DEF CmdChkRetry, CmdChkClear, UpdateBeacon, BmcLost, sleep_vars
  <2> QED BY <2>1, PlainGrow
<1>15. ASSUME NEW s \in Stas, AliveCheck(s) \/ Authenticate(s) \/ Associate(s)
   \/ RejectAgain(s) PROVE ListInv'
  <2>1. UNCHANGED <<plain, listed, left_behind>>
    BY <1>15, Zenon DEF AliveCheck, UpdateBeacon, Authenticate, Associate,
       RejectAgain
  <2> QED BY <2>1, PlainGrow
<1>16. ASSUME NEW s \in Stas, FreeBits(s) PROVE ListInv'
  <2>1. UNCHANGED <<plain, listed, left_behind>>
    BY <1>16, Zenon DEF FreeBits, BmcLost
  <2> QED BY <2>1, PlainGrow
<1>17. ASSUME NEW c \in Contexts, WakeRead(c) PROVE ListInv'
  <2>1. UNCHANGED <<plain, listed, left_behind>>
    BY <1>17, Zenon DEF WakeRead, KeepBeacon, UpdateBeacon
  <2> QED BY <2>1, PlainGrow
<1> QED
  BY SleepCases, <1>1, <1>2, <1>3, <1>4, <1>5, <1>6, <1>7, <1>8, <1>9, <1>10,
     <1>11, <1>12, <1>13, <1>14, <1>15, <1>16, <1>17

-----------------------------------------------------------------------------
(* Nobody is there at first.                                               *)
LEMMA SleepInitInv == SleepInit => SleepIInv
<1> SUFFICES ASSUME SleepInit PROVE SleepIInv
  OBVIOUS
<1>1. \A s \in Dests : sleep_q[s] = <<>>
  BY DEF SleepInit
<1>2. /\ present = {} /\ associated = {} /\ sleeping = {} /\ alive_chk = {} /\ ac_extra = {}
      /\ misnamed = {} /\ freeing = {} /\ aids_used = {} /\ left_behind = {}
      /\ dz = {} /\ tim = {} /\ bcn = {} /\ listed = {} /\ cmds = <<>> /\ cmd_pc = "idle"
      /\ tx_force = NoSta /\ polled = NoSta /\ hiq = 0
  BY DEF SleepInit
<1>3. \A s \in Stas : sleep_aid[s] = 0 /\ ~Named(s)
  BY <1>2 DEF SleepInit, Named
<1>4. SleepSets /\ SleepMaps /\ DozeInv /\ StrayInv
  BY <1>1, <1>2, <1>3, DestFacts DEF SleepSets, SleepMaps, DozeInv, StrayInv
<1>5. SleepAids /\ OwnAidInv
  BY <1>2, <1>3 DEF SleepInit, SleepAids, OwnAidInv
<1>6. SleepQueues /\ SleepCounts
  BY DEF SleepInit, SleepQueues, SleepCounts
<1>7. SleepPcs
  BY DEF SleepInit, SleepPcs
<1>8. SleepFlags
  BY Zenon DEF SleepInit, SleepFlags
<1>9. KindInv /\ TimInv /\ McastInv
  <2>1. \A s \in Dests : \A i \in DOMAIN sleep_q[s] : FALSE
    BY <1>1
  <2> QED BY <1>1, <1>3, <2>1, DestFacts DEF KindInv, TimInv, McastInv
<1>10. TimIe(tim \cap Prompt) = {}
  BY <1>2 DEF TimIe
<1>11. ListInv
  BY DEF SleepInit, ListInv
<1> QED BY <1>4, <1>5, <1>6, <1>7, <1>8, <1>9, <1>10, <1>11 DEF SleepIInv, BcnInv

(* Every step keeps the invariant.                                         *)
LEMMA SleepStepInv == SleepIInv /\ [SleepNext]_sleep_vars => SleepIInv'
<1> SUFFICES ASSUME SleepIInv, [SleepNext]_sleep_vars PROVE SleepIInv'
  OBVIOUS
<1> USE DEF SleepIInv
<1>1. SleepSets' /\ SleepAids' /\ SleepPcs' /\ SleepFlags'
  BY SetsInv, AidsInv, PcsInv, FlagsInv
<1>2. SleepQueues' /\ SleepCounts' /\ SleepMaps'
  BY QueuesInv, CountsInv, MapsInv
<1>3. OwnAidInv' /\ StrayInv' /\ KindInv'
  BY OwnAidStep, StrayStep, KindStep
<1>4. DozeInv' /\ TimInv' /\ McastInv'
  BY DozeStep, TimStep, McastStep
<1>5. BcnInv' /\ ListInv'
  BY <1>2, BcnStep, ListedStep
<1> QED BY <1>1, <1>2, <1>3, <1>4, <1>5

(* The invariant holds in every reachable state.                           *)
LEMMA SleepInductive == SleepSpec => []SleepIInv
BY SleepInitInv, SleepStepInv, PTL DEF SleepSpec

(* A station that keeps the AID it fell asleep with is in sta_dz_bitmap    *)
(* exactly while it sleeps, and any station has frames held only then,     *)
(* unless a store without the lock was torn.                               *)
THEOREM DozeConsistentHolds == SleepSpec => []DozeConsistent
<1>1. SleepIInv => DozeConsistent
  BY DEF SleepIInv, SleepSets, SleepAids, SleepQueues, SleepCounts, SleepMaps,
        SleepPcs, SleepFlags,
     DozeInv, SleepTypeOK, DozeConsistent
<1> QED BY <1>1, SleepInductive, PTL

(* Held frames have their TIM bit, and the beacon shows it as far as the   *)
(* element has room, except for what mixed categories, changed AIDs and    *)
(* cleared multicast bits do.                                              *)
THEOREM HeldAdvertisedHolds == SleepSpec => []HeldAdvertised
<1>1. SleepIInv => HeldAdvertised
  <2> SUFFICES ASSUME SleepIInv, ~torn PROVE HeldAdvertised
    BY DEF HeldAdvertised
  <2>1. TimIe(tim \cap Prompt) \subseteq bcn
    BY DEF SleepIInv, BcnInv
  <2> QED BY <2>1 DEF SleepIInv, TimInv, McastInv, HeldAdvertised
<1> QED BY <1>1, SleepInductive, PTL

(* A frame that waits and was never held is in a listed queue, unless it   *)
(* was left behind because no bit could hold it.                           *)
THEOREM PlainListedHolds == SleepSpec => []PlainListed
<1>1. SleepIInv => PlainListed
  BY DEF SleepIInv, ListInv, PlainListed
<1> QED BY <1>1, SleepInductive, PTL
=============================================================================
