---------------------------- MODULE SignalProofs ----------------------------
(***************************************************************************)
(* Proofs about Signal, for every set of values and range of times: the    *)
(* newest offer wins in any order of arrival; and nothing but a value      *)
(* newer than every observation revives a reading, as long as no value     *)
(* came after an invalidation that overtook it.                            *)
(***************************************************************************)
EXTENDS Signal, TLAPS

Types == /\ has_value \in BOOLEAN /\ last_update \in Time
         /\ timeout \in Timeout /\ status \in {"Unknown", "Valid", "Stale"}
         /\ DOMAIN offered \subseteq Time /\ invalidated \in Time

IInv == Types /\ LatestWins

LEMMA Start == Init => IInv
<1> SUFFICES ASSUME Init PROVE IInv
    OBVIOUS
<1>1. 0 \in Time
  BY TimeAssumption DEF Time
<1>2. DOMAIN offered = {}
  BY DEF Init
<1> QED BY <1>1, <1>2 DEF Init, IInv, Types, LatestWins

(* An offer is added to what was offered and replaces nothing. *)
LEMMA OfferKeeps ==
  ASSUME NEW v, NEW t, Offer(v, t)
  PROVE  /\ DOMAIN offered' = DOMAIN offered \cup {t}
         /\ \A u \in DOMAIN offered : offered'[u] = offered[u]
         /\ t \notin DOMAIN offered => offered'[t] = v
BY DEF Offer

LEMMA UpdateKeeps ==
  ASSUME IInv, NEW v \in Value, NEW t \in Time, Update(v, t)
  PROVE  IInv'
<1>1. /\ DOMAIN offered' = DOMAIN offered \cup {t}
      /\ \A u \in DOMAIN offered : offered'[u] = offered[u]
      /\ t \notin DOMAIN offered => offered'[t] = v
  BY OfferKeeps DEF Update
<1>2. DOMAIN offered' \subseteq Time /\ Time \subseteq Int
  BY <1>1 DEF IInv, Types, Time
<1>3. CASE ~has_value \/ Newer(t)
  <2>1. /\ value' = v /\ has_value' = TRUE /\ last_update' = t /\ status' = "Valid"
        /\ UNCHANGED <<timeout, invalidated>>
    BY <1>3 DEF Update
  <2>2. t \notin DOMAIN offered /\ \A u \in DOMAIN offered : u <= t
    BY <1>2, <1>3 DEF IInv, Types, LatestWins, Newer, Time
  <2>3. Types'
    BY <1>2, <2>1 DEF IInv, Types
  <2>4. LatestWins'
    BY <1>1, <1>2, <2>1, <2>2 DEF LatestWins
  <2> QED BY <2>3, <2>4 DEF IInv
<1>4. CASE ~(~has_value \/ Newer(t))
  <2>1. has_value = TRUE /\ t <= last_update
    BY <1>2, <1>4 DEF IInv, Types, Newer, Time
  <2>2. UNCHANGED <<value, has_value, last_update, status, timeout, invalidated>>
    BY <1>4 DEF Update
  <2>3. Types'
    BY <1>2, <2>2 DEF IInv, Types
  <2>4. LatestWins'
    BY <1>1, <2>1, <2>2 DEF IInv, LatestWins
  <2> QED BY <2>3, <2>4 DEF IInv
<1> QED BY <1>3, <1>4

LEMMA Step == IInv /\ [Next]_vars => IInv'
<1> SUFFICES ASSUME IInv, [Next]_vars PROVE IInv'
    OBVIOUS
<1>1. ASSUME NEW v \in Value, NEW t \in Time, Update(v, t) PROVE IInv'
  BY <1>1, UpdateKeeps
<1>2. ASSUME NEW t \in Time, Invalidate(t) PROVE IInv'
  BY <1>2 DEF IInv, Types, LatestWins, Invalidate
<1>3. ASSUME NEW now \in Time, Refresh(now) PROVE IInv'
  <2>1. status' \in {"Unknown", "Valid", "Stale"} /\ (status = "Unknown" => status' = "Unknown")
    BY <1>3 DEF IInv, Types, Refresh, Refreshed
  <2> QED BY <1>3, <2>1 DEF IInv, Types, LatestWins, Refresh
<1>4. CASE SetFreshnessTimeout
  BY <1>4 DEF IInv, Types, LatestWins, SetFreshnessTimeout
<1>5. CASE UNCHANGED vars
  BY <1>5 DEF IInv, Types, LatestWins, vars
<1> QED BY <1>1, <1>2, <1>3, <1>4, <1>5 DEF Next

THEOREM Invariance == Spec => []IInv
BY Start, Step, PTL DEF Spec

(* The newest offer wins, whatever order the frames come in. *)
THEOREM Latest == Spec => []LatestWins
<1>1. IInv => LatestWins
  BY DEF IInv
<1> QED BY <1>1, Invariance, PTL

-----------------------------------------------------------------------------
(* Stale once, stale at every later time. *)
LEMMA Aging ==
  ASSUME IInv, NEW n \in Time, NEW m \in Time, n <= m, Usable(m)
  PROVE  Usable(n)
<1> DEFINE Age(now) == IF now >= last_update THEN now - last_update ELSE 0
<1>1. n \in Int /\ m \in Int /\ last_update \in Int
  BY DEF IInv, Types, Time
<1>2. Age(n) <= Age(m) /\ Age(n) \in Int /\ Age(m) \in Int
  BY <1>1
<1>3. \A k \in timeout : k \in Int
  BY DEF IInv, Types, Timeout, Time
<1>4. \A k \in timeout : Age(m) <= k => Age(n) <= k
  BY <1>2, <1>3
<1> HIDE DEF Age
<1>5. \A now : StatusAt(now) = IF ~has_value THEN "NoData"
                               ELSE IF status = "Unknown" THEN "Unavailable"
                               ELSE IF timeout = {} THEN "FreshnessUnverified"
                               ELSE IF \E k \in timeout : Age(now) <= k THEN "Fresh" ELSE "Stale"
  BY DEF StatusAt, Age
<1> QED BY <1>4, <1>5 DEF Usable

Revives == \/ ~ordered' \/ timeout' # timeout \/ ~has_value \/ last_update' > Newest
           \/ \A n, m \in Time : n <= m /\ Usable(m)' => Usable(n)

(* A step that leaves value time, timeout and an Unknown status alone can only *)
(* take usability away.                                                        *)
LEMMA NotRevived ==
  ASSUME IInv, UNCHANGED <<has_value, last_update, timeout>>,
         status = "Unknown" => status' = "Unknown"
  PROVE  Revives
<1> SUFFICES ASSUME NEW n \in Time, NEW m \in Time, n <= m, Usable(m)' PROVE Usable(n)
    BY DEF Revives
<1>1. Usable(m)
  BY DEF Usable, StatusAt
<1> QED BY <1>1, Aging

(* A value that was not overtaken and is taken is newer than all that came before. *)
LEMMA TakenIsNewest ==
  ASSUME IInv, NEW v \in Value, NEW t \in Time, Update(v, t), ordered', has_value, Newer(t)
  PROVE  last_update' > Newest
<1>1. last_update' = t /\ ~Overtaken(t)
  BY DEF Update
<1>2. t \in Int /\ last_update \in Int /\ invalidated \in Int /\ t > last_update
  BY DEF IInv, Types, Time, Newer
<1>3. t > invalidated
  BY <1>1, <1>2 DEF Overtaken
<1> QED BY <1>1, <1>2, <1>3 DEF Newest

LEMMA StepRevives == IInv /\ [Next]_vars => Revives
<1> SUFFICES ASSUME IInv, [Next]_vars, ordered' PROVE Revives
    BY DEF Revives
<1>1. ASSUME NEW v \in Value, NEW t \in Time, Update(v, t) PROVE Revives
  <2>1. CASE ~has_value
    BY <2>1 DEF Revives
  <2>2. CASE has_value /\ Newer(t)
    BY <1>1, <2>2, TakenIsNewest DEF Revives
  <2>3. CASE has_value /\ ~Newer(t)
    <3>1. UNCHANGED <<has_value, last_update, timeout, status>>
      BY <1>1, <2>3 DEF Update
    <3> QED BY <3>1, NotRevived
  <2> QED BY <2>1, <2>2, <2>3
<1>2. ASSUME NEW t \in Time, Invalidate(t) PROVE Revives
  BY <1>2, NotRevived DEF Invalidate
<1>3. ASSUME NEW now \in Time, Refresh(now) PROVE Revives
  <2>1. status = "Unknown" => status' = "Unknown"
    BY <1>3 DEF Refresh, Refreshed
  <2> QED BY <1>3, <2>1, NotRevived DEF Refresh
<1>4. CASE SetFreshnessTimeout
  <2>1. CASE timeout' # timeout
    BY <2>1 DEF Revives
  <2>2. CASE timeout' = timeout
    BY <1>4, <2>2, NotRevived DEF SetFreshnessTimeout
  <2> QED BY <2>1, <2>2
<1>5. CASE UNCHANGED vars
  BY <1>5, NotRevived DEF vars
<1> QED BY <1>1, <1>2, <1>3, <1>4, <1>5 DEF Next

(* Nothing but a value newer than every observation, or another timeout, revives a *)
(* reading, as long as no value came after an invalidation that overtook it.       *)
THEOREM OldStaysOld == Spec => NoRevival
<1>1. IInv /\ [Next]_vars => [Revives]_vars
  BY StepRevives
<1>2. NoRevival <=> [][Revives]_vars
  BY PTL DEF NoRevival, Revives
<1> QED BY <1>1, <1>2, Invariance, PTL DEF Spec

-----------------------------------------------------------------------------
(* The unsigned difference of two times in order is their difference. *)
LEMMA NoWrap ==
  ASSUME NEW i \in Nat, i < Width
  PROVE  i % Width = i
<1> DEFINE q == i \div Width
           r == i % Width
<1>0. Width \in Nat /\ Width > 0
  BY TimeAssumption
<1>1. q \in Nat /\ r \in 0..(Width - 1) /\ i = (q * Width) + r
  <2>1. q \in Nat
    BY <1>0, SMT
  <2>2. r \in 0..(Width - 1)
    BY <1>0, SMT
  <2>3. i = (q * Width) + r
    BY <1>0, SMT
  <2> QED BY <2>1, <2>2, <2>3
<1> HIDE DEF q, r
<1>2. CASE q >= 1
  <2>1. (q - 1) \in Nat /\ q * Width = (q - 1) * Width + Width
    BY <1>0, <1>1, <1>2, SMT
  <2>2. (q - 1) * Width \in Nat
    BY <1>0, <2>1, SMT
  <2> QED BY <1>0, <1>1, <2>1, <2>2
<1>3. CASE q = 0
  BY <1>0, <1>1, <1>3 DEF r
<1> QED BY <1>1, <1>2, <1>3

(* refresh() and status_at() find the same value late. *)
LEMMA LateAlike ==
  ASSUME IInv, NEW now \in Time, now >= last_update, NEW n \in timeout
  PROVE  (now - last_update) % Width > n <=> ~(now - last_update <= n)
<1>1. now - last_update \in Nat /\ now - last_update < Width
  BY TimeAssumption DEF IInv, Types, Time
<1>2. n \in Int
  BY DEF IInv, Types, Timeout, Time
<1> QED BY <1>1, <1>2, NoWrap

(* What refresh() leaves Valid is usable, and what it finds stale under a timeout *)
(* status_at() calls stale too, for every reader's time.                          *)
THEOREM RefreshAndStatusAgree == Spec => []RefreshAgrees
<1>1. IInv => RefreshAgrees
  <2> SUFFICES ASSUME IInv, NEW now \in Time
               PROVE  /\ has_value /\ Refreshed(now) = "Valid" => Usable(now)
                      /\ status = "Valid" /\ Refreshed(now) = "Stale" /\ timeout # {}
                           => StatusAt(now) = "Stale"
    BY DEF RefreshAgrees
  <2>1. \A n \in timeout : n \in Nat /\ \A k \in timeout : k = n
    BY DEF IInv, Types, Timeout, Time
  <2>2. status = "Valid" => has_value
    BY DEF IInv, LatestWins
  <2>3. now \in Int /\ last_update \in Int
    BY DEF IInv, Types, Time
  <2>4. CASE now < last_update
    <3>1. Refreshed(now) = status
      BY <2>3, <2>4 DEF Refreshed
    <3>2. \A n \in timeout : 0 <= n
      BY <2>1
    <3>3. has_value /\ status = "Valid" => StatusAt(now) \in {"Fresh", "FreshnessUnverified"}
      BY <2>3, <2>4, <3>2 DEF StatusAt
    <3> QED BY <3>1, <3>3 DEF Usable
  <2>5. CASE now >= last_update
    <3>1. \A n \in timeout : (now - last_update) % Width > n <=> ~(now - last_update <= n)
      BY <2>5, LateAlike
    <3>2. StatusAt(now) = IF ~has_value THEN "NoData"
                          ELSE IF status = "Unknown" THEN "Unavailable"
                          ELSE IF timeout = {} THEN "FreshnessUnverified"
                          ELSE IF \E n \in timeout : now - last_update <= n THEN "Fresh" ELSE "Stale"
      BY <2>5 DEF StatusAt
    <3> DEFINE late == IF timeout = {} THEN now > last_update
                       ELSE \E n \in timeout : (now - last_update) % Width > n
    <3>3. Refreshed(now) = IF status = "Valid" /\ late THEN "Stale" ELSE status
      BY <2>5 DEF Refreshed
    <3>4. timeout # {} => (late <=> ~\E n \in timeout : now - last_update <= n)
      BY <2>1, <3>1
    <3> HIDE DEF late
    <3> QED BY <2>2, <3>2, <3>3, <3>4 DEF Usable
  <2> QED BY <2>3, <2>4, <2>5
<1> QED BY <1>1, Invariance, PTL
=============================================================================
