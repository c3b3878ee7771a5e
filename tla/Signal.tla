------------------------------- MODULE Signal -------------------------------
(***************************************************************************)
(* vehicle_core::Signal (signal.hpp): one observed quantity that decoders  *)
(* update and invalidate with the times of their frames, in any order, and *)
(* that readers refresh or look at with times of their own.                *)
(***************************************************************************)
EXTENDS Integers

CONSTANTS Value,
          LastTime,    \* bound: timestamps are 0..LastTime
          Width        \* timestamps are subtracted modulo Width

ASSUME TimeAssumption == LastTime \in Nat /\ Width \in Nat /\ Width > LastTime

VARIABLES value, has_value, last_update,
          timeout,     \* freshness_timeout_us: a set of at most one time
          status,      \* what refresh() and is_valid() see
          offered,     \* ghost: the first value offered for each time
          invalidated, \* ghost: the newest time at which a value was invalidated, or 0
          ordered      \* ghost: no value came after an invalidation that overtook it

vars == <<value, has_value, last_update, timeout, status, offered, invalidated, ordered>>

Time == 0..LastTime
Timeout == {{}} \cup {{n} : n \in Time}

Init == /\ value \in Value /\ has_value = FALSE /\ last_update = 0
        /\ timeout \in Timeout /\ status = "Unknown"
        /\ offered = [t \in {} |-> value] /\ invalidated = 0 /\ ordered = TRUE

-----------------------------------------------------------------------------
(* Mutation: a late value is taken; an equal time counts as newer. *)
NewerNot(t) == TRUE
NewerOrEqual(t) == t >= last_update

(* update_status(): only a strictly newer time brings a value or a recovery, *)
(* a duplicate and a conflict at the same time change nothing.               *)
Newer(t) == t > last_update

Offer(v, t) ==
  offered' = [u \in DOMAIN offered \cup {t} |-> IF u \in DOMAIN offered THEN offered[u] ELSE v]

(* Nothing in the code makes a value wait for the invalidation that overtook it: newer *)
(* than the last value, but not than the invalidation.                                 *)
Overtaken(t) == last_update < t /\ t <= invalidated

Update(v, t) ==
  /\ Offer(v, t)
  /\ IF ~has_value \/ Newer(t)
     THEN value' = v /\ has_value' = TRUE /\ last_update' = t /\ status' = "Valid"
     ELSE UNCHANGED <<value, has_value, last_update, status>>
  /\ ordered' = (ordered /\ ~Overtaken(t))
  /\ UNCHANGED <<timeout, invalidated>>

(* invalidate(): the value and its time are kept. *)
Invalidate(t) == /\ ~has_value \/ Newer(t)
                 /\ status' = "Unknown"
                 /\ invalidated' = IF has_value /\ t > invalidated THEN t ELSE invalidated
                 /\ UNCHANGED <<value, has_value, last_update, timeout, offered, ordered>>

SetFreshnessTimeout == /\ timeout' \in Timeout
                       /\ UNCHANGED <<value, has_value, last_update, status, offered, invalidated, ordered>>

(* Mutation: a reader whose time is behind the value's is not told apart. *)
RefreshedBehind(now) ==
  LET late == IF timeout = {} THEN now # last_update
              ELSE \E n \in timeout : (now - last_update) % Width > n
  IN IF status = "Valid" /\ late THEN "Stale" ELSE status

(* refresh(): the status it leaves. *)
Refreshed(now) ==
  LET late == IF timeout = {} THEN now > last_update
              ELSE \E n \in timeout : (now - last_update) % Width > n
  IN IF status = "Valid" /\ now >= last_update /\ late THEN "Stale" ELSE status

Refresh(now) == /\ status' = Refreshed(now)
                /\ UNCHANGED <<value, has_value, last_update, timeout, offered, invalidated, ordered>>

(* status_at() computes the age anew and does not trust a Stale of refresh(). *)
StatusAt(now) ==
  LET age == IF now >= last_update THEN now - last_update ELSE 0
  IN IF ~has_value THEN "NoData"
     ELSE IF status = "Unknown" THEN "Unavailable"
     ELSE IF timeout = {} THEN "FreshnessUnverified"
     ELSE IF \E n \in timeout : age <= n THEN "Fresh" ELSE "Stale"

Next == \/ \E t \in Time : Invalidate(t) \/ Refresh(t) \/ \E v \in Value : Update(v, t)
        \/ SetFreshnessTimeout
Spec == Init /\ [][Next]_vars

-----------------------------------------------------------------------------
Usable(now) == StatusAt(now) \in {"Fresh", "FreshnessUnverified"}

(* Whatever order frames come in, the signal holds the newest time offered, and *)
(* of values in conflict for that time the first.                               *)
LatestWins == IF has_value
              THEN /\ last_update \in DOMAIN offered /\ value = offered[last_update]
                   /\ \A t \in DOMAIN offered : t <= last_update
              ELSE DOMAIN offered = {} /\ status = "Unknown"

(* The newest observation that was accepted: a value, or one that it is invalid. *)
Newest == IF invalidated > last_update THEN invalidated ELSE last_update

(* "Equal or older observations cannot extend, clear, or recover semantic state"     *)
(* (receive-only-acquisition.md:39): a signal that a reader found stale or           *)
(* unavailable is not usable at any later time before a value that is newer than all *)
(* observations so far; late values, duplicates, conflicts, invalidations and        *)
(* refreshes, in any number and order, do not bring it back. This holds as long as    *)
(* no value came after an invalidation that overtook it; RecoveredByNewer is violated *)
(* without that.                                                                      *)
NoRevival ==
  [][\/ ~ordered' \/ timeout' # timeout \/ ~has_value \/ last_update' > Newest
     \/ \A n, m \in Time : n <= m /\ Usable(m)' => Usable(n)]_vars

(* The same of the state: a value that is not unavailable is newer than every       *)
(* invalidation. "A later strictly newer update is required to make it actionable   *)
(* again" (signal.hpp:61-62), newer, that is, than what invalidated it.             *)
RecoveredByNewer == status # "Unknown" => last_update > invalidated \/ invalidated = 0

(* The raw status a refresh() leaves never says Valid of a value that status_at()    *)
(* calls stale, and with a timeout the two, written apart, agree at every time, also *)
(* for readers whose clock is behind the value.                                      *)
RefreshAgrees ==
  \A now \in Time :
    /\ has_value /\ Refreshed(now) = "Valid" => Usable(now)
    /\ status = "Valid" /\ Refreshed(now) = "Stale" /\ timeout # {} => StatusAt(now) = "Stale"
=============================================================================
