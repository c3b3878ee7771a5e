-------------------------- MODULE StatisticsProofs --------------------------
(***************************************************************************)
(* Theorems about Statistics, for every width of the driver's counter,     *)
(* every refresh interval and clock, and every number of events and runs.  *)
(***************************************************************************)
EXTENDS Statistics, TLAPS

Stats == [missed : Nat, off : Nat]

Types ==
  /\ missed \in Nat /\ counter \in 0..(Width - 1) /\ baseline \in 0..(Width - 1)
  /\ alert \in BOOLEAN /\ stop \in BOOLEAN
  /\ totals \in Stats /\ bus \in {"stopped", "running", "faulted"}
  /\ task \in {"none", "poll", "alerts", "latch"}
  /\ clock \in 0..LastTime
  /\ cache \in [stats : Stats, sample : 0..LastTime, valid : BOOLEAN]
  /\ mutex \in Thread \cup {"free"}
  /\ refresh \in [Thread -> [pc : {"no", "lock", "read", "store"}, now : 0..LastTime,
                             force : BOOLEAN, got : Stats]]
  /\ diag \in [lifecycle : {"stopped", "running", "stopping", "faulted"}, stats : Stats]
  /\ control \in {"idle", "clear", "announce", "tellStopping", "release", "join", "tellStopped"}
  /\ worker \in [pc : {"none", "receive", "publish"}, fault : BOOLEAN]
  /\ runs \in 0..MaxRuns

(***************************************************************************)
(* The inductive invariant.                                                *)
(***************************************************************************)

\* The source is not running: stopped before, or not started yet.
Down == control \in {"clear", "join", "tellStopped"} \/ (control = "idle" /\ diag.lifecycle = "stopped")

\* Who is alive when.
Flow ==
  /\ diag.lifecycle = "stopped" => control \in {"idle", "clear", "announce"}
  /\ control \in {"clear", "announce"} => diag.lifecycle = "stopped"
  /\ worker.pc # "none" => /\ control \in {"idle", "tellStopping", "release", "join"}
                           /\ diag.lifecycle \notin {"stopped", "faulted"}
  /\ control \in {"release", "join", "tellStopped"} => stop
  /\ bus = "stopped" <=> Down
  /\ task # "none" => bus = "running"

\* What the counters say; a run counts at most one bus-off.
Counted ==
  /\ control = "clear" => counter = missed
  /\ ~Down => totals.missed + Delta = missed
  /\ totals.off <= 1
  /\ ~Down => (totals.off = 1 <=> task = "latch" \/ bus = "faulted")

\* A refresh belongs to who publishes afterwards, and its mutex to who reads and stores.
Holding ==
  /\ \A t \in Thread : refresh[t].pc \in {"read", "store"} <=> mutex = t
  /\ refresh["worker"].pc # "no" => worker.pc = "publish"
  /\ refresh["control"].pc # "no" =>
       control \in {"announce", "tellStopping", "tellStopped"} /\ refresh["control"].force

Upto(a, b) == a.missed <= b.missed /\ a.off <= b.off

\* What was read and what is cached lies between what is published and the totals.
Between ==
  /\ control # "announce" => Upto(diag.stats, cache.stats) /\ Upto(cache.stats, totals)
  /\ control = "announce" /\ refresh["control"].pc = "no" => Upto(cache.stats, totals)
  /\ \A t \in Thread : refresh[t].pc = "store" =>
       Upto(refresh[t].got, totals) /\ (control # "announce" => Upto(cache.stats, refresh[t].got))

\* A fault that the worker received is counted in what it goes on to publish.
Faults ==
  /\ worker.pc = "publish" /\ worker.fault =>
       /\ totals.off = 1
       /\ refresh["worker"].pc = "lock" => refresh["worker"].force
       /\ refresh["worker"].pc = "store" => refresh["worker"].got.off = 1
       /\ refresh["worker"].pc = "no" => cache.stats.off = 1
  /\ FaultCounted

\* What the last refresh of stop() finds is what there is.
Last ==
  /\ control = "tellStopped" /\ refresh["control"].pc = "store" => refresh["control"].got = totals
  /\ control = "tellStopped" /\ refresh["control"].pc = "no" => cache.stats = totals
  /\ control \in {"idle", "clear"} /\ diag.lifecycle = "stopped" => diag.stats = totals

IInv == Types /\ Flow /\ Counted /\ Holding /\ Between /\ Faults /\ Last

-----------------------------------------------------------------------------
(* Arithmetic of the driver's counter. *)

LEMMA Difference ==
  ASSUME NEW a \in 0..(Width - 1), NEW b \in 0..(Width - 1)
  PROVE  (a - b) % Width = IF a >= b THEN a - b ELSE a - b + Width
<1> DEFINE i == a - b
           q == i \div Width
           r == i % Width
<1>0. Width \in Nat /\ Width > 1 /\ i \in Int /\ i < Width /\ i > 0 - Width
  BY WidthAssumption
<1>1. q \in Int /\ r \in 0..(Width - 1) /\ i = (q * Width) + r
  <2> HIDE DEF i
  <2>1. q \in Int
    BY <1>0, SMT
  <2>2. r \in 0..(Width - 1)
    BY <1>0, SMT
  <2>3. i = (q * Width) + r
    BY <1>0, SMT
  <2> QED BY <2>1, <2>2, <2>3
<1> HIDE DEF q, r
<1>2. CASE q >= 1
  <2>1. (q - 1) \in Nat /\ q * Width = (q - 1) * Width + Width
    BY <1>0, <1>1, <1>2, SMT
  <2>2. (q - 1) * Width \in Nat
    BY <1>0, <2>1, SMT
  <2> QED BY <1>0, <1>1, <2>1, <2>2
<1>3. CASE q = 0
  BY <1>0, <1>1, <1>3 DEF r
<1>4. CASE q = -1
  BY <1>0, <1>1, <1>4 DEF r
<1>5. CASE q <= -2
  <2>1. (-2 - q) \in Nat /\ q * Width = 0 - Width - Width - (-2 - q) * Width
    BY <1>0, <1>1, <1>5, SMT
  <2>2. (-2 - q) * Width \in Nat
    BY <1>0, <2>1, SMT
  <2> QED BY <1>0, <1>1, <2>1, <2>2
<1> QED BY <1>1, <1>2, <1>3, <1>4, <1>5

LEMMA Increment ==
  ASSUME NEW a \in 0..(Width - 1)
  PROVE  (a + 1) % Width = IF a = Width - 1 THEN 0 ELSE a + 1
<1>1. Width \in Nat /\ Width > 1 /\ a \in Nat /\ a < Width
  BY WidthAssumption
<1>2. CASE a = Width - 1
  <2>1. a + 1 = Width /\ Width % Width = 0
    BY <1>1, <1>2, SMT
  <2> QED BY <1>2, <2>1
<1>3. CASE a # Width - 1
  <2>1. a + 1 \in 0..(Width - 1) /\ 0 \in 0..(Width - 1)
    BY <1>1, <1>3
  <2>2. (a + 1 - 0) % Width = a + 1
    BY <1>1, <2>1, Difference
  <2>3. a + 1 - 0 = a + 1
    BY <1>1
  <2> QED BY <1>3, <2>2, <2>3
<1> QED BY <1>2, <1>3

\* What the next poll adds is no negative number.
LEMMA DeltaIs ==
  ASSUME Types
  PROVE  /\ Delta = IF counter >= baseline THEN counter - baseline ELSE counter - baseline + Width
         /\ Delta \in 0..(Width - 1)
<1>1. Delta = IF counter >= baseline THEN counter - baseline ELSE counter - baseline + Width
  BY Difference DEF Types, Delta
<1> QED BY <1>1, WidthAssumption DEF Types

-----------------------------------------------------------------------------
(* What the steps of a refresh do to it. *)

Bits == alert \in BOOLEAN /\ stop \in BOOLEAN

Refresh == [pc : {"no", "lock", "read", "store"}, now : 0..LastTime, force : BOOLEAN, got : Stats]

LEMMA Becomes ==
  ASSUME Types, NEW t \in Thread, NEW r \in Refresh, refresh' = [refresh EXCEPT ![t] = r]
  PROVE  /\ refresh' \in [Thread -> Refresh] /\ refresh'[t] = r
         /\ \A u \in Thread \ {t} : refresh'[u] = refresh[u]
<1>1. refresh \in [Thread -> Refresh]
  BY DEF Types, Refresh
<1> QED BY <1>1

LEMMA BeginActs ==
  ASSUME Types, NEW t \in Thread, NEW force \in BOOLEAN, Begin(t, force)
  PROVE  /\ refresh' \in [Thread -> Refresh]
         /\ refresh'[t].pc = "lock" /\ refresh'[t].force = force
         /\ \A u \in Thread \ {t} : refresh'[u] = refresh[u]
<1> DEFINE r == [refresh[t] EXCEPT !.pc = "lock", !.now = clock, !.force = force]
<1>1. refresh[t] \in Refresh /\ clock \in 0..LastTime
  BY DEF Types, Refresh
<1>2. r \in Refresh /\ r.pc = "lock" /\ r.force = force
  BY <1>1 DEF Refresh
<1>3. refresh' = [refresh EXCEPT ![t] = r]
  BY DEF Begin
<1> HIDE DEF r
<1> QED BY <1>2, <1>3, Becomes

LEMMA LockActs ==
  ASSUME Types, NEW t \in Thread, RefreshLock(t)
  PROVE  /\ refresh' \in [Thread -> Refresh]
         /\ refresh'[t].pc = (IF Due(t) THEN "read" ELSE "no") /\ refresh'[t].force = refresh[t].force
         /\ \A u \in Thread \ {t} : refresh'[u] = refresh[u]
<1> DEFINE pc == IF Due(t) THEN "read" ELSE "no"
           r == [refresh[t] EXCEPT !.pc = pc]
<1>1. refresh[t] \in Refresh
  BY DEF Types, Refresh
<1>2. r \in Refresh /\ r.pc = pc /\ r.force = refresh[t].force
  BY <1>1 DEF Refresh
<1>3. refresh' = [refresh EXCEPT ![t] = r]
  BY DEF RefreshLock
<1> HIDE DEF r
<1> QED BY <1>2, <1>3, Becomes

LEMMA ReadActs ==
  ASSUME Types, NEW t \in Thread, RefreshRead(t)
  PROVE  /\ refresh' \in [Thread -> Refresh]
         /\ refresh'[t].pc = "store" /\ refresh'[t].force = refresh[t].force
         /\ refresh'[t].got = totals
         /\ \A u \in Thread \ {t} : refresh'[u] = refresh[u]
<1> DEFINE r == [refresh[t] EXCEPT !.pc = "store", !.got = totals]
<1>1. refresh[t] \in Refresh /\ totals \in Stats
  BY DEF Types, Refresh
<1>2. r \in Refresh /\ r.pc = "store" /\ r.got = totals /\ r.force = refresh[t].force
  BY <1>1 DEF Refresh
<1>3. refresh' = [refresh EXCEPT ![t] = r]
  BY DEF RefreshRead
<1> HIDE DEF r
<1> QED BY <1>2, <1>3, Becomes

LEMMA StoreActs ==
  ASSUME Types, NEW t \in Thread, RefreshStore(t)
  PROVE  /\ refresh' \in [Thread -> Refresh]
         /\ refresh'[t].pc = "no" /\ refresh'[t].force = refresh[t].force
         /\ \A u \in Thread \ {t} : refresh'[u] = refresh[u]
<1> DEFINE r == [refresh[t] EXCEPT !.pc = "no", !.got = Nothing]
<1>1. refresh[t] \in Refresh /\ Nothing \in Stats
  BY DEF Types, Refresh, Stats, Nothing
<1>2. r \in Refresh /\ r.pc = "no" /\ r.force = refresh[t].force
  BY <1>1 DEF Refresh
<1>3. refresh' = [refresh EXCEPT ![t] = r]
  BY DEF RefreshStore
<1> HIDE DEF r
<1> QED BY <1>2, <1>3, Becomes

-----------------------------------------------------------------------------
(* The driver and the clock. *)

LEMMA DriverKeeps ==
  ASSUME IInv, Miss \/ BusOff \/ Tick
  PROVE  IInv'
<1> USE DEF IInv
<1>1. CASE Miss
  <2>1. Types'
    BY <1>1, DeltaIs, Increment, Difference, WidthAssumption DEF Miss, Types, Refresh, Stats, Thread,
       acquisition, sampling, Installed
  <2>2. Flow'
    BY <1>1, DeltaIs, Increment, Difference, WidthAssumption, <2>1
       DEF Miss, Types, Flow, Down, acquisition, sampling, Installed
  <2>3. Counted'
    <3>1. missed' = missed + 1 /\ counter' = (counter + 1) % Width
          /\ UNCHANGED <<baseline, control, diag, totals, task, bus>>
      BY <1>1 DEF Miss, sampling
    <3>2. totals'.off <= 1 /\ (~Down' => (totals'.off = 1 <=> task' = "latch" \/ bus' = "faulted"))
      BY <3>1 DEF Counted, Down
    <3>3. control' = "clear" => counter' = missed'
      BY <1>1, <3>1, Increment DEF Miss, Types, Counted
    <3>4. ASSUME ~Down' PROVE totals'.missed + Delta' = missed'
      <4>1. Delta < Width - 1 /\ ~Down
        BY <1>1, <3>1, <3>4 DEF Miss, Down
      <4>2. counter' = IF counter = Width - 1 THEN 0 ELSE counter + 1
        BY <3>1, Increment DEF Types
      <4>3. Delta' = IF counter' >= baseline THEN counter' - baseline ELSE counter' - baseline + Width
        BY <2>1, <3>1, Difference DEF Types, Delta
      <4>4. Delta' = Delta + 1
        BY <4>1, <4>2, <4>3, DeltaIs, WidthAssumption DEF Types
      <4>5. /\ totals.missed + Delta = missed /\ Delta \in Int
            /\ missed \in Nat /\ totals.missed \in Nat
        BY <4>1, DeltaIs, WidthAssumption DEF Types, Counted, Stats
      <4> HIDE DEF IInv
      <4> QED BY <3>1, <4>4, <4>5
    <3> QED BY <3>2, <3>3, <3>4 DEF Counted
  <2>4. Holding'
    BY <1>1, DeltaIs, Increment, Difference, WidthAssumption, <2>1
       DEF Miss, Types, Flow, Holding, Thread, acquisition, sampling, Installed
  <2>5. Between'
    BY <1>1, DeltaIs, Increment, Difference, WidthAssumption, <2>1
       DEF Miss, Types, Flow, Holding, Between, Upto, Thread, Stats, acquisition, sampling, Installed
  <2>6. Faults'
    BY <1>1, DeltaIs, Increment, Difference, WidthAssumption, <2>1
       DEF Miss, Types, Flow, Holding, Between, Counted, Down, Faults, FaultCounted, Upto, Thread,
           Stats, acquisition, sampling, Installed
  <2>7. Last'
    BY <1>1, DeltaIs, Increment, Difference, WidthAssumption, <2>1
       DEF Miss, Types, Flow, Holding, Down, Last, Thread, acquisition, sampling, Installed
  <2> QED BY <2>1, <2>2, <2>3, <2>4, <2>5, <2>6, <2>7
<1>2. CASE BusOff
  <2>1. Types'
    BY <1>2 DEF BusOff, Types, Refresh, Stats, Thread, acquisition, sampling, Installed
  <2>2. Flow'
    BY <1>2, <2>1 DEF BusOff, Types, Flow, Down, acquisition, sampling, Installed
  <2>3. Counted'
    BY <1>2, <2>1 DEF BusOff, Types, Flow, Counted, Down, Delta, Stats, acquisition, sampling, Installed
  <2>4. Holding'
    BY <1>2, <2>1 DEF BusOff, Types, Flow, Holding, Thread, acquisition, sampling, Installed
  <2>5. Between'
    BY <1>2, <2>1 DEF BusOff, Types, Flow, Holding, Between, Upto, Thread, Stats, acquisition,
       sampling, Installed
  <2>6. Faults'
    BY <1>2, <2>1 DEF BusOff, Types, Flow, Holding, Between, Counted, Down, Faults, FaultCounted,
       Upto, Thread, Stats, acquisition, sampling, Installed
  <2>7. Last'
    BY <1>2, <2>1 DEF BusOff, Types, Flow, Holding, Down, Last, Thread, acquisition, sampling, Installed
  <2> QED BY <2>1, <2>2, <2>3, <2>4, <2>5, <2>6, <2>7
<1>3. CASE Tick
  <2>1. Types'
    BY <1>3 DEF Tick, Types, Refresh, Stats, Thread, acquisition, sampling
  <2>2. Flow'
    BY <1>3, <2>1 DEF Tick, Types, Flow, Down, acquisition, sampling
  <2>3. Counted'
    BY <1>3, <2>1 DEF Tick, Types, Flow, Counted, Down, Delta, Stats, acquisition, sampling
  <2>4. Holding'
    BY <1>3, <2>1 DEF Tick, Types, Flow, Holding, Thread, acquisition, sampling
  <2>5. Between'
    BY <1>3, <2>1 DEF Tick, Types, Flow, Holding, Between, Upto, Thread, Stats, acquisition, sampling
  <2>6. Faults'
    BY <1>3, <2>1 DEF Tick, Types, Flow, Holding, Between, Counted, Down, Faults, FaultCounted, Upto,
       Thread, Stats, acquisition, sampling
  <2>7. Last'
    BY <1>3, <2>1 DEF Tick, Types, Flow, Holding, Down, Last, Thread, acquisition, sampling
  <2> QED BY <2>1, <2>2, <2>3, <2>4, <2>5, <2>6, <2>7
<1> QED BY <1>1, <1>2, <1>3

-----------------------------------------------------------------------------
(* The receive task. *)

LEMMA TaskKeeps ==
  ASSUME IInv, TaskPoll \/ TaskAlerts \/ TaskLatch
  PROVE  IInv'
<1> USE DEF IInv
<1>1. CASE TaskPoll
  <2>1. Types'
    BY <1>1, DeltaIs, Difference, WidthAssumption DEF TaskPoll, Types, Refresh, Stats, Thread,
       acquisition, sampling
  <2>2. Flow'
    BY <1>1, DeltaIs, Difference, WidthAssumption, <2>1 DEF TaskPoll, Types, Flow, Down, acquisition,
       sampling
  <2>3. Counted'
    BY <1>1, DeltaIs, Difference, WidthAssumption, <2>1 DEF TaskPoll, Types, Flow, Counted, Down,
       Delta, Stats, acquisition, sampling
  <2>4. Holding'
    BY <1>1, DeltaIs, Difference, WidthAssumption, <2>1 DEF TaskPoll, Types, Flow, Holding, Thread,
       acquisition, sampling
  <2>5. Between'
    <3>1. /\ totals'.missed >= totals.missed /\ totals'.off = totals.off
          /\ UNCHANGED <<diag, cache, refresh, control>>
      BY <1>1, DeltaIs, WidthAssumption DEF TaskPoll, sampling, Types, Stats
    <3>2. \A x \in Stats : Upto(x, totals) => Upto(x, totals')
      BY <2>1, <3>1 DEF Upto, Types, Stats
    <3>3. diag.stats \in Stats /\ cache.stats \in Stats /\ \A t \in Thread : refresh[t].got \in Stats
      BY DEF Types
    <3> QED BY <3>1, <3>2, <3>3 DEF Between
  <2>6. Faults'
    BY <1>1, DeltaIs, Difference, WidthAssumption, <2>1 DEF TaskPoll, Types, Flow, Holding, Between,
       Counted, Down, Faults, FaultCounted, Upto, Thread, Stats, acquisition, sampling
  <2>7. Last'
    BY <1>1, DeltaIs, Difference, WidthAssumption, <2>1 DEF TaskPoll, Types, Flow, Holding, Down,
       Last, Thread, acquisition, sampling
  <2> QED BY <2>1, <2>2, <2>3, <2>4, <2>5, <2>6, <2>7
<1>2. CASE TaskAlerts
  <2>1. Types'
    <3>1. Bits'
      BY <1>2, Zenon DEF TaskAlerts, Bits, Types, acquisition, sampling
    <3> QED BY <1>2, <3>1, WidthAssumption DEF TaskAlerts, Bits, Types, Refresh, Stats, acquisition,
               sampling
  <2>2. Flow'
    BY <1>2, <2>1 DEF TaskAlerts, Types, Flow, Down, acquisition, sampling
  <2>3. Counted'
    <3>1. /\ task = "alerts" /\ UNCHANGED <<missed, counter, baseline, control, diag, bus>>
          /\ task' = (IF alert THEN "latch" ELSE "poll")
          /\ totals'.off = (IF alert THEN totals.off + 1 ELSE totals.off)
          /\ totals'.missed = totals.missed
      BY <1>2 DEF TaskAlerts, sampling, Types, Stats
    <3>2. bus = "running" /\ ~Down /\ totals.off = 0
      <4>1. bus = "running" /\ ~Down
        BY <3>1 DEF Flow
      <4>2. totals.off # 1 /\ totals.off <= 1 /\ totals.off \in Nat
        BY <3>1, <4>1 DEF Counted, Types, Stats
      <4> QED BY <4>1, <4>2
    <3>3. Down' = Down /\ Delta' = Delta
      BY <3>1 DEF Down, Delta
    <3> QED BY <3>1, <3>2, <3>3 DEF Counted, Down
  <2>4. Holding'
    BY <1>2, <2>1 DEF TaskAlerts, Types, Flow, Holding, Thread, acquisition, sampling
  <2>5. Between'
    BY <1>2, <2>1 DEF TaskAlerts, Types, Flow, Holding, Between, Upto, Thread, Stats, acquisition,
       sampling
  <2>6. Faults'
    BY <1>2, <2>1 DEF TaskAlerts, Types, Flow, Holding, Between, Counted, Down, Faults, FaultCounted,
       Upto, Thread, Stats, acquisition, sampling
  <2>7. Last'
    BY <1>2, <2>1 DEF TaskAlerts, Types, Flow, Holding, Down, Last, Thread, acquisition, sampling
  <2> QED BY <2>1, <2>2, <2>3, <2>4, <2>5, <2>6, <2>7
<1>3. CASE TaskLatch
  <2>1. Types'
    BY <1>3 DEF TaskLatch, Types, Refresh, Stats, Thread, acquisition, sampling
  <2>2. Flow'
    BY <1>3, <2>1 DEF TaskLatch, Types, Flow, Down, acquisition, sampling
  <2>3. Counted'
    BY <1>3, <2>1 DEF TaskLatch, Types, Flow, Counted, Down, Delta, Stats, acquisition, sampling
  <2>4. Holding'
    BY <1>3, <2>1 DEF TaskLatch, Types, Flow, Holding, Thread, acquisition, sampling
  <2>5. Between'
    BY <1>3, <2>1 DEF TaskLatch, Types, Flow, Holding, Between, Upto, Thread, Stats, acquisition,
       sampling
  <2>6. Faults'
    BY <1>3, <2>1 DEF TaskLatch, Types, Flow, Holding, Between, Counted, Down, Faults, FaultCounted,
       Upto, Thread, Stats, acquisition, sampling
  <2>7. Last'
    BY <1>3, <2>1 DEF TaskLatch, Types, Flow, Holding, Down, Last, Thread, acquisition, sampling
  <2> QED BY <2>1, <2>2, <2>3, <2>4, <2>5, <2>6, <2>7
<1> QED BY <1>1, <1>2, <1>3

-----------------------------------------------------------------------------
(* A refresh of the statistics cache. *)

LEMMA RefreshKeeps ==
  ASSUME IInv, NEW t \in Thread, RefreshLock(t) \/ RefreshRead(t) \/ RefreshStore(t)
  PROVE  IInv'
<1> USE DEF IInv
<1>1. CASE RefreshLock(t)
  <2>1. Types'
    BY <1>1, LockActs DEF RefreshLock, Types, Refresh, Stats, Thread, acquisition, sampling, Due
  <2>2. Flow'
    BY <1>1, LockActs, <2>1 DEF RefreshLock, Types, Flow, Down, acquisition, sampling, Due
  <2>3. Counted'
    BY <1>1, LockActs, <2>1 DEF RefreshLock, Types, Flow, Counted, Down, Delta, Stats, acquisition,
       sampling, Due
  <2>4. Holding'
    BY <1>1, LockActs, <2>1 DEF RefreshLock, Types, Flow, Holding, Thread, acquisition, sampling, Due
  <2>5. Between'
    BY <1>1, LockActs, <2>1 DEF RefreshLock, Types, Flow, Holding, Between, Upto, Thread, Stats,
       acquisition, sampling, Due
  <2>6. Faults'
    BY <1>1, LockActs, <2>1 DEF RefreshLock, Types, Flow, Holding, Between, Counted, Down, Faults,
       FaultCounted, Upto, Thread, Stats, acquisition, sampling, Due
  <2>7. Last'
    BY <1>1, LockActs, <2>1 DEF RefreshLock, Types, Flow, Holding, Down, Last, Thread, acquisition,
       sampling, Due
  <2> QED BY <2>1, <2>2, <2>3, <2>4, <2>5, <2>6, <2>7
<1>2. CASE RefreshRead(t)
  <2>1. Types'
    BY <1>2, ReadActs DEF RefreshRead, Types, Refresh, Stats, Thread, acquisition, sampling
  <2>2. Flow'
    BY <1>2, ReadActs, <2>1 DEF RefreshRead, Types, Flow, Down, acquisition, sampling
  <2>3. Counted'
    BY <1>2, ReadActs, <2>1 DEF RefreshRead, Types, Flow, Counted, Down, Delta, Stats, acquisition,
       sampling
  <2>4. Holding'
    BY <1>2, ReadActs, <2>1 DEF RefreshRead, Types, Flow, Holding, Thread, acquisition, sampling
  <2>5. Between'
    BY <1>2, ReadActs, <2>1 DEF RefreshRead, Types, Flow, Holding, Between, Upto, Thread, Stats,
       acquisition, sampling
  <2>6. Faults'
    BY <1>2, ReadActs, <2>1 DEF RefreshRead, Types, Flow, Holding, Between, Counted, Down, Faults,
       FaultCounted, Upto, Thread, Stats, acquisition, sampling
  <2>7. Last'
    BY <1>2, ReadActs, <2>1 DEF RefreshRead, Types, Flow, Holding, Down, Last, Thread, acquisition,
       sampling
  <2> QED BY <2>1, <2>2, <2>3, <2>4, <2>5, <2>6, <2>7
<1>3. CASE RefreshStore(t)
  <2>1. Types'
    BY <1>3, StoreActs DEF RefreshStore, Types, Refresh, Stats, Thread, acquisition, sampling
  <2>2. Flow'
    BY <1>3, StoreActs, <2>1 DEF RefreshStore, Types, Flow, Down, acquisition, sampling
  <2>3. Counted'
    BY <1>3, StoreActs, <2>1 DEF RefreshStore, Types, Flow, Counted, Down, Delta, Stats, acquisition,
       sampling
  <2>4. Holding'
    BY <1>3, StoreActs, <2>1 DEF RefreshStore, Types, Flow, Holding, Thread, acquisition, sampling
  <2>5. Between'
    BY <1>3, StoreActs, <2>1 DEF RefreshStore, Types, Flow, Holding, Between, Upto, Thread, Stats,
       acquisition, sampling
  <2>6. Faults'
    BY <1>3, StoreActs, <2>1 DEF RefreshStore, Types, Flow, Holding, Between, Counted, Down, Faults,
       FaultCounted, Upto, Thread, Stats, acquisition, sampling
  <2>7. Last'
    BY <1>3, StoreActs, <2>1 DEF RefreshStore, Types, Flow, Holding, Down, Last, Thread, acquisition,
       sampling
  <2> QED BY <2>1, <2>2, <2>3, <2>4, <2>5, <2>6, <2>7
<1> QED BY <1>1, <1>2, <1>3

-----------------------------------------------------------------------------
(* start() and stop(). *)

LEMMA ControlKeeps ==
  ASSUME IInv, \/ Start \/ StartClear \/ StartAnnounce
               \/ StopBegin \/ StopTell \/ StopRelease \/ StopJoin \/ StopDone
  PROVE  IInv'
<1> USE DEF IInv
<1>1. CASE Start
  <2>1. Types'
    <3>1. Bits'
      BY <1>1, Zenon DEF Start, Bits, Types, acquisition, sampling, Step
    <3>2. cache' \in [stats : Stats, sample : 0..LastTime, valid : BOOLEAN]
      <4>1. 0 \in 0..LastTime /\ cache \in [stats : Stats, sample : 0..LastTime, valid : BOOLEAN]
        BY BoundsAssumption DEF Types
      <4>2. cache' = [cache EXCEPT !.valid = FALSE, !.sample = 0]
        BY <1>1 DEF Start
      <4> QED BY <4>1, <4>2
    <3> QED BY <1>1, <3>1, <3>2, WidthAssumption, BoundsAssumption
               DEF Start, Bits, Types, Stats, acquisition, Step
  <2>2. Flow'
    BY <1>1, <2>1 DEF Start, Types, Flow, Down, acquisition, sampling, Step, Refreshed, Nothing
  <2>3. Counted'
    BY <1>1, <2>1 DEF Start, Types, Flow, Counted, Down, Delta, Stats, acquisition, sampling, Step,
       Refreshed, Nothing
  <2>4. Holding'
    BY <1>1, <2>1 DEF Start, Types, Flow, Holding, Thread, acquisition, sampling, Step, Refreshed,
       Nothing
  <2>5. Between'
    BY <1>1, <2>1 DEF Start, Types, Flow, Holding, Between, Upto, Thread, Stats, acquisition,
       sampling, Step, Refreshed, Nothing
  <2>6. Faults'
    BY <1>1, <2>1 DEF Start, Types, Flow, Holding, Between, Counted, Down, Faults, FaultCounted, Upto,
       Thread, Stats, acquisition, sampling, Step, Refreshed, Nothing
  <2>7. Last'
    BY <1>1, <2>1 DEF Start, Types, Flow, Holding, Down, Last, Thread, acquisition, sampling, Step,
       Refreshed, Nothing
  <2> QED BY <2>1, <2>2, <2>3, <2>4, <2>5, <2>6, <2>7
<1>2. CASE StartClear
  <2>1. Types'
    <3>1. Bits'
      BY <1>2, Zenon DEF StartClear, Bits, Types, acquisition, sampling, Step
    <3>2. refresh' \in [Thread -> Refresh]
      BY <1>2, BeginActs DEF StartClear, Thread
    <3> QED BY <1>2, <3>1, <3>2, WidthAssumption DEF StartClear, Bits, Types, Refresh, Stats,
               acquisition, sampling, Step, Refreshed, Nothing
  <2>2. Flow'
    BY <1>2, BeginActs, Difference, WidthAssumption, <2>1 DEF StartClear, Types, Flow, Down,
       acquisition, sampling, Step, Refreshed, Nothing
  <2>3. Counted'
    <3>1. /\ control = "clear" /\ control' = "announce" /\ totals' = Nothing /\ baseline' = 0
          /\ bus' = "running" /\ task' = "poll" /\ UNCHANGED <<missed, counter>>
      BY <1>2 DEF StartClear, Step
    <3>2. Delta' = counter /\ counter = missed
      <4>1. 0 \in 0..(Width - 1) /\ counter \in 0..(Width - 1)
        BY WidthAssumption DEF Types
      <4>2. (counter - 0) % Width = IF counter >= 0 THEN counter - 0 ELSE counter - 0 + Width
        BY <4>1, Difference
      <4> QED BY <3>1, <4>1, <4>2 DEF Delta, Counted
    <3> QED BY <3>1, <3>2 DEF Counted, Nothing, Types
  <2>4. Holding'
    BY <1>2, BeginActs, Difference, WidthAssumption, <2>1 DEF StartClear, Types, Flow, Holding,
       Thread, acquisition, sampling, Step, Refreshed, Nothing
  <2>5. Between'
    BY <1>2, BeginActs, Difference, WidthAssumption, <2>1 DEF StartClear, Types, Flow, Holding,
       Between, Upto, Thread, Stats, acquisition, sampling, Step, Refreshed, Nothing
  <2>6. Faults'
    BY <1>2, BeginActs, Difference, WidthAssumption, <2>1 DEF StartClear, Types, Flow, Holding,
       Between, Counted, Down, Faults, FaultCounted, Upto, Thread, Stats, acquisition, sampling, Step,
       Refreshed, Nothing
  <2>7. Last'
    BY <1>2, BeginActs, Difference, WidthAssumption, <2>1 DEF StartClear, Types, Flow, Holding, Down,
       Last, Thread, acquisition, sampling, Step, Refreshed, Nothing
  <2> QED BY <2>1, <2>2, <2>3, <2>4, <2>5, <2>6, <2>7
<1>3. CASE StartAnnounce
  <2>1. Types'
    BY <1>3 DEF StartAnnounce, Types, Refresh, Stats, Thread, acquisition, sampling, Step, Refreshed
  <2>2. Flow'
    BY <1>3, <2>1 DEF StartAnnounce, Types, Flow, Down, acquisition, sampling, Step, Refreshed
  <2>3. Counted'
    BY <1>3, <2>1 DEF StartAnnounce, Types, Flow, Counted, Down, Delta, Stats, acquisition, sampling,
       Step, Refreshed
  <2>4. Holding'
    BY <1>3, <2>1 DEF StartAnnounce, Types, Flow, Holding, Thread, acquisition, sampling, Step,
       Refreshed
  <2>5. Between'
    BY <1>3, <2>1 DEF StartAnnounce, Types, Flow, Holding, Between, Upto, Thread, Stats, acquisition,
       sampling, Step, Refreshed
  <2>6. Faults'
    BY <1>3, <2>1 DEF StartAnnounce, Types, Flow, Holding, Between, Counted, Down, Faults,
       FaultCounted, Upto, Thread, Stats, acquisition, sampling, Step, Refreshed
  <2>7. Last'
    BY <1>3, <2>1 DEF StartAnnounce, Types, Flow, Holding, Down, Last, Thread, acquisition, sampling,
       Step, Refreshed
  <2> QED BY <2>1, <2>2, <2>3, <2>4, <2>5, <2>6, <2>7
<1>4. CASE StopBegin
  <2>1. Types'
    <3>1. Bits'
      BY <1>4, Zenon DEF StopBegin, Bits, Types, acquisition, sampling, Step
    <3>2. refresh' \in [Thread -> Refresh]
      BY <1>4, BeginActs DEF StopBegin, Thread, Forced
    <3> QED BY <1>4, <3>1, <3>2, WidthAssumption DEF StopBegin, Bits, Types, Refresh, Stats,
               acquisition, sampling, Step, Refreshed, Nothing
  <2>2. Flow'
    BY <1>4, BeginActs, <2>1 DEF StopBegin, Types, Flow, Down, acquisition, sampling, Step, Refreshed,
       Forced
  <2>3. Counted'
    BY <1>4, BeginActs, <2>1 DEF StopBegin, Types, Flow, Counted, Down, Delta, Stats, acquisition,
       sampling, Step, Refreshed, Forced
  <2>4. Holding'
    BY <1>4, BeginActs, <2>1 DEF StopBegin, Types, Flow, Holding, Thread, acquisition, sampling, Step,
       Refreshed, Forced
  <2>5. Between'
    <3>1. /\ refresh'["control"].pc = "lock" /\ refresh'["worker"] = refresh["worker"]
          /\ control = "idle" /\ control' = "tellStopping" /\ UNCHANGED <<totals, cache, diag>>
      BY <1>4, BeginActs DEF StopBegin, Forced, Step, Thread, acquisition
    <3> QED BY <3>1 DEF Between, Thread
  <2>6. Faults'
    BY <1>4, BeginActs, <2>1 DEF StopBegin, Types, Flow, Holding, Between, Counted, Down, Faults,
       FaultCounted, Upto, Thread, Stats, acquisition, sampling, Step, Refreshed, Forced
  <2>7. Last'
    BY <1>4, BeginActs, <2>1 DEF StopBegin, Types, Flow, Holding, Down, Last, Thread, acquisition,
       sampling, Step, Refreshed, Forced
  <2> QED BY <2>1, <2>2, <2>3, <2>4, <2>5, <2>6, <2>7
<1>5. CASE StopTell
  <2>1. Types'
    BY <1>5 DEF StopTell, Types, Refresh, Stats, Thread, acquisition, sampling, Step, Refreshed
  <2>2. Flow'
    BY <1>5, <2>1 DEF StopTell, Types, Flow, Down, acquisition, sampling, Step, Refreshed
  <2>3. Counted'
    BY <1>5, <2>1 DEF StopTell, Types, Flow, Counted, Down, Delta, Stats, acquisition, sampling, Step,
       Refreshed
  <2>4. Holding'
    BY <1>5, <2>1 DEF StopTell, Types, Flow, Holding, Thread, acquisition, sampling, Step, Refreshed
  <2>5. Between'
    BY <1>5, <2>1 DEF StopTell, Types, Flow, Holding, Between, Upto, Thread, Stats, acquisition,
       sampling, Step, Refreshed
  <2>6. Faults'
    BY <1>5, <2>1 DEF StopTell, Types, Flow, Holding, Between, Counted, Down, Faults, FaultCounted,
       Upto, Thread, Stats, acquisition, sampling, Step, Refreshed
  <2>7. Last'
    BY <1>5, <2>1 DEF StopTell, Types, Flow, Holding, Down, Last, Thread, acquisition, sampling, Step,
       Refreshed
  <2> QED BY <2>1, <2>2, <2>3, <2>4, <2>5, <2>6, <2>7
<1>6. CASE StopRelease
  <2>1. Types'
    BY <1>6 DEF StopRelease, Types, Refresh, Stats, Thread, acquisition, sampling, Step, Refreshed
  <2>2. Flow'
    BY <1>6, <2>1 DEF StopRelease, Types, Flow, Down, acquisition, sampling, Step, Refreshed
  <2>3. Counted'
    BY <1>6, <2>1 DEF StopRelease, Types, Flow, Counted, Down, Delta, Stats, acquisition, sampling,
       Step, Refreshed
  <2>4. Holding'
    BY <1>6, <2>1 DEF StopRelease, Types, Flow, Holding, Thread, acquisition, sampling, Step, Refreshed
  <2>5. Between'
    BY <1>6, <2>1 DEF StopRelease, Types, Flow, Holding, Between, Upto, Thread, Stats, acquisition,
       sampling, Step, Refreshed
  <2>6. Faults'
    BY <1>6, <2>1 DEF StopRelease, Types, Flow, Holding, Between, Counted, Down, Faults, FaultCounted,
       Upto, Thread, Stats, acquisition, sampling, Step, Refreshed
  <2>7. Last'
    BY <1>6, <2>1 DEF StopRelease, Types, Flow, Holding, Down, Last, Thread, acquisition, sampling,
       Step, Refreshed
  <2> QED BY <2>1, <2>2, <2>3, <2>4, <2>5, <2>6, <2>7
<1>7. CASE StopJoin
  <2>1. Types'
    <3>1. Bits'
      BY <1>7, Zenon DEF StopJoin, Bits, Types, acquisition, sampling, Step
    <3>2. refresh' \in [Thread -> Refresh]
      BY <1>7, BeginActs DEF StopJoin, Thread, Forced
    <3> QED BY <1>7, <3>1, <3>2, WidthAssumption DEF StopJoin, Bits, Types, Refresh, Stats,
               acquisition, sampling, Step, Refreshed, Nothing
  <2>2. Flow'
    BY <1>7, BeginActs, <2>1 DEF StopJoin, Types, Flow, Down, acquisition, sampling, Step, Refreshed,
       Forced
  <2>3. Counted'
    BY <1>7, BeginActs, <2>1 DEF StopJoin, Types, Flow, Counted, Down, Delta, Stats, acquisition,
       sampling, Step, Refreshed, Forced
  <2>4. Holding'
    BY <1>7, BeginActs, <2>1 DEF StopJoin, Types, Flow, Holding, Thread, acquisition, sampling, Step,
       Refreshed, Forced
  <2>5. Between'
    BY <1>7, BeginActs, <2>1 DEF StopJoin, Types, Flow, Holding, Between, Upto, Thread, Stats,
       acquisition, sampling, Step, Refreshed, Forced
  <2>6. Faults'
    BY <1>7, BeginActs, <2>1 DEF StopJoin, Types, Flow, Holding, Between, Counted, Down, Faults,
       FaultCounted, Upto, Thread, Stats, acquisition, sampling, Step, Refreshed, Forced
  <2>7. Last'
    BY <1>7, BeginActs, <2>1 DEF StopJoin, Types, Flow, Holding, Down, Last, Thread, acquisition,
       sampling, Step, Refreshed, Forced
  <2> QED BY <2>1, <2>2, <2>3, <2>4, <2>5, <2>6, <2>7
<1>8. CASE StopDone
  <2>1. Types'
    <3>1. Bits'
      BY <1>8, Zenon DEF StopDone, Bits, Types, acquisition, sampling, Step
    <3>2. cache' \in [stats : Stats, sample : 0..LastTime, valid : BOOLEAN]
      <4>1. 0 \in 0..LastTime /\ cache \in [stats : Stats, sample : 0..LastTime, valid : BOOLEAN]
        BY BoundsAssumption DEF Types
      <4>2. cache' = [cache EXCEPT !.valid = FALSE, !.sample = 0]
        BY <1>8 DEF StopDone
      <4> QED BY <4>1, <4>2
    <3> QED BY <1>8, <3>1, <3>2, WidthAssumption, BoundsAssumption
               DEF StopDone, Bits, Types, Stats, acquisition, Step
  <2>2. Flow'
    BY <1>8, <2>1 DEF StopDone, Types, Flow, Down, acquisition, sampling, Step, Refreshed
  <2>3. Counted'
    BY <1>8, <2>1 DEF StopDone, Types, Flow, Counted, Down, Delta, Stats, acquisition, sampling, Step,
       Refreshed
  <2>4. Holding'
    BY <1>8, <2>1 DEF StopDone, Types, Flow, Holding, Thread, acquisition, sampling, Step, Refreshed
  <2>5. Between'
    BY <1>8, <2>1 DEF StopDone, Types, Flow, Holding, Between, Upto, Thread, Stats, acquisition,
       sampling, Step, Refreshed
  <2>6. Faults'
    BY <1>8, <2>1 DEF StopDone, Types, Flow, Holding, Between, Counted, Down, Faults, FaultCounted,
       Upto, Thread, Stats, acquisition, sampling, Step, Refreshed
  <2>7. Last'
    BY <1>8, <2>1 DEF StopDone, Types, Flow, Holding, Down, Last, Thread, acquisition, sampling, Step,
       Refreshed
  <2> QED BY <2>1, <2>2, <2>3, <2>4, <2>5, <2>6, <2>7
<1> QED BY <1>1, <1>2, <1>3, <1>4, <1>5, <1>6, <1>7, <1>8

-----------------------------------------------------------------------------
(* The worker. *)

LEMMA WorkerKeeps ==
  ASSUME IInv, Receive \/ Publish
  PROVE  IInv'
<1> USE DEF IInv
<1>1. CASE Receive
  <2>0. /\ worker.pc = "receive"
        /\ UNCHANGED <<acquisition, clock, cache, mutex, diag, control, stop, runs>>
        /\ \/ stop /\ worker' = [pc |-> "none", fault |-> FALSE] /\ UNCHANGED refresh
           \/ \E fault \in BOOLEAN :
                /\ ~stop /\ (fault => bus # "running")
                /\ worker' = [pc |-> "publish", fault |-> fault] /\ Begin("worker", fault)
    BY <1>1, Zenon DEF Receive
  <2>a. CASE stop /\ worker' = [pc |-> "none", fault |-> FALSE] /\ UNCHANGED refresh
    <3>1. Types'
      BY <2>0, <2>a DEF Types, acquisition
    <3> QED BY <2>0, <2>a, <3>1 DEF acquisition, Flow, Down, Counted, Delta, Holding, Between, Faults,
               FaultCounted,
       Last
  <2>b. ASSUME NEW fault \in BOOLEAN, ~stop, fault => bus # "running",
               worker' = [pc |-> "publish", fault |-> fault], Begin("worker", fault)
        PROVE  IInv'
    <3>0. /\ refresh' \in [Thread -> Refresh] /\ refresh'["control"] = refresh["control"]
          /\ refresh'["worker"].pc = "lock" /\ refresh'["worker"].force = fault
          /\ worker'.pc = "publish" /\ (worker'.fault => fault)
      BY <2>b, BeginActs DEF Thread
    <3>1. Types'
      BY <2>0, <2>b, <3>0 DEF Types, Refresh, acquisition
    <3>2. Flow' /\ Counted' /\ Last'
      BY <2>0, <3>0 DEF Flow, Down, Counted, Delta, Last, acquisition
    <3>3. Holding'
      BY <2>0, <3>0 DEF Holding, Thread, Flow
    <3>4. Between'
      BY <2>0, <3>0 DEF Between, Thread, acquisition
    <3>5. fault => totals.off = 1
      BY <2>0, <2>b DEF Types, Flow, Down, Counted
    <3>6. Faults'
      BY <2>0, <3>0, <3>5 DEF Faults, FaultCounted, acquisition
    <3> QED BY <3>1, <3>2, <3>3, <3>4, <3>6
  <2> QED BY <2>0, <2>a, <2>b
<1>2. CASE Publish
  <2>1. Types'
    BY <1>2 DEF Publish, Types, Refresh, Stats, Thread, acquisition, sampling, Refreshed
  <2>2. Flow'
    BY <1>2, <2>1 DEF Publish, Types, Flow, Down, acquisition, sampling, Refreshed
  <2>3. Counted'
    BY <1>2, <2>1 DEF Publish, Types, Flow, Counted, Down, Delta, Stats, acquisition, sampling,
       Refreshed
  <2>4. Holding'
    BY <1>2, <2>1 DEF Publish, Types, Flow, Holding, Thread, acquisition, sampling, Refreshed
  <2>5. Between'
    BY <1>2, <2>1 DEF Publish, Types, Flow, Holding, Between, Upto, Thread, Stats, acquisition,
       sampling, Refreshed
  <2>6. Faults'
    BY <1>2, <2>1 DEF Publish, Types, Flow, Holding, Between, Counted, Down, Faults, FaultCounted,
       Upto, Thread, Stats, acquisition, sampling, Refreshed
  <2>7. Last'
    BY <1>2, <2>1 DEF Publish, Types, Flow, Holding, Down, Last, Thread, acquisition, sampling,
       Refreshed
  <2> QED BY <2>1, <2>2, <2>3, <2>4, <2>5, <2>6, <2>7
<1> QED BY <1>1, <1>2

-----------------------------------------------------------------------------
(* The theorems. *)

LEMMA Begins ==
  ASSUME Init PROVE IInv
<1> USE DEF Init
<1>1. Types
  <2>1. Bits
    BY Zenon DEF Bits
  <2>2. Nothing \in Stats /\ 0 \in 0..LastTime /\ 0 \in 0..MaxRuns /\ 0 \in 0..(Width - 1)
    BY WidthAssumption, BoundsAssumption DEF Nothing, Stats
  <2> QED BY <2>1, <2>2 DEF Types, Bits
<1>2. Flow /\ Counted /\ Holding
  BY DEF Flow, Down, Counted, Holding, Thread, Nothing
<1>3. Between /\ Faults /\ Last
  BY DEF Between, Upto, Faults, FaultCounted, Last, Thread, Nothing
<1> QED BY <1>1, <1>2, <1>3 DEF IInv

LEMMA Keeps ==
  ASSUME IInv, [Next]_vars PROVE IInv'
<1>1. CASE UNCHANGED vars
  BY <1>1 DEF vars, acquisition, sampling, IInv, Types, Flow, Down, Counted, Delta, Holding, Between,
     Upto,
     Faults, FaultCounted, Last
<1> QED BY <1>1, DriverKeeps, TaskKeeps, RefreshKeeps, ControlKeeps, WorkerKeeps DEF Next

LEMMA Invariance == Spec => []IInv
<1> QED BY Begins, Keeps, PTL DEF Spec

\* The unsigned differences that the task adds up are exact: what was counted and what
\* the next poll will find is what the driver missed in this run, though its counter
\* wraps and starts again with the run.
THEOREM CountsAreExact == Spec => []CountsExact
<1>1. IInv => CountsExact
  BY DEF IInv, Flow, Counted, CountsExact
<1> QED BY <1>1, Invariance, PTL

\* Who sees Faulted in the diagnostics sees the bus-off that caused it: the refresh is
\* forced for a fault, and a refresh of the other thread cannot undo it.
THEOREM FaultsAreCounted == Spec => []FaultCounted
<1>1. IInv => FaultCounted
  BY DEF IInv, Faults
<1> QED BY <1>1, Invariance, PTL

\* stop() leaves the final totals of the run in the diagnostics.
THEOREM TotalsAreFinal == Spec => []FinalTotals
<1>1. IInv => FinalTotals
  BY DEF IInv, Last, FinalTotals
<1> QED BY <1>1, Invariance, PTL

\* The statistics of a run never go back: the refresh mutex covers the call of the
\* source and the store, so that an older sample never replaces a newer one.
THEOREM StatisticsGrow == Spec => NeverBackwards
<1>1. IInv /\ [Next]_vars =>
        [control # "announce" => /\ diag'.stats.missed >= diag.stats.missed
                                 /\ diag'.stats.off >= diag.stats.off]_vars
  <2> SUFFICES ASSUME IInv, Next, control # "announce"
               PROVE  diag'.stats.missed >= diag.stats.missed /\ diag'.stats.off >= diag.stats.off
    OBVIOUS
  <2>1. diag'.stats \in {diag.stats, cache.stats}
    <3>1. CASE Publish \/ StopTell \/ StopDone \/ StartAnnounce
      BY <3>1 DEF Publish, StopTell, StopDone, StartAnnounce
    <3>2. CASE UNCHANGED diag
      BY <3>2
    <3> QED BY <3>1, <3>2 DEF Next, Miss, BusOff, TaskPoll, TaskAlerts, TaskLatch, Tick, RefreshLock,
               RefreshRead, RefreshStore, Start, StartClear, StopBegin, StopRelease, StopJoin, Receive
  <2>2. Upto(diag.stats, cache.stats) /\ diag.stats \in Stats
    BY DEF IInv, Between, Types
  <2> QED BY <2>1, <2>2 DEF Upto, Stats
<1> QED BY <1>1, Invariance, PTL DEF Spec, NeverBackwards
=============================================================================
