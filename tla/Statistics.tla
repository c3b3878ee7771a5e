----------------------------- MODULE Statistics -----------------------------
(***************************************************************************)
(* The way of a statistic from the driver to TransportDiagnostics: driver  *)
(* counters of a fixed width, polled by the receive task into the totals   *)
(* of the ring (can_bus.cpp, configuration.hpp), which worker and control  *)
(* thread sample into the runtime's cache and copy from there into the     *)
(* diagnostics (runtime.cpp).                                              *)
(*                                                                         *)
(* One driver counter stands for the three that are polled, and bus-off    *)
(* for what the task counts itself.  The control thread starts and stops   *)
(* without failures here; CanBus and Runtime have those.                   *)
(***************************************************************************)
EXTENDS Integers

CONSTANTS Width,       \* a driver counter counts modulo Width
          Interval,    \* kAcquisitionStatisticsRefreshIntervalUs
          LastTime,    \* bound: the runtime's clock shows 0..LastTime
          MaxEvents,   \* bound: missed frames per run
          MaxRuns      \* bound: starts

ASSUME WidthAssumption == Width \in Nat /\ Width > 1
ASSUME BoundsAssumption == {Interval, LastTime, MaxEvents, MaxRuns} \subseteq Nat /\ Interval > 0

VARIABLES missed,      \* ghost: frames the driver has missed since it was installed
          counter,     \* rx_missed_count of the driver
          alert,       \* the driver has a bus-off alert
          baseline,    \* g_last_driver_rx_missed
          totals,      \* driver_rx_missed_ and bus_off_events_ of the ring
          bus,         \* "stopped", "running" or "faulted"
          task,        \* where the receive task is
          clock,       \* the injected clock: may stand still or step back
          cache,       \* acquisition_statistics_cache_, when sampled, whether valid
          mutex,       \* acquisition_statistics_refresh_mutex_: who holds it
          refresh,     \* each thread: where it is in a refresh, its time, what it read
          diag,        \* diagnostics_: lifecycle and acquisition
          control,     \* where the control thread is
          worker,      \* where the worker is, and whether it received a fault
          stop,        \* stop_requested_
          runs         \* starts so far

acquisition == <<missed, counter, alert, baseline, totals, bus, task>>
sampling == <<cache, mutex, refresh>>
vars == <<acquisition, clock, sampling, diag, control, worker, stop, runs>>

Thread == {"control", "worker"}
Nothing == [missed |-> 0, off |-> 0]

Init == /\ missed = 0 /\ counter = 0 /\ alert = FALSE /\ baseline = 0
        /\ totals = Nothing /\ bus = "stopped" /\ task = "none"
        /\ clock = 0
        /\ cache = [stats |-> Nothing, sample |-> 0, valid |-> FALSE]
        /\ mutex = "free"
        /\ refresh = [t \in Thread |-> [pc |-> "no", now |-> 0, force |-> FALSE, got |-> Nothing]]
        /\ diag = [lifecycle |-> "stopped", stats |-> Nothing]
        /\ control = "idle" /\ worker = [pc |-> "none", fault |-> FALSE]
        /\ stop = FALSE /\ runs = 0

-----------------------------------------------------------------------------
(* Mutation: a plain difference. *)
DeltaPlain == IF counter >= baseline THEN counter - baseline ELSE 0

(* counter_delta(): unsigned subtraction. *)
Delta == (counter - baseline) % Width

(* The driver misses frames and leaves the bus.  Fewer than Width frames are *)
(* missed between two polls.                                                 *)
Installed == control = "clear" \/ bus # "stopped"

Miss == /\ Installed /\ missed < MaxEvents
        /\ control # "clear" => Delta < Width - 1
        /\ control = "clear" => counter < Width - 1
        /\ missed' = missed + 1 /\ counter' = (counter + 1) % Width
        /\ UNCHANGED <<alert, baseline, totals, bus, task, clock, sampling, diag, control, worker, stop, runs>>

BusOff == /\ Installed /\ ~alert
          /\ alert' = TRUE
          /\ UNCHANGED <<missed, counter, baseline, totals, bus, task, clock, sampling, diag, control,
                         worker, stop, runs>>

(* The receive task: collect_driver_status(), collect_alerts() and the latch. *)
TaskPoll == /\ task = "poll"
            /\ IF stop THEN task' = "none" /\ UNCHANGED <<totals, baseline>>
               ELSE /\ totals' = [totals EXCEPT !.missed = @ + Delta]
                    /\ baseline' = counter
                    /\ task' = "alerts"
            /\ UNCHANGED <<missed, counter, alert, bus, clock, sampling, diag, control, worker, stop, runs>>

(* Mutation: the fault is latched before it is counted. *)
TaskAlertsLatchFirst ==
  /\ task \in {"alerts", "latch"}
  /\ IF task = "latch"
     THEN totals' = [totals EXCEPT !.off = @ + 1] /\ task' = "none" /\ UNCHANGED <<alert, bus>>
     ELSE /\ task' = IF alert THEN "latch" ELSE "poll"
          /\ bus' = IF alert THEN "faulted" ELSE bus
          /\ alert' = FALSE /\ UNCHANGED totals
  /\ UNCHANGED <<missed, counter, baseline, clock, sampling, diag, control, worker, stop, runs>>

TaskAlerts ==
  /\ task = "alerts"
  /\ task' = IF alert THEN "latch" ELSE "poll"
  /\ totals' = IF alert THEN [totals EXCEPT !.off = @ + 1] ELSE totals
  /\ alert' = FALSE
  /\ UNCHANGED <<missed, counter, baseline, bus, clock, sampling, diag, control, worker, stop, runs>>

TaskLatch == /\ task = "latch"
             /\ bus' = "faulted" /\ task' = "none"
             /\ UNCHANGED <<missed, counter, alert, baseline, totals, clock, sampling, diag, control,
                            worker, stop, runs>>

-----------------------------------------------------------------------------
(* refresh_acquisition_statistics_if_due(): the source is read without the   *)
(* diagnostics mutex, under one of its own.                                  *)
Tick == /\ clock' \in 0..LastTime
        /\ UNCHANGED <<acquisition, sampling, diag, control, worker, stop, runs>>

Begin(t, force) == refresh' = [refresh EXCEPT ![t].pc = "lock", ![t].now = clock, ![t].force = force]

Due(t) == \/ refresh[t].force \/ ~cache.valid
          \/ refresh[t].now >= cache.sample /\ refresh[t].now - cache.sample >= Interval

(* Mutation: the calls of the source are not serialized. *)
RefreshLockNot(t) ==
  /\ refresh[t].pc = "lock"
  /\ refresh' = [refresh EXCEPT ![t].pc = IF Due(t) THEN "read" ELSE "no"]
  /\ UNCHANGED <<acquisition, clock, cache, mutex, diag, control, worker, stop, runs>>

RefreshLock(t) ==
  /\ refresh[t].pc = "lock" /\ mutex = "free"
  /\ refresh' = [refresh EXCEPT ![t].pc = IF Due(t) THEN "read" ELSE "no"]
  /\ mutex' = IF Due(t) THEN t ELSE mutex
  /\ UNCHANGED <<acquisition, clock, cache, diag, control, worker, stop, runs>>

RefreshRead(t) == /\ refresh[t].pc = "read"
                  /\ refresh' = [refresh EXCEPT ![t].pc = "store", ![t].got = totals]
                  /\ UNCHANGED <<acquisition, clock, cache, mutex, diag, control, worker, stop, runs>>

RefreshStore(t) ==
  /\ refresh[t].pc = "store"
  /\ cache' = [stats |-> refresh[t].got, sample |-> refresh[t].now, valid |-> TRUE]
  /\ mutex' = "free"
  /\ refresh' = [refresh EXCEPT ![t].pc = "no", ![t].got = Nothing]
  /\ UNCHANGED <<acquisition, clock, diag, control, worker, stop, runs>>

Refreshed(t) == refresh[t].pc = "no"

-----------------------------------------------------------------------------
(* start() and stop() of the runtime, with those of the source inside.  The  *)
(* stop requests of runtime and source are one step here.                    *)
Step(from, to) == control = from /\ Refreshed("control") /\ control' = to

(* The driver is installed, and its counters start again. *)
Start == /\ Step("idle", "clear") /\ diag.lifecycle = "stopped" /\ runs < MaxRuns
         /\ runs' = runs + 1
         /\ cache' = [cache EXCEPT !.valid = FALSE, !.sample = 0]
         /\ missed' = 0 /\ counter' = 0 /\ alert' = FALSE
         /\ UNCHANGED <<baseline, totals, bus, task, clock, mutex, refresh, diag, worker, stop>>

StartClear == /\ Step("clear", "announce")
              /\ totals' = Nothing /\ baseline' = 0
              /\ bus' = "running" /\ task' = "poll" /\ stop' = FALSE
              /\ Begin("control", TRUE)
              /\ UNCHANGED <<missed, counter, alert, clock, cache, mutex, diag, worker, runs>>

StartAnnounce == /\ Step("announce", "idle")
                 /\ diag' = [lifecycle |-> "running", stats |-> cache.stats]
                 /\ worker' = [pc |-> "receive", fault |-> FALSE]
                 /\ UNCHANGED <<acquisition, clock, sampling, stop, runs>>

(* Mutation: set_lifecycle_diagnostic() does not force a sample. *)
ForcedNot == FALSE

(* set_lifecycle_diagnostic() refreshes whether due or not. *)
Forced == TRUE

StopBegin == /\ Step("idle", "tellStopping") /\ diag.lifecycle # "stopped"
             /\ Begin("control", Forced)
             /\ UNCHANGED <<acquisition, clock, cache, mutex, diag, worker, stop, runs>>

StopTell == /\ Step("tellStopping", "release")
            /\ diag' = [lifecycle |-> "stopping", stats |-> cache.stats]
            /\ stop' = TRUE
            /\ UNCHANGED <<acquisition, clock, sampling, worker, runs>>

(* The source's stop() waits for the task, then releases the driver. *)
StopRelease == /\ Step("release", "join") /\ task = "none"
               /\ bus' = "stopped"
               /\ UNCHANGED <<missed, counter, alert, baseline, totals, task, clock, sampling, diag,
                              worker, stop, runs>>

StopJoin == /\ Step("join", "tellStopped") /\ worker.pc = "none"
            /\ Begin("control", Forced)
            /\ UNCHANGED <<acquisition, clock, cache, mutex, diag, worker, stop, runs>>

StopDone == /\ Step("tellStopped", "idle")
            /\ diag' = [lifecycle |-> "stopped", stats |-> cache.stats]
            /\ cache' = [cache EXCEPT !.valid = FALSE, !.sample = 0]
            /\ UNCHANGED <<acquisition, clock, mutex, refresh, worker, stop, runs>>

(* The worker: receive(), then snapshot_and_update(). *)
Receive == /\ worker.pc = "receive"
           /\ \E fault \in {FALSE, bus # "running"} :
                IF stop THEN worker' = [pc |-> "none", fault |-> FALSE] /\ UNCHANGED refresh
                        ELSE worker' = [pc |-> "publish", fault |-> fault] /\ Begin("worker", fault)
           /\ UNCHANGED <<acquisition, clock, cache, mutex, diag, control, stop, runs>>

Publish ==
  /\ worker.pc = "publish" /\ Refreshed("worker")
  /\ diag' = [lifecycle |-> IF worker.fault THEN "faulted" ELSE diag.lifecycle,
              stats |-> cache.stats]
  /\ worker' = [worker EXCEPT !.pc = IF worker.fault THEN "none" ELSE "receive"]
  /\ UNCHANGED <<acquisition, clock, sampling, control, stop, runs>>

-----------------------------------------------------------------------------
Next == \/ Miss \/ BusOff \/ TaskPoll \/ TaskAlerts \/ TaskLatch \/ Tick
        \/ \E t \in Thread : RefreshLock(t) \/ RefreshRead(t) \/ RefreshStore(t)
        \/ Start \/ StartClear \/ StartAnnounce
        \/ StopBegin \/ StopTell \/ StopRelease \/ StopJoin \/ StopDone
        \/ Receive \/ Publish
Spec == Init /\ [][Next]_vars

-----------------------------------------------------------------------------
(* What was counted and what the next poll will find is what the driver missed  *)
(* in this run, across wraps of its counter and a restart that sets it to zero. *)
CountsExact == control # "clear" /\ bus # "stopped" => totals.missed + Delta = missed

(* Within a run the diagnostics' statistics never go back, although two threads *)
(* sample and store them.                                                       *)
NeverBackwards == [][control # "announce" => /\ diag'.stats.missed >= diag.stats.missed
                                             /\ diag'.stats.off >= diag.stats.off]_vars

(* Diagnostics that say Faulted count the bus-off that caused it, however fresh *)
(* the cache seemed and whatever the clock did.                                 *)
FaultCounted == diag.lifecycle = "faulted" => diag.stats.off = 1

(* After a stop the diagnostics show all that the run counted. *)
FinalTotals == control = "idle" /\ diag.lifecycle = "stopped" => diag.stats = totals
=============================================================================
