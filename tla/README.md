# TLA+ models of esp32-vehicle-can-core

The repository acquires CAN frames on an ESP32, receive only, and hands them to a
frame processor. These modules model its concurrent core as the source is written,
check it with TLC on small instances, and prove their safety with TLAPS for all of them.
All paths below are relative to the repository root (`src/` here).

## 1. The system

| Component | Source | State | Operations |
| --- | --- | --- | --- |
| `FrameRing` | `components/can_bus/private_include/can_bus/frame_ring.hpp` | slots, atomic `head_`, `tail_`, counters, watermark | `push` (receive task), `pop` (consumer), `record_*`, `snapshot` (any thread), `clear` (start) |
| can_bus lifecycle | `components/can_bus/private_include/can_bus/lifecycle.hpp` | state and three ownership flags, all atomic | `begin_start`, `abort_start`, `begin_stop`, `latch_fault`, `acknowledge_task`, `reconcile` |
| can_bus acquisition | `components/can_bus/src/can_bus.cpp` | `g_receive_requested`, semaphores `g_available` and `g_task_stopped`, ring, controller, TWAI driver | `start`, `stop`, `receive`, the receive task |
| `CanBusSource` | `components/vehicle_telemetry/src/can_bus_source.cpp` | `owns_acquisition_` | maps `AcquisitionSource` to can_bus and its results |
| `Runtime` | `components/vehicle_telemetry/src/runtime.cpp` | lifecycle, operation flag, stop request, source ownership, diagnostics, worker | `configure`, `start`, `stop`, `diagnostics`, destruction, the worker loop |
| `WorkBudget` | `components/vehicle_telemetry/src/runtime_budget.hpp` | two counters, two time origins | `after_receive`, `after_pause`, called by the worker around its pauses |
| Statistics | `configuration.hpp`, `can_bus.cpp`, `can_bus_source.cpp`, `runtime.cpp` | driver counters and their baselines, totals of the ring, the runtime's cache, the diagnostics | polls of the task, refreshes by worker and control thread |
| `Signal` | `components/vehicle_core/include/vehicle_core/signal.hpp` | value, time of the last update, status | `update`, `invalidate`, `refresh`, `status_at` |

Around these are value types (`frame.hpp`, `health.hpp`, ...), a pin binding
(`bench_can_ack`), firmware and Arduino applications, measurement fixtures, and Python
scripts that check the build. `PROJECT.json` lists each with its status.

How they interact. The TWAI driver fills the receive task of can_bus, which pushes
into the ring and gives `g_available`. The consumer waits on that semaphore in
`receive()` and pops. With the runtime the consumer is its worker, through a source. The
worker processes a frame, updates the diagnostics and calls the observer. Control goes
the other way: `Runtime::stop()` asks the worker to end and stops the source, which
stops can_bus, which asks its task to end and uninstalls the driver. Faults go up: the
task latches `Faulted` in the controller and wakes the consumer; the worker sees a
receive fault, latches `Faulted` in the runtime and ends.

What makes it hard, with the properties that matter:

- *Ring.* Everything is lock free, and resets by observers race the producer. Slots must
  not be shared, reported depths must be real, counts must survive resets, and no
  observer may hold up acquisition.
- *can_bus.* `stop()` gives up waiting after 100 ms and is called again; driver calls
  fail half way; the task may fault and leave at any moment, before `xTaskCreate`
  has returned as well. There must be one task, the driver must outlive it, the results
  must tell what is owned, and tokens must match frames.
- *Runtime.* Several threads call start and stop. The worker's late stores meet those
  of `stop()`; a callback may call `stop()`; the source may fail to stop. `Stopped`
  must mean that nothing is left, `Running` that a worker runs, and the source must see
  as many stops as its contract allows.
- *CanBusSource.* Several sources may exist for the one bus. What is acquired must have
  one source that is allowed to release it, although a source does its bookkeeping after
  can_bus has returned, when another source may call.
- *WorkBudget.* Four limits meet at one receive. Between pauses that really took time the
  work must be bounded; a stop request must not be lost in the wait of a pause.
- *Statistics.* Counts pass a counter that wraps, totals that restart, a cache that two
  threads fill and a clock that may stand still. None may be lost, counted twice or
  reported backwards, and a report of a fault must include its cause.
- *Signal.* Sequential, hard in the order of its inputs: late, duplicated and conflicting
  values between invalidations, readers whose time is behind the value's.

The hazards are listed line by line in `PROJECT.json`.

## 2. Modules

| Module | Models | Notes |
| --- | --- | --- |
| `BoundedFifo` | what a ring promises | abstract specification: a FIFO that refuses the newest frame only when full |
| `FrameRing` | `frame_ring.hpp` | one action per access to an atomic or a slot; refines `BoundedFifo` |
| `FrameRingProofs`, `FrameRingRefinement` | theorems of `FrameRing`; that it implements `BoundedFifo` | |
| `CanBus` | `can_bus.cpp`, `lifecycle.hpp` | the ring as an atomic queue, which `FrameRing` justifies |
| `CanBusProofs` | theorems of `CanBus` | |
| `SourceContract` | what `receive.hpp` lets a source answer | abstract; `Runtime` is built on it, `CanBusSource` is shown to keep it |
| `Runtime` | `runtime.cpp` | against any source of the contract |
| `RuntimeProofs` | theorems of `Runtime` | |
| `CanBusSource` | `can_bus_source.cpp` composed with `CanBus` | several sources, one bus |
| `CanBusSourceProofs` | theorems of `CanBusSource` | built on `CanBusProofs` |
| `BoundedWork` | the bound on work between pauses | abstract specification of the pacing |
| `WorkBudget` | `runtime_budget.hpp`, and `run_loop`, `budget_pause`, `request_stop` of `runtime.cpp` | refines `BoundedWork` |
| `WorkBudgetProofs` | theorems of `WorkBudget` | |
| `Statistics` | `counter_delta`, the polls of the receive task, the statistics cache and the diagnostics' copies of it | |
| `StatisticsProofs` | theorems of `Statistics` | |
| `Signal` | `signal.hpp` | |
| `SignalProofs` | theorems of `Signal` | |
| `MC*` | instances for TLC | |

The modules meet at two seams. `CanBus` uses the ring as `BoundedFifo` describes it, which
`FrameRing` implements. `Runtime` uses a source as `SourceContract` describes it, which
each `CanBusSource` over `CanBus` implements. `WorkBudget` and `Statistics` detail what
`Runtime` leaves open: when a batch ends and a pause follows, and what the diagnostics count.

**FrameRing.** `head`, `tail` are the index words (modulo `Modulus`, the width of
`size_t`); ghosts count all frames pushed and popped, and a sample in progress remembers how
many frames had left the ring at its first load (`since`). A push is
`PushBegin, PushTest, PushWrite, PushPublish, PushDepth, PushMark/PushRaise, PushCount`
in the order of the code, a pop is `PopTest, PopRead, PopRelease, PopCount`, a resetting
snapshot exchanges the counters one by one, as the code does, and takes the coherent
depth with its two loads of `tail_`. A `compare_exchange_weak` that fails without a cause
(150-162) is a stutter here; only `PushCompletes` depends on its not failing for ever.

**CanBus.** `ctl` is the next step of `start()` or `stop()`, `task[t]` that of the task of run
`t`, `consumer` that of `receive()`. `state, installed, started, owned` are the controller's
atomics. `available` and `exited` are the semaphores, `twai` is the driver (external), and
`ring` holds the run that received each frame. Each driver call may fail, each wait may time
out, and the task may fault in every iteration. The results `kTaskFailure` and
`kDriverFailure` of `stop()` are one `StopFailed`: what they leave is the same.

**Runtime.** `op[c]` is where caller `c` is in its operation, with the cleanup result it got
and the lifecycle it settles; `worker` is where the loop is and what it received; `kind` says
whether the source supports stop retries and whether the backend is ESP (bounded wait for the
worker) or host (join). `ownership` covers `source_ownership_` and `source_started_`, which
are always set together, and `source_stop_retry_supported_` is `kind.retry` wherever it is
read. `worker_active_` is `worker.pc # "none"`: the only readers wait after the worker was
created. The silence check is taken to find its timeout elapsed or not, freely, as the
injected clock is arbitrary.

**CanBusSource.** Adds to `CanBus` each source's claim (`owns`), the call of can_bus
that runs (`who`), and the outcome a source was given and has not noted yet (`returned`).
`Note` is the bookkeeping after the return. A copy of a source carries no claim and is
one more source. Calls into can_bus are serialized, as `can_bus.h` asks,
so an owning source never meets the `NotStarted` or `NotRunning` that `can_bus_source.cpp:63`
reconciles, and that line has no action.

**WorkBudget.** The worker's loop with every test of `stop_requested_`, the limits as
`after_receive()` orders them, and the pause: on the host the mutex, the condition
variable with spurious wakeups and its timeout; on ESP the ticks. `request_stop()` is three
steps (lock, store, notify), by a caller and by the worker itself after a fault. The timer
is the platform's and moves forward by any amount, or not at all.

**Statistics.** One polled counter (`missed`) stands for three, `off` for what the task counts
itself (the one increment of `driver_rx_missed` for each invalid frame, `can_bus.cpp:121-122`,
is left out: it is the task's own, like `off`). A refresh is three steps under its mutex:
decide, read the source, store. Publishing copies the cache into the diagnostics. The clock
here is the injected one, which may stand still or step back. Failures of start and stop are
those of the other modules.

**Signal.** Times and timeouts are small numbers, subtracted modulo `Width` as the unsigned
type does. Ghosts: `offered` is the first value offered for each time, `invalidated` the
newest time at which an accepted value was invalidated (the code keeps no such time), and
`ordered` says that no value was taken that an invalidation had overtaken.

The memory model is sequential consistency at the granularity above. The code uses
release/acquire where one thread hands data to another, and relaxed operations on the
ring's counters, its watermark and the index a thread owns. `Accounting` and
`WatermarkCoversDepth` are therefore claims about interleavings; outcomes that only a
weaker hardware ordering could produce are not explored.

Contracts taken from the code's comments and docs: calls of can_bus `start()` and
`stop()` are serialized; the consumer is stopped before a restart (`can_bus.h`); a
`Runtime` is destroyed when no other thread is inside it; `receive()` of a source returns.

## 3. Runs

| Run | Instance | Shows |
| --- | --- | --- |
| `frame_ring` | 2 slots, index words modulo 8 starting at 6, 3 arrivals, 1 recorded event | no shared slot, real depths, watermark not below the live depth, counts conserved over resets, refinement of `BoundedFifo` |
| `frame_ring_progress` | 2 slots, modulo 4 from 3, 3 arrivals | a push returns whatever the observers do |
| `can_bus` | queue of 3, 3 runs | one task, driver outlives it, results tell the ownership, a token per frame, no wakeup without cause, a fault wakes the consumer, repeated stops release everything |
| `can_bus_late_token` | queue of 1, 3 runs, no scheduling assumption | violation, finding 1 |
| `runtime` | 2 callers, 2 configurations, all 4 kinds, 2 starts | the safety properties of `Runtime` |
| `runtime_progress` | 2 callers, all kinds, 1 start | `stop()` returns; with a source that supports retries, one caller that repeats `stop()` reaches `Stopped` |
| `runtime_fault_health` | 1 caller, 1 start | violation, finding 2 |
| `can_bus_source` | 2 sources, queue of 1, 2 runs | one claim per acquisition, the claim of a live task is its starter's, each source keeps the contract |
| `work_budget` | limits of 2 and 4 receives, 2 and 3 time units, a pause of 2 ticks, both backends | refinement of `BoundedWork`, silence checked in time, a stop is prompt and is not lost in a pause |
| `statistics` | counter modulo 3, 3 missed frames, interval 2 on a clock of 0..2, 2 runs | nothing lost or counted twice, diagnostics do not go back, a reported fault is counted, the last report is complete |
| `signal` | 2 values, times 0..4 modulo 8 | the newest value wins, `refresh` and `status_at` agree; as long as no invalidation overtook a value, nothing older than the newest observation revives a signal |
| `signal_overtaken` | the same | violation, finding 3 |

Bounds. In the ring, two slots already separate full, half full and empty. Three arrivals
overflow it, and starting at 6 of 8 makes both index words wrap within the run; `StartIndex`
stands for a long history. `Capacity` divides `Modulus`, as 64 divides 2^32. A full turn of
the index words within a sample is outside this instance; what `CoherentDepth` says of it is
proved (section 5). In can_bus, a run that leaves something behind needs a second run to show
it and a third for a second live task. A queue of 3 gives the counting semaphore room for
frames and the fault wakeup, and its limit is reached. Two sources give every overlap of an
owner and another; a queue of 1 and two runs suffice there, as claims depend on neither. In
`WorkBudget` each batch limit lies below its total, so each of the four can be the first, and
two can coincide; 15 ms at 100 Hz round up to two ticks. Rounding of a pause below one tick is
not in this instance; the theorem covers it (`TicksPositive`). In `Statistics` three events
wrap a counter of width 3, and fewer than a full turn happens between two polls (2^32 events
on the target). A run that restarts shows a stale baseline or cache. In `Signal` five times
separate older, equal, newer, fresh and stale. In `Runtime`, one operation runs at a time, so
two callers give every overlap of a refused and an accepted call, and two starts give every
effect of one run on the next; `runtime_progress` has one start, as `StoppedIsQuiet` leaves
the second no more than the first found. `starts` and `attempts` are capped by guards;
`attempts` stays at 2 for sources with retries, where the code never reads it. Symmetry is
used in `runtime` and `can_bus_source` only, which check no liveness.

Deadlock is checked except where the system ends: in the `Runtime` runs in which the runtime
may be destroyed, and in `work_budget`, whose worker leaves after a stop.

Fairness. `PushCompletes` assumes weak fairness of the producer's steps and nothing of anyone
else: the receive task is scheduled. The properties of retries (`CleanupCompletes`,
`RetriedStopCompletes`) assume that tasks and callers run (weak fairness), that the caller
calls `stop()` again, and that a driver or source that is asked infinitely often does not
refuse for ever (strong fairness of the successful answer); `RetriedStopCompletes` states this
as its hypothesis (`Retried`), of one caller, so that it holds whatever the others do.
`StopReturns` assumes that the worker and the caller inside the operation run; the worker's
calls return because `receive()` is bounded by its timeout and callbacks are the application's
duty (`receive.hpp`, `observer.hpp`). `StopEndsPause` assumes that worker and requester run,
and leaves the timeout of the host's pause out on purpose: the worker must leave because it
was notified. No run assumes that a caller begins an operation, except to retry.

Each property of a passing run is violated by a mutated definition, marked `Mutation` in a
comment, that stands before the definition it replaces. These are not part of the models.

## 4. Findings

1. **Late exit token** (`can_bus.cpp:137-138`, run `can_bus_late_token`). The task clears
   `task_owned` and then gives `g_task_stopped`. If it is delayed in between, `stop()`
   sees no owned task and returns `kOk`; the next `start()` drains the semaphore
   (178) before the token arrives. The token then lets the next `stop()` take the new,
   running task for stopped: the driver is uninstalled under it, and one more `start()`
   gives two tasks on a ring made for one producer. `PromptSpec` excludes the
   delay (`TokenBeforeRestart`: no task is between the two lines when a start drains the
   semaphore); the passing runs and the theorems of `CanBus` hold under it.
2. **Fault reported as silence** (`runtime.cpp:600`, run `runtime_fault_health`). The
   diagnostics say `Faulted` before the observer runs, `lifecycle_` says so after. A
   `diagnostics()` in between applies the silence rule of a running runtime and replaces
   the transport health `Faulted` by `TimedOut`, for good. It needs a frame before
   the fault, which the synthetic harness case does not send.

3. **Recovery by an older value** (`signal.hpp:89-101` and `104-113`, run `signal_overtaken`).
   `invalidate()` keeps the time of the last value, and `update_status()` compares with that
   time only. After a value at 1 and an invalidation at 3 a value at 2 makes the signal valid
   again; so does one at 3. `receive-only-acquisition.md:39-40` says "Equal or older
   observations cannot extend, clear, or recover semantic state", `signal.hpp:60-62` asks
   for "a later strictly newer update", and 105-107 speaks of the recovery boundary that an
   accepted invalidation creates. The ghost `ordered` turns false with the first such
   value (`Overtaken`); as long as it is true `NoRevival` holds, and is proved, against the newest
   value or invalidation accepted so far.

## 5. Proofs

Every safety invariant, action property and refinement that a passing run checks is also
proved, for all values of the constants. Each module of proofs has an inductive invariant
(`CanBusProofs` and `FrameRingProofs` a second one on top of it), checked with TLC on small
bounds before it was proved, and one lemma per group of actions that preserve it.

### CanBus

`CanBusProofs` proves, for every `Capacity` and `MaxStarts`:

- `TypeCorrect`: `PromptSpec => []TypeOK`;
- `SingleTask`, `DriverKept`, `OutcomesTrue`: the invariants `OneAcquisitionTask`,
  `DriverOutlivesTask` and `OutcomeTellsOwnership`;
- `TokensMatchFrames`, `WakeupsHaveFrames`, `FaultsWake`: `TokenPerFrame`,
  `NoEmptyWakeup` and `FaultWakesConsumer`.

None of the invariants is inductive. The inductive invariant `IInv` says where each thread
may be and what it may presume there: `Calls` (which locals go with a control point),
`Tasks` (tasks of earlier runs are over, and only the current one may be alive),
`Token` (a token in `g_task_stopped` means that every task is gone: this is what
`TokenBeforeRestart` preserves, and what finding 1 breaks), `Ownership` (the flags agree
with driver and task), `Starting` and `Stopping` (what the steps of the two
operations have established so far) and `States` (`Stopped` means nothing is owned).
The argument: a task is created only from `Stopped`, where nothing is owned, so no
earlier task is alive; `stop()` clears `task_owned` only for a token or after the
task's own acknowledgement, so the driver is uninstalled only when the task is past its
last driver call.

`TokenInv` adds the traffic on top of `IInv`: `Cleared` (the consumer is away, and the
semaphore and the ring are empty, before `start()` lets a task run; `Running` ends with a
fault or a stop and comes back only with a start), `Fresh` (the ring holds frames of the
latest run) and `Tokens` (while the bus runs, frames in the ring are tokens in
`g_available`, in the consumer's hand or about to be given; what the consumer holds a token
for stays in the ring after a fault or a stop). A give at a full semaphore would break
`Tokens`; it does not happen, because the frame it stands for is in the ring and the ring
is no larger than the semaphore.

The steps are split by action; `Flags` is a separate lemma because the Boolean
part is better served by another prover than the arithmetic part.

### Runtime

`RuntimeProofs` proves, for every set of callers and configurations, every kind of source
and both backends, and every number of starts:

- `TypeCorrect`, `OperationsExclude`, `StoppedMeansQuiet`, `RunningMeansServed`,
  `StopsWithinContract`, `CallbacksNeverJoin`: the invariants `TypeOK`, `OneOperation`,
  `StoppedIsQuiet`, `RunningIsServed`, `StopsAllowed` and `SelfStopRefused`;
- `ConfigurationFixed`: the action property `ConfigFixed`.

All of them follow from one inductive invariant. `Alone` (one caller at most is inside an
operation, and `lifecycle_operation_active_` says whether one is, destruction excepted) and
`Place` (which control points belong to which call) reduce every step to that of one
caller or of the worker. `Sound` holds at every moment: a worker leaves only on request,
and requests its own end only after the fault is visible. `Owed` counts the stops that the
source is still owed against those the contract allows. `Starting`, `Cleaning` and
`Stopping` say, by control point, what the one operation in progress has established; when
there is none, `Rest` says that the lifecycle tells the truth. The worker runs at any time
between two steps of an operation, so each clause is either about the caller's own writes or
stable under `WorkerEffect`, the most that a step of the worker does to what others see.
`SelfStopRefused` needs `Handled`: from the moment the flag of the start is given up, the
handle is stored.

### CanBusSource

`CanBusSourceProofs` proves, for every set of sources on one bus, every capacity and every
number of runs, under `TokenBeforeRestart`:

- `ExactlyOneClaim` and `TaskKeepsOwner`: `OneClaim` and `TaskHasOwner`;
- `SourcesKeepContract`: `ContractKept`, that is, every source implements
  `SourceContract`, on which `Runtime` is built.

A source learns what its call did only when it notes it, and other sources may call in
between. `Claim(s)` is what `s` will own once it has noted what it was told. With it
`Claims` can say that a start finds no claim, a stop only its caller's, and that at rest a
bus that is not Stopped has exactly one. `Told` relates what was told to what was owned
before; it is what the step simulation of `ContractKept` rests on (`Noted`, `Refused`).
`Claimed` says that the source of a living task has the claim. The invariant of
`CanBusProofs` is reused: a step of `CanBusSource` is a step or a stutter of `CanBus`
(`BusKeeps`), and `InCallActs` and `GoesOnActs` say all that the sources see of it.

### WorkBudget

`WorkBudgetProofs` proves, for every valid configuration, tick rate and time bound:

- `TypeCorrect`: `TypeOK`, so no counter of the budget passes the limit it is compared with;
- `Refreshed` and `Prompt`: `RefreshedInTime` and `StopIsPrompt`;
- `Paced`: `Spec => WorkSpec`, the refinement of `BoundedWork`.

Its inductive invariant joins `Types`, `Phases` (which pc goes with which answer of the
budget, and where a pause has taken time), `Batch` (frames since the last
silence check are counted in `batch_frames_`, wherever the worker is between two checks)
and `Promptly` (what may still end after the stop request, by pc). The step simulation
maps the end of a receive to `Work`, a tick or the timeout to `Rest` and `after_pause()` to
`Resume`. `TicksPositive` shows that the rounding never gives a pause of zero ticks, which
`Rest` rests on.

### Statistics

`StatisticsProofs` proves, for every width of the driver's counter, every refresh interval,
any clock (it may stand still or step back) and every number of events and runs:

- `CountsAreExact`, `FaultsAreCounted`, `TotalsAreFinal`: `CountsExact`, `FaultCounted` and
  `FinalTotals`;
- `StatisticsGrow`: the action property `NeverBackwards`.

`Difference` and the lemmas after it give the unsigned difference across a wrap. The
inductive invariant then has `Flow` (who is alive when), `Counted` (totals and what the next
poll will find are what the driver counted in this run; a run counts one bus-off at most),
`Holding` (a refresh between its read and its store holds the mutex, and belongs to the
thread that publishes afterwards), `Between` (what is published is no more than what is
cached, that no more than what was read, that no more than the totals), `Faults` (a fault
that the worker received is in what it goes on to publish) and `Last` (what the last
refresh of `stop()` finds is final). `NeverBackwards` is `Between` and `Holding`: without
the mutex around read and store a thread could store an older sample over a newer one.

### Signal

`SignalProofs` proves `Latest` (`LatestWins`, inductive with the types), `OldStaysOld`
(`NoRevival`) and `RefreshAndStatusAgree` (`RefreshAgrees`). A value
that is taken, and was not overtaken, is newer than `Newest`, every value and invalidation
accepted before it (`TakenIsNewest`).
`Aging` shows that what is
usable at a time is usable at every earlier one, and a step that moves neither time nor
timeout can only take usability away. `LateAlike` shows that the unsigned comparison of
`refresh()` and the comparison of `status_at()` find the same values late, since times in
order are less than `Width` apart (`NoWrap`).

### FrameRing

`FrameRingProofs` proves, for every capacity, every width of the index words that the
capacity divides and every number of frames that have passed before:

- `TypeCorrect`: `TypeOK`, so no depth that `push()` or a snapshot computes from index
  words loaded at different times leaves `0..Capacity`;
- `SlotsApart`: `SlotExclusive`;
- `NothingLost`: `Accounting`, whatever the resets race;
- `DepthsCoherent`: `CoherentDepth`, whose condition is about the one sample: fewer than
  `Modulus` frames leave the ring between its first load and its last;
- `WatermarkSuffices`: `WatermarkCoversDepth`, with no condition.

The index arithmetic comes first: `Laps` (an index is whole laps and a slot), `Near`
(numbers less than a lap apart have different slots), `Turn` (one turn of the index word
leads back to the slot: here `Capacity` must divide the width) and from them
`SlotsDiffer`, across the wrap. The inductive invariant then joins `Room` (the depth is at
most `Capacity`, below it while the producer writes, above 0 while the consumer copies; so
is the depth `push()` computes with an old tail), `Held` (the frame is in its slot
before `head_` shows it, a copy is of the oldest frame) and `Counts` (`Accounting` with the
counts that are due in the middle of an operation).

The last two theorems have a second invariant, `DepthInv`, on top. `coherent_depth()` compares
index words, so it takes a `tail_` that came all the way round during the sample for one that
stood still: this is what the condition of `CoherentDepth` excludes (2^32 frames between two
loads on the target), and all it excludes. With words of two values and one slot, and without
the condition, TLC finds such a sample; with it, none. How often the words turned before the
sample does not matter. `Shows` ties a count of frames to its index word: `ShowsNext` keeps it
over a pop, `ShowsAhead` over `clear()`, and by `ShowsOnce` counts less than a turn apart with
one word are one count. `Seen` says that a sample holds the word of the count `since`, so a
second load that finds that word, less than a turn later, finds that no frame left, and the
depth computed is the one at the load of `head_`.

The watermark needs no such condition. `Reach` says that what `push()` reports is no less than
the depth, because the tail it loaded is old at worst, and `Covered` that below the depth the
watermark is only while a push or a reset is about to raise it. A push that publishes after
the reset's exchange raises the watermark itself; if none does, the head of the reset's second
sample is the present one, and the tail compared with it is the present one however it came
there. `Resting` says that `clear()` runs alone, at depth 0.

`FrameRingRefinement` proves `RingIsFifo`, `Spec => FifoSpec`, with `IInv`:
`Queue` reads the queue off two index words and the slots; `Appended`, `Removed` and
`Untouched` say what publishing `head_`, publishing `tail_` and writing a slot do to it.
Publishing `head_` maps to `Accept`, publishing `tail_` to `Deliver`, the load of `tail_`
that finds the ring full to `Refuse`, `clear()` to `Discard`, every other access to a
stutter.

### Assumptions, and what is only model-checked

The proofs assume what the modules assume of their constants: `Capacity >= 1`, which divides
`Modulus`; natural bounds; the configurations that `configure()` accepts; a positive tick
rate; `Width > LastTime` in `Signal` and a `Width` above 1 in `Statistics`. TLC evaluates them
in every run. `CanBus` and `CanBusSource` assume `TokenBeforeRestart`, and `NoRevival` speaks
of behaviours as long as they are `ordered`: the code guarantees neither (findings 1 and 3).

Only model-checked: liveness (`PushCompletes`, `CleanupCompletes`, `StopReturns`,
`RetriedStopCompletes`, `StopEndsPause`). It needs fairness and `ENABLED` and is out of
reach of the prover.

## 6. Plan

In this order, most important first:

1. *What carries the liveness properties*: the safety half of `StopEndsPause` (a worker that
   sleeps while a stop is requested has a notification coming) and of `CleanupCompletes`
   (what a failed stop leaves, the next one acts on), which are invariants and within reach.
2. *`CanBus` over the ring*: that its atomic queue takes the steps of `BoundedFifo`.

Proofs stay away from recursion: data is folded or counted, and no module to be proved
about declares a `RECURSIVE` operator.

## 7. Not modelled

Frame contents and decoding metadata, log output, pin binding, firmware and Arduino main
loops, and the repository's build scripts: nothing the properties above depend on. The
measurement fixtures (`tools/runtime_baseline`, the synthetic harness) are sources and
processors for benchmarks; what they may answer is within `SourceContract`. The numbers of
processed, ignored and malformed frames are left out: one thread increments them under the
mutex that publishes them. So is the data race on `worker_` between `start()` and a concurrent
`stop()` (`runtime.cpp:171` and `198`): `SelfStopRefused` shows that the call is refused
whichever value the read gives. How long `receive()` keeps a stop waiting is a matter of
real time: it is bounded by `receive_timeout_ms`, and the models assume that it returns.
