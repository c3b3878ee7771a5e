----------------------------- MODULE WorkBudget -----------------------------
(***************************************************************************)
(* How the runtime's worker is paced and stopped: WorkBudget               *)
(* (runtime_budget.hpp) inside run_loop(), and budget_pause() against      *)
(* request_stop() (runtime.cpp).  Runtime leaves both open: there a batch  *)
(* ends, and a pause follows, at will.                                     *)
(*                                                                         *)
(* One run of the worker on either backend.  The host waits on a condition *)
(* variable under budget_wait_mutex_; ESP sleeps tick by tick.  The clock  *)
(* is the platform's monotonic timer, which WorkBudget samples.            *)
(***************************************************************************)
EXTENDS Integers

CONSTANTS MaxFrames,      \* max_frames_per_batch
          MaxCalls,       \* max_runnable_receive_calls
          MaxBatchTime,   \* max_batch_time_us
          MaxRunTime,     \* max_runnable_time_us
          PauseMs,        \* budget_pause_ms
          TickRate,       \* configTICK_RATE_HZ
          LastTime        \* bound: the clock stands still from here

(* The configurations configure() and start() accept. *)
ValidConfig == /\ {MaxFrames, MaxCalls, MaxBatchTime, MaxRunTime, PauseMs} \subseteq Nat \ {0}
               /\ MaxFrames <= MaxCalls /\ MaxCalls <= 65535
               /\ MaxBatchTime <= MaxRunTime /\ MaxRunTime <= 1000000
               /\ PauseMs <= 1000

ASSUME ConfigAssumption == ValidConfig
ASSUME TickAssumption == TickRate \in Nat \ {0} /\ LastTime \in Nat

VARIABLES backend,        \* "host" or "esp"
          clock,          \* the monotonic timer
          calls, frames,  \* receive_calls_, batch_frames_
          batchStart, runStart,
          action,         \* what after_receive() answered
          pc, got,        \* the worker: where it is, what receive() returned
          ticks,          \* ESP: what remains of the pause
          stop,           \* stop_requested_
          mutex,          \* budget_wait_mutex_: who holds it
          asking,         \* each thread: where it is in request_stop()
          rested,         \* ghost: the pause took time
          unrefreshed,    \* ghost: frames since the last refresh_checkpoint()
          late            \* ghost: receives and ticks that ended after the stop request

budget == <<calls, frames, batchStart, runStart, action>>
stopping == <<stop, mutex, asking>>
vars == <<backend, clock, budget, pc, got, ticks, stopping, rested, unrefreshed, late>>

Thread == {"caller", "worker"}
Host == backend = "host"

Init == /\ backend \in {"host", "esp"}
        /\ clock = 0
        /\ calls = 0 /\ frames = 0 /\ batchStart = clock /\ runStart = clock
        /\ action = "continue"
        /\ pc = "loop" /\ got = "silence" /\ ticks = 0
        /\ stop = FALSE /\ mutex = "free" /\ asking = [t \in Thread |-> "no"]
        /\ rested = FALSE /\ unrefreshed = 0 /\ late = 0

Pass == /\ \E t \in clock + 1..LastTime : clock' = t
        /\ UNCHANGED <<backend, budget, pc, got, ticks, stopping, rested, unrefreshed, late>>

Goto(from, to) == pc = from /\ pc' = to
Late == IF stop THEN late + 1 ELSE late

-----------------------------------------------------------------------------
(* WorkBudget. *)

Elapsed(start, limit) == clock >= start /\ clock - start >= limit

(* Mutation: the batch limit is found only when it is exceeded. *)
BatchOverLate(f) == f > MaxFrames \/ Elapsed(batchStart, MaxBatchTime)

BatchOver(f) == f >= MaxFrames \/ Elapsed(batchStart, MaxBatchTime)

(* Mutation: a checkpoint clears the total as well. *)
CheckpointAll == /\ frames' = 0 /\ batchStart' = clock
                 /\ action' = "checkpoint"
                 /\ calls' = 0 /\ UNCHANGED runStart

Checkpoint == /\ frames' = 0 /\ batchStart' = clock
              /\ action' = "checkpoint"
              /\ calls' = calls + 1 /\ UNCHANGED runStart

(* after_receive(): the total limits are tested before those of the batch. *)
AfterReceive ==
  LET n == calls + 1
      f == IF got = "frame" THEN frames + 1 ELSE frames
      pause == n >= MaxCalls \/ Elapsed(runStart, MaxRunTime)
      over == got # "frame" \/ BatchOver(f)
  IN \/ /\ pause
        /\ calls' = n /\ frames' = f /\ action' = "pause"
        /\ UNCHANGED <<batchStart, runStart>>
     \/ ~pause /\ over /\ Checkpoint
     \/ /\ ~pause /\ ~over
        /\ calls' = n /\ frames' = f /\ action' = "continue"
        /\ UNCHANGED <<batchStart, runStart>>

(* Mutation: the pause ends the batch only. *)
AfterPauseBatch == /\ frames' = 0 /\ runStart' = clock /\ batchStart' = clock
                   /\ UNCHANGED calls

AfterPause == calls' = 0 /\ frames' = 0 /\ runStart' = clock /\ batchStart' = clock

-----------------------------------------------------------------------------
(* run_loop() *)

(* The tests of stop_requested_; on a stop the worker leaves without a pause. *)
Test ==
  /\ \/ Goto("loop", IF stop THEN "left" ELSE "receive")
     \/ Goto("check", IF stop THEN "recheck" ELSE "process")
     \/ Goto("after", IF stop THEN "recheck" ELSE "budget")
     \/ Goto("recheck", IF stop THEN "left" ELSE "refresh")
  /\ UNCHANGED <<backend, clock, budget, got, ticks, stopping, rested, unrefreshed, late>>

Receive ==
  /\ Goto("receive", "check")
  /\ got' \in {"frame", "silence", "fault"}
  /\ late' = Late
  /\ UNCHANGED <<backend, clock, budget, ticks, stopping, rested, unrefreshed>>

(* The processor, the diagnostics and the observer; a frame whose processing *)
(* failed counts as a fault, which requests the stop.                        *)
Process ==
  /\ IF got = "fault"
     THEN Goto("process", "request") /\ asking' = [asking EXCEPT !["worker"] = "lock"]
     ELSE Goto("process", "after") /\ UNCHANGED asking
  /\ unrefreshed' = IF got = "frame" THEN unrefreshed + 1 ELSE MaxFrames
  /\ UNCHANGED <<backend, clock, budget, got, ticks, stop, mutex, rested, late>>

Budget == /\ pc = "budget"
          /\ AfterReceive
          /\ pc' = IF action' = "continue" THEN "receive" ELSE "recheck"
          /\ UNCHANGED <<backend, clock, got, ticks, stopping, rested, unrefreshed, late>>

Refresh == /\ Goto("refresh", IF action = "pause" THEN "pause" ELSE "loop")
           /\ unrefreshed' = 0
           /\ action' = IF action = "pause" THEN action ELSE "continue"
           /\ UNCHANGED <<backend, clock, calls, frames, batchStart, runStart, got, ticks, stopping,
                          rested, late>>

Resume == /\ Goto("resume", "loop")
          /\ AfterPause
          /\ action' = "continue" /\ rested' = FALSE
          /\ UNCHANGED <<backend, clock, got, ticks, stopping, unrefreshed, late>>

-----------------------------------------------------------------------------
(* budget_pause() on the host.  Until it sleeps the worker holds the mutex; *)
(* wait_for() tests the predicate first and after every wakeup.             *)
HostLook == /\ Host /\ mutex = "free" /\ pc \in {"pause", "woken"}
            /\ pc' = IF stop THEN "left" ELSE "sleep"
            /\ mutex' = IF stop THEN mutex ELSE "worker"
            /\ UNCHANGED <<backend, clock, budget, got, ticks, stop, asking, rested, unrefreshed, late>>

HostSleep == /\ Goto("sleep", "asleep")
             /\ mutex' = "free"
             /\ UNCHANGED <<backend, clock, budget, got, ticks, stop, asking, rested, unrefreshed, late>>

(* A spurious wakeup; the timeout, after which the predicate decides. *)
HostWake == /\ Goto("asleep", "woken")
            /\ UNCHANGED <<backend, clock, budget, got, ticks, stopping, rested, unrefreshed, late>>

HostExpire == /\ Goto("asleep", "expired")
              /\ rested' = TRUE
              /\ UNCHANGED <<backend, clock, budget, got, ticks, stopping, unrefreshed, late>>

HostExpired == /\ mutex = "free"
               /\ Goto("expired", IF stop THEN "left" ELSE "resume")
               /\ UNCHANGED <<backend, clock, budget, got, ticks, stopping, rested, unrefreshed, late>>

(* budget_pause() on ESP: whole ticks, rounded up, each after a test of the stop. *)
PauseTicks == (PauseMs * TickRate + 999) \div 1000

EspPause == /\ ~Host
            /\ Goto("pause", IF stop THEN "left" ELSE "tick")
            /\ ticks' = PauseTicks
            /\ UNCHANGED <<backend, clock, budget, got, stopping, rested, unrefreshed, late>>

(* Mutation: the stop is seen at the end of the pause only. *)
EspTickBlind == /\ Goto("tick", IF ticks = 0 THEN (IF stop THEN "left" ELSE "resume") ELSE "delay")
                /\ UNCHANGED <<backend, clock, budget, got, ticks, stopping, rested, unrefreshed, late>>

EspTick == /\ Goto("tick", IF stop THEN "left" ELSE IF ticks = 0 THEN "resume" ELSE "delay")
           /\ UNCHANGED <<backend, clock, budget, got, ticks, stopping, rested, unrefreshed, late>>

EspDelay == /\ Goto("delay", "tick")
            /\ ticks' = ticks - 1
            /\ rested' = TRUE
            /\ late' = Late
            /\ UNCHANGED <<backend, clock, budget, got, stopping, unrefreshed>>

-----------------------------------------------------------------------------
(* request_stop(), by a stop() or the destructor and by the worker itself at a *)
(* fault.  A caller's further requests would repeat the first.                 *)
Ask == /\ asking["caller"] = "no" /\ ~stop
       /\ asking' = [asking EXCEPT !["caller"] = "lock"]
       /\ UNCHANGED <<backend, clock, budget, pc, got, ticks, stop, mutex, rested, unrefreshed, late>>

(* Mutation: the predicate is set without the mutex of the wait. *)
RequestLockNot(t) ==
  /\ asking[t] = "lock" /\ asking' = [asking EXCEPT ![t] = "set"]
  /\ UNCHANGED mutex
  /\ UNCHANGED <<backend, clock, budget, pc, got, ticks, stop, rested, unrefreshed, late>>

RequestLock(t) ==
  /\ asking[t] = "lock" /\ asking' = [asking EXCEPT ![t] = "set"]
  /\ IF Host THEN mutex = "free" /\ mutex' = t ELSE UNCHANGED mutex
  /\ UNCHANGED <<backend, clock, budget, pc, got, ticks, stop, rested, unrefreshed, late>>

RequestSet(t) ==
  /\ asking[t] = "set" /\ asking' = [asking EXCEPT ![t] = "notify"]
  /\ stop' = TRUE
  /\ UNCHANGED <<backend, clock, budget, pc, got, ticks, mutex, rested, unrefreshed, late>>

(* notify_all() and the end of the lock's scope; only a worker that sleeps hears it. *)
RequestNotify(t) ==
  /\ asking[t] = "notify" /\ asking' = [asking EXCEPT ![t] = "no"]
  /\ mutex' = IF mutex = t THEN "free" ELSE mutex
  /\ pc' = IF t = "worker" THEN "after" ELSE IF pc = "asleep" THEN "woken" ELSE pc
  /\ UNCHANGED <<backend, clock, budget, got, ticks, stop, rested, unrefreshed, late>>

Request(t) == RequestLock(t) \/ RequestSet(t) \/ RequestNotify(t)

-----------------------------------------------------------------------------
(* What the worker does by itself, and what only time or chance does to it. *)
Worker == \/ Test \/ Receive \/ Process \/ Budget \/ Refresh \/ Resume
          \/ HostLook \/ HostSleep \/ HostExpired \/ EspPause \/ EspTick \/ EspDelay

Next == Pass \/ Worker \/ HostWake \/ HostExpire \/ Ask \/ \E t \in Thread : Request(t)
Spec == Init /\ [][Next]_vars

(* The threads run, receive() and the callbacks return.  The timeout of the host's *)
(* pause is left out on purpose.                                                   *)
FairSpec == Spec /\ WF_vars(Worker) /\ \A t \in Thread : WF_vars(Request(t))

-----------------------------------------------------------------------------
TypeOK ==
  /\ backend \in {"host", "esp"}
  /\ clock \in 0..LastTime /\ batchStart \in 0..LastTime /\ runStart \in 0..LastTime
  /\ calls \in 0..MaxCalls /\ frames \in 0..MaxFrames
  /\ action \in {"continue", "checkpoint", "pause"}
  /\ pc \in {"loop", "receive", "check", "process", "request", "after", "budget", "recheck",
             "refresh", "pause", "sleep", "asleep", "woken", "expired", "tick", "delay", "resume",
             "left"}
  /\ got \in {"frame", "silence", "fault"}
  /\ ticks \in 0..PauseTicks
  /\ stop \in BOOLEAN /\ mutex \in Thread \cup {"free"}
  /\ asking \in [Thread -> {"no", "lock", "set", "notify"}]
  /\ rested \in BOOLEAN /\ unrefreshed \in Nat /\ late \in Nat

(* The pacing implements BoundedWork: a pause is due exactly at the total limits,  *)
(* however batches, receives without a frame and the clock fall together, and the  *)
(* totals are cleared by nothing but a pause that took time.                       *)
BW == INSTANCE BoundedWork WITH MaxWork <- MaxCalls, MaxTime <- MaxRunTime, work <- calls,
                                since <- runStart, due <- action = "pause"
WorkSpec == BW!Spec

(* refresh_checkpoint() lets a silence show at the latest after max_frames_per_batch *)
(* frames and after every receive without one, although a batch may be cut short by *)
(* time, or by a pause that takes the place of its checkpoint.                      *)
RefreshedInTime == pc = "receive" => unrefreshed < MaxFrames

(* stop() waits a bounded time for the worker: after the request at most one receive *)
(* or one tick of a pause comes to its end.                                          *)
StopIsPrompt == late <= 1

(* The worker ends after a stop request even if the pause's timeout never fires: *)
(* "Pair the predicate update with the wait mutex to avoid a lost wakeup."       *)
StopEndsPause == stop ~> pc = "left"
=============================================================================
