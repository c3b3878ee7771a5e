------------------------------ MODULE Runtime ------------------------------
(***************************************************************************)
(* vehicle_telemetry::Runtime (src/components/vehicle_telemetry/src/       *)
(* runtime.cpp): configure, start, stop, diagnostics and destruction,      *)
(* called from any thread, the worker they create, and the acquisition     *)
(* source they own.                                                        *)
(*                                                                         *)
(* One action is one access to what another thread can see: lifecycle_,    *)
(* stop_requested_, a section under lifecycle_mutex_ or diagnostics_mutex_,*)
(* a call of the source.  The members that only the caller holding         *)
(* lifecycle_operation_active_ touches change in those same actions.       *)
(*                                                                         *)
(* `kind` is fixed at construction: retry is supports_stop_retry() of the  *)
(* source, bounded tells the ESP backend (stop() waits a bounded time for  *)
(* the worker) from the host one (stop() joins the thread).                *)
(***************************************************************************)
EXTENDS Integers

CONSTANTS Caller,      \* threads that call the public operations
          Configs,     \* values configure() accepts
          Kinds,       \* the [retry, bounded] pairs considered
          MaxStarts    \* bound: starts that reach the source

ASSUME KindsAssumption == Kinds \subseteq [retry : BOOLEAN, bounded : BOOLEAN]
ASSUME MaxStartsAssumption == MaxStarts \in Nat

VARIABLES kind,           \* the source's and the platform's contract
          config,         \* config_
          lifecycle,      \* lifecycle_
          busy,           \* lifecycle_operation_active_
          stopRequested,  \* stop_requested_
          ownership,      \* source_ownership_; source_started_ is "# none"
          stopCalled,     \* source_stop_called_
          attempts,       \* partial_cleanup_attempts_
          stopResult,     \* source_stop_result_
          diag,           \* lifecycle, transport and has_last_frame of diagnostics_
          op,             \* each caller: where it is, its last cleanup result, the state it settles
          worker,         \* where the worker is, and what receive() or process() gave it
          handle,         \* worker_.joinable() on the host, task_ # nullptr on ESP
          source,         \* external: "idle" or "held"
          stopsLeft,      \* ghost: stop() calls the source still has to accept
          starts          \* ghost: starts that reached the source

vars == <<kind, config, lifecycle, busy, stopRequested, ownership, stopCalled, attempts,
          stopResult, diag, op, worker, handle, source, stopsLeft, starts>>

shared == <<lifecycle, busy, stopRequested>>
owned == <<ownership, stopCalled, attempts, stopResult, source, stopsLeft>>

LifecycleState == {"stopped", "running", "stopping", "faulted"}
Transport == {"stopped", "awaiting", "live", "timedOut", "faulted"}
Result == {"ok", "notRunning", "timeout", "failed"}   \* "timeout": Timeout or Stopping
Received == {"frame", "badFrame", "silence", "fault"} \* "badFrame": process() returned Fault
StartPc == {"source", "rejected", "arm", "announce", "run", "create", "publish"}
StopPc == {"tellStopping", "request", "join"}
CommonPc == {"idle", "partial", "release", "settle", "store", "tell", "unlock"}
DestroyPc == {"destroy", "destroyJoin", "destroyRetry", "destroyed"}
WorkerPc == {"none", "test", "receive", "check", "record", "observe", "latch", "request",
             "after", "budget", "recheck", "refresh", "pause", "paused", "leave", "exit"}

Alive == worker.pc # "none"
Operating(c) == op[c].pc # "idle"
Gone == \E c \in Caller : op[c].call = "destroy"
Idle(c) == op[c].pc = "idle" /\ ~Gone
Goto(c, pc) == op' = [op EXCEPT ![c].pc = pc]

Init == /\ kind \in Kinds
        /\ config \in Configs
        /\ lifecycle = "stopped" /\ busy = FALSE /\ stopRequested = FALSE
        /\ ownership = "none" /\ stopCalled = FALSE /\ attempts = 0 /\ stopResult = "ok"
        /\ diag = [lifecycle |-> "stopped", transport |-> "stopped", seen |-> FALSE]
        /\ op = [c \in Caller |-> [pc |-> "idle", call |-> "none", got |-> "ok", final |-> "stopped"]]
        /\ worker = [pc |-> "none", got |-> "silence"]
        /\ handle = FALSE
        /\ source = "idle" /\ stopsLeft = 0 /\ starts = 0

-----------------------------------------------------------------------------
(* The source, as AcquisitionSource promises it. *)
Contract == INSTANCE SourceContract WITH answer <- stopResult
SourceStarts(r) == Contract!Starts(r)
SourceStops(r) == Contract!Stops(r)

(* A source without stop retries finishes a stop it did not confirm by itself. *)
SourceFinishes == /\ ~kind.retry /\ source = "held"
                  /\ ownership = "none" \/ (ownership = "partial" /\ attempts > 0)
                  /\ source' = "idle"
                  /\ UNCHANGED <<kind, config, shared, ownership, stopCalled, attempts, stopResult,
                                 diag, op, worker, handle, stopsLeft, starts>>

-----------------------------------------------------------------------------
(* Mutation: every attempt calls stop(). *)
StopsLeftAlways(again) == stopsLeft - 1

(* retry_stop() instead of stop() if `again`. *)
StopsLeft(again) == IF again THEN stopsLeft ELSE stopsLeft - 1

(* attempt_source_stop(): stop() once, retry_stop() afterwards if the source *)
(* supports it; without that support the source is handed off whatever it    *)
(* answered.                                                                 *)
AttemptSourceStop(c, next) ==
  IF ownership # "successful"
  THEN op' = [op EXCEPT ![c].pc = next, ![c].got = stopResult] /\ UNCHANGED owned
  ELSE \E r \in Result :
         /\ SourceStops(r)
         /\ stopsLeft' = StopsLeft(stopCalled)
         /\ LET complete == r = "ok" \/ (kind.retry /\ r = "notRunning")
                retained == ~complete /\ kind.retry
            IN /\ ownership' = IF retained THEN ownership ELSE "none"
               /\ stopCalled' = retained
               /\ stopResult' = IF retained THEN r ELSE "ok"
               /\ op' = [op EXCEPT ![c].pc = next, ![c].got = IF complete THEN "ok" ELSE r]
         /\ UNCHANGED attempts

(* Mutation: no limit. *)
ExhaustedNever == FALSE

Exhausted == attempts >= 2 /\ ~kind.retry

(* attempt_partial_start_cleanup(): two attempts, or as many as needed if   *)
(* the source supports retries.                                             *)
AttemptPartialCleanup(c, next) ==
  IF Exhausted
  THEN op' = [op EXCEPT ![c].pc = next, ![c].got = stopResult] /\ UNCHANGED owned
  ELSE \E r \in Result :
         /\ SourceStops(r)
         /\ stopsLeft' = StopsLeft(kind.retry /\ stopCalled)
         /\ attempts' = IF kind.retry /\ attempts = 2 THEN 2 ELSE attempts + 1
         /\ LET clean == r \in {"ok", "notRunning"}
            IN /\ ownership' = IF clean THEN "none" ELSE ownership
               /\ stopCalled' = ~clean
               /\ stopResult' = IF clean THEN "ok" ELSE r
               /\ op' = [op EXCEPT ![c].pc = next, ![c].got = IF clean THEN "ok" ELSE r]

Partial(c) == /\ op[c].pc = "partial"
              /\ AttemptPartialCleanup(c, "settle")
              /\ UNCHANGED <<kind, config, shared, diag, worker, handle, starts>>

Release(c) == /\ op[c].pc = "release"
              /\ AttemptSourceStop(c, "settle")
              /\ UNCHANGED <<kind, config, shared, diag, worker, handle, starts>>

(* Mutation: does not wait for the worker. *)
AfterCleanupNoWait(call, got) == IF call = "stop" /\ got = "timeout" THEN "unlock" ELSE "store"

(* What the operation does with the cleanup result: a stop() whose source did not *)
(* answer in time returns at once, any other stop() of a started source waits for *)
(* the worker, everything else settles the lifecycle.                             *)
AfterCleanup(call, got) == IF call # "stop" THEN "store"
                           ELSE IF got = "timeout" THEN "unlock" ELSE "join"

Settle(c) ==
  /\ op[c].pc = "settle"
  /\ op' = [op EXCEPT ![c].pc = AfterCleanup(op[c].call, op[c].got),
                      ![c].final = IF op[c].got = "ok" THEN "stopped" ELSE "faulted"]
  /\ UNCHANGED <<kind, config, shared, owned, diag, worker, handle, starts>>

Store(c) == /\ op[c].pc = "store"
            /\ lifecycle' = op[c].final
            /\ Goto(c, "tell")
            /\ UNCHANGED <<kind, config, busy, stopRequested, owned, diag, worker, handle, starts>>

SetDiagnostic(l, t) == diag' = [diag EXCEPT !.lifecycle = l, !.transport = t]

Tell(c) == /\ op[c].pc = "tell"
           /\ SetDiagnostic(op[c].final, op[c].final)
           /\ Goto(c, "unlock")
           /\ UNCHANGED <<kind, config, shared, owned, worker, handle, starts>>

Unlock(c) == /\ op[c].pc = "unlock"
             /\ busy' = FALSE
             /\ op' = [op EXCEPT ![c].pc = "idle", ![c].call = "none"]
             /\ UNCHANGED <<kind, config, lifecycle, stopRequested, owned, diag, worker, handle, starts>>

Settling(c) == Partial(c) \/ Release(c) \/ Settle(c) \/ Store(c) \/ Tell(c) \/ Unlock(c)

-----------------------------------------------------------------------------
(* Mutation: an operation in progress is not noticed. *)
AdmittedAlways(c) == Idle(c)

(* lifecycle_operation_active_ under lifecycle_mutex_ *)
Admitted(c) == Idle(c) /\ ~busy

(* Mutation: accepted in any state. *)
ConfigureAnytime(c) == /\ Admitted(c)
                /\ config' \in Configs
                /\ UNCHANGED <<kind, shared, owned, diag, op, worker, handle, starts>>

(* configure() and start(); a call they refuse changes nothing. *)
Configure(c) == /\ Admitted(c) /\ lifecycle = "stopped"
                /\ config' \in Configs
                /\ UNCHANGED <<kind, shared, owned, diag, op, worker, handle, starts>>

StartBegin(c) == /\ Admitted(c) /\ starts < MaxStarts
                 /\ lifecycle = "stopped"
                 /\ busy' = TRUE
                 /\ op' = [op EXCEPT ![c].pc = "source", ![c].call = "start"]
                 /\ UNCHANGED <<kind, config, lifecycle, stopRequested, owned, diag, worker, handle, starts>>

StartSource(c) ==
  /\ op[c].pc = "source"
  /\ starts' = starts + 1
  /\ \/ /\ SourceStarts("ok")
        /\ Goto(c, "arm")
        /\ ownership' = "successful" /\ stopCalled' = FALSE /\ stopResult' = "ok"
        /\ stopsLeft' = 1 /\ UNCHANGED attempts
     \/ /\ SourceStarts("rejected")
        /\ Goto(c, "rejected")
        /\ stopsLeft' = 0 /\ UNCHANGED <<ownership, stopCalled, attempts, stopResult>>
     \/ /\ SourceStarts("failed")
        /\ Goto(c, "partial")
        /\ ownership' = "partial" /\ attempts' = 0
        /\ stopsLeft' = (IF kind.retry THEN 1 ELSE 2)
        /\ UNCHANGED <<stopCalled, stopResult>>
  /\ UNCHANGED <<kind, config, shared, diag, worker, handle>>

StartRejected(c) == /\ op[c].pc = "rejected"
                    /\ SetDiagnostic("stopped", "stopped")
                    /\ Goto(c, "unlock")
                    /\ UNCHANGED <<kind, config, shared, owned, worker, handle, starts>>

StartArm(c) == /\ op[c].pc = "arm"
               /\ stopRequested' = FALSE
               /\ Goto(c, "announce")
               /\ UNCHANGED <<kind, config, lifecycle, busy, owned, diag, worker, handle, starts>>

StartAnnounce(c) == /\ op[c].pc = "announce"
                    /\ diag' = [lifecycle |-> "running", transport |-> "awaiting", seen |-> FALSE]
                    /\ Goto(c, "run")
                    /\ UNCHANGED <<kind, config, shared, owned, worker, handle, starts>>

StartRun(c) == /\ op[c].pc = "run"
               /\ lifecycle' = "running"
               /\ Goto(c, "create")
               /\ UNCHANGED <<kind, config, busy, stopRequested, owned, diag, worker, handle, starts>>

(* Mutation: the operation ends before the handle is stored. *)
AfterCreateAtOnce == "unlock"

AfterCreate == IF kind.bounded THEN "unlock" ELSE "publish"

(* The host thread runs before `worker_ =` completes; the ESP task handle is *)
(* published under task_handle_mutex_, which the task needs to clear it.     *)
StartCreate(c) ==
  /\ op[c].pc = "create"
  /\ \/ /\ worker' = [worker EXCEPT !.pc = "test"]
        /\ handle' = kind.bounded
        /\ Goto(c, AfterCreate)
        /\ UNCHANGED stopRequested
     \/ /\ stopRequested' = TRUE
        /\ Goto(c, "release")
        /\ UNCHANGED <<worker, handle>>
  /\ UNCHANGED <<kind, config, lifecycle, busy, owned, diag, starts>>

StartPublish(c) == /\ op[c].pc = "publish"
                   /\ handle' = TRUE
                   /\ Goto(c, "unlock")
                   /\ UNCHANGED <<kind, config, shared, owned, diag, worker, starts>>

Start(c) == \/ StartBegin(c) \/ StartSource(c) \/ StartRejected(c) \/ StartArm(c)
            \/ StartAnnounce(c) \/ StartRun(c) \/ StartCreate(c) \/ StartPublish(c)

-----------------------------------------------------------------------------
(* stop() of a thread that is not the worker. *)

(* Mutation: a stop() that timed out refuses to be repeated. *)
StoppableOnce == lifecycle \in {"running", "faulted"}

Stoppable == ~(lifecycle = "stopped" /\ ownership = "none")

StopBegin(c) ==
  /\ Admitted(c) /\ Stoppable
  /\ busy' = TRUE /\ lifecycle' = "stopping"
  /\ op' = [op EXCEPT ![c].pc = "tellStopping",
                      ![c].call = IF ownership = "partial" THEN "stopPartial" ELSE "stop"]
  /\ UNCHANGED <<kind, config, stopRequested, owned, diag, worker, handle, starts>>

StopTell(c) == /\ op[c].pc = "tellStopping"
               /\ SetDiagnostic("stopping", "stopped")
               /\ Goto(c, IF op[c].call = "stop" THEN "request" ELSE "partial")
               /\ UNCHANGED <<kind, config, shared, owned, worker, handle, starts>>

(* Mutation: the worker is not told. *)
StopRequestNot(c) == /\ op[c].pc = "request"
                  /\ stopRequested' = stopRequested
                  /\ Goto(c, "release")
                  /\ UNCHANGED <<kind, config, lifecycle, busy, owned, diag, worker, handle, starts>>

StopRequest(c) == /\ op[c].pc = "request"
                  /\ stopRequested' = TRUE
                  /\ Goto(c, "release")
                  /\ UNCHANGED <<kind, config, lifecycle, busy, owned, diag, worker, handle, starts>>

StopJoin(c) == /\ op[c].pc = "join" /\ ~Alive
               /\ handle' = FALSE
               /\ Goto(c, "store")
               /\ UNCHANGED <<kind, config, shared, owned, diag, worker, starts>>

(* ESP only: the worker did not acknowledge within kMaximumWaitTicks. *)
StopExpire(c) == /\ op[c].pc = "join" /\ kind.bounded /\ Alive
                 /\ Goto(c, "unlock")
                 /\ UNCHANGED <<kind, config, shared, owned, diag, worker, handle, starts>>

Stop(c) == StopBegin(c) \/ StopTell(c) \/ StopRequest(c) \/ StopJoin(c) \/ StopExpire(c)

-----------------------------------------------------------------------------
(* ~Runtime(), by one thread while no other is inside an operation: it ignores what *)
(* the source answers, waits for the worker without a bound and tries once more if    *)
(* the source supports retries.                                                       *)
DestroyBegin(c) == /\ Idle(c) /\ \A d \in Caller : op[d].pc = "idle"
                   /\ stopRequested' = TRUE
                   /\ op' = [op EXCEPT ![c].pc = "destroy", ![c].call = "destroy"]
                   /\ UNCHANGED <<kind, config, lifecycle, busy, owned, diag, worker, handle, starts>>

Cleanup(c, next) == \/ ownership = "successful" /\ AttemptSourceStop(c, next)
                    \/ ownership = "partial" /\ AttemptPartialCleanup(c, next)

DestroyRelease(c) == /\ op[c].pc = "destroy"
                     /\ \/ Cleanup(c, "destroyJoin")
                        \/ ownership = "none" /\ Goto(c, "destroyJoin") /\ UNCHANGED owned
                     /\ UNCHANGED <<kind, config, shared, diag, worker, handle, starts>>

DestroyJoin(c) == /\ op[c].pc = "destroyJoin" /\ ~Alive
                  /\ handle' = FALSE
                  /\ Goto(c, "destroyRetry")
                  /\ UNCHANGED <<kind, config, shared, owned, diag, worker, starts>>

DestroyRetry(c) == /\ op[c].pc = "destroyRetry"
                   /\ \/ kind.retry /\ Cleanup(c, "destroyed")
                      \/ (~kind.retry \/ ownership = "none") /\ Goto(c, "destroyed") /\ UNCHANGED owned
                   /\ UNCHANGED <<kind, config, shared, diag, worker, handle, starts>>

Destroy(c) == DestroyBegin(c) \/ DestroyRelease(c) \/ DestroyJoin(c) \/ DestroyRetry(c)

-----------------------------------------------------------------------------
(* diagnostics(), by any thread, the observer's callbacks included: once a frame *)
(* was seen, any later look may find the silence timeout elapsed.                *)
Silent == lifecycle = "running" /\ diag.seen

Diagnostics == /\ ~Gone /\ Silent
               /\ diag' = [diag EXCEPT !.transport = "timedOut"]
               /\ UNCHANGED <<kind, config, shared, owned, op, worker, handle, starts>>

-----------------------------------------------------------------------------
(* run_loop(). *)
Step(from, to) == worker.pc = from /\ worker' = [worker EXCEPT !.pc = to]

Unchanged == UNCHANGED <<kind, config, busy, owned, op, starts>>

(* The tests of stop_requested_ in run_loop() and in budget_pause(). *)
WorkerTest ==
  /\ \/ Step("test", IF stopRequested THEN "leave" ELSE "receive")
     \/ Step("check", IF stopRequested THEN "recheck" ELSE "record")
     \/ Step("after", IF stopRequested THEN "recheck" ELSE "budget")
     \/ Step("recheck", IF stopRequested THEN "leave" ELSE "refresh")
     \/ Step("pause", IF stopRequested THEN "leave" ELSE "paused")
     \/ Step("paused", IF stopRequested THEN "leave" ELSE "test")
  /\ UNCHANGED <<lifecycle, stopRequested, diag, handle>> /\ Unchanged

(* The batch goes on, or ends; whether a pause follows shows after the refresh. *)
WorkerBudget == /\ Step("budget", "receive") \/ Step("budget", "recheck")
                /\ UNCHANGED <<lifecycle, stopRequested, diag, handle>> /\ Unchanged

WorkerReceive == /\ worker.pc = "receive"
                 /\ \E r \in Received : worker' = [pc |-> "check", got |-> r]
                 /\ UNCHANGED <<lifecycle, stopRequested, diag, handle>> /\ Unchanged

(* snapshot_and_update() *)
WorkerRecord ==
  /\ Step("record", "observe")
  /\ \/ /\ worker.got = "frame"
        /\ diag' = [diag EXCEPT !.transport = "live", !.seen = TRUE]
     \/ /\ worker.got = "badFrame"
        /\ diag' = [lifecycle |-> "faulted", transport |-> "faulted", seen |-> TRUE]
     \/ /\ worker.got = "silence"
        /\ \/ ~diag.seen /\ diag' = [diag EXCEPT !.transport = "awaiting"]
           \/ diag.seen /\ diag' = diag
           \/ Silent /\ diag' = [diag EXCEPT !.transport = "timedOut"]
     \/ /\ worker.got = "fault"
        /\ diag' = [diag EXCEPT !.lifecycle = "faulted", !.transport = "faulted"]
  /\ UNCHANGED <<lifecycle, stopRequested, handle>> /\ Unchanged

WorkerObserve ==
  /\ Step("observe", IF worker.got \in {"badFrame", "fault"} THEN "latch" ELSE "after")
  /\ UNCHANGED <<lifecycle, stopRequested, diag, handle>> /\ Unchanged

(* Mutation: only the diagnostics show the fault. *)
WorkerLatchNot == /\ Step("latch", "request")
               /\ lifecycle' = lifecycle
               /\ UNCHANGED <<stopRequested, diag, handle>> /\ Unchanged

WorkerLatch == /\ Step("latch", "request")
               /\ lifecycle' = "faulted"
               /\ UNCHANGED <<stopRequested, diag, handle>> /\ Unchanged

WorkerRequest == /\ Step("request", "after")
                 /\ stopRequested' = TRUE
                 /\ UNCHANGED <<lifecycle, diag, handle>> /\ Unchanged

WorkerRefresh == /\ Step("refresh", "test") \/ Step("refresh", "pause")
                 /\ \/ diag' = diag
                    \/ Silent /\ diag' = [diag EXCEPT !.transport = "timedOut"]
                 /\ UNCHANGED <<lifecycle, stopRequested, handle>> /\ Unchanged

(* task_entry() clears task_ first; a host thread stays joinable. *)
WorkerLeave == /\ Step("leave", "exit")
               /\ handle' = (handle /\ ~kind.bounded)
               /\ UNCHANGED <<lifecycle, stopRequested, diag>> /\ Unchanged

WorkerExit == /\ Step("exit", "none")
              /\ UNCHANGED <<lifecycle, stopRequested, diag, handle>> /\ Unchanged

Worker == \/ WorkerTest \/ WorkerBudget \/ WorkerReceive \/ WorkerRecord \/ WorkerObserve
          \/ WorkerLatch \/ WorkerRequest \/ WorkerRefresh \/ WorkerLeave \/ WorkerExit

-----------------------------------------------------------------------------
CallerStep(c) == Start(c) \/ Stop(c) \/ Settling(c) \/ Destroy(c) \/ Configure(c)
Next == Worker \/ Diagnostics \/ SourceFinishes \/ \E c \in Caller : CallerStep(c)
Spec == Init /\ [][Next]_vars

(* Every caller's operation goes on and the worker runs; what they wait for: a *)
(* receive() and the callbacks return, a source call returns.  No caller has   *)
(* to begin an operation.                                                      *)
Advance(c) == \/ Settling(c) \/ StopTell(c) \/ StopRequest(c) \/ StopJoin(c)
              \/ StartSource(c) \/ StartRejected(c) \/ StartArm(c) \/ StartAnnounce(c)
              \/ StartRun(c) \/ StartCreate(c) \/ StartPublish(c)
              \/ DestroyRelease(c) \/ DestroyJoin(c) \/ DestroyRetry(c)

Progress == WF_vars(Worker) /\ \A c \in Caller : WF_vars(Advance(c))

FairSpec == Spec /\ Progress

(* A caller that stops again until the runtime is stopped, a source that supports *)
(* retries and does not refuse for ever, and nobody who destroys the runtime.     *)
SourceReleases == \E c \in Caller : (Release(c) \/ Partial(c)) /\ op'[c].got = "ok"

Retried == /\ \E c \in Caller : SF_vars(StopBegin(c))
           /\ SF_vars(SourceReleases)
           /\ kind.retry /\ []~Gone

-----------------------------------------------------------------------------
TypeOK ==
  /\ kind \in Kinds /\ config \in Configs
  /\ lifecycle \in LifecycleState /\ busy \in BOOLEAN /\ stopRequested \in BOOLEAN
  /\ ownership \in {"none", "successful", "partial"}
  /\ stopCalled \in BOOLEAN /\ attempts \in 0..2 /\ stopResult \in Result
  /\ diag \in [lifecycle : LifecycleState, transport : Transport, seen : BOOLEAN]
  /\ op \in [Caller -> [pc : StartPc \cup StopPc \cup CommonPc \cup DestroyPc,
                        call : {"none", "start", "stop", "stopPartial", "destroy"},
                        got : Result, final : {"stopped", "faulted"}]]
  /\ worker \in [pc : WorkerPc, got : Received]
  /\ handle \in BOOLEAN /\ source \in {"idle", "held"}
  /\ stopsLeft \in Int /\ starts \in 0..MaxStarts

(* One start, stop or destruction at a time, and a start has the source, the    *)
(* processor and the thread handle to itself until it creates the worker:       *)
(* processor_->reset() never meets a process() of an earlier worker.            *)
OneOperation ==
  /\ \A c, d \in Caller : Operating(c) /\ Operating(d) => c = d
  /\ \A c \in Caller : op[c].pc \in StartPc \ {"publish"} => ~Alive /\ ~handle

(* When lifecycle() says Stopped and no operation is running, everything a start *)
(* presumes is true: no worker, nothing owned, the handle may be assigned (a     *)
(* joinable std::thread would terminate the program), the diagnostics agree, and *)
(* a source that supports retries was really released.                           *)
StoppedIsQuiet ==
  lifecycle = "stopped" /\ ~busy =>
    /\ ~Alive /\ ~handle /\ ownership = "none"
    /\ diag.lifecycle = "stopped" /\ diag.transport = "stopped"
    /\ kind.retry => source = "idle"

(* While lifecycle() says Running a worker serves the source: a worker gives up *)
(* only after the state that tells so is visible.                               *)
RunningIsServed ==
  lifecycle = "running" /\ ~busy /\ ~Gone => worker.pc \notin {"none", "leave", "exit"}

(* The contract of receive.hpp:27-34: stop() at most once for a successful start *)
(* and twice for a failed one, once if the source supports retry_stop(), never   *)
(* for a start the source rejected; timeouts, retries and destruction included.  *)
StopsAllowed == stopsLeft >= 0

(* A callback that calls stop() is told InvalidState or Stopping; it never goes on *)
(* to wait for its own thread, even if it runs before start() stored the handle.   *)
SelfStopRefused == worker.pc = "observe" => handle \/ busy

(* config_ is read by the worker without a lock: it never changes under one. *)
ConfigFixed == [][Alive => UNCHANGED config]_vars

(* stop() returns: the worker always comes to a test of stop_requested_. *)
StopReturns == \A c \in Caller : op[c].pc = "tellStopping" ~> op[c].pc = "idle"

(* With a source that supports retries a faulted or half-stopped runtime reaches    *)
(* Stopped if one caller repeats stop(), whatever the other callers do in between.  *)
RetriedStopCompletes == Retried => (lifecycle \in {"faulted", "stopping"} ~> lifecycle = "stopped")

(* docs/guides/arduino-synthetic-harness.md:59: "Injected receive Fault produces *)
(* Faulted lifecycle and transport."                                             *)
FaultShowsInTransport ==
  lifecycle = "faulted" /\ diag.lifecycle = "faulted" /\ worker.got = "fault"
    => diag.transport = "faulted"
=============================================================================
