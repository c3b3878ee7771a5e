---- MODULE CanBus ----
(***************************************************************************)
(* The acquisition singleton (can_bus.cpp, lifecycle.hpp): start(), stop() *)
(* and receive(), the receive task, the two semaphores, and the ring as an *)
(* atomic bounded queue (FrameRing implements one; see BoundedFifo).       *)
(*                                                                         *)
(* Threads: one caller of start() and stop() (the calls are serialized by  *)
(* contract), the task of each run, one consumer, which calls receive() at *)
(* any time except during start() ("stop that consumer before restarting   *)
(* acquisition").  Every access to a shared atomic, semaphore or the TWAI  *)
(* driver that another thread can tell apart is a step.                    *)
(*                                                                         *)
(* The caller's program counter ctl names the next step of start/stop.     *)
(* The statistics counters are left to FrameRing.                          *)
(***************************************************************************)
EXTENDS Integers, Sequences, FiniteSets

CONSTANTS Capacity,   \* kQueueCapacity: ring slots and maximum of g_available
          MaxStarts   \* bound: receive tasks created in a behaviour

ASSUME CapacityAssumption  == Capacity \in Nat \ {0}
ASSUME MaxStartsAssumption == MaxStarts \in Nat

Task == 1..MaxStarts   \* a task is the number of its run

VARIABLES
  state, installed, started, owned,   \* LifecycleController
  requested,                          \* g_receive_requested
  available,                          \* g_available: a counting semaphore
  exited,                             \* g_task_stopped: a binary semaphore
  ring,                               \* g_frames: the run that received each frame
  created,                            \* the semaphores exist
  twai,                               \* the external driver
  task, run,                          \* program counter per task; tasks created
  consumer,                           \* program counter of receive()
  ctl, op, taskStopped, target,       \* program counter and locals of start/stop
  outcome                             \* what the last completed start/stop returned

controller == <<state, installed, started, owned>>
semaphores == <<available, exited, created>>
caller     == <<ctl, op, taskStopped, target, outcome>>
vars == <<controller, requested, semaphores, ring, twai, task, run, consumer, caller>>

Init ==
  /\ state = "Stopped" /\ installed = FALSE /\ started = FALSE /\ owned = FALSE
  /\ requested = FALSE
  /\ available = 0 /\ exited = 0 /\ created = FALSE
  /\ ring = <<>>
  /\ twai = "none"
  /\ task = [t \in Task |-> "none"] /\ run = 0
  /\ consumer = "idle"
  /\ ctl = "idle" /\ op = "none" /\ taskStopped = FALSE /\ target = "Stopped"
  /\ outcome = "none"

\* Mutation: a semaphore without a maximum.
GiveUnbounded == available' = available + 1

\* xSemaphoreGive(g_available): a counting semaphore stays at its maximum.
GiveAvailable == available' = IF available < Capacity THEN available + 1 ELSE available

CtlStep(from, to) == ctl = from /\ ctl' = to

\* start() or stop() returns.
Return(result) == ctl' = "idle" /\ op' = "none" /\ outcome' = result

-----------------------------------------------------------------------------
(* start_with_ownership.  Invalid configurations and every state but Stopped *)
(* are rejected without a change.                                            *)

\* begin_start
StartBegin ==
  /\ ctl = "idle" /\ consumer = "idle"
  /\ state = "Stopped"
  /\ state' = "Running"
  /\ ctl' = "prepare" /\ op' = "start" /\ outcome' = "none"
  /\ UNCHANGED <<installed, started, owned, requested, semaphores, ring, twai, task, run,
                 consumer, taskStopped, target>>

AbortStart == state' = IF ~installed /\ ~owned THEN "Stopped" ELSE state

\* Create the semaphores, then drain g_available.
StartPrepare ==
  /\ ctl = "prepare"
  /\ \/ /\ ~created
        /\ AbortStart
        /\ Return("StartRefused")
        /\ UNCHANGED <<available, created>>
     \/ /\ created' = TRUE
        /\ available' = 0
        /\ ctl' = "drain"
        /\ UNCHANGED <<state, op, outcome>>
  /\ UNCHANGED <<installed, started, owned, requested, exited, ring, twai, task, run,
                 consumer, taskStopped, target>>

\* Mutation: g_task_stopped is not drained.
StartKeepsToken ==
  /\ CtlStep("drain", "install")
  /\ UNCHANGED exited
  /\ UNCHANGED <<controller, requested, available, created, ring, twai, task, run, consumer,
                 op, taskStopped, target, outcome>>

\* Drain g_task_stopped.
StartDrain ==
  /\ CtlStep("drain", "install")
  /\ exited' = 0
  /\ UNCHANGED <<controller, requested, available, created, ring, twai, task, run, consumer,
                 op, taskStopped, target, outcome>>

StartInstall ==
  /\ ctl = "install"
  /\ \/ /\ twai = "none" /\ twai' = "stopped"
        /\ installed' = TRUE
        /\ ctl' = "startDriver"
        /\ UNCHANGED <<state, op, outcome>>
     \/ /\ AbortStart
        /\ Return("StartRefused")
        /\ UNCHANGED <<twai, installed>>
  /\ UNCHANGED <<started, owned, requested, semaphores, ring, task, run, consumer,
                 taskStopped, target>>

StartDriver ==
  /\ ctl = "startDriver"
  /\ \/ /\ twai = "stopped" /\ twai' = "running"
        /\ started' = TRUE
        /\ ctl' = "clear"
     \/ /\ ctl' = "undoInstall"
        /\ UNCHANGED <<twai, started>>
  /\ UNCHANGED <<state, installed, owned, requested, semaphores, ring, task, run, consumer,
                 op, taskStopped, target, outcome>>

\* twai_driver_uninstall succeeds on a driver that is installed and stopped.
Uninstall ==
  /\ twai = "stopped" /\ twai' = "none"
  /\ installed' = FALSE

\* twai_stop succeeds on a running driver.
StopTwai ==
  /\ twai = "running" /\ twai' = "stopped"
  /\ started' = FALSE

StartUndoInstall ==
  /\ CtlStep("undoInstall", "reconcile")
  /\ \/ Uninstall /\ outcome' = "StartRefused"
     \/ outcome' = "StartFailed" /\ UNCHANGED <<twai, installed>>
  /\ UNCHANGED <<state, started, owned, requested, semaphores, ring, task, run, consumer,
                 op, taskStopped, target>>

StartClear ==
  /\ CtlStep("clear", "arm")
  /\ ring' = <<>>
  /\ UNCHANGED <<controller, requested, semaphores, twai, task, run, consumer,
                 op, taskStopped, target, outcome>>

\* mark_task_created precedes xTaskCreate.
StartArm ==
  /\ CtlStep("arm", "create")
  /\ requested' = TRUE
  /\ owned' = TRUE
  /\ UNCHANGED <<state, installed, started, semaphores, ring, twai, task, run, consumer,
                 op, taskStopped, target, outcome>>

StartCreate ==
  /\ ctl = "create"
  /\ \/ /\ run < MaxStarts
        /\ run' = run + 1
        /\ task' = [task EXCEPT ![run + 1] = "test"]
        /\ Return("Started")
        /\ UNCHANGED <<state, owned, requested>>
     \/ /\ requested' = FALSE
        /\ owned' = FALSE
        /\ state' = IF state = "Stopped" THEN state ELSE "Stopping"   \* begin_stop
        /\ ctl' = "undoStart"
        /\ UNCHANGED <<run, task, op, outcome>>
  /\ UNCHANGED <<installed, started, semaphores, ring, twai, consumer, taskStopped, target>>

StartUndoStart ==
  /\ ctl = "undoStart"
  /\ \/ StopTwai /\ ctl' = "undoInstall" /\ UNCHANGED outcome
     \/ ctl' = "reconcile" /\ outcome' = "StartFailed" /\ UNCHANGED <<twai, started>>
  /\ UNCHANGED <<state, installed, owned, requested, semaphores, ring, task, run, consumer,
                 op, taskStopped, target>>

-----------------------------------------------------------------------------
(* stop.  On a stopped bus it returns kNotStarted and changes nothing. *)

\* Mutation: a stop that is in progress rejects the retry.
StopBeginOnce ==
  /\ ctl = "idle" /\ state \in {"Running", "Faulted"}
  /\ state' = "Stopping"
  /\ ctl' = "cancel" /\ op' = "stop" /\ outcome' = "none" /\ taskStopped' = FALSE
  /\ UNCHANGED <<installed, started, owned, requested, semaphores, ring, twai, task, run,
                 consumer, target>>

\* begin_stop
StopBegin ==
  /\ ctl = "idle" /\ state # "Stopped"
  /\ state' = "Stopping"
  /\ ctl' = "cancel" /\ op' = "stop" /\ outcome' = "none" /\ taskStopped' = FALSE
  /\ UNCHANGED <<installed, started, owned, requested, semaphores, ring, twai, task, run,
                 consumer, target>>

StopCancel ==
  /\ CtlStep("cancel", "stopDriver")
  /\ requested' = FALSE
  /\ UNCHANGED <<controller, semaphores, ring, twai, task, run, consumer,
                 op, taskStopped, target, outcome>>

\* A driver that is not started, or a twai_stop() that fails, changes nothing.
StopDriver ==
  /\ CtlStep("stopDriver", "look")
  /\ \/ started /\ StopTwai
     \/ UNCHANGED <<twai, started>>
  /\ UNCHANGED <<state, installed, owned, requested, semaphores, ring, task, run, consumer,
                 op, taskStopped, target, outcome>>

\* task_stopped = !task_owned()
StopLook ==
  /\ CtlStep("look", IF owned THEN "wait" ELSE "takeExited")
  /\ UNCHANGED <<controller, requested, semaphores, ring, twai, task, run, consumer,
                 op, taskStopped, target, outcome>>

\* Wait for g_task_stopped; 100 ms may pass without it.
StopWait ==
  /\ CtlStep("wait", "uninstall")
  /\ \/ exited = 1 /\ exited' = 0 /\ owned' = FALSE /\ taskStopped' = TRUE
     \/ exited = 0 /\ UNCHANGED <<exited, owned, taskStopped>>
  /\ UNCHANGED <<state, installed, started, requested, available, created, ring, twai, task,
                 run, consumer, op, target, outcome>>

\* The task acknowledged already: take its token if it is there.
StopTakeExited ==
  /\ CtlStep("takeExited", "uninstall")
  /\ exited' = 0
  /\ taskStopped' = TRUE
  /\ UNCHANGED <<controller, requested, available, created, ring, twai, task, run, consumer,
                 op, target, outcome>>

\* Mutation: the driver is released although the wait expired.
StopUninstallAnyway ==
  /\ CtlStep("uninstall", "reconcile")
  /\ \/ ~started /\ installed /\ Uninstall
     \/ UNCHANGED <<twai, installed>>
  /\ UNCHANGED <<state, started, owned, requested, semaphores, ring, task, run, consumer,
                 op, taskStopped, target, outcome>>

StopUninstall ==
  /\ CtlStep("uninstall", "reconcile")
  /\ \/ ~started /\ taskStopped /\ installed /\ Uninstall
     \/ UNCHANGED <<twai, installed>>
  /\ UNCHANGED <<state, started, owned, requested, semaphores, ring, task, run, consumer,
                 op, taskStopped, target, outcome>>

\* Mutation: driver ownership is forgotten.
ReconcileTaskOnly ==
  /\ CtlStep("reconcile", "settle")
  /\ target' = IF owned THEN "Stopping" ELSE "Stopped"
  /\ UNCHANGED <<controller, requested, semaphores, ring, twai, task, run, consumer,
                 op, taskStopped, outcome>>

\* reconcile reads the ownership, then stores the state.
Reconcile ==
  /\ CtlStep("reconcile", "settle")
  /\ target' = IF owned THEN "Stopping" ELSE IF installed THEN "Faulted" ELSE "Stopped"
  /\ UNCHANGED <<controller, requested, semaphores, ring, twai, task, run, consumer,
                 op, taskStopped, outcome>>

Settle ==
  /\ ctl = "settle"
  /\ state' = target
  /\ \/ op = "start" /\ Return(outcome)
     \/ op = "stop" /\ ctl' = "finish" /\ UNCHANGED <<op, outcome>>
  /\ UNCHANGED <<installed, started, owned, requested, semaphores, ring, twai, task, run,
                 consumer, taskStopped, target>>

StopFinish ==
  /\ ctl = "finish"
  /\ IF ~started /\ taskStopped /\ ~installed
     THEN available' = 0 /\ Return("StopOk")
     ELSE Return("StopFailed") /\ UNCHANGED available
  /\ UNCHANGED <<controller, requested, exited, created, ring, twai, task, run, consumer,
                 taskStopped, target>>

-----------------------------------------------------------------------------
(* receive_task; twai_receive, twai_get_status_info and twai_read_alerts may *)
(* return anything.                                                          *)

TaskStep(t, from, to) == task[t] = from /\ task' = [task EXCEPT ![t] = to]

TaskTest(t) ==
  /\ TaskStep(t, "test", IF requested THEN "receive" ELSE "acknowledge")
  /\ UNCHANGED <<controller, requested, semaphores, ring, twai, run, consumer, caller>>

\* Mutation: a token is given for a dropped frame too.
TaskReceiveGives(t) ==
  /\ \/ /\ Len(ring) < Capacity
        /\ ring' = Append(ring, t)
        /\ TaskStep(t, "receive", "give")
     \/ /\ Len(ring) = Capacity
        /\ TaskStep(t, "receive", "give")
        /\ UNCHANGED ring
     \/ TaskStep(t, "receive", "poll") /\ UNCHANGED ring
     \/ TaskStep(t, "receive", "fault") /\ UNCHANGED ring
  /\ UNCHANGED <<controller, requested, semaphores, twai, run, consumer, caller>>

\* A frame is pushed (the newest is dropped when the ring is full); nothing or
\* an invalid frame came; or the driver failed.
TaskReceive(t) ==
  /\ \/ /\ Len(ring) < Capacity
        /\ ring' = Append(ring, t)
        /\ TaskStep(t, "receive", "give")
     \/ TaskStep(t, "receive", "poll") /\ UNCHANGED ring
     \/ TaskStep(t, "receive", "fault") /\ UNCHANGED ring
  /\ UNCHANGED <<controller, requested, semaphores, twai, run, consumer, caller>>

TaskGive(t) ==
  /\ TaskStep(t, "give", "poll")
  /\ GiveAvailable
  /\ UNCHANGED <<controller, requested, exited, created, ring, twai, run, consumer, caller>>

\* collect_driver_status and collect_alerts
TaskPoll(t) ==
  /\ \E next \in {"test", "fault"} : TaskStep(t, "poll", next)
  /\ UNCHANGED <<controller, requested, semaphores, ring, twai, run, consumer, caller>>

\* latch_terminal_fault: clear the request, latch, wake the consumer.
TaskFault(t) ==
  /\ TaskStep(t, "fault", "latch")
  /\ requested' = FALSE
  /\ UNCHANGED <<controller, semaphores, ring, twai, run, consumer, caller>>

\* Mutation: the latched fault gives no token.
TaskLatchSilently(t) ==
  /\ IF state \in {"Faulted", "Stopped"}
     THEN TaskStep(t, "latch", "acknowledge") /\ UNCHANGED state
     ELSE TaskStep(t, "latch", "acknowledge") /\ state' = "Faulted"
  /\ UNCHANGED <<installed, started, owned, requested, semaphores, ring, twai, run, consumer,
                 caller>>

TaskLatch(t) ==
  /\ IF state \in {"Faulted", "Stopped"}
     THEN TaskStep(t, "latch", "acknowledge") /\ UNCHANGED state
     ELSE TaskStep(t, "latch", "wake") /\ state' = "Faulted"
  /\ UNCHANGED <<installed, started, owned, requested, semaphores, ring, twai, run, consumer,
                 caller>>

TaskWake(t) ==
  /\ TaskStep(t, "wake", "acknowledge")
  /\ GiveAvailable
  /\ UNCHANGED <<controller, requested, exited, created, ring, twai, run, consumer, caller>>

TaskAcknowledge(t) ==
  /\ TaskStep(t, "acknowledge", "signal")
  /\ owned' = FALSE
  /\ UNCHANGED <<state, installed, started, requested, semaphores, ring, twai, run, consumer,
                 caller>>

TaskSignal(t) ==
  /\ TaskStep(t, "signal", "gone")
  /\ exited' = 1
  /\ UNCHANGED <<controller, requested, available, created, ring, twai, run, consumer, caller>>

-----------------------------------------------------------------------------
(* receive.  Its result is determined by the state it reads, or by the ring; *)
(* when the first look at the state is not Running it returns at once.       *)

ConsumerStep(from, to) == consumer = from /\ consumer' = to

ReceiveBegin ==
  /\ op # "start" /\ state = "Running"
  /\ ConsumerStep("idle", "take")
  /\ UNCHANGED <<controller, requested, semaphores, ring, twai, task, run, caller>>

ReceiveTake ==
  /\ available > 0
  /\ ConsumerStep("take", "check")
  /\ available' = available - 1
  /\ UNCHANGED <<controller, requested, exited, created, ring, twai, task, run, caller>>

\* The wait expires: kTimeout, or the state if it is no longer Running.
ReceiveExpire ==
  /\ available = 0
  /\ ConsumerStep("take", "idle")
  /\ UNCHANGED <<controller, requested, semaphores, ring, twai, task, run, caller>>

\* Mutation: the state is not checked after the token was taken.
ReceiveCheckNot ==
  /\ ConsumerStep("check", "pop")
  /\ UNCHANGED <<controller, requested, semaphores, ring, twai, task, run, caller>>

ReceiveCheck ==
  /\ ConsumerStep("check", IF state = "Running" THEN "pop" ELSE "idle")
  /\ UNCHANGED <<controller, requested, semaphores, ring, twai, task, run, caller>>

\* kOk, or kDriverFailure if the ring turns out empty.
ReceivePop ==
  /\ ConsumerStep("pop", "idle")
  /\ ring' = IF ring = <<>> THEN ring ELSE Tail(ring)
  /\ UNCHANGED <<controller, requested, semaphores, twai, task, run, caller>>

-----------------------------------------------------------------------------
Start == \/ StartPrepare \/ StartDrain \/ StartInstall \/ StartDriver \/ StartUndoInstall
         \/ StartClear \/ StartArm \/ StartCreate \/ StartUndoStart
Stop  == \/ StopCancel \/ StopDriver \/ StopLook \/ StopWait \/ StopTakeExited
         \/ StopUninstall \/ StopFinish

TaskNext(t) ==
  \/ TaskTest(t) \/ TaskReceive(t) \/ TaskGive(t) \/ TaskPoll(t) \/ TaskFault(t)
  \/ TaskLatch(t) \/ TaskWake(t) \/ TaskAcknowledge(t) \/ TaskSignal(t)

Receive == ReceiveBegin \/ ReceiveTake \/ ReceiveExpire \/ ReceiveCheck \/ ReceivePop

Next ==
  \/ StartBegin \/ Start
  \/ StopBegin \/ Stop
  \/ Reconcile \/ Settle
  \/ \E t \in Task : TaskNext(t)
  \/ Receive

Spec == Init /\ [][Next]_vars

(***************************************************************************)
(* The receive task acknowledges its exit and only then gives              *)
(* g_task_stopped.  stop() and a following start() may fall between the    *)
(* two, unless the task runs on promptly: the scheduling assumption is     *)
(* that it gives the semaphore before a later start() drains it.  The task *)
(* has the second highest priority, but nothing in the code enforces this. *)
(***************************************************************************)
TokenBeforeRestart ==
  ctl = "drain" /\ ctl' # "drain" => \A t \in Task : task[t] # "signal"

PromptSpec == Init /\ [][Next /\ TokenBeforeRestart]_vars

\* Tasks and lifecycle calls run on; the caller retries stop() until the bus
\* is stopped; and the driver does not refuse to stop, or to uninstall, forever.
RetryFairness ==
  /\ \A t \in Task : WF_vars(TaskNext(t))
  /\ WF_vars(Start \/ Stop \/ Reconcile \/ Settle)
  /\ WF_vars(StopBegin)
  /\ SF_vars(StopDriver /\ StopTwai)
  /\ SF_vars(StopUninstall /\ Uninstall)

RetrySpec == PromptSpec /\ RetryFairness

-----------------------------------------------------------------------------
(* Properties *)

TypeOK ==
  /\ state \in {"Stopped", "Running", "Stopping", "Faulted"}
  /\ installed \in BOOLEAN /\ started \in BOOLEAN /\ owned \in BOOLEAN
  /\ requested \in BOOLEAN /\ created \in BOOLEAN
  /\ available \in 0..Capacity /\ exited \in 0..1
  /\ ring \in Seq(Task) /\ Len(ring) <= Capacity
  /\ twai \in {"none", "stopped", "running"}
  /\ task \in [Task -> {"none", "test", "receive", "give", "poll", "fault", "latch", "wake",
                        "acknowledge", "signal", "gone"}]
  /\ run \in 0..MaxStarts
  /\ consumer \in {"idle", "take", "check", "pop"}
  /\ ctl \in {"idle", "prepare", "drain", "install", "startDriver", "undoInstall", "clear",
              "arm", "create", "undoStart", "cancel", "stopDriver", "look", "wait",
              "takeExited", "uninstall", "reconcile", "settle", "finish"}
  /\ op \in {"none", "start", "stop"}
  /\ taskStopped \in BOOLEAN
  /\ target \in {"Stopped", "Stopping", "Faulted"}
  /\ outcome \in {"none", "StartRefused", "StartFailed", "Started", "StopOk", "StopFailed"}

\* The task of run t may still call the driver, push frames or latch a fault.
Alive(t) == task[t] \notin {"none", "signal", "gone"}

\* "One acquisition task produces frames": the ring and the driver have a
\* single task at any time, through failed stops, timeouts, faults, retries.
OneAcquisitionTask == \A t, u \in Task : Alive(t) /\ Alive(u) => t = u

\* The driver is not uninstalled under a task that may still call it: stop()
\* waits for the task, which "clears ownership before giving this semaphore".
DriverOutlivesTask == (\E t \in Task : Alive(t)) => twai # "none"

\* Stopped means restartable: no driver, no task, whichever way it was reached.
Released == twai = "none" /\ ~installed /\ ~started /\ ~owned /\ \A t \in Task : ~Alive(t)

\* What start() and stop() return tells who must clean up: after an outcome
\* without cleanup, and after a kOk stop, nothing is left; after a failure
\* with cleanup the bus is not Stopped, so that stop() will act when retried.
OutcomeTellsOwnership ==
  ctl = "idle" =>
    /\ outcome \in {"StartRefused", "StopOk"} => state = "Stopped"
    /\ state = "Stopped" => Released
    /\ outcome \in {"StartFailed", "StopFailed"} => state # "Stopped" /\ twai # "none"

\* While the bus runs every frame in the ring has one token: in g_available,
\* in the hands of the consumer, or about to be given.
InHand == (IF consumer \in {"check", "pop"} THEN 1 ELSE 0)
        + Cardinality({t \in Task : task[t] = "give"})

TokenPerFrame == state = "Running" /\ ctl = "idle" => Len(ring) = available + InHand

\* A consumer that took a token and then found the bus Running finds a frame of
\* this run in the ring (receive() does not return kDriverFailure), although a
\* stop, a fault or a drain may come in between.
NoEmptyWakeup == consumer = "pop" => ring # <<>> /\ Head(ring) = run

\* A consumer blocked in receive() when the task latches a fault has a token
\* to wake it, unless stop() was called: "emits one consumer wakeup".
FaultWakesConsumer ==
  outcome = "Started" /\ state = "Faulted" /\ consumer = "take"
    => available > 0 \/ \E t \in Task : task[t] = "wake"

\* A stop or a start that failed leaves nothing that a retried stop() cannot
\* clean up, also when the task leaves, or latches a fault, during reconcile().
CleanupCompletes == outcome \in {"StartFailed", "StopFailed"} ~> state = "Stopped"
====
