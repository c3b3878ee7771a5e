---- MODULE CanBusProofs ----
(***************************************************************************)
(* Theorems about CanBus under the scheduling assumption of PromptSpec,    *)
(* for every capacity of the ring and every number of runs.                *)
(***************************************************************************)
EXTENDS CanBus, TLAPS, FiniteSetTheorems

(***************************************************************************)
(* The inductive invariant.  stop() decides from task_owned and from the   *)
(* token of g_task_stopped whether the task is gone, so the invariant says *)
(* what each of them means at every step of start and stop.                *)
(***************************************************************************)
StartOnly == {"prepare", "drain", "install", "startDriver", "undoInstall", "clear", "arm",
              "create", "undoStart"}
StopOnly  == {"cancel", "stopDriver", "look", "wait", "takeExited", "uninstall", "finish"}

\* The program counter of start/stop and the operation in progress agree.
Calls ==
  /\ op = "none" <=> ctl = "idle"
  /\ ctl \in StartOnly => op = "start"
  /\ ctl \in StopOnly  => op = "stop"

\* Only the task of the latest run may not be gone; start() runs without a
\* task, and past its drain without the token of one.
Tasks ==
  /\ \A t \in Task : t > run => task[t] = "none"
  /\ \A t \in Task : t < run => task[t] = "gone"
  /\ \A t \in Task : t = run => task[t] # "none"
  /\ op = "start" => \A t \in Task : ~Alive(t)
  /\ op = "start" /\ ctl \notin {"prepare", "drain"}
       => exited = 0 /\ \A t \in Task : task[t] # "signal"

\* The token of g_task_stopped is that of a task that is gone.
Token == exited = 1 => \A t \in Task : task[t] \in {"none", "gone"}

\* The flags of the LifecycleController mean what they say.
Ownership ==
  /\ installed <=> twai # "none"
  /\ started <=> twai = "running"
  /\ owned => installed
  /\ \A t \in Task : Alive(t) => owned

\* Progress of start: what it has acquired so far.
Starting ==
  /\ ctl \in {"prepare", "drain", "install"} => ~installed
  /\ ctl \in {"startDriver", "undoInstall", "clear", "arm", "create", "undoStart"} => installed
  /\ op = "start" => (owned <=> ctl = "create")
  /\ op = "start" /\ ctl \in {"reconcile", "settle"} =>
       \/ outcome = "StartRefused" /\ ~installed
       \/ outcome = "StartFailed" /\ installed

\* Progress of stop: it believes the task gone only when it is.
Stopping ==
  /\ ctl \in {"cancel", "stopDriver", "look", "wait", "takeExited"} => ~taskStopped
  /\ ctl = "takeExited" => ~owned
  /\ op = "stop" /\ ctl \in {"uninstall", "reconcile", "settle", "finish"} =>
       IF taskStopped THEN ~owned ELSE installed
  /\ ctl = "wait" => installed

\* The lifecycle state, at rest and while reconcile() is about to store it.
States ==
  /\ state = "Stopped" => ctl \in {"idle", "finish"} /\ ~installed
  /\ ctl = "settle" => (target = "Stopped" => ~installed)
  /\ ctl = "settle" /\ ~owned /\ ~installed => target = "Stopped"
  /\ ctl = "finish" /\ ~installed => state = "Stopped"
  /\ ctl = "idle" /\ outcome \in {"StartRefused", "StopOk"} => state = "Stopped"
  /\ ctl = "idle" /\ outcome \in {"StartFailed", "StopFailed"} => installed

IInv == Calls /\ Tasks /\ Token /\ Ownership /\ Starting /\ Stopping /\ States

-----------------------------------------------------------------------------
(* Type correctness; the Boolean variables first. *)

Flags ==
  /\ installed \in BOOLEAN /\ started \in BOOLEAN /\ owned \in BOOLEAN
  /\ requested \in BOOLEAN /\ created \in BOOLEAN /\ taskStopped \in BOOLEAN

LEMMA FlagsStep == Flags /\ [Next]_vars => Flags'
<1> SUFFICES ASSUME Flags, [Next]_vars PROVE Flags'
  OBVIOUS
<1> USE DEF Flags, controller, semaphores, caller
<1>1. CASE StartBegin
  BY <1>1, Zenon DEF StartBegin
<1>2. CASE StartPrepare
  BY <1>2, Zenon DEF StartPrepare, AbortStart, Return
<1>3. CASE StartDrain
  BY <1>3, Zenon DEF StartDrain, CtlStep
<1>4. CASE StartInstall
  BY <1>4, Zenon DEF StartInstall, AbortStart, Return
<1>5. CASE StartDriver
  BY <1>5, Zenon DEF StartDriver
<1>6. CASE StartUndoInstall
  BY <1>6, Zenon DEF StartUndoInstall, CtlStep, Uninstall
<1>7. CASE StartClear
  BY <1>7, Zenon DEF StartClear, CtlStep
<1>8. CASE StartArm
  BY <1>8, Zenon DEF StartArm, CtlStep
<1>9. CASE StartCreate
  BY <1>9, Zenon DEF StartCreate, Return
<1>10. CASE StartUndoStart
  BY <1>10, Zenon DEF StartUndoStart, StopTwai
<1>11. CASE StopBegin
  BY <1>11, Zenon DEF StopBegin
<1>12. CASE StopCancel
  BY <1>12, Zenon DEF StopCancel, CtlStep
<1>13. CASE StopDriver
  BY <1>13, Zenon DEF StopDriver, CtlStep, StopTwai
<1>14. CASE StopLook
  BY <1>14, Zenon DEF StopLook, CtlStep
<1>15. CASE StopWait
  BY <1>15, Zenon DEF StopWait, CtlStep
<1>16. CASE StopTakeExited
  BY <1>16, Zenon DEF StopTakeExited, CtlStep
<1>17. CASE StopUninstall
  BY <1>17, Zenon DEF StopUninstall, CtlStep, Uninstall
<1>18. CASE StopFinish
  BY <1>18, Zenon DEF StopFinish, Return
<1>19. CASE Reconcile
  BY <1>19, Zenon DEF Reconcile, CtlStep
<1>20. CASE Settle
  BY <1>20, Zenon DEF Settle, Return
<1>21. ASSUME NEW t \in Task, TaskTest(t) PROVE Flags'
  BY <1>21, Zenon DEF TaskTest, TaskStep
<1>22. ASSUME NEW t \in Task, TaskReceive(t) PROVE Flags'
  BY <1>22, Zenon DEF TaskReceive, TaskStep
<1>23. ASSUME NEW t \in Task, TaskGive(t) PROVE Flags'
  BY <1>23, Zenon DEF TaskGive, TaskStep, GiveAvailable
<1>24. ASSUME NEW t \in Task, TaskPoll(t) PROVE Flags'
  BY <1>24, Zenon DEF TaskPoll, TaskStep
<1>25. ASSUME NEW t \in Task, TaskFault(t) PROVE Flags'
  BY <1>25, Zenon DEF TaskFault, TaskStep
<1>26. ASSUME NEW t \in Task, TaskLatch(t) PROVE Flags'
  BY <1>26, Zenon DEF TaskLatch, TaskStep
<1>27. ASSUME NEW t \in Task, TaskWake(t) PROVE Flags'
  BY <1>27, Zenon DEF TaskWake, TaskStep, GiveAvailable
<1>28. ASSUME NEW t \in Task, TaskAcknowledge(t) PROVE Flags'
  BY <1>28, Zenon DEF TaskAcknowledge, TaskStep
<1>29. ASSUME NEW t \in Task, TaskSignal(t) PROVE Flags'
  BY <1>29, Zenon DEF TaskSignal, TaskStep
<1>30. CASE ReceiveBegin
  BY <1>30, Zenon DEF ReceiveBegin, ConsumerStep
<1>31. CASE ReceiveTake
  BY <1>31, Zenon DEF ReceiveTake, ConsumerStep
<1>32. CASE ReceiveExpire
  BY <1>32, Zenon DEF ReceiveExpire, ConsumerStep
<1>33. CASE ReceiveCheck
  BY <1>33, Zenon DEF ReceiveCheck, ConsumerStep
<1>34. CASE ReceivePop
  BY <1>34, Zenon DEF ReceivePop, ConsumerStep
<1>35. CASE UNCHANGED vars
  BY <1>35 DEF vars
<1> QED
  BY <1>1, <1>2, <1>3, <1>4, <1>5, <1>6, <1>7, <1>8, <1>9, <1>10, <1>11, <1>12, <1>13, <1>14, <1>15,
     <1>16, <1>17, <1>18, <1>19, <1>20, <1>21, <1>22, <1>23, <1>24, <1>25, <1>26, <1>27, <1>28, <1>29,
     <1>30, <1>31, <1>32, <1>33, <1>34, <1>35
  DEF Next, Start, Stop, TaskNext, Receive

LEMMA TypeInit == Init => TypeOK
<1> SUFFICES ASSUME Init PROVE TypeOK
  OBVIOUS
<1>1. Flags
  BY Zenon DEF Init, Flags
<1> QED
  BY <1>1, CapacityAssumption, MaxStartsAssumption DEF Init, TypeOK, Task, Flags

LEMMA TypeStep == TypeOK /\ [Next]_vars => TypeOK'
<1> SUFFICES ASSUME TypeOK, [Next]_vars PROVE TypeOK'
  OBVIOUS
<1> USE CapacityAssumption, MaxStartsAssumption
        DEF TypeOK, Task, controller, semaphores, caller
<1>0. Flags'
  BY FlagsStep DEF Flags
<1> USE <1>0 DEF Flags
<1>1. CASE StartBegin
  BY <1>1 DEF StartBegin
<1>2. CASE StartPrepare
  BY <1>2 DEF StartPrepare, AbortStart, Return
<1>3. CASE StartDrain
  BY <1>3 DEF StartDrain, CtlStep
<1>4. CASE StartInstall
  BY <1>4 DEF StartInstall, AbortStart, Return
<1>5. CASE StartDriver
  BY <1>5 DEF StartDriver
<1>6. CASE StartUndoInstall
  BY <1>6 DEF StartUndoInstall, CtlStep, Uninstall
<1>7. CASE StartClear
  BY <1>7 DEF StartClear, CtlStep
<1>8. CASE StartArm
  BY <1>8 DEF StartArm, CtlStep
<1>9. CASE StartCreate
  BY <1>9 DEF StartCreate, Return
<1>10. CASE StartUndoStart
  BY <1>10 DEF StartUndoStart, StopTwai
<1>11. CASE StopBegin
  BY <1>11 DEF StopBegin
<1>12. CASE StopCancel
  BY <1>12 DEF StopCancel, CtlStep
<1>13. CASE StopDriver
  BY <1>13 DEF StopDriver, CtlStep, StopTwai
<1>14. CASE StopLook
  BY <1>14 DEF StopLook, CtlStep
<1>15. CASE StopWait
  BY <1>15 DEF StopWait, CtlStep
<1>16. CASE StopTakeExited
  BY <1>16 DEF StopTakeExited, CtlStep
<1>17. CASE StopUninstall
  BY <1>17 DEF StopUninstall, CtlStep, Uninstall
<1>18. CASE StopFinish
  BY <1>18 DEF StopFinish, Return
<1>19. CASE Reconcile
  BY <1>19 DEF Reconcile, CtlStep
<1>20. CASE Settle
  BY <1>20 DEF Settle, Return
<1>21. ASSUME NEW t \in Task, TaskTest(t) PROVE TypeOK'
  BY <1>21 DEF TaskTest, TaskStep
<1>22. ASSUME NEW t \in Task, TaskReceive(t) PROVE TypeOK'
  <2>1. ring' \in Seq(Task) /\ Len(ring') <= Capacity
    <3>1. CASE Len(ring) < Capacity /\ ring' = Append(ring, t)
      <4>1. Append(ring, t) \in Seq(Task) /\ Len(Append(ring, t)) = Len(ring) + 1
        OBVIOUS
      <4> QED
        BY <3>1, <4>1
    <3>2. CASE ring' = ring
      BY <3>2
    <3> QED
      BY <1>22, <3>1, <3>2 DEF TaskReceive
  <2>2. \E to \in {"give", "poll", "fault"} : task' = [task EXCEPT ![t] = to]
    BY <1>22 DEF TaskReceive, TaskStep
  <2>3. UNCHANGED <<controller, requested, semaphores, twai, run, consumer, caller>>
    BY <1>22 DEF TaskReceive
  <2> QED
    BY <2>1, <2>2, <2>3
<1>23. ASSUME NEW t \in Task, TaskGive(t) PROVE TypeOK'
  BY <1>23 DEF TaskGive, TaskStep, GiveAvailable
<1>24. ASSUME NEW t \in Task, TaskPoll(t) PROVE TypeOK'
  BY <1>24 DEF TaskPoll, TaskStep
<1>25. ASSUME NEW t \in Task, TaskFault(t) PROVE TypeOK'
  BY <1>25 DEF TaskFault, TaskStep
<1>26. ASSUME NEW t \in Task, TaskLatch(t) PROVE TypeOK'
  BY <1>26 DEF TaskLatch, TaskStep
<1>27. ASSUME NEW t \in Task, TaskWake(t) PROVE TypeOK'
  BY <1>27 DEF TaskWake, TaskStep, GiveAvailable
<1>28. ASSUME NEW t \in Task, TaskAcknowledge(t) PROVE TypeOK'
  BY <1>28 DEF TaskAcknowledge, TaskStep
<1>29. ASSUME NEW t \in Task, TaskSignal(t) PROVE TypeOK'
  BY <1>29 DEF TaskSignal, TaskStep
<1>30. CASE ReceiveBegin
  BY <1>30 DEF ReceiveBegin, ConsumerStep
<1>31. CASE ReceiveTake
  BY <1>31 DEF ReceiveTake, ConsumerStep
<1>32. CASE ReceiveExpire
  BY <1>32 DEF ReceiveExpire, ConsumerStep
<1>33. CASE ReceiveCheck
  BY <1>33 DEF ReceiveCheck, ConsumerStep
<1>34. CASE ReceivePop
  <2>1. ring' \in Seq(Task) /\ Len(ring') <= Capacity
    <3>1. CASE ring = <<>>
      BY <1>34, <3>1 DEF ReceivePop
    <3>2. CASE ring # <<>>
      <4>1. ring' = Tail(ring)
        BY <1>34, <3>2 DEF ReceivePop
      <4>2. Tail(ring) \in Seq(Task) /\ Len(Tail(ring)) = Len(ring) - 1
        BY <3>2
      <4> QED
        BY <4>1, <4>2
    <3> QED
      BY <3>1, <3>2
  <2>2. UNCHANGED <<controller, requested, semaphores, twai, task, run, caller>>
    BY <1>34 DEF ReceivePop
  <2>3. consumer' = "idle"
    BY <1>34 DEF ReceivePop, ConsumerStep
  <2> QED
    BY <2>1, <2>2, <2>3
<1>35. CASE UNCHANGED vars
  BY <1>35 DEF vars
<1> QED
  BY <1>1, <1>2, <1>3, <1>4, <1>5, <1>6, <1>7, <1>8, <1>9, <1>10, <1>11, <1>12, <1>13, <1>14, <1>15,
     <1>16, <1>17, <1>18, <1>19, <1>20, <1>21, <1>22, <1>23, <1>24, <1>25, <1>26, <1>27, <1>28, <1>29,
     <1>30, <1>31, <1>32, <1>33, <1>34, <1>35
  DEF Next, Start, Stop, TaskNext, Receive

\* Every variable keeps its type; in particular g_available stays within its
\* maximum and the ring within its capacity.
THEOREM TypeCorrect == PromptSpec => []TypeOK
<1>1. Init => TypeOK
  BY TypeInit
<1>2. TypeOK /\ [Next /\ TokenBeforeRestart]_vars => TypeOK'
  BY TypeStep
<1> QED
  BY <1>1, <1>2, PTL DEF PromptSpec

-----------------------------------------------------------------------------
(* The inductive invariant *)

LEMMA InvInit == Init => IInv
<1> SUFFICES ASSUME Init PROVE IInv
  OBVIOUS
<1>1. \A t \in Task : task[t] = "none" /\ ~Alive(t)
  BY DEF Init, Alive
<1>2. Calls /\ Token /\ Ownership
  BY <1>1 DEF Init, Calls, Token, Ownership, StartOnly, StopOnly
<1>3. Tasks
  BY <1>1, MaxStartsAssumption DEF Init, Tasks, Task
<1>4. Starting /\ Stopping /\ States
  BY DEF Init, Starting, Stopping, States
<1> QED
  BY <1>2, <1>3, <1>4 DEF IInv

LEMMA InvStep == TypeOK /\ IInv /\ [Next /\ TokenBeforeRestart]_vars => IInv'
<1> SUFFICES ASSUME TypeOK, TypeOK', IInv, [Next /\ TokenBeforeRestart]_vars PROVE IInv'
  BY TypeStep
<1> USE MaxStartsAssumption
    DEF TypeOK, Task, controller, semaphores, caller, TokenBeforeRestart,
        IInv, Calls, Tasks, Token, Ownership, Starting, Stopping, States, Alive, StartOnly, StopOnly
<1>1. CASE StartBegin
  BY <1>1 DEF StartBegin
<1>2. CASE StartPrepare
  BY <1>2 DEF StartPrepare, AbortStart, Return
<1>3. CASE StartDrain
  <2>1. \A u \in Task : task[u] \in {"none", "gone"}
    BY <1>3 DEF StartDrain, CtlStep, vars
  <2>2. exited' = 0 /\ ctl = "drain" /\ ctl' = "install"
    BY <1>3 DEF StartDrain, CtlStep
  <2>3. UNCHANGED <<state, installed, started, owned, twai, task, run, op, taskStopped,
                    target, outcome>>
    BY <1>3 DEF StartDrain
  <2> QED
    BY <2>1, <2>2, <2>3
<1>4. CASE StartInstall
  BY <1>4 DEF StartInstall, AbortStart, Return
<1>5. CASE StartDriver
  BY <1>5 DEF StartDriver
<1>6. CASE StartUndoInstall
  BY <1>6 DEF StartUndoInstall, CtlStep, Uninstall
<1>7. CASE StartClear
  BY <1>7 DEF StartClear, CtlStep
<1>8. CASE StartArm
  BY <1>8 DEF StartArm, CtlStep
<1>9. CASE StartCreate
  <2>1. \A u \in Task : task[u] \in {"none", "gone"}
    BY <1>9 DEF StartCreate
  <2>2. CASE /\ run < MaxStarts
             /\ run' = run + 1
             /\ task' = [task EXCEPT ![run + 1] = "test"]
             /\ Return("Started")
             /\ UNCHANGED <<state, owned, requested>>
    <3>1. ctl = "create" /\ op = "start" /\ owned /\ installed
      BY <1>9 DEF StartCreate
    <3>2. ctl' = "idle" /\ op' = "none" /\ outcome' = "Started"
      BY <2>2 DEF Return
    <3>3. UNCHANGED <<state, installed, started, owned, exited, twai, taskStopped, target>>
      BY <1>9, <2>2 DEF StartCreate
    <3>4. Tasks'
      BY <2>1, <2>2, <3>2
    <3>5. Token'
      BY <3>1, <3>3
    <3> QED
      BY <2>2, <3>1, <3>2, <3>3, <3>4, <3>5
  <2>3. CASE /\ requested' = FALSE
             /\ owned' = FALSE
             /\ state' = IF state = "Stopped" THEN state ELSE "Stopping"
             /\ ctl' = "undoStart"
             /\ UNCHANGED <<run, task, op, outcome>>
    <3>1. ctl = "create" /\ state' = "Stopping"
      BY <1>9, <2>3 DEF StartCreate
    <3>2. UNCHANGED <<installed, started, exited, twai, taskStopped, target>>
      BY <1>9 DEF StartCreate
    <3> QED
      BY <2>1, <2>3, <3>1, <3>2
  <2> QED
    BY <1>9, <2>2, <2>3, Zenon DEF StartCreate
<1>10. CASE StartUndoStart
  BY <1>10 DEF StartUndoStart, StopTwai
<1>11. CASE StopBegin
  BY <1>11 DEF StopBegin
<1>12. CASE StopCancel
  BY <1>12 DEF StopCancel, CtlStep
<1>13. CASE StopDriver
  BY <1>13 DEF StopDriver, CtlStep, StopTwai
<1>14. CASE StopLook
  BY <1>14 DEF StopLook, CtlStep
<1>15. CASE StopWait
  <2>1. CASE exited = 1 /\ exited' = 0 /\ owned' = FALSE /\ taskStopped' = TRUE
    BY <1>15, <2>1 DEF StopWait, CtlStep
  <2>2. CASE exited = 0 /\ UNCHANGED <<exited, owned, taskStopped>>
    BY <1>15, <2>2 DEF StopWait, CtlStep
  <2> QED
    BY <1>15, <2>1, <2>2 DEF StopWait
<1>16. CASE StopTakeExited
  BY <1>16 DEF StopTakeExited, CtlStep
<1>17. CASE StopUninstall
  BY <1>17 DEF StopUninstall, CtlStep, Uninstall
<1>18. CASE StopFinish
  BY <1>18 DEF StopFinish, Return
<1>19. CASE Reconcile
  BY <1>19 DEF Reconcile, CtlStep
<1>20. CASE Settle
  BY <1>20 DEF Settle, Return
<1>21. ASSUME NEW t \in Task, TaskTest(t) PROVE IInv'
  BY <1>21 DEF TaskTest, TaskStep
<1>22. ASSUME NEW t \in Task, TaskReceive(t) PROVE IInv'
  BY <1>22 DEF TaskReceive, TaskStep
<1>23. ASSUME NEW t \in Task, TaskGive(t) PROVE IInv'
  BY <1>23 DEF TaskGive, TaskStep
<1>24. ASSUME NEW t \in Task, TaskPoll(t) PROVE IInv'
  BY <1>24 DEF TaskPoll, TaskStep
<1>25. ASSUME NEW t \in Task, TaskFault(t) PROVE IInv'
  BY <1>25 DEF TaskFault, TaskStep
<1>26. ASSUME NEW t \in Task, TaskLatch(t) PROVE IInv'
  BY <1>26 DEF TaskLatch, TaskStep
<1>27. ASSUME NEW t \in Task, TaskWake(t) PROVE IInv'
  BY <1>27 DEF TaskWake, TaskStep
<1>28. ASSUME NEW t \in Task, TaskAcknowledge(t) PROVE IInv'
  BY <1>28 DEF TaskAcknowledge, TaskStep
<1>29. ASSUME NEW t \in Task, TaskSignal(t) PROVE IInv'
  BY <1>29 DEF TaskSignal, TaskStep
<1>30. CASE Receive
  BY <1>30 DEF Receive, ReceiveBegin, ReceiveTake, ReceiveExpire, ReceiveCheck, ReceivePop
<1>31. CASE UNCHANGED vars
  BY <1>31 DEF vars
<1> QED
  BY <1>1, <1>2, <1>3, <1>4, <1>5, <1>6, <1>7, <1>8, <1>9, <1>10, <1>11, <1>12, <1>13, <1>14, <1>15,
     <1>16, <1>17, <1>18, <1>19, <1>20, <1>21, <1>22, <1>23, <1>24, <1>25, <1>26, <1>27, <1>28, <1>29,
     <1>30, <1>31
  DEF Next, Start, Stop, TaskNext

LEMMA Invariant == PromptSpec => [](TypeOK /\ IInv)
<1>1. Init => TypeOK /\ IInv
  BY TypeInit, InvInit
<1>2. TypeOK /\ IInv /\ [Next /\ TokenBeforeRestart]_vars => (TypeOK /\ IInv)'
  BY TypeStep, InvStep
<1> QED
  BY <1>1, <1>2, PTL DEF PromptSpec

-----------------------------------------------------------------------------
(* What the invariant implies *)

\* The ring has one producer and the driver one task, however stops time out,
\* fail, race with faults and are retried.
THEOREM SingleTask == PromptSpec => []OneAcquisitionTask
<1>1. TypeOK /\ IInv => OneAcquisitionTask
  <2> SUFFICES ASSUME TypeOK, IInv, NEW t \in Task, NEW u \in Task, Alive(t), Alive(u)
               PROVE  t = u
    BY DEF OneAcquisitionTask
  <2>1. t = run /\ u = run
    BY MaxStartsAssumption DEF TypeOK, IInv, Tasks, Alive, Task
  <2> QED
    BY <2>1
<1> QED
  BY <1>1, Invariant, PTL

\* No task is left that could call a driver that is uninstalled.
THEOREM DriverKept == PromptSpec => []DriverOutlivesTask
<1>1. IInv => DriverOutlivesTask
  BY DEF IInv, Ownership, DriverOutlivesTask
<1> QED
  BY <1>1, Invariant, PTL

\* The outcomes of start() and stop() tell the caller truly whether anything is
\* left to clean up.
THEOREM OutcomesTrue == PromptSpec => []OutcomeTellsOwnership
<1>1. TypeOK /\ IInv => OutcomeTellsOwnership
  <2> SUFFICES ASSUME TypeOK, IInv, ctl = "idle"
               PROVE  /\ outcome \in {"StartRefused", "StopOk"} => state = "Stopped"
                      /\ state = "Stopped" => Released
                      /\ outcome \in {"StartFailed", "StopFailed"} =>
                           state # "Stopped" /\ twai # "none"
    BY DEF OutcomeTellsOwnership
  <2>1. state = "Stopped" => Released
    BY DEF IInv, States, Ownership, Released
  <2> QED
    BY <2>1 DEF IInv, States, Ownership
<1> QED
  BY <1>1, Invariant, PTL

-----------------------------------------------------------------------------
(* Frames and tokens.  The consumer takes a token first and looks at the   *)
(* state and the ring later, so the invariant follows every token from the *)
(* push of its frame to the pop, and says what start() has emptied by when. *)
\* The tokens not yet in g_available: in the consumer's hand, in the task's.
Taken  == IF consumer \in {"check", "pop"} THEN 1 ELSE 0
Giving == IF \E t \in Task : task[t] = "give" THEN 1 ELSE 0

\* start() finds the consumer away and empties g_available and the ring before
\* it lets the task run; Running is entered by start(), left by faults and stops.
Cleared ==
  /\ op = "start" => consumer = "idle"
  /\ op = "start" /\ ctl # "prepare" => available = 0
  /\ ctl \in {"arm", "create"} => ring = <<>>
  /\ op = "stop" => state # "Running"
  /\ op # "none" => outcome # "Started"
  /\ \A t \in Task : task[t] = "wake" => state # "Running"

\* The ring holds frames of the latest run only.
Fresh == \A i \in 1..Len(ring) : ring[i] = run

\* Frames and tokens while the bus runs; what a consumer holds a token for
\* stays in the ring after a fault or a stop, too.
Tokens ==
  /\ state = "Running" /\ op = "none" => Len(ring) = available + Taken + Giving
  /\ consumer = "pop" => ring # <<>>

\* The wakeup of a latched fault.
Woken == FaultWakesConsumer

TokenInv == Cleared /\ Fresh /\ Tokens /\ Woken

LEMMA TokenStart == Init => TokenInv
BY DEF Init, TokenInv, Cleared, Fresh, Tokens, Woken, FaultWakesConsumer

\* Nothing but a task that gives changes what the tasks are about to give.
LEMMA SameGiving ==
  ASSUME TypeOK, NEW t \in Task, NEW to, task' = [task EXCEPT ![t] = to],
         task[t] # "give", to # "give"
  PROVE  Giving' = Giving
<1>1. \A u \in Task : task'[u] = "give" <=> task[u] = "give"
  BY DEF TypeOK
<1> QED BY <1>1 DEF Giving

\* A step of a task that neither takes part in the traffic nor wakes or stops it.
LEMMA TaskAside ==
  ASSUME TypeOK, TokenInv, NEW t \in Task, NEW to, task' = [task EXCEPT ![t] = to],
         task[t] \notin {"give", "wake"}, to \notin {"give", "wake"},
         UNCHANGED <<state, available, ring, run, consumer, ctl, op, outcome>>
  PROVE  TokenInv'
<1>1. Giving' = Giving /\ Taken' = Taken
  BY SameGiving DEF Taken
<1>2. \A u \in Task : task'[u] = "wake" <=> task[u] = "wake"
  BY DEF TypeOK
<1>3. Cleared'
  BY <1>2 DEF TokenInv, Cleared
<1>4. Fresh'
  BY DEF TokenInv, Fresh
<1>5. Tokens'
  BY <1>1 DEF TokenInv, Tokens
<1>6. Woken'
  BY <1>2 DEF TokenInv, Woken, FaultWakesConsumer
<1> QED BY <1>3, <1>4, <1>5, <1>6 DEF TokenInv

\* A step of start() or stop() that leaves the traffic alone.
LEMMA CallAside ==
  ASSUME TokenInv, state = "Running" /\ op' = "none" => state' # "Running" \/ op = "none",
         UNCHANGED <<available, ring, task, run, consumer>>,
         Cleared', state' = "Running" => state = "Running",
         outcome' = "Started" => outcome = "Started", 
         outcome' = "Started" /\ state' = "Faulted" => state = "Faulted"
  PROVE  TokenInv'
<1>1. Giving' = Giving /\ Taken' = Taken
  BY DEF Giving, Taken
<1>2. Fresh'
  BY DEF TokenInv, Fresh
<1>3. Tokens'
  BY <1>1 DEF TokenInv, Tokens
<1>4. Woken'
  BY DEF TokenInv, Woken, FaultWakesConsumer
<1> QED BY <1>2, <1>3, <1>4 DEF TokenInv

LEMMA TokenStep == TypeOK /\ IInv /\ TokenInv /\ [Next /\ TokenBeforeRestart]_vars => TokenInv'
<1> SUFFICES ASSUME TypeOK, TypeOK', IInv, IInv', TokenInv, [Next /\ TokenBeforeRestart]_vars
             PROVE  TokenInv'
  BY TypeStep, InvStep
<1> USE DEF controller, semaphores, caller
<1>a. \A t \in Task : Alive(t) => op # "start" /\ t = run
  BY MaxStartsAssumption DEF TypeOK, IInv, Tasks, Alive, Task
<1>b. state = "Stopped" => \A t \in Task : ~Alive(t)
  BY DEF IInv, States, Ownership
<1>1. CASE StartDrain
  <2>1. Cleared'
    BY <1>1, <1>a, <1>b DEF StartDrain, CtlStep, TokenInv, Cleared, IInv, Calls, States, StartOnly,
                            StopOnly, Starting, Ownership, Alive, TypeOK
  <2> QED BY <1>1, <2>1, CallAside DEF StartDrain, CtlStep, TokenInv, Cleared, IInv, Calls, States,
                                       StartOnly, StopOnly, Starting, TypeOK
<1>2. CASE StartInstall
  <2>1. Cleared'
    BY <1>2, <1>a, <1>b DEF StartInstall, AbortStart, Return, TokenInv, Cleared, IInv, Calls,
                            States, StartOnly, StopOnly, Starting, Ownership, Alive, TypeOK
  <2> QED BY <1>2, <2>1, CallAside DEF StartInstall, AbortStart, Return, TokenInv, Cleared, IInv,
                                       Calls, States, StartOnly, StopOnly, Starting, TypeOK
<1>3. CASE StartDriver
  <2>1. Cleared'
    BY <1>3, <1>a, <1>b DEF StartDriver, TokenInv, Cleared, IInv, Calls, States, StartOnly,
                            StopOnly, Starting, Ownership, Alive, TypeOK
  <2> QED BY <1>3, <2>1, CallAside DEF StartDriver, TokenInv, Cleared, IInv, Calls, States,
                                       StartOnly, StopOnly, Starting, TypeOK
<1>4. CASE StartUndoInstall
  <2>1. Cleared'
    BY <1>4, <1>a, <1>b DEF StartUndoInstall, CtlStep, Uninstall, TokenInv, Cleared, IInv, Calls,
                            States, StartOnly, StopOnly, Starting, Ownership, Alive, TypeOK
  <2> QED BY <1>4, <2>1, CallAside DEF StartUndoInstall, CtlStep, Uninstall, TokenInv, Cleared,
                                       IInv, Calls, States, StartOnly, StopOnly, Starting, TypeOK
<1>5. CASE StartArm
  <2>1. Cleared'
    BY <1>5, <1>a, <1>b DEF StartArm, CtlStep, TokenInv, Cleared, IInv, Calls, States, StartOnly,
                            StopOnly, Starting, Ownership, Alive, TypeOK
  <2> QED BY <1>5, <2>1, CallAside DEF StartArm, CtlStep, TokenInv, Cleared, IInv, Calls, States,
                                       StartOnly, StopOnly, Starting, TypeOK
<1>6. CASE StartUndoStart
  <2>1. Cleared'
    BY <1>6, <1>a, <1>b DEF StartUndoStart, StopTwai, TokenInv, Cleared, IInv, Calls, States,
                            StartOnly, StopOnly, Starting, Ownership, Alive, TypeOK
  <2> QED BY <1>6, <2>1, CallAside DEF StartUndoStart, StopTwai, TokenInv, Cleared, IInv, Calls,
                                       States, StartOnly, StopOnly, Starting, TypeOK
<1>7. CASE StopBegin
  <2>1. Cleared'
    BY <1>7, <1>a, <1>b DEF StopBegin, TokenInv, Cleared, IInv, Calls, States, StartOnly, StopOnly,
                            Starting, Ownership, Alive, TypeOK
  <2> QED BY <1>7, <2>1, CallAside DEF StopBegin, TokenInv, Cleared, IInv, Calls, States, StartOnly,
                                       StopOnly, Starting, TypeOK
<1>8. CASE StopCancel
  <2>1. Cleared'
    BY <1>8, <1>a, <1>b DEF StopCancel, CtlStep, TokenInv, Cleared, IInv, Calls, States, StartOnly,
                            StopOnly, Starting, Ownership, Alive, TypeOK
  <2> QED BY <1>8, <2>1, CallAside DEF StopCancel, CtlStep, TokenInv, Cleared, IInv, Calls, States,
                                       StartOnly, StopOnly, Starting, TypeOK
<1>9. CASE StopDriver
  <2>1. Cleared'
    BY <1>9, <1>a, <1>b DEF StopDriver, CtlStep, StopTwai, TokenInv, Cleared, IInv, Calls, States,
                            StartOnly, StopOnly, Starting, Ownership, Alive, TypeOK
  <2> QED BY <1>9, <2>1, CallAside DEF StopDriver, CtlStep, StopTwai, TokenInv, Cleared, IInv,
                                       Calls, States, StartOnly, StopOnly, Starting, TypeOK
<1>10. CASE StopLook
  <2>1. Cleared'
    BY <1>10, <1>a, <1>b DEF StopLook, CtlStep, TokenInv, Cleared, IInv, Calls, States, StartOnly,
                             StopOnly, Starting, Ownership, Alive, TypeOK
  <2> QED BY <1>10, <2>1, CallAside DEF StopLook, CtlStep, TokenInv, Cleared, IInv, Calls, States,
                                        StartOnly, StopOnly, Starting, TypeOK
<1>11. CASE StopWait
  <2>1. Cleared'
    BY <1>11, <1>a, <1>b DEF StopWait, CtlStep, TokenInv, Cleared, IInv, Calls, States, StartOnly,
                             StopOnly, Starting, Ownership, Alive, TypeOK
  <2> QED BY <1>11, <2>1, CallAside DEF StopWait, CtlStep, TokenInv, Cleared, IInv, Calls, States,
                                        StartOnly, StopOnly, Starting, TypeOK
<1>12. CASE StopTakeExited
  <2>1. Cleared'
    BY <1>12, <1>a, <1>b DEF StopTakeExited, CtlStep, TokenInv, Cleared, IInv, Calls, States,
                             StartOnly, StopOnly, Starting, Ownership, Alive, TypeOK
  <2> QED BY <1>12, <2>1, CallAside DEF StopTakeExited, CtlStep, TokenInv, Cleared, IInv, Calls,
                                        States, StartOnly, StopOnly, Starting, TypeOK
<1>13. CASE StopUninstall
  <2>1. Cleared'
    BY <1>13, <1>a, <1>b DEF StopUninstall, CtlStep, Uninstall, TokenInv, Cleared, IInv, Calls,
                             States, StartOnly, StopOnly, Starting, Ownership, Alive, TypeOK
  <2> QED BY <1>13, <2>1, CallAside DEF StopUninstall, CtlStep, Uninstall, TokenInv, Cleared, IInv,
                                        Calls, States, StartOnly, StopOnly, Starting, TypeOK
<1>14. CASE Reconcile
  <2>1. Cleared'
    BY <1>14, <1>a, <1>b DEF Reconcile, CtlStep, TokenInv, Cleared, IInv, Calls, States, StartOnly,
                             StopOnly, Starting, Ownership, Alive, TypeOK
  <2> QED BY <1>14, <2>1, CallAside DEF Reconcile, CtlStep, TokenInv, Cleared, IInv, Calls, States,
                                        StartOnly, StopOnly, Starting, TypeOK
<1>15. CASE Settle
  <2>1. Cleared'
    BY <1>15, <1>a, <1>b DEF Settle, Return, TokenInv, Cleared, IInv, Calls, States, StartOnly,
                             StopOnly, Starting, Ownership, Alive, TypeOK
  <2> QED BY <1>15, <2>1, CallAside DEF Settle, Return, TokenInv, Cleared, IInv, Calls, States,
                                        StartOnly, StopOnly, Starting, TypeOK
<1>16. CASE StartBegin
  BY <1>16, <1>a, <1>b, CapacityAssumption DEF StartBegin, TokenInv, Cleared, Fresh, Tokens, Woken,
                                               FaultWakesConsumer, Taken, Giving, IInv, Calls,
                                               States, StartOnly, StopOnly, Starting, Ownership,
                                               Alive, TypeOK
<1>17. CASE StartPrepare
  BY <1>17, <1>a, <1>b, CapacityAssumption DEF StartPrepare, AbortStart, Return, TokenInv, Cleared,
                                               Fresh, Tokens, Woken, FaultWakesConsumer, Taken,
                                               Giving, IInv, Calls, States, StartOnly, StopOnly,
                                               Starting, Ownership, Alive, TypeOK
<1>18. CASE StopFinish
  BY <1>18, <1>a, <1>b, CapacityAssumption DEF StopFinish, Return, TokenInv, Cleared, Fresh, Tokens,
                                               Woken, FaultWakesConsumer, Taken, Giving, IInv,
                                               Calls, States, StartOnly, StopOnly, Starting,
                                               Ownership, Alive, TypeOK
<1>19. CASE StartClear
  <2>1. /\ ctl = "clear" /\ ctl' = "arm" /\ ring' = <<>> /\ op = "start" /\ op' = op
        /\ UNCHANGED <<state, available, task, run, consumer, outcome>>
    BY <1>19 DEF StartClear, CtlStep, IInv, Calls, StartOnly
  <2>2. Len(ring') = 0
    BY <2>1
  <2> QED BY <2>1, <2>2 DEF TokenInv, Cleared, Fresh, Tokens, Woken, FaultWakesConsumer, Taken, Giving
<1>20. CASE StartCreate
  <2>1. /\ ctl = "create" /\ op = "start" /\ consumer = "idle" /\ available = 0 /\ ring = <<>>
        /\ Len(ring) = 0 /\ outcome # "Started"
        /\ UNCHANGED <<available, ring, consumer>>
    BY <1>20 DEF StartCreate, IInv, Calls, StartOnly, TokenInv, Cleared
  <2>2. \A t \in Task : task'[t] \notin {"give", "wake"}
    BY <1>20, <1>a, <2>1, MaxStartsAssumption DEF StartCreate, Alive, TypeOK, Task
  <2>3. Giving' = 0 /\ Taken' = 0
    BY <2>1, <2>2 DEF Giving, Taken
  <2>4. /\ op' \in {"none", "start"} /\ ctl' \in {"idle", "undoStart"}
        /\ op' = "start" => outcome' # "Started"
    BY <1>20, <2>1 DEF StartCreate, Return
  <2> QED BY <2>1, <2>2, <2>3, <2>4 DEF TokenInv, Cleared, Fresh, Tokens, Woken, FaultWakesConsumer
<1>21. ASSUME NEW t \in Task, TaskTest(t) PROVE TokenInv'
  BY <1>21, TaskAside DEF TaskTest, TaskStep
<1>22. ASSUME NEW t \in Task, TaskPoll(t) PROVE TokenInv'
  BY <1>22, TaskAside DEF TaskPoll, TaskStep
<1>23. ASSUME NEW t \in Task, TaskFault(t) PROVE TokenInv'
  BY <1>23, TaskAside DEF TaskFault, TaskStep
<1>24. ASSUME NEW t \in Task, TaskAcknowledge(t) PROVE TokenInv'
  BY <1>24, TaskAside DEF TaskAcknowledge, TaskStep
<1>25. ASSUME NEW t \in Task, TaskSignal(t) PROVE TokenInv'
  BY <1>25, TaskAside DEF TaskSignal, TaskStep
<1>26. ASSUME NEW t \in Task, TaskReceive(t) PROVE TokenInv'
  <2>1. UNCHANGED <<state, available, run, consumer, ctl, op, outcome>> /\ task[t] = "receive"
    BY <1>26 DEF TaskReceive, TaskStep
  <2>2. CASE Len(ring) < Capacity /\ ring' = Append(ring, t) /\ task' = [task EXCEPT ![t] = "give"]
    <3>1. t = run /\ op # "start" /\ ring \in Seq(Task)
      BY <1>a, <2>1 DEF Alive, TypeOK
    <3>2. Len(ring') = Len(ring) + 1 /\ ring' # <<>> /\ Len(ring) \in Nat
      BY <2>2, <3>1
    <3>3. \A i \in 1..Len(ring') : ring'[i] = IF i <= Len(ring) THEN ring[i] ELSE t
      BY <2>2, <3>1
    <3>4. \A u \in Task : task[u] # "give" /\ task'[u] = "wake" => task[u] = "wake"
      BY <1>a, <2>1, <2>2, <3>1 DEF Alive, TypeOK
    <3>5. Giving = 0 /\ Giving' = 1 /\ Taken' = Taken
      BY <1>a, <2>1, <2>2, <3>1 DEF Giving, Taken, Alive, TypeOK
    <3>6. Taken \in 0..1
      BY DEF Taken
    <3>7. Fresh'
      BY <2>1, <3>1, <3>2, <3>3 DEF TokenInv, Fresh
    <3>8. Cleared'
      BY <2>1, <2>2, <3>1, <3>4, <1>a DEF TokenInv, Cleared, IInv, Calls, StartOnly, TypeOK, Alive
    <3>9. Tokens'
      BY <2>1, <3>2, <3>5, <3>6 DEF TokenInv, Tokens, TypeOK
    <3>10. Woken'
      BY <2>1, <2>2 DEF TokenInv, Woken, FaultWakesConsumer, TypeOK
    <3> QED BY <3>7, <3>8, <3>9, <3>10 DEF TokenInv
  <2>3. CASE ring' = ring /\ \E to \in {"poll", "fault"} : task' = [task EXCEPT ![t] = to]
    BY <2>1, <2>3, TaskAside
  <2> QED BY <1>26, <2>2, <2>3 DEF TaskReceive, TaskStep
<1>27. ASSUME NEW t \in Task, TaskGive(t) PROVE TokenInv'
  <2>1. /\ task[t] = "give" /\ task' = [task EXCEPT ![t] = "poll"] /\ GiveAvailable
        /\ UNCHANGED <<state, ring, run, consumer, ctl, op, outcome>>
    BY <1>27 DEF TaskGive, TaskStep
  <2>2. op # "start" /\ Giving = 1 /\ Giving' = 0 /\ Taken' = Taken /\ Taken \in 0..1
    BY <1>a, <2>1 DEF Giving, Taken, Alive, TypeOK
  <2>3. state = "Running" /\ op = "none" => available' = available + 1
    BY <2>1, <2>2, CapacityAssumption DEF TokenInv, Tokens, GiveAvailable, TypeOK
  <2>4. available' >= available
    BY <2>1, CapacityAssumption DEF GiveAvailable, TypeOK
  <2>5. Cleared'
    BY <2>1, <2>2, <1>a DEF TokenInv, Cleared, IInv, Calls, StartOnly, TypeOK
  <2>6. Fresh'
    BY <2>1 DEF TokenInv, Fresh
  <2>7. Tokens'
    <3>1. state = "Running" /\ op = "none"
            => Len(ring) = available + Taken + 1 /\ available' = available + 1
      BY <2>2, <2>3 DEF TokenInv, Tokens
    <3>2. available \in Int /\ available' \in Int
      BY DEF TypeOK
    <3>3. state = "Running" /\ op = "none" => Len(ring) = available' + Taken' + Giving'
      BY <2>2, <3>1, <3>2
    <3>4. consumer = "pop" => ring # <<>>
      BY DEF TokenInv, Tokens
    <3> QED BY <2>1, <3>3, <3>4 DEF Tokens
  <2>8. Woken'
    BY <2>1, <2>4 DEF TokenInv, Woken, FaultWakesConsumer, TypeOK
  <2> QED BY <2>5, <2>6, <2>7, <2>8 DEF TokenInv
<1>28. ASSUME NEW t \in Task, TaskLatch(t) PROVE TokenInv'
  <2>1. /\ task[t] = "latch" /\ UNCHANGED <<available, ring, run, consumer, ctl, op, outcome>>
        /\ op # "start" /\ t = run
    BY <1>28, <1>a DEF TaskLatch, TaskStep, Alive
  <2>2. CASE UNCHANGED state /\ task' = [task EXCEPT ![t] = "acknowledge"]
    BY <2>1, <2>2, TaskAside
  <2>3. CASE state' = "Faulted" /\ task' = [task EXCEPT ![t] = "wake"]
    BY <2>1, <2>3 DEF TokenInv, Cleared, Fresh, Tokens, Woken, FaultWakesConsumer, Taken, Giving,
                      TypeOK
  <2> QED BY <1>28, <2>2, <2>3 DEF TaskLatch, TaskStep
<1>29. ASSUME NEW t \in Task, TaskWake(t) PROVE TokenInv'
  <2>1. /\ task[t] = "wake" /\ task' = [task EXCEPT ![t] = "acknowledge"] /\ GiveAvailable
        /\ UNCHANGED <<state, ring, run, consumer, ctl, op, outcome>>
    BY <1>29 DEF TaskWake, TaskStep
  <2>2. op # "start" /\ state # "Running" /\ available' > 0
    BY <1>a, <2>1, CapacityAssumption DEF TokenInv, Cleared, Alive, GiveAvailable, TypeOK
  <2>3. Cleared'
    BY <2>1, <2>2 DEF TokenInv, Cleared, IInv, Calls, StartOnly, TypeOK
  <2>4. Fresh' /\ Tokens' /\ Woken'
    BY <2>1, <2>2 DEF TokenInv, Fresh, Tokens, Woken, FaultWakesConsumer
  <2> QED BY <2>3, <2>4 DEF TokenInv
<1>30. CASE ReceiveBegin
  BY <1>30 DEF ReceiveBegin, ConsumerStep, TokenInv, Cleared, Fresh, Tokens, Woken,
               FaultWakesConsumer, Taken, Giving, IInv, Calls, StartOnly, StopOnly, TypeOK
<1>31. CASE ReceiveTake
  BY <1>31 DEF ReceiveTake, ConsumerStep, TokenInv, Cleared, Fresh, Tokens, Woken,
               FaultWakesConsumer, Taken, Giving, IInv, Calls, StartOnly, StopOnly, TypeOK
<1>32. CASE ReceiveExpire
  BY <1>32 DEF ReceiveExpire, ConsumerStep, TokenInv, Cleared, Fresh, Tokens, Woken,
               FaultWakesConsumer, Taken, Giving, IInv, Calls, StartOnly, StopOnly, TypeOK
<1>33. CASE ReceiveCheck
  BY <1>33 DEF ReceiveCheck, ConsumerStep, TokenInv, Cleared, Fresh, Tokens, Woken,
               FaultWakesConsumer, Taken, Giving, IInv, Calls, StartOnly, StopOnly, TypeOK
<1>34. CASE ReceivePop
  <2>1. /\ consumer = "pop" /\ consumer' = "idle" /\ ring # <<>> /\ ring' = Tail(ring)
        /\ UNCHANGED <<state, available, task, run, ctl, op, outcome>>
    BY <1>34 DEF ReceivePop, ConsumerStep, TokenInv, Tokens
  <2>2. /\ Len(ring') = Len(ring) - 1 /\ Len(ring) \in Nat
        /\ \A i \in 1..Len(ring') : ring'[i] = ring[i + 1]
    BY <2>1 DEF TypeOK
  <2>3. Taken = 1 /\ Taken' = 0 /\ Giving' = Giving /\ Giving \in 0..1
    BY <2>1 DEF Taken, Giving
  <2>4. op # "start"
    BY <2>1 DEF TokenInv, Cleared
  <2>5. Cleared'
    BY <2>1, <2>4 DEF TokenInv, Cleared, IInv, Calls, StartOnly, TypeOK
  <2>6. Fresh'
    BY <2>1, <2>2 DEF TokenInv, Fresh
  <2>7. Tokens'
    <3>1. state = "Running" /\ op = "none" => Len(ring) = available + 1 + Giving
      BY <2>3 DEF TokenInv, Tokens
    <3>2. available \in Int
      BY DEF TypeOK
    <3>3. state = "Running" /\ op = "none" => Len(ring') = available + Taken' + Giving'
      BY <2>2, <2>3, <3>1, <3>2
    <3> QED BY <2>1, <3>3 DEF Tokens
  <2>8. Woken'
    BY <2>1 DEF TokenInv, Woken, FaultWakesConsumer
  <2> QED BY <2>5, <2>6, <2>7, <2>8 DEF TokenInv
<1>35. CASE UNCHANGED vars
  BY <1>35 DEF vars, TokenInv, Cleared, Fresh, Tokens, Woken, FaultWakesConsumer, Taken, Giving
<1> QED BY <1>1, <1>2, <1>3, <1>4, <1>5, <1>6, <1>7, <1>8, <1>9, <1>10, <1>11, <1>12, <1>13, <1>14,
           <1>15, <1>16, <1>17, <1>18, <1>19, <1>20, <1>21, <1>22, <1>23, <1>24, <1>25, <1>26,
           <1>27, <1>28, <1>29, <1>30, <1>31, <1>32, <1>33, <1>34, <1>35
        DEF Next, Start, Stop, TaskNext, Receive

LEMMA TokenInvariant == PromptSpec => [](TypeOK /\ IInv /\ TokenInv)
BY TokenStart, TokenStep, Invariant, PTL DEF PromptSpec

\* Every frame in the ring has its token, so a running bus never leaves a
\* frame without a wakeup, nor wakes the consumer for nothing, however pushes,
\* drops, pops and expiring waits interleave.
THEOREM TokensMatchFrames == PromptSpec => []TokenPerFrame
<1>1. TypeOK /\ IInv /\ TokenInv => TokenPerFrame
  <2> SUFFICES ASSUME TypeOK, IInv, TokenInv, state = "Running", ctl = "idle"
               PROVE  Len(ring) = available + InHand
    BY DEF TokenPerFrame
  <2> DEFINE Givers == {t \in Task : task[t] = "give"}
  <2>1. Cardinality(Givers) = Giving
    <3>1. CASE Givers = {}
      BY <3>1, FS_EmptySet DEF Giving
    <3>2. ASSUME NEW t \in Givers PROVE Cardinality(Givers) = Giving
      <4>1. Givers = {t}
        BY <3>2, MaxStartsAssumption DEF TypeOK, IInv, Tasks, Task
      <4> QED BY <4>1, FS_Singleton DEF Giving
    <3> QED BY <3>1, <3>2
  <2>2. Len(ring) = available + Taken + Giving
    BY DEF TokenInv, Tokens, IInv, Calls
  <2>3. available \in Int /\ Taken \in Int /\ Giving \in Int
    BY DEF TypeOK, Taken, Giving
  <2>4. InHand = Taken + Giving
    BY <2>1 DEF InHand, Taken
  <2> QED BY <2>2, <2>3, <2>4
<1> QED BY <1>1, TokenInvariant, PTL

\* receive() that took a token and found the bus running pops a frame of this
\* run, never an empty ring and never a frame left over from an earlier run.
THEOREM WakeupsHaveFrames == PromptSpec => []NoEmptyWakeup
<1>1. TypeOK /\ TokenInv => NoEmptyWakeup
  <2> SUFFICES ASSUME TypeOK, TokenInv, consumer = "pop" PROVE ring # <<>> /\ Head(ring) = run
    BY DEF NoEmptyWakeup
  <2>1. ring # <<>> /\ ring \in Seq(Task)
    BY DEF TokenInv, Tokens, TypeOK
  <2>2. Len(ring) >= 1 /\ Head(ring) = ring[1]
    BY <2>1
  <2> QED BY <2>1, <2>2 DEF TokenInv, Fresh
<1> QED BY <1>1, TokenInvariant, PTL

\* A consumer that is already blocked when the task latches a fault is woken.
THEOREM FaultsWake == PromptSpec => []FaultWakesConsumer
<1>1. TokenInv => FaultWakesConsumer
  BY DEF TokenInv, Woken
<1> QED BY <1>1, TokenInvariant, PTL
====
