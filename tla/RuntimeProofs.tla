--------------------------- MODULE RuntimeProofs ---------------------------
(***************************************************************************)
(* Theorems about Runtime, for every set of callers and configurations,    *)
(* every kind of source and platform, and every number of starts.          *)
(***************************************************************************)
EXTENDS Runtime, TLAPS

(***************************************************************************)
(* The inductive invariant.  One thread at most is inside an operation;    *)
(* what it may presume there is said by control point, and what holds when *)
(* no thread is inside one by Rest.                                        *)
(***************************************************************************)
NoOne == \A c \in Caller : op[c].pc = "idle"

CleanupPc == {"settle", "store", "tell", "unlock"}

\* Which control points belong to which call.
Place(c) ==
  \/ op[c].call = "none" /\ op[c].pc = "idle"
  \/ op[c].call = "start" /\ op[c].pc \in StartPc \cup CleanupPc \cup {"partial", "release"}
  \/ op[c].call = "stop" /\ op[c].pc \in StopPc \cup CleanupPc \cup {"release"}
  \/ op[c].call = "stopPartial" /\ op[c].pc \in CleanupPc \cup {"tellStopping", "partial"}
  \/ op[c].call = "destroy" /\ op[c].pc \in DestroyPc

Alone == /\ \A c, d \in Caller : Operating(c) /\ Operating(d) => c = d
         /\ \A c \in Caller : Operating(c) => (busy <=> op[c].call # "destroy")

\* No worker, and the handle may be assigned.
Vacant == ~Alive /\ ~handle

Quiet == /\ Vacant /\ ownership = "none"
         /\ diag.lifecycle = "stopped" /\ diag.transport = "stopped"

\* stop() from a callback finds the handle.
Handled == Alive /\ worker.pc # "exit" => handle

\* The lifecycle tells the truth.
Truthful == /\ lifecycle = "stopped" => Quiet
            /\ lifecycle = "running" => Alive /\ ~stopRequested

Rest == ~busy /\ Truthful /\ Handled

\* What holds at every moment: a worker leaves only on request, and requests its
\* own end only after the fault is visible.
Sound == /\ lifecycle = "stopped" \/ ownership = "partial" => Vacant
         /\ worker.pc \in {"leave", "exit"} => stopRequested
         /\ worker.pc = "request" => lifecycle # "running"

\* The stops that the source still owes, and what a released source is.
Owed == /\ stopsLeft >= 0
        /\ ownership = "none" => ~stopCalled /\ (kind.retry => source = "idle")
        /\ ownership # "none" /\ ~stopCalled => stopsLeft >= 1 \/ (ownership = "partial" /\ ~kind.retry)
        /\ ownership = "partial" /\ ~kind.retry => attempts + stopsLeft = 2
        /\ ownership = "partial" /\ attempts > 0 => stopResult # "ok"

\* start(): nothing of an earlier run is left, nothing is shared before the worker.
Starting(c) ==
  /\ op[c].pc \in StartPc \ {"publish"} => Vacant
  /\ op[c].pc = "source" => starts < MaxStarts
  /\ op[c].pc \in {"source", "rejected"} => lifecycle = "stopped" /\ Quiet
  /\ op[c].pc \in {"arm", "announce", "run"} => lifecycle = "stopped"
  /\ op[c].pc \in {"arm", "announce", "run", "create"} => ownership = "successful"
  /\ op[c].pc \in {"announce", "run", "create"} => ~stopRequested
  /\ op[c].pc = "create" => lifecycle = "running"
  /\ op[c].pc = "publish" => /\ ~kind.bounded /\ Truthful
                             /\ lifecycle # "stopped" /\ ownership = "successful"
  /\ op[c].pc = "release" /\ op[c].call = "start" => Vacant /\ ownership = "successful"

\* What a cleanup has established, and what the operation will tell.
Cleaning(c) ==
  /\ op[c].pc = "partial" => ownership = "partial"
  /\ op[c].pc \in CleanupPc \ {"unlock"} /\ op[c].call # "stop" => Vacant
  /\ op[c].pc = "settle" /\ op[c].got = "ok" => ownership = "none"
  /\ op[c].pc \in {"join", "store", "tell"} /\ op[c].final = "stopped" => ownership = "none"
  /\ op[c].pc \in {"store", "tell"} => Vacant
  /\ op[c].pc = "tell" => lifecycle = op[c].final
  /\ op[c].pc = "unlock" => Truthful

\* stop() and destruction.
Stopping(c) ==
  /\ op[c].call \in {"stop", "stopPartial"} => lifecycle # "running"
  /\ op[c].call \in {"stop", "stopPartial"} /\ op[c].pc \notin {"tell", "unlock"} => lifecycle # "stopped"
  /\ op[c].call = "stop" => ownership # "partial"
  /\ op[c].call = "stopPartial" /\ op[c].pc = "tellStopping" => ownership = "partial"
  /\ op[c].call = "destroy" /\ lifecycle = "stopped" => Quiet
  /\ op[c].pc # "publish" => Handled

Inside(c) == Starting(c) /\ Cleaning(c) /\ Stopping(c)

IInv == /\ TypeOK /\ Alone /\ Sound /\ Owed
        /\ \A c \in Caller : Place(c) /\ (Operating(c) => Inside(c))
        /\ NoOne => Rest

-----------------------------------------------------------------------------
(* The worker. *)

\* What a step of the worker does to what the others see.
WorkerEffect ==
  /\ UNCHANGED <<kind, config, busy, owned, op, starts>>
  /\ Alive
  /\ worker.pc = "exit" <=> ~Alive'
  /\ lifecycle' = lifecycle \/ (lifecycle' = "faulted" /\ worker'.pc = "request")
  /\ stopRequested' = stopRequested \/ (worker.pc = "request" /\ stopRequested')
  /\ worker'.pc = "request" => lifecycle' = "faulted"
  /\ worker'.pc \in {"leave", "exit"} => stopRequested' /\ (stopRequested \/ worker.pc = "leave")
  /\ handle' = handle \/ worker'.pc = "exit"

Diags == [lifecycle : LifecycleState, transport : Transport, seen : BOOLEAN]
Shown == diag \in Diags

LEMMA WorkerTypes ==
  ASSUME TypeOK, Worker
  PROVE  /\ worker' \in [pc : WorkerPc, got : Received] /\ Shown'
         /\ lifecycle' \in LifecycleState /\ stopRequested' \in BOOLEAN /\ handle' \in BOOLEAN
<1> USE DEF TypeOK, Step
<1>1. worker' \in [pc : WorkerPc, got : Received]
  BY DEF Worker, WorkerTest, WorkerBudget, WorkerReceive, WorkerRecord, WorkerObserve, WorkerLatch,
     WorkerRequest, WorkerRefresh, WorkerLeave, WorkerExit, WorkerPc
<1>2. Shown'
  <2>1. CASE WorkerRecord
    <3>1. \A t \in Transport : /\ [diag EXCEPT !.transport = t] \in Diags
                              /\ [diag EXCEPT !.transport = t, !.seen = TRUE] \in Diags
                              /\ [lifecycle |-> "faulted", transport |-> t, seen |-> TRUE] \in Diags
                              /\ [diag EXCEPT !.lifecycle = "faulted", !.transport = t] \in Diags
      BY DEF Diags, LifecycleState
    <3>2. diag \in Diags
      BY DEF Diags
    <3> QED BY <2>1, <3>1, <3>2 DEF Shown, WorkerRecord, Transport
  <2>2. CASE WorkerRefresh
    BY <2>2 DEF Shown, Diags, WorkerRefresh, Transport
  <2>3. CASE UNCHANGED diag
    BY <2>3 DEF Shown, Diags
  <2> QED BY <2>1, <2>2, <2>3 DEF Worker, WorkerTest, WorkerBudget, WorkerReceive, WorkerObserve,
             WorkerLatch, WorkerRequest, WorkerLeave, WorkerExit
<1>3. lifecycle' \in LifecycleState /\ stopRequested' \in BOOLEAN
  BY DEF Worker, WorkerTest, WorkerBudget, WorkerReceive, WorkerRecord, WorkerObserve, WorkerLatch,
     WorkerRequest, WorkerRefresh, WorkerLeave, WorkerExit, LifecycleState
<1>4. handle' \in BOOLEAN
  BY Zenon DEF Worker, WorkerTest, WorkerBudget, WorkerReceive, WorkerRecord, WorkerObserve,
     WorkerLatch, WorkerRequest, WorkerRefresh, WorkerLeave, WorkerExit
<1> QED BY <1>1, <1>2, <1>3, <1>4

LEMMA WorkerActs ==
  ASSUME TypeOK, Sound, Worker
  PROVE  WorkerEffect
<1> USE DEF TypeOK, Step, Unchanged, Alive, WorkerEffect
<1>1. CASE WorkerTest
  BY <1>1 DEF WorkerTest
<1>2. CASE WorkerBudget
  BY <1>2 DEF WorkerBudget
<1>3. CASE WorkerReceive
  BY <1>3 DEF WorkerReceive
<1>4. CASE WorkerRecord
  BY <1>4 DEF WorkerRecord
<1>5. CASE WorkerObserve
  BY <1>5 DEF WorkerObserve
<1>6. CASE WorkerLatch
  BY <1>6 DEF WorkerLatch
<1>7. CASE WorkerRequest
  BY <1>7 DEF WorkerRequest
<1>8. CASE WorkerRefresh
  BY <1>8 DEF WorkerRefresh
<1>9. CASE WorkerLeave
  BY <1>9 DEF WorkerLeave, Sound
<1>10. CASE WorkerExit
  BY <1>10 DEF WorkerExit
<1> QED BY <1>1, <1>2, <1>3, <1>4, <1>5, <1>6, <1>7, <1>8, <1>9, <1>10 DEF Worker

LEMMA WorkerKeeps ==
  ASSUME IInv, Worker
  PROVE  IInv'
<1> USE DEF IInv
<1>a. WorkerEffect
  BY WorkerActs
<1> USE <1>a DEF WorkerEffect, owned
<1>1. TypeOK'
  BY WorkerTypes DEF TypeOK, Shown, Diags
<1>2. Alone' /\ Owed' /\ \A c \in Caller : Place(c)' /\ (Operating(c)' <=> Operating(c))
  BY DEF Alone, Owed, Place, Operating
<1>3. Sound'
  BY DEF TypeOK, Sound, Vacant, Alive
<1>b. ~Vacant /\ (Truthful => Truthful') /\ (Handled => Handled')
  BY DEF Truthful, Handled, Quiet, Vacant, Alive, Sound
<1>c. UNCHANGED <<op, busy, ownership, kind>> /\ (lifecycle' = lifecycle \/ lifecycle' = "faulted")
  OBVIOUS
<1>4. NoOne' => Rest'
  BY <1>b, <1>c DEF NoOne, Rest
<1>5. ASSUME NEW c \in Caller, Operating(c) PROVE Inside(c)'
  <2>1. Starting(c)'
    BY <1>5, <1>b, <1>c DEF Inside, Starting, StartPc, Quiet
  <2>2. Cleaning(c)'
    BY <1>5, <1>b, <1>c DEF Inside, Cleaning
  <2>3. Stopping(c)'
    BY <1>5, <1>b, <1>c DEF Inside, Stopping, Quiet
  <2> QED BY <2>1, <2>2, <2>3 DEF Inside
<1> QED BY <1>1, <1>2, <1>3, <1>4, <1>5

-----------------------------------------------------------------------------
(* The other steps of the environment. *)

LEMMA LooksKeep ==
  ASSUME IInv, Diagnostics \/ SourceFinishes
  PROVE  IInv'
<1> USE DEF IInv
<1>1. CASE Diagnostics
  <2>0. /\ lifecycle = "running" /\ diag' = [diag EXCEPT !.transport = "timedOut"]
        /\ UNCHANGED <<kind, config, lifecycle, busy, stopRequested, ownership, stopCalled, attempts,
                       stopResult, source, stopsLeft, op, worker, handle, starts>>
    BY <1>1 DEF Diagnostics, Silent, shared, owned
  <2>1. TypeOK'
    BY <2>0 DEF TypeOK, Transport
  <2>2. Alone' /\ Owed' /\ Sound' /\ \A c \in Caller : Place(c)' /\ (Operating(c)' <=> Operating(c))
    BY <2>0 DEF Alone, Owed, Sound, Place, Operating, Vacant, Alive
  <2>3. NoOne' => Rest'
    BY <2>0 DEF NoOne, Rest, Truthful, Handled, Quiet, Vacant, Alive
  <2>4. ASSUME NEW c \in Caller, Operating(c) PROVE Inside(c)'
    BY <2>0, <2>4 DEF Inside, Starting, Cleaning, Stopping, Truthful, Handled, Vacant, Alive
  <2> QED BY <2>1, <2>2, <2>3, <2>4
<1>2. CASE SourceFinishes
  <2>0. /\ ~kind.retry /\ source' = "idle"
        /\ UNCHANGED <<kind, config, lifecycle, busy, stopRequested, ownership, stopCalled, attempts,
                       stopResult, stopsLeft, diag, op, worker, handle, starts>>
    BY <1>2 DEF SourceFinishes, shared
  <2>1. TypeOK'
    BY <2>0 DEF TypeOK
  <2>2. Alone' /\ Owed' /\ Sound' /\ \A c \in Caller : Place(c)' /\ (Operating(c)' <=> Operating(c))
    BY <2>0 DEF Alone, Owed, Sound, Place, Operating, Vacant, Alive
  <2>3. NoOne' => Rest'
    BY <2>0 DEF NoOne, Rest, Truthful, Handled, Quiet, Vacant, Alive
  <2>4. ASSUME NEW c \in Caller, Operating(c) PROVE Inside(c)'
    BY <2>0, <2>4 DEF Inside, Starting, Cleaning, Stopping, Truthful, Handled, Quiet, Vacant, Alive
  <2> QED BY <2>1, <2>2, <2>3, <2>4
<1> QED BY <1>1, <1>2

-----------------------------------------------------------------------------
(* The callers. *)

Ops == [pc : StartPc \cup StopPc \cup CommonPc \cup DestroyPc,
        call : {"none", "start", "stop", "stopPartial", "destroy"},
        got : Result, final : {"stopped", "faulted"}]

\* The caller c, inside an operation or about to begin one, changes its own state only.
Moves(c) == /\ Operating(c) \/ NoOne
            /\ op' \in [Caller -> Ops]
            /\ \A d \in Caller \ {c} : op'[d] = op[d]

\* What is then to be shown of c.
LEMMA Turn ==
  ASSUME IInv, NEW c \in Caller, Moves(c), TypeOK', Sound', Owed', Place(c)',
         Operating(c)' => (busy' <=> op'[c].call # "destroy") /\ Inside(c)',
         ~Operating(c)' => Rest'
  PROVE  IInv'
<1>1. \A d \in Caller \ {c} : op[d].pc = "idle"
  BY DEF IInv, Alone, Operating, Moves, NoOne
<1>2. \A d \in Caller \ {c} : ~Operating(d)' /\ Place(d)'
  BY <1>1 DEF Moves, IInv, Place, Operating
<1>3. Alone'
  BY <1>2 DEF Alone
<1>4. NoOne' => Rest'
  BY DEF NoOne, Operating
<1> QED BY <1>2, <1>3, <1>4 DEF IInv

\* A step that moves the control point only.
LEMMA Steps ==
  ASSUME IInv, NEW c \in Caller, Operating(c) \/ NoOne,
         NEW pc \in StartPc \cup StopPc \cup CommonPc \cup DestroyPc, Goto(c, pc)
  PROVE  /\ Moves(c) /\ op'[c].pc = pc /\ op'[c].call = op[c].call
         /\ op'[c].got = op[c].got /\ op'[c].final = op[c].final
<1>1. op \in [Caller -> Ops]
  BY DEF IInv, TypeOK, Ops
<1>2. [op[c] EXCEPT !.pc = pc] \in Ops /\ op' = [op EXCEPT ![c] = [op[c] EXCEPT !.pc = pc]]
  BY <1>1 DEF Ops, Goto
<1> QED BY <1>1, <1>2 DEF Moves, Ops

Flags == busy \in BOOLEAN /\ stopRequested \in BOOLEAN /\ stopCalled \in BOOLEAN /\ handle \in BOOLEAN

-----------------------------------------------------------------------------
(* start(). *)

LEMMA StartKeeps ==
  ASSUME IInv, NEW c \in Caller, Start(c)
  PROVE  IInv'
<1> USE DEF IInv
<1>1. CASE StartRejected(c)
  <2>1. /\ Moves(c) /\ op'[c].pc = "unlock" /\ op'[c].call = op[c].call
        /\ op'[c].got = op[c].got /\ op'[c].final = op[c].final
    BY <1>1, Steps DEF StartRejected, Operating, StartPc, StopPc, CommonPc, DestroyPc
  <2>2. TypeOK'
    <3>1. Flags'
      BY <1>1, Zenon DEF StartRejected, Flags, TypeOK, shared, owned, SetDiagnostic
    <3> QED BY <1>1, <2>1, <3>1 DEF StartRejected, TypeOK, Moves, Ops, shared, owned, LifecycleState,
               Transport, SetDiagnostic
  <2>3. Sound' /\ Owed'
    BY <1>1 DEF StartRejected, Vacant, Alive, Sound, Owed, shared, owned
  <2>4. Place(c)' /\ (busy' <=> op'[c].call # "destroy")
    BY <1>1, <2>1 DEF StartRejected, Place, Operating, Alone, shared, CleanupPc, DestroyPc
  <2>5. Inside(c)'
    BY <1>1, <2>1 DEF StartRejected, Operating, Inside, Starting, Cleaning, Stopping, Truthful, Quiet,
       Vacant, Alive, Handled, shared, owned, SetDiagnostic
  <2> QED BY <2>1, <2>2, <2>3, <2>4, <2>5, Turn DEF Operating
<1>2. CASE StartArm(c)
  <2>1. /\ Moves(c) /\ op'[c].pc = "announce" /\ op'[c].call = op[c].call
        /\ op'[c].got = op[c].got /\ op'[c].final = op[c].final
    BY <1>2, Steps DEF StartArm, Operating, StartPc, StopPc, CommonPc, DestroyPc
  <2>2. TypeOK'
    <3>1. Flags'
      BY <1>2, Zenon DEF StartArm, Flags, TypeOK, shared, owned, SetDiagnostic
    <3> QED BY <1>2, <2>1, <3>1 DEF StartArm, Flags, TypeOK, Moves, Ops, owned
  <2>3. Sound' /\ Owed'
    BY <1>2 DEF StartArm, Operating, Inside, Starting, Vacant, Alive, Sound, Owed, owned
  <2>4. Place(c)' /\ (busy' <=> op'[c].call # "destroy")
    BY <1>2, <2>1 DEF StartArm, Place, Operating, Alone, StartPc, StopPc, CleanupPc, DestroyPc
  <2>5. Inside(c)'
    BY <1>2, <2>1 DEF StartArm, Operating, Inside, Starting, Cleaning, Stopping, Quiet, Vacant, Alive,
       Handled, owned, StartPc
  <2> QED BY <2>1, <2>2, <2>3, <2>4, <2>5, Turn DEF Operating
<1>3. CASE StartAnnounce(c)
  <2>1. /\ Moves(c) /\ op'[c].pc = "run" /\ op'[c].call = op[c].call
        /\ op'[c].got = op[c].got /\ op'[c].final = op[c].final
    BY <1>3, Steps DEF StartAnnounce, Operating, StartPc, StopPc, CommonPc, DestroyPc
  <2>2. TypeOK'
    <3>1. Flags'
      BY <1>3, Zenon DEF StartAnnounce, Flags, TypeOK, shared, owned, SetDiagnostic
    <3> QED BY <1>3, <2>1, <3>1 DEF StartAnnounce, TypeOK, Moves, Ops, shared, owned, LifecycleState,
               Transport
  <2>3. Sound' /\ Owed'
    BY <1>3 DEF StartAnnounce, Vacant, Alive, Sound, Owed, shared, owned
  <2>4. Place(c)' /\ (busy' <=> op'[c].call # "destroy")
    BY <1>3, <2>1 DEF StartAnnounce, Place, Operating, Alone, shared, StartPc, StopPc, CleanupPc,
       DestroyPc
  <2>5. Inside(c)'
    BY <1>3, <2>1 DEF StartAnnounce, Operating, Inside, Starting, Cleaning, Stopping, Quiet, Vacant,
       Alive, Handled, shared, owned, StartPc
  <2> QED BY <2>1, <2>2, <2>3, <2>4, <2>5, Turn DEF Operating
<1>4. CASE StartRun(c)
  <2>1. /\ Moves(c) /\ op'[c].pc = "create" /\ op'[c].call = op[c].call
        /\ op'[c].got = op[c].got /\ op'[c].final = op[c].final
    BY <1>4, Steps DEF StartRun, Operating, StartPc, StopPc, CommonPc, DestroyPc
  <2>2. TypeOK'
    <3>1. Flags'
      BY <1>4, Zenon DEF StartRun, Flags, TypeOK, shared, owned, SetDiagnostic
    <3> QED BY <1>4, <2>1, <3>1 DEF StartRun, TypeOK, Moves, Ops, owned, LifecycleState
  <2>3. Sound' /\ Owed'
    BY <1>4 DEF StartRun, Operating, Inside, Starting, Vacant, Alive, Sound, Owed, owned
  <2>4. Place(c)' /\ (busy' <=> op'[c].call # "destroy")
    BY <1>4, <2>1 DEF StartRun, Place, Operating, Alone, StartPc, StopPc, CleanupPc, DestroyPc
  <2>5. Inside(c)'
    BY <1>4, <2>1 DEF StartRun, Operating, Inside, Starting, Cleaning, Stopping, Vacant, Alive,
       Handled, owned, StartPc
  <2> QED BY <2>1, <2>2, <2>3, <2>4, <2>5, Turn DEF Operating
<1>5. CASE StartPublish(c)
  <2>1. /\ Moves(c) /\ op'[c].pc = "unlock" /\ op'[c].call = op[c].call
        /\ op'[c].got = op[c].got /\ op'[c].final = op[c].final
    BY <1>5, Steps DEF StartPublish, Operating, StartPc, StopPc, CommonPc, DestroyPc
  <2>2. TypeOK'
    <3>1. Flags'
      BY <1>5, Zenon DEF StartPublish, Flags, TypeOK, shared, owned, SetDiagnostic
    <3> QED BY <1>5, <2>1, <3>1 DEF StartPublish, TypeOK, Moves, Ops, shared, owned
  <2>3. Sound' /\ Owed'
    BY <1>5 DEF StartPublish, Operating, Inside, Starting, Sound, Owed, shared, owned
  <2>4. Place(c)' /\ (busy' <=> op'[c].call # "destroy")
    BY <1>5, <2>1 DEF StartPublish, Place, Operating, Alone, shared, CleanupPc, DestroyPc
  <2>5. Inside(c)'
    BY <1>5, <2>1 DEF StartPublish, Operating, Inside, Starting, Cleaning, Stopping, Truthful, Alive,
       Handled, shared, owned, StartPc
  <2> QED BY <2>1, <2>2, <2>3, <2>4, <2>5, Turn DEF Operating
<1>6. CASE StartBegin(c)
  <2>0. NoOne /\ starts < MaxStarts /\ lifecycle = "stopped" /\ Quiet
    <3>1. NoOne
      BY <1>6 DEF StartBegin, Admitted, Idle, Gone, NoOne, Alone, Operating
    <3> QED BY <1>6, <3>1 DEF StartBegin, Rest, Truthful
  <2>1. /\ Moves(c) /\ op'[c].pc = "source" /\ op'[c].call = "start"
    <3>1. op \in [Caller -> Ops]
      BY DEF TypeOK, Ops
    <3>2. [op[c] EXCEPT !.pc = "source", !.call = "start"] \in Ops
      BY <3>1 DEF Ops, StartPc
    <3>3. op' = [op EXCEPT ![c] = [op[c] EXCEPT !.pc = "source", !.call = "start"]]
      BY <1>6 DEF StartBegin
    <3> QED BY <2>0, <3>1, <3>2, <3>3 DEF Moves, Ops
  <2>2. TypeOK'
    <3>1. Flags'
      BY <1>6, Zenon DEF StartBegin, Flags, TypeOK, owned
    <3> QED BY <1>6, <2>1, <3>1 DEF StartBegin, Flags, TypeOK, Moves, Ops, owned
  <2>3. /\ busy' /\ Quiet'
        /\ UNCHANGED <<kind, lifecycle, stopRequested, ownership, stopCalled, attempts, stopResult,
                       source, stopsLeft, diag, worker, handle, starts>>
    BY <1>6, <2>0 DEF StartBegin, owned, Quiet, Vacant, Alive
  <2>4. Sound' /\ Owed'
    BY <2>3 DEF Sound, Owed, Vacant, Alive
  <2>5. Place(c)'
    BY <2>1 DEF Place, StartPc
  <2>6. Inside(c)'
    BY <2>0, <2>1, <2>3 DEF Inside, Starting, Cleaning, Stopping, Quiet, Vacant, Handled
  <2> QED BY <2>1, <2>2, <2>3, <2>4, <2>5, <2>6, Turn DEF Operating
<1>7. CASE StartSource(c)
  <2>0. /\ starts < MaxStarts /\ lifecycle = "stopped" /\ Quiet /\ Place(c) /\ op[c].call = "start"
        /\ busy /\ Operating(c)
    BY <1>7 DEF StartSource, Place, Inside, Starting, StopPc, CleanupPc, DestroyPc, Alone, Operating
  <2>1. /\ starts' = starts + 1
        /\ UNCHANGED <<kind, config, lifecycle, busy, stopRequested, diag, worker, handle>>
    BY <1>7 DEF StartSource, shared
  <2>2. \E pc \in {"arm", "rejected", "partial"} :
          /\ Goto(c, pc)
          /\ ownership' = (CASE pc = "arm" -> "successful" [] pc = "partial" -> "partial"
                           [] OTHER -> ownership)
          /\ stopCalled' = FALSE /\ attempts' \in 0..2 /\ stopResult' \in Result
          /\ source' \in {"idle", "held"}
          /\ pc = "arm" => stopsLeft' = 1
          /\ pc = "rejected" => stopsLeft' = 0 /\ source' = source
          /\ pc = "partial" => stopsLeft' = (IF kind.retry THEN 1 ELSE 2) /\ attempts' = 0
    <3>1. ~stopCalled /\ attempts \in 0..2 /\ stopResult \in Result /\ source \in {"idle", "held"}
          /\ "ok" \in Result
      BY <2>0 DEF TypeOK, Owed, Quiet, Result
    <3>2. CASE SourceStarts("ok") /\ Goto(c, "arm") /\ ownership' = "successful" /\ stopCalled' = FALSE
               /\ stopResult' = "ok" /\ stopsLeft' = 1 /\ UNCHANGED attempts
      <4>1. source' = "held"
        BY <3>2 DEF SourceStarts, Contract!Starts
      <4> QED BY <3>1, <3>2, <4>1
    <3>3. CASE SourceStarts("rejected") /\ Goto(c, "rejected") /\ stopsLeft' = 0
               /\ UNCHANGED <<ownership, stopCalled, attempts, stopResult>>
      <4>1. source' = source
        BY <3>3 DEF SourceStarts, Contract!Starts
      <4> QED BY <3>1, <3>3, <4>1
    <3>4. CASE SourceStarts("failed") /\ Goto(c, "partial") /\ ownership' = "partial" /\ attempts' = 0
               /\ stopsLeft' = (IF kind.retry THEN 1 ELSE 2) /\ UNCHANGED <<stopCalled, stopResult>>
      <4>1. source' \in {source, "held"}
        BY <3>4 DEF SourceStarts, Contract!Starts
      <4> QED BY <3>1, <3>4, <4>1
    <3> QED BY <1>7, <3>2, <3>3, <3>4 DEF StartSource
  <2>3. PICK pc \in {"arm", "rejected", "partial"} : <2>2!(pc)
    BY <2>2
  <2>4. Moves(c) /\ op'[c].pc = pc /\ op'[c].call = "start"
    BY <2>0, <2>3, Steps DEF StartPc, CommonPc
  <2>5. TypeOK'
    <3>1. Flags'
      BY <2>1, <2>3, Zenon DEF Flags, TypeOK
    <3> QED BY <2>0, <2>1, <2>3, <2>4, <3>1, MaxStartsAssumption DEF Flags, TypeOK, Moves, Ops, Quiet
  <2>6. Sound' /\ Owed'
    BY <2>0, <2>1, <2>3 DEF TypeOK, Sound, Owed, Quiet, Vacant, Alive
  <2>7. Place(c)'
    BY <2>4 DEF Place, StartPc
  <2>8. Inside(c)'
    <3>1. /\ Vacant' /\ ~Alive' /\ lifecycle' = "stopped" /\ (pc = "rejected" => Quiet')
          /\ (pc = "arm" => ownership' = "successful") /\ (pc = "partial" => ownership' = "partial")
      BY <2>0, <2>1, <2>3 DEF Quiet, Vacant, Alive
    <3>2. Starting(c)'
      BY <2>4, <3>1 DEF Starting
    <3>3. Cleaning(c)'
      BY <2>4, <3>1 DEF Cleaning, CleanupPc
    <3>4. Stopping(c)'
      BY <2>4, <3>1 DEF Stopping, Handled
    <3> QED BY <3>2, <3>3, <3>4 DEF Inside
  <2> QED BY <2>0, <2>1, <2>4, <2>5, <2>6, <2>7, <2>8, Turn DEF Operating
<1>8. CASE StartCreate(c)
  <2>0. /\ op[c].pc = "create" /\ op[c].call = "start" /\ busy /\ Operating(c)
        /\ Vacant /\ lifecycle = "running" /\ ownership = "successful" /\ ~stopRequested
        /\ UNCHANGED <<kind, config, lifecycle, busy, ownership, stopCalled, attempts, stopResult, source,
                       stopsLeft, diag, starts>>
    BY <1>8 DEF StartCreate, Place, Inside, Starting, StopPc, CleanupPc, DestroyPc, Alone, Operating,
       owned
  <2>1. CASE /\ worker' = [worker EXCEPT !.pc = "test"] /\ handle' = kind.bounded
             /\ Goto(c, AfterCreate) /\ UNCHANGED stopRequested
    <3>1. AfterCreate \in {"unlock", "publish"} /\ (AfterCreate = "publish" <=> ~kind.bounded)
      BY DEF AfterCreate
    <3>2. Moves(c) /\ op'[c].pc = AfterCreate /\ op'[c].call = "start"
      BY <2>0, <2>1, <3>1, Steps DEF StartPc, CommonPc
    <3>3. worker' \in [pc : WorkerPc, got : Received] /\ worker'.pc = "test"
      BY <2>1 DEF TypeOK, WorkerPc
    <3>4. TypeOK'
      <4>1. kind.bounded \in BOOLEAN
        BY KindsAssumption, Zenon DEF TypeOK
      <4>2. Flags'
        BY <2>0, <2>1, <4>1, Zenon DEF Flags, TypeOK
      <4> QED BY <2>0, <2>1, <3>2, <3>3, <4>2 DEF Flags, TypeOK, Moves, Ops
    <3>5. Sound' /\ Owed'
      BY <2>0, <2>1, <3>3 DEF Sound, Owed
    <3>6. Place(c)'
      BY <3>1, <3>2 DEF Place, StartPc, CleanupPc
    <3>7. Inside(c)'
      <4>1. Truthful' /\ (kind.bounded => Handled')
        BY <2>0, <2>1, <3>3 DEF Truthful, Alive, Handled
      <4>2. Starting(c)'
        BY <2>0, <3>1, <3>2, <4>1 DEF Starting, StartPc
      <4>3. Cleaning(c)'
        BY <3>1, <3>2, <4>1 DEF Cleaning, CleanupPc
      <4>4. Stopping(c)'
        BY <3>1, <3>2, <4>1 DEF Stopping
      <4> QED BY <4>2, <4>3, <4>4 DEF Inside
    <3> QED BY <2>0, <3>1, <3>2, <3>4, <3>5, <3>6, <3>7, Turn DEF Operating
  <2>2. CASE stopRequested' = TRUE /\ Goto(c, "release") /\ UNCHANGED <<worker, handle>>
    <3>2. Moves(c) /\ op'[c].pc = "release" /\ op'[c].call = "start"
      BY <2>0, <2>2, Steps DEF CommonPc
    <3>4. TypeOK'
      <4>2. Flags'
        BY <2>0, <2>2, Zenon DEF Flags, TypeOK
      <4> QED BY <2>0, <2>2, <3>2, <4>2 DEF Flags, TypeOK, Moves, Ops
    <3>5. Sound' /\ Owed'
      BY <2>0, <2>2 DEF Sound, Owed, Vacant, Alive
    <3>6. Place(c)'
      BY <3>2 DEF Place
    <3>7. Inside(c)'
      <4>1. Vacant' /\ ~Alive' /\ ownership' = "successful"
        BY <2>0, <2>2 DEF Vacant, Alive
      <4>2. Starting(c)'
        BY <3>2, <4>1 DEF Starting, StartPc
      <4>3. Cleaning(c)' /\ Stopping(c)'
        BY <3>2, <4>1 DEF Cleaning, CleanupPc, Stopping, Handled
      <4> QED BY <4>2, <4>3 DEF Inside
    <3> QED BY <2>0, <3>2, <3>4, <3>5, <3>6, <3>7, Turn DEF Operating
  <2> QED BY <1>8, <2>1, <2>2 DEF StartCreate
<1> QED BY <1>1, <1>2, <1>3, <1>4, <1>5, <1>6, <1>7, <1>8 DEF Start

-----------------------------------------------------------------------------
(* The source is asked to stop. *)

\* A step that gives the caller c the record r.
LEMMA Becomes ==
  ASSUME IInv, NEW c \in Caller, Operating(c) \/ NoOne, NEW r \in Ops, op' = [op EXCEPT ![c] = r]
  PROVE  Moves(c) /\ op'[c] = r
<1>1. op \in [Caller -> Ops]
  BY DEF IInv, TypeOK, Ops
<1> QED BY <1>1 DEF Moves

\* An attempt may release the source; only then it answers "ok" to its caller.
Asked(c, next) ==
  /\ Moves(c) /\ op'[c].pc = next /\ op'[c].call = op[c].call /\ op'[c].final = op[c].final
  /\ op'[c].got = "ok" => ownership' = "none"
  /\ ownership' \in {"none", ownership}
  /\ stopCalled' \in BOOLEAN /\ attempts' \in 0..2 /\ stopResult' \in Result
  /\ source' \in {"idle", "held"} /\ stopsLeft' \in Int
  /\ Owed'

LEMMA Answers ==
  ASSUME IInv, NEW c \in Caller, Operating(c), NEW got \in Result,
         NEW pc \in StartPc \cup StopPc \cup CommonPc \cup DestroyPc,
         op' = [op EXCEPT ![c].pc = pc, ![c].got = got]
  PROVE  /\ Moves(c) /\ op'[c].pc = pc /\ op'[c].call = op[c].call
         /\ op'[c].got = got /\ op'[c].final = op[c].final
<1>1. op \in [Caller -> Ops]
  BY DEF IInv, TypeOK, Ops
<1> DEFINE r == [op[c] EXCEPT !.pc = pc, !.got = got]
<1>2. r \in Ops /\ op' = [op EXCEPT ![c] = r]
  BY <1>1 DEF Ops
<1>3. /\ r.pc = pc /\ r.call = op[c].call /\ r.got = got /\ r.final = op[c].final
  BY <1>1 DEF Ops
<1> HIDE DEF r
<1> QED BY <1>2, <1>3, Becomes

LEMMA StopAsks ==
  ASSUME IInv, NEW c \in Caller, Operating(c), ownership # "partial", kind' = kind,
         NEW next \in StartPc \cup StopPc \cup CommonPc \cup DestroyPc,
         AttemptSourceStop(c, next)
  PROVE  Asked(c, next)
<1> USE DEF IInv, TypeOK
<1>1. CASE ownership # "successful"
  <2>1. op' = [op EXCEPT ![c].pc = next, ![c].got = stopResult] /\ UNCHANGED owned
    BY <1>1 DEF AttemptSourceStop
  <2>2. ownership' = "none" /\ Owed'
    BY <1>1, <2>1 DEF owned, Owed
  <2> QED BY <2>1, <2>2, Answers DEF Asked, owned
<1>2. CASE ownership = "successful"
  <2> DEFINE complete(r) == r = "ok" \/ (kind.retry /\ r = "notRunning")
             retained(r) == ~complete(r) /\ kind.retry
             answer(r) == IF complete(r) THEN "ok" ELSE r
  <2>1. PICK r \in Result :
          /\ SourceStops(r)
          /\ stopsLeft' = StopsLeft(stopCalled)
          /\ ownership' = IF retained(r) THEN ownership ELSE "none"
          /\ stopCalled' = retained(r)
          /\ stopResult' = IF retained(r) THEN r ELSE "ok"
          /\ op' = [op EXCEPT ![c].pc = next, ![c].got = answer(r)]
          /\ attempts' = attempts
    BY <1>2 DEF AttemptSourceStop
  <2>2. answer(r) \in Result /\ "ok" \in Result
    BY DEF Result
  <2>3. /\ Moves(c) /\ op'[c].pc = next /\ op'[c].call = op[c].call
        /\ op'[c].got = answer(r) /\ op'[c].final = op[c].final
    <3> HIDE DEF answer
    <3> QED BY <2>1, <2>2, Answers
  <2>4. /\ source' \in {"idle", "held"}
        /\ complete(r) => source' = "idle"
    BY <2>1 DEF SourceStops, Contract!Stops
  <2>5. stopsLeft' \in Int /\ stopsLeft' >= 0
    BY <1>2, <2>1 DEF StopsLeft, Owed
  <2>6. stopCalled' \in BOOLEAN /\ (stopCalled' <=> retained(r))
    BY <2>1, Zenon
  <2>7. ownership' \in {"none", ownership} /\ (ownership' = "none" <=> ~retained(r))
    BY <1>2, <2>1
  <2>8. Owed'
    BY <1>2, <2>1, <2>4, <2>5, <2>6, <2>7 DEF Owed
  <2>9. op'[c].got = "ok" => ownership' = "none"
    BY <2>3, <2>7
  <2> QED BY <2>1, <2>2, <2>3, <2>4, <2>5, <2>6, <2>7, <2>8, <2>9 DEF Asked
<1> QED BY <1>1, <1>2

LEMMA CleanupAsks ==
  ASSUME IInv, NEW c \in Caller, Operating(c), ownership = "partial", kind' = kind,
         NEW next \in StartPc \cup StopPc \cup CommonPc \cup DestroyPc,
         AttemptPartialCleanup(c, next)
  PROVE  Asked(c, next)
<1> USE DEF IInv, TypeOK
<1>1. CASE Exhausted
  <2>1. op' = [op EXCEPT ![c].pc = next, ![c].got = stopResult] /\ UNCHANGED owned
    BY <1>1 DEF AttemptPartialCleanup
  <2>2. stopResult # "ok" /\ Owed'
    BY <1>1, <2>1 DEF owned, Owed, Exhausted
  <2> QED BY <2>1, <2>2, Answers DEF Asked, owned
<1>2. CASE ~Exhausted
  <2> DEFINE clean(r) == r \in {"ok", "notRunning"}
             answer(r) == IF clean(r) THEN "ok" ELSE r
  <2>1. PICK r \in Result :
          /\ SourceStops(r)
          /\ stopsLeft' = StopsLeft(kind.retry /\ stopCalled)
          /\ attempts' = IF kind.retry /\ attempts = 2 THEN 2 ELSE attempts + 1
          /\ ownership' = IF clean(r) THEN "none" ELSE ownership
          /\ stopCalled' = ~clean(r)
          /\ stopResult' = IF clean(r) THEN "ok" ELSE r
          /\ op' = [op EXCEPT ![c].pc = next, ![c].got = answer(r)]
    BY <1>2 DEF AttemptPartialCleanup
  <2>2. answer(r) \in Result /\ "ok" \in Result
    BY DEF Result
  <2>3. /\ Moves(c) /\ op'[c].pc = next /\ op'[c].call = op[c].call
        /\ op'[c].got = answer(r) /\ op'[c].final = op[c].final
    <3> HIDE DEF answer
    <3> QED BY <2>1, <2>2, Answers
  <2>4. /\ source' \in {"idle", "held"}
        /\ clean(r) => source' = "idle"
    BY <2>1 DEF SourceStops, Contract!Stops
  <2>5. /\ stopsLeft' \in Int /\ stopsLeft' >= 0 /\ attempts' \in 0..2
        /\ ~kind.retry => attempts' + stopsLeft' = 2
    BY <1>2, <2>1 DEF StopsLeft, Owed, Exhausted
  <2>6. stopCalled' \in BOOLEAN /\ (stopCalled' <=> ~clean(r))
    BY <2>1, Zenon
  <2>7. ownership' \in {"none", ownership} /\ (ownership' = "none" <=> clean(r))
    BY <2>1
  <2>8. Owed'
    BY <2>1, <2>4, <2>5, <2>6, <2>7 DEF Owed
  <2>9. op'[c].got = "ok" => ownership' = "none"
    BY <2>3, <2>7
  <2> QED BY <2>1, <2>2, <2>3, <2>4, <2>5, <2>6, <2>7, <2>8, <2>9 DEF Asked
<1> QED BY <1>1, <1>2

-----------------------------------------------------------------------------
(* stop(). *)

LEMMA StopKeeps ==
  ASSUME IInv, NEW c \in Caller, Stop(c)
  PROVE  IInv'
<1> USE DEF IInv
<1>1. CASE StopTell(c)
  <2>1. /\ Moves(c) /\ op'[c].pc = (IF op[c].call = "stop" THEN "request" ELSE "partial") /\ op'[c].call = op[c].call
        /\ op'[c].got = op[c].got /\ op'[c].final = op[c].final
    BY <1>1, Steps DEF StopTell, Operating, StartPc, StopPc, CommonPc, DestroyPc
  <2>2. TypeOK'
    <3>1. Flags'
      BY <1>1, Zenon DEF StopTell, Flags, TypeOK, shared, owned, SetDiagnostic
    <3> QED BY <1>1, <2>1, <3>1 DEF StopTell, TypeOK, Moves, Ops, shared, owned, LifecycleState,
               Transport, SetDiagnostic
  <2>3. Sound' /\ Owed'
    BY <1>1 DEF StopTell, Vacant, Alive, Sound, Owed, shared, owned
  <2>4. Place(c)' /\ (busy' <=> op'[c].call # "destroy")
    BY <1>1, <2>1 DEF StopTell, Place, Operating, Alone, shared, StopPc, DestroyPc
  <2>5. Inside(c)'
    BY <1>1, <2>1 DEF StopTell, Place, Operating, Inside, Starting, Cleaning, Stopping, Alive,
       Handled, shared, owned, StartPc, CleanupPc, DestroyPc
  <2> QED BY <2>1, <2>2, <2>3, <2>4, <2>5, Turn DEF Operating
<1>2. CASE StopRequest(c)
  <2>1. /\ Moves(c) /\ op'[c].pc = "release" /\ op'[c].call = op[c].call
        /\ op'[c].got = op[c].got /\ op'[c].final = op[c].final
    BY <1>2, Steps DEF StopRequest, Operating, StartPc, StopPc, CommonPc, DestroyPc
  <2>2. TypeOK'
    <3>1. Flags'
      BY <1>2, Zenon DEF StopRequest, Flags, TypeOK, shared, owned, SetDiagnostic
    <3> QED BY <1>2, <2>1, <3>1 DEF StopRequest, TypeOK, Moves, Ops, owned
  <2>3. Sound' /\ Owed'
    BY <1>2 DEF StopRequest, Vacant, Alive, Sound, Owed, owned
  <2>4. Place(c)' /\ (busy' <=> op'[c].call # "destroy")
    BY <1>2, <2>1 DEF StopRequest, Place, Operating, Alone, CleanupPc, DestroyPc
  <2>5. Inside(c)'
    BY <1>2, <2>1 DEF StopRequest, Place, Operating, Inside, Starting, Cleaning, Stopping, Alive,
       Handled, owned, StartPc, CleanupPc, DestroyPc
  <2> QED BY <2>1, <2>2, <2>3, <2>4, <2>5, Turn DEF Operating
<1>3. CASE StopJoin(c)
  <2>1. /\ Moves(c) /\ op'[c].pc = "store" /\ op'[c].call = op[c].call
        /\ op'[c].got = op[c].got /\ op'[c].final = op[c].final
    BY <1>3, Steps DEF StopJoin, Operating, StartPc, StopPc, CommonPc, DestroyPc
  <2>2. TypeOK'
    <3>1. Flags'
      BY <1>3, Zenon DEF StopJoin, Flags, TypeOK, shared, owned, SetDiagnostic
    <3> QED BY <1>3, <2>1, <3>1 DEF StopJoin, Flags, TypeOK, Moves, Ops, shared, owned
  <2>3. Sound' /\ Owed'
    BY <1>3 DEF StopJoin, Vacant, Alive, Sound, Owed, owned
  <2>4. Place(c)' /\ (busy' <=> op'[c].call # "destroy")
    BY <1>3, <2>1 DEF StopJoin, Place, Operating, Alone, shared, CleanupPc, DestroyPc
  <2>5. Inside(c)'
    BY <1>3, <2>1 DEF StopJoin, Operating, Inside, Starting, Cleaning, Stopping, Quiet, Vacant, Alive,
       Handled, shared, owned
  <2> QED BY <2>1, <2>2, <2>3, <2>4, <2>5, Turn DEF Operating
<1>4. CASE StopExpire(c)
  <2>1. /\ Moves(c) /\ op'[c].pc = "unlock" /\ op'[c].call = op[c].call
        /\ op'[c].got = op[c].got /\ op'[c].final = op[c].final
    BY <1>4, Steps DEF StopExpire, Operating, StartPc, StopPc, CommonPc, DestroyPc
  <2>2. TypeOK'
    <3>1. Flags'
      BY <1>4, Zenon DEF StopExpire, Flags, TypeOK, shared, owned, SetDiagnostic
    <3> QED BY <1>4, <2>1, <3>1 DEF StopExpire, TypeOK, Moves, Ops, shared, owned
  <2>3. Sound' /\ Owed'
    BY <1>4 DEF StopExpire, Vacant, Sound, Owed, shared, owned
  <2>4. Place(c)' /\ (busy' <=> op'[c].call # "destroy")
    BY <1>4, <2>1 DEF StopExpire, Place, Operating, Alone, shared, CleanupPc, DestroyPc
  <2>5. Inside(c)'
    BY <1>4, <2>1 DEF StopExpire, Place, Operating, Inside, Starting, Cleaning, Stopping, Truthful,
       Handled, shared, owned, StartPc, CleanupPc, DestroyPc
  <2> QED BY <2>1, <2>2, <2>3, <2>4, <2>5, Turn DEF Operating
<1>5. CASE StopBegin(c)
  <2>0. NoOne /\ Truthful /\ Handled /\ lifecycle' = "stopping" /\ busy'
        /\ UNCHANGED <<kind, config, stopRequested, ownership, stopCalled, attempts, stopResult,
                       source, stopsLeft, diag, worker, handle, starts>>
    <3>1. NoOne
      BY <1>5 DEF StopBegin, Admitted, Idle, Gone, NoOne, Alone, Operating
    <3> QED BY <1>5, <3>1 DEF StopBegin, Rest, owned
  <2>1. /\ Moves(c) /\ op'[c].pc = "tellStopping"
        /\ op'[c].call = IF ownership = "partial" THEN "stopPartial" ELSE "stop"
    <3> DEFINE r == [op[c] EXCEPT !.pc = "tellStopping",
                                  !.call = IF ownership = "partial" THEN "stopPartial" ELSE "stop"]
    <3>1. op \in [Caller -> Ops]
      BY DEF TypeOK, Ops
    <3>2. r \in Ops /\ r.pc = "tellStopping"
          /\ r.call = IF ownership = "partial" THEN "stopPartial" ELSE "stop"
      BY <3>1 DEF Ops, StopPc
    <3>3. op' = [op EXCEPT ![c] = r]
      BY <1>5 DEF StopBegin
    <3> HIDE DEF r
    <3> QED BY <2>0, <3>2, <3>3, Becomes
  <2>2. TypeOK'
    <3>1. Flags'
      BY <1>5, Zenon DEF StopBegin, Flags, TypeOK, owned
    <3> QED BY <2>0, <2>1, <3>1 DEF Flags, TypeOK, Moves, Ops, LifecycleState
  <2>3. Sound' /\ Owed' /\ Handled'
    BY <2>0 DEF Sound, Owed, Vacant, Alive, Handled
  <2>4. Place(c)'
    BY <2>1 DEF Place, StopPc
  <2>5. Inside(c)'
    BY <2>0, <2>1, <2>3 DEF Inside, Starting, Cleaning, Stopping, StartPc, CleanupPc
  <2> QED BY <2>0, <2>1, <2>2, <2>3, <2>4, <2>5, Turn DEF Operating
<1> QED BY <1>1, <1>2, <1>3, <1>4, <1>5 DEF Stop

-----------------------------------------------------------------------------
(* What ends an operation. *)

LEMMA SettlingKeeps ==
  ASSUME IInv, NEW c \in Caller, Settling(c)
  PROVE  IInv'
<1> USE DEF IInv
<1>1. CASE Store(c)
  <2>1. /\ Moves(c) /\ op'[c].pc = "tell" /\ op'[c].call = op[c].call
        /\ op'[c].got = op[c].got /\ op'[c].final = op[c].final
    BY <1>1, Steps DEF Store, Operating, StartPc, StopPc, CommonPc, DestroyPc
  <2>2. TypeOK'
    <3>1. Flags'
      BY <1>1, Zenon DEF Store, Flags, TypeOK, shared, owned, SetDiagnostic
    <3> QED BY <1>1, <2>1, <3>1 DEF Store, TypeOK, Moves, Ops, owned, LifecycleState
  <2>3. Sound' /\ Owed'
    BY <1>1 DEF Store, Operating, Inside, Cleaning, Vacant, Alive, Sound, Owed, owned
  <2>4. Place(c)' /\ (busy' <=> op'[c].call # "destroy")
    BY <1>1, <2>1 DEF Store, Place, Operating, Alone, CleanupPc, DestroyPc
  <2>5. Inside(c)'
    <3>1. /\ Vacant' /\ Handled' /\ lifecycle' = op[c].final
          /\ op[c].final = "stopped" => ownership' = "none"
          /\ op[c].final # "running" /\ op[c].call # "destroy" /\ ownership' = ownership
          /\ op[c].call = "stop" => ownership # "partial"
      BY <1>1 DEF Store, Operating, Place, Inside, Cleaning, Stopping, Vacant, Alive, Handled, owned,
         TypeOK, DestroyPc
    <3>2. Starting(c)' /\ Cleaning(c)'
      BY <2>1, <3>1 DEF Starting, Cleaning, StartPc, CleanupPc
    <3>3. Stopping(c)'
      BY <2>1, <3>1 DEF Stopping
    <3> QED BY <3>2, <3>3 DEF Inside
  <2> QED BY <2>1, <2>2, <2>3, <2>4, <2>5, Turn DEF Operating
<1>2. CASE Tell(c)
  <2>1. /\ Moves(c) /\ op'[c].pc = "unlock" /\ op'[c].call = op[c].call
        /\ op'[c].got = op[c].got /\ op'[c].final = op[c].final
    BY <1>2, Steps DEF Tell, Operating, StartPc, StopPc, CommonPc, DestroyPc
  <2>2. TypeOK'
    <3>1. Flags'
      BY <1>2, Zenon DEF Tell, Flags, TypeOK, shared, owned, SetDiagnostic
    <3> QED BY <1>2, <2>1, <3>1 DEF Tell, TypeOK, Moves, Ops, shared, owned, LifecycleState,
               Transport, SetDiagnostic
  <2>3. Sound' /\ Owed'
    BY <1>2 DEF Tell, Vacant, Alive, Sound, Owed, shared, owned
  <2>4. Place(c)' /\ (busy' <=> op'[c].call # "destroy")
    BY <1>2, <2>1 DEF Tell, Place, Operating, Alone, shared, CleanupPc, DestroyPc
  <2>5. Inside(c)'
    <3>1. /\ Handled' /\ lifecycle' = op[c].final /\ lifecycle' # "running" /\ op[c].call # "destroy"
          /\ ownership' = ownership /\ (op[c].call = "stop" => ownership # "partial")
      BY <1>2 DEF Tell, Operating, Place, Inside, Cleaning, Stopping, Alive, Handled, shared, owned,
         TypeOK, DestroyPc
    <3>2. Vacant' /\ (op[c].final = "stopped" => ownership' = "none")
      BY <1>2 DEF Tell, Operating, Inside, Cleaning, Vacant, Alive, owned
    <3>3. diag'.lifecycle = op[c].final /\ diag'.transport = op[c].final
      BY <1>2 DEF Tell, SetDiagnostic, TypeOK
    <3>4. Truthful'
      BY <3>1, <3>2, <3>3 DEF Truthful, Quiet
    <3>5. Starting(c)' /\ Cleaning(c)'
      BY <2>1, <3>4 DEF Starting, Cleaning, StartPc, CleanupPc
    <3>6. Stopping(c)'
      BY <2>1, <3>1 DEF Stopping
    <3> QED BY <3>5, <3>6 DEF Inside
  <2> QED BY <2>1, <2>2, <2>3, <2>4, <2>5, Turn DEF Operating
<1>3. ASSUME op[c].pc \in {"partial", "release"}, Asked(c, "settle"),
             op[c].call # "stop" => Vacant,
             UNCHANGED <<kind, config, shared, diag, worker, handle, starts>>
      PROVE  IInv'
  <2>1. Operating(c) /\ Place(c) /\ Inside(c) /\ (busy <=> op[c].call # "destroy")
    BY <1>3 DEF Operating, Alone
  <2>2. TypeOK'
    <3>1. Flags'
      BY <1>3, Zenon DEF Flags, TypeOK, shared, Asked
    <3> QED BY <1>3, <3>1 DEF Flags, TypeOK, Moves, Ops, shared, Asked
  <2>3. Sound' /\ Owed'
    BY <1>3 DEF Sound, Asked, shared, Vacant, Alive
  <2>4. Place(c)'
    BY <1>3, <2>1 DEF Place, Asked, CleanupPc, DestroyPc
  <2>5. Inside(c)'
    BY <1>3, <2>1 DEF Place, Asked, Inside, Starting, Cleaning, Stopping, Vacant, Alive, Handled,
       shared, StartPc, DestroyPc
  <2> QED BY <1>3, <2>1, <2>2, <2>3, <2>4, <2>5, Turn DEF Operating, Asked, shared
<1>4. CASE Partial(c)
  <2>1. op[c].pc = "partial" /\ ownership = "partial" /\ Vacant /\ Operating(c)
    BY <1>4 DEF Partial, Operating, Inside, Cleaning, Sound
  <2>2. Asked(c, "settle")
    BY <1>4, <2>1, CleanupAsks DEF Partial, CommonPc
  <2> QED BY <1>4, <2>1, <2>2, <1>3 DEF Partial
<1>5. CASE Release(c)
  <2>1. /\ op[c].pc = "release" /\ ownership # "partial" /\ Operating(c)
        /\ op[c].call # "stop" => Vacant
    BY <1>5 DEF Release, Operating, Place, Inside, Starting, Stopping, CleanupPc, DestroyPc
  <2>2. Asked(c, "settle")
    BY <1>5, <2>1, StopAsks DEF Release, CommonPc
  <2> QED BY <1>5, <2>1, <2>2, <1>3 DEF Release
<1>6. CASE Settle(c)
  <2> DEFINE pc == AfterCleanup(op[c].call, op[c].got)
             final == IF op[c].got = "ok" THEN "stopped" ELSE "faulted"
             r == [op[c] EXCEPT !.pc = pc, !.final = final]
  <2>0. /\ Operating(c) /\ op[c].pc = "settle" /\ Place(c) /\ Inside(c)
        /\ busy /\ op[c].call # "destroy" /\ op \in [Caller -> Ops]
        /\ UNCHANGED <<kind, config, lifecycle, busy, stopRequested, ownership, stopCalled, attempts,
                       stopResult, source, stopsLeft, diag, worker, handle, starts>>
    BY <1>6 DEF Settle, Operating, Alone, Place, DestroyPc, shared, owned, TypeOK, Ops
  <2>1. Moves(c) /\ op'[c].pc = pc /\ op'[c].final = final /\ op'[c].call = op[c].call
    <3>1. pc \in {"store", "join", "unlock"}
      BY DEF AfterCleanup
    <3>2. r \in Ops /\ r.pc = pc /\ r.final = final /\ r.call = op[c].call
      BY <2>0, <3>1 DEF Ops, CommonPc, StopPc
    <3>3. op' = [op EXCEPT ![c] = r]
      BY <1>6 DEF Settle
    <3> HIDE DEF r
    <3> QED BY <2>0, <3>2, <3>3, Becomes
  <2>2. TypeOK'
    BY <2>0, <2>1 DEF TypeOK, Moves, Ops
  <2>3. Sound' /\ Owed' /\ Handled' /\ (Vacant' <=> Vacant)
    BY <2>0 DEF Sound, Owed, Vacant, Alive, Handled, Inside, Stopping
  <2>4. Place(c)'
    BY <2>0, <2>1 DEF Place, AfterCleanup, CleanupPc, StopPc
  <2>5. Inside(c)'
    <3>1. CASE op[c].call # "stop"
      <4>1. pc = "store" /\ Vacant
        BY <2>0, <3>1 DEF AfterCleanup, Inside, Cleaning, CleanupPc
      <4> QED BY <2>0, <2>1, <2>3, <4>1 DEF Inside, Starting, Cleaning, Stopping, StartPc, CleanupPc
    <3>2. CASE op[c].call = "stop" /\ op[c].got = "timeout"
      <4>1. pc = "unlock" /\ Truthful'
        BY <2>0, <3>2 DEF AfterCleanup, Inside, Stopping, Truthful
      <4> QED BY <2>0, <2>1, <2>3, <3>2, <4>1 DEF Inside, Starting, Cleaning, Stopping, StartPc,
                 CleanupPc
    <3>3. CASE op[c].call = "stop" /\ op[c].got # "timeout"
      <4>1. pc = "join"
        BY <3>3 DEF AfterCleanup
      <4> QED BY <2>0, <2>1, <2>3, <3>3, <4>1 DEF Inside, Starting, Cleaning, Stopping, StartPc,
                 CleanupPc
    <3> QED BY <3>1, <3>2, <3>3
  <2> QED BY <2>0, <2>1, <2>2, <2>3, <2>4, <2>5, Turn DEF Operating, AfterCleanup
<1>7. CASE Unlock(c)
  <2> DEFINE r == [op[c] EXCEPT !.pc = "idle", !.call = "none"]
  <2>0. /\ Operating(c) /\ Truthful /\ Handled /\ ~busy' /\ op \in [Caller -> Ops]
        /\ UNCHANGED <<kind, config, lifecycle, stopRequested, ownership, stopCalled, attempts,
                       stopResult, source, stopsLeft, diag, worker, handle, starts>>
    BY <1>7 DEF Unlock, Operating, Inside, Cleaning, Stopping, owned, TypeOK, Ops
  <2>1. Moves(c) /\ op'[c].pc = "idle" /\ op'[c].call = "none"
    <3>1. r \in Ops /\ r.pc = "idle" /\ r.call = "none"
      BY <2>0 DEF Ops, CommonPc
    <3>2. op' = [op EXCEPT ![c] = r]
      BY <1>7 DEF Unlock
    <3> HIDE DEF r
    <3> QED BY <2>0, <3>1, <3>2, Becomes
  <2>2. TypeOK'
    <3>1. Flags'
      BY <1>7, <2>0, Zenon DEF Unlock, Flags, TypeOK
    <3> QED BY <2>0, <2>1, <3>1 DEF Flags, TypeOK, Moves, Ops
  <2>3. Sound' /\ Owed' /\ Rest'
    BY <2>0 DEF Sound, Owed, Rest, Truthful, Quiet, Vacant, Alive, Handled
  <2>4. Place(c)' /\ ~Operating(c)'
    BY <2>1 DEF Place, Operating
  <2> QED BY <2>1, <2>2, <2>3, <2>4, Turn
<1> QED BY <1>1, <1>2, <1>4, <1>5, <1>6, <1>7 DEF Settling

-----------------------------------------------------------------------------
(* ~Runtime(). *)

LEMMA DestroyKeeps ==
  ASSUME IInv, NEW c \in Caller, Destroy(c)
  PROVE  IInv'
<1> USE DEF IInv
<1>1. CASE DestroyBegin(c)
  <2> DEFINE r == [op[c] EXCEPT !.pc = "destroy", !.call = "destroy"]
  <2>0. /\ NoOne /\ ~busy /\ Truthful /\ Handled /\ stopRequested' /\ op \in [Caller -> Ops]
        /\ UNCHANGED <<kind, config, lifecycle, busy, ownership, stopCalled, attempts,
                       stopResult, source, stopsLeft, diag, worker, handle, starts>>
    BY <1>1 DEF DestroyBegin, NoOne, Rest, owned, TypeOK, Ops
  <2>1. Moves(c) /\ op'[c].pc = "destroy" /\ op'[c].call = "destroy"
    <3>1. r \in Ops /\ r.pc = "destroy" /\ r.call = "destroy"
      BY <2>0 DEF Ops, DestroyPc
    <3>2. op' = [op EXCEPT ![c] = r]
      BY <1>1 DEF DestroyBegin
    <3> HIDE DEF r
    <3> QED BY <2>0, <3>1, <3>2, Becomes
  <2>2. TypeOK'
    <3>1. Flags'
      BY <1>1, Zenon DEF DestroyBegin, Flags, TypeOK, owned
    <3> QED BY <2>0, <2>1, <3>1 DEF Flags, TypeOK, Moves, Ops
  <2>3. Sound' /\ Owed'
    BY <2>0 DEF Sound, Owed, Vacant, Alive
  <2>4. Place(c)'
    BY <2>1 DEF Place, DestroyPc
  <2>5. Inside(c)'
    BY <2>0, <2>1 DEF Inside, Starting, Cleaning, Stopping, StartPc, CleanupPc, Truthful, Quiet,
       Vacant, Alive, Handled
  <2> QED BY <2>0, <2>1, <2>2, <2>3, <2>4, <2>5, Turn DEF Operating
<1>2. ASSUME NEW next \in {"destroyJoin", "destroyed"},
             op[c].pc \in DestroyPc,
             \/ Cleanup(c, next)
             \/ Goto(c, next) /\ UNCHANGED owned,
             UNCHANGED <<kind, config, shared, diag, worker, handle, starts>>
      PROVE  IInv'
  <2>0. Operating(c) /\ op[c].call = "destroy" /\ ~busy /\ Inside(c) /\ kind' = kind
    BY <1>2 DEF Operating, Alone, Place, StartPc, StopPc, CleanupPc, DestroyPc
  <2>1. /\ Moves(c) /\ op'[c].pc = next /\ op'[c].call = "destroy"
        /\ ownership' \in {"none", ownership}
        /\ stopCalled' \in BOOLEAN /\ attempts' \in 0..2 /\ stopResult' \in Result
        /\ source' \in {"idle", "held"} /\ stopsLeft' \in Int
        /\ Owed'
    <3>0. next \in StartPc \cup StopPc \cup CommonPc \cup DestroyPc
      BY DEF DestroyPc
    <3>1. CASE Cleanup(c, next)
      <4>1. Asked(c, next)
        BY <2>0, <3>0, <3>1, StopAsks, CleanupAsks DEF Cleanup
      <4> QED BY <2>0, <4>1 DEF Asked
    <3>2. CASE Goto(c, next) /\ UNCHANGED owned
      <4>1. Moves(c) /\ op'[c].pc = next /\ op'[c].call = "destroy"
        BY <2>0, <3>0, <3>2, Steps
      <4>2. Owed'
        BY <2>0, <3>2 DEF Owed, owned
      <4> QED BY <3>2, <4>1, <4>2 DEF owned, TypeOK
    <3> QED BY <1>2, <3>1, <3>2
  <2>2. TypeOK'
    <3>1. Flags'
      BY <1>2, <2>1, Zenon DEF Flags, TypeOK, shared
    <3> QED BY <1>2, <2>1, <3>1 DEF Flags, TypeOK, Moves, Ops, shared
  <2>3. Sound'
    BY <1>2, <2>1 DEF Sound, shared, Vacant, Alive
  <2>4. Place(c)'
    BY <2>1 DEF Place, DestroyPc
  <2>5. Inside(c)'
    <3>1. (lifecycle = "stopped" => Quiet)' /\ Handled'
      <4>1. UNCHANGED <<lifecycle, diag, worker, handle>>
        BY <1>2 DEF shared
      <4> QED BY <1>2, <2>0, <2>1, <4>1 DEF Inside, Stopping, Quiet, Vacant, Alive, Handled, DestroyPc
    <3> QED BY <1>2, <2>1, <3>1 DEF Inside, Starting, Cleaning, Stopping, StartPc, CleanupPc
  <2> QED BY <1>2, <2>0, <2>1, <2>2, <2>3, <2>4, <2>5, Turn DEF Operating, shared
<1>3. CASE DestroyRelease(c)
  BY <1>2, <1>3 DEF DestroyRelease, DestroyPc
<1>4. CASE DestroyRetry(c)
  BY <1>2, <1>4 DEF DestroyRetry, DestroyPc
<1>5. CASE DestroyJoin(c)
  <2>1. /\ Moves(c) /\ op'[c].pc = "destroyRetry" /\ op'[c].call = op[c].call
        /\ op'[c].got = op[c].got /\ op'[c].final = op[c].final
    BY <1>5, Steps DEF DestroyJoin, Operating, StartPc, StopPc, CommonPc, DestroyPc
  <2>2. TypeOK'
    <3>1. Flags'
      BY <1>5, Zenon DEF DestroyJoin, Flags, TypeOK, shared, owned, SetDiagnostic
    <3> QED BY <1>5, <2>1, <3>1 DEF DestroyJoin, Flags, TypeOK, Moves, Ops, shared, owned
  <2>3. Sound' /\ Owed'
    BY <1>5 DEF DestroyJoin, Vacant, Alive, Sound, Owed, owned
  <2>4. Place(c)' /\ (busy' <=> op'[c].call # "destroy")
    BY <1>5, <2>1 DEF DestroyJoin, Place, Operating, Alone, shared, StartPc, StopPc, CleanupPc,
       DestroyPc
  <2>5. Inside(c)'
    BY <1>5, <2>1 DEF DestroyJoin, Operating, Inside, Starting, Cleaning, Stopping, Quiet, Vacant,
       Alive, Handled, shared, owned
  <2> QED BY <2>1, <2>2, <2>3, <2>4, <2>5, Turn DEF Operating
<1> QED BY <1>1, <1>3, <1>4, <1>5 DEF Destroy

LEMMA ConfigureKeeps ==
  ASSUME IInv, NEW c \in Caller, Configure(c)
  PROVE  IInv'
<1>0. /\ config' \in Configs
      /\ UNCHANGED <<kind, lifecycle, busy, stopRequested, ownership, stopCalled, attempts,
                     stopResult, source, stopsLeft, diag, op, worker, handle, starts>>
  BY DEF Configure, shared, owned
<1>1. TypeOK'
  BY <1>0 DEF IInv, TypeOK
<1> QED BY <1>0, <1>1 DEF IInv, Alone, Sound, Owed, Place, Operating, Inside, Starting, Cleaning,
           Stopping, NoOne, Rest, Truthful, Handled, Quiet, Vacant, Alive

-----------------------------------------------------------------------------
(* The theorems. *)

LEMMA Begins ==
  ASSUME Init PROVE IInv
<1> USE DEF Init
<1>1. TypeOK
  <2>1. Flags
    BY Zenon DEF Flags
  <2> QED BY <2>1, KindsAssumption, MaxStartsAssumption DEF Flags, TypeOK, LifecycleState, Transport,
             Result, Received, CommonPc, WorkerPc
<1>2. Alone /\ Sound /\ Owed /\ Rest
  BY DEF Alone, Operating, Sound, Owed, Rest, Truthful, Quiet, Vacant, Alive, Handled
<1>3. \A c \in Caller : Place(c) /\ ~Operating(c)
  BY DEF Place, Operating
<1> QED BY <1>1, <1>2, <1>3 DEF IInv

LEMMA Keeps ==
  ASSUME IInv, [Next]_vars PROVE IInv'
<1>1. CASE Worker
  BY <1>1, WorkerKeeps
<1>2. CASE Diagnostics \/ SourceFinishes
  BY <1>2, LooksKeep
<1>3. ASSUME NEW c \in Caller, CallerStep(c) PROVE IInv'
  BY <1>3, StartKeeps, StopKeeps, SettlingKeeps, DestroyKeeps, ConfigureKeeps DEF CallerStep
<1>4. CASE UNCHANGED vars
  BY <1>4 DEF vars, IInv, TypeOK, Alone, Sound, Owed, Place, Operating, Inside, Starting, Cleaning,
     Stopping, NoOne, Rest, Truthful, Handled, Quiet, Vacant, Alive
<1> QED BY <1>1, <1>2, <1>3, <1>4 DEF Next

LEMMA Invariance == Spec => []IInv
<1> QED BY Begins, Keeps, PTL DEF Spec

\* Every member keeps its range; stopsLeft is an integer, whatever the callers do.
THEOREM TypeCorrect == Spec => []TypeOK
<1>1. IInv => TypeOK
  BY DEF IInv
<1> QED BY <1>1, Invariance, PTL

\* lifecycle_operation_active_ admits one start, stop or destruction at a time, and
\* everything a start() does before it creates the worker it does alone: no worker
\* of an earlier run is left, and the thread handle may be assigned.
THEOREM OperationsExclude == Spec => []OneOperation
<1>1. IInv => OneOperation
  BY DEF IInv, OneOperation, Alone, Inside, Starting, Vacant, Operating, StartPc
<1> QED BY <1>1, Invariance, PTL

\* A runtime that says Stopped between two operations has no worker, owns nothing,
\* shows Stopped in its diagnostics and, if its source supports retries, holds no bus.
THEOREM StoppedMeansQuiet == Spec => []StoppedIsQuiet
<1>1. IInv => StoppedIsQuiet
  <2> SUFFICES ASSUME IInv, lifecycle = "stopped", ~busy
               PROVE  Quiet /\ (kind.retry => source = "idle")
    BY DEF StoppedIsQuiet, Quiet, Vacant
  <2>1. ASSUME NoOne PROVE Quiet
    BY <2>1 DEF IInv, Rest, Truthful
  <2>2. ASSUME \E c \in Caller : Operating(c) PROVE Quiet
    <3>1. PICK c \in Caller : Operating(c)
      BY <2>2
    <3> QED BY <3>1 DEF IInv, Alone, Inside, Stopping
  <2>3. Quiet
    BY <2>1, <2>2 DEF NoOne, Operating
  <2> QED BY <2>3 DEF IInv, Owed, Quiet
<1> QED BY <1>1, Invariance, PTL

\* While lifecycle() says Running a worker serves the source: run_loop() leaves on
\* request only, and latches Faulted before it requests its own end.
THEOREM RunningMeansServed == Spec => []RunningIsServed
<1>1. IInv => RunningIsServed
  <2> SUFFICES ASSUME IInv, lifecycle = "running", ~busy, ~Gone
               PROVE  worker.pc \notin {"none", "leave", "exit"}
    BY DEF RunningIsServed
  <2>1. NoOne
    BY DEF IInv, Alone, NoOne, Operating, Gone
  <2>2. Alive /\ ~stopRequested
    BY <2>1 DEF IInv, Rest, Truthful
  <2> QED BY <2>2 DEF IInv, Sound, Alive
<1> QED BY <1>1, Invariance, PTL

\* A source is never told to stop more often than its contract allows: timeouts of
\* stop(), repeated stops, a failed start's cleanup and the destructor included.
THEOREM StopsWithinContract == Spec => []StopsAllowed
<1>1. IInv => StopsAllowed
  BY DEF IInv, Owed, StopsAllowed
<1> QED BY <1>1, Invariance, PTL

\* A callback that calls stop() is refused: the handle names its thread, or the start
\* that has not stored the handle yet still is the operation in progress.
THEOREM CallbacksNeverJoin == Spec => []SelfStopRefused
<1>1. IInv => SelfStopRefused
  <2> SUFFICES ASSUME IInv, worker.pc = "observe" PROVE handle \/ busy
    BY DEF SelfStopRefused
  <2>1. CASE NoOne
    BY <2>1 DEF IInv, Rest, Handled, Alive
  <2>2. CASE \E c \in Caller : Operating(c)
    <3>1. PICK c \in Caller : Operating(c)
      BY <2>2
    <3>2. Place(c) /\ Stopping(c) /\ (busy <=> op[c].call # "destroy")
      BY <3>1 DEF IInv, Alone, Inside
    <3> QED BY <3>2 DEF Place, Stopping, Handled, Alive, DestroyPc
  <2> QED BY <2>1, <2>2 DEF NoOne, Operating
<1> QED BY <1>1, Invariance, PTL

\* configure() replaces config_ only when no worker can be reading it.
THEOREM ConfigurationFixed == Spec => ConfigFixed
<1>1. IInv /\ [Next]_vars => [Alive => UNCHANGED config]_vars
  <2> SUFFICES ASSUME IInv, Next, Alive PROVE UNCHANGED config
    OBVIOUS
  <2>1. ASSUME NEW c \in Caller, Configure(c) PROVE FALSE
    BY <2>1 DEF Configure, Admitted, IInv, Sound, Vacant
  <2>2. CASE Worker
    BY <2>2, WorkerActs DEF IInv, WorkerEffect
  <2>3. CASE Diagnostics \/ SourceFinishes
    BY <2>3 DEF Diagnostics, SourceFinishes
  <2>4. ASSUME NEW c \in Caller, Start(c) PROVE UNCHANGED config
    BY <2>4 DEF Start, StartBegin, StartSource, StartRejected, StartArm, StartAnnounce, StartRun,
       StartCreate, StartPublish
  <2>5. ASSUME NEW c \in Caller, Stop(c) PROVE UNCHANGED config
    BY <2>5 DEF Stop, StopBegin, StopTell, StopRequest, StopJoin, StopExpire
  <2>6. ASSUME NEW c \in Caller, Settling(c) PROVE UNCHANGED config
    BY <2>6 DEF Settling, Partial, Release, Settle, Store, Tell, Unlock
  <2>7. ASSUME NEW c \in Caller, Destroy(c) PROVE UNCHANGED config
    BY <2>7 DEF Destroy, DestroyBegin, DestroyRelease, DestroyJoin, DestroyRetry
  <2> QED BY <2>1, <2>2, <2>3, <2>4, <2>5, <2>6, <2>7 DEF Next, CallerStep
<1> QED BY <1>1, Invariance, PTL DEF Spec, ConfigFixed
=============================================================================
