------------------------- MODULE CanBusSourceProofs -------------------------
(***************************************************************************)
(* Theorems about CanBusSource, for every set of sources that share the    *)
(* acquisition, every capacity of the ring and every number of runs.       *)
(***************************************************************************)
EXTENDS CanBusSource, CanBusProofs, FiniteSetTheorems

Outcomes == {"none", "StartRefused", "StartFailed", "Started", "StopOk", "StopFailed"}

SourceTypes == /\ owns \in [Source -> BOOLEAN]
               /\ who \in Source
               /\ returned \in [Source -> Outcomes]
               /\ DOMAIN answer = Source
               /\ starter \in [Task -> Source]

\* Whether s owns the acquisition once it has noted what it was told.
Claim(s) == IF returned[s] = "none" THEN owns[s] ELSE OwnsAfter(s)

\* A start finds no claim, a stop the claim of its caller only; at rest there is
\* one claim, or none on a bus that is Stopped.
Claims ==
  /\ op = "start" => \A s \in Source : ~Claim(s)
  /\ op = "stop" => \A s \in Source : Claim(s) <=> s = who
  /\ op = "none" /\ state = "Stopped" => \A s \in Source : ~Claim(s)
  /\ op = "none" /\ state # "Stopped" => \E s \in Source : Claim(s) /\ \A u \in Source : Claim(u) => u = s

\* What a source was told and has not noted yet fits what it owned before.
Told == /\ op # "none" => returned[who] = "none"
        /\ \A s \in Source : /\ returned[s] = "Started" => ~owns[s]
                             /\ returned[s] = "StopOk" => owns[s]
                             /\ returned[s] = "StartFailed" => \A t \in Task : ~Alive(t)

\* A task that lives is claimed for the source that made it.
Claimed == \A t \in Task, s \in Source : Alive(t) /\ starter[t] = s => Claim(s)

SourceInv == TypeOK /\ IInv /\ SourceTypes /\ Claims /\ Told /\ Claimed

-----------------------------------------------------------------------------
(* What the steps of the bus mean to the sources. *)

LEMMA BusKeeps ==
  ASSUME TypeOK, IInv, [SourceNext /\ TokenBeforeRestart]_<<vars, sources>>
  PROVE  TypeOK' /\ IInv'
<1>1. [Next /\ TokenBeforeRestart]_vars
  BY DEF SourceNext, InCall, BusGoesOn, StartTurnedDown, StopNothing, Call, Note, Next, sources
<1> QED BY <1>1, TypeStep, InvStep

\* A step of the task or the consumer.
LEMMA GoesOnActs ==
  ASSUME TypeOK, BusGoesOn
  PROVE  /\ UNCHANGED <<op, run, sources>>
         /\ state' = "Stopped" <=> state = "Stopped"
         /\ \A t \in Task : Alive(t)' => Alive(t)
<1>1. CASE Receive
  BY <1>1 DEF BusGoesOn, Receive, ReceiveBegin, ReceiveTake, ReceiveExpire, ReceiveCheck, ReceivePop,
     Alive,
     controller, caller
<1>2. ASSUME NEW t \in Task, TaskNext(t)
      PROVE  /\ UNCHANGED <<op, run>>
             /\ state' = "Stopped" <=> state = "Stopped"
             /\ \A u \in Task : Alive(u)' => Alive(u)
  <2>1. UNCHANGED <<op, run>> /\ (state' = "Stopped" <=> state = "Stopped")
    BY <1>2 DEF TaskNext, TaskTest, TaskReceive, TaskGive, TaskPoll, TaskFault, TaskLatch, TaskWake,
       TaskAcknowledge, TaskSignal, controller, caller
  <2>2. \E to : task' = [task EXCEPT ![t] = to] /\ (Alive(t) \/ to = "gone")
    BY <1>2 DEF TaskNext, TaskTest, TaskReceive, TaskGive, TaskPoll, TaskFault, TaskLatch, TaskWake,
       TaskAcknowledge, TaskSignal, TaskStep, Alive
  <2> QED BY <2>1, <2>2 DEF TypeOK, Alive
<1> QED BY <1>1, <1>2 DEF BusGoesOn

\* What start() or stop() tells when it returns, and what the bus then is.
LEMMA InCallActs ==
  ASSUME TypeOK, IInv, TypeOK', IInv', InCall
  PROVE  /\ op \in {"start", "stop"} /\ op' \in {op, "none"}
         /\ op' = "none" =>
              /\ op = "start" => outcome' \in {"Started", "StartFailed", "StartRefused"}
              /\ op = "stop" => outcome' \in {"StopOk", "StopFailed"}
              /\ state' = "Stopped" <=> outcome' \in {"StartRefused", "StopOk"}
         /\ run' = run \/ (op = "start" /\ op' = "none" /\ outcome' = "Started")
         /\ \A t \in Task : Alive(t)' => Alive(t) \/ (t = run' /\ run' # run)
<1>1. op \in {"start", "stop"}
  BY DEF InCall, Start, Stop, StartPrepare, StartDrain, StartInstall, StartDriver, StartUndoInstall,
     StartClear,
     StartArm, StartCreate, StartUndoStart, StopCancel, StopDriver, StopLook, StopWait, StopTakeExited,
     StopUninstall, StopFinish, Reconcile, Settle, CtlStep, IInv, Calls, TypeOK
<1>2. CASE StartCreate
  <2>1. op = "start" /\ state # "Stopped"
    BY <1>2 DEF StartCreate, IInv, Calls, States, StartOnly
  <2>2. CASE /\ run' = run + 1 /\ task' = [task EXCEPT ![run + 1] = "test"]
             /\ Return("Started") /\ UNCHANGED <<state, owned, requested>>
    BY <2>1, <2>2 DEF Return, TypeOK, Alive
  <2>3. CASE UNCHANGED <<run, task, op, outcome>>
    BY <2>1, <2>3, <1>1 DEF Alive
  <2> QED BY <1>2, <2>2, <2>3 DEF StartCreate
<1>3. CASE ~StartCreate
  <2>1. UNCHANGED <<run, task>>
    BY <1>3 DEF InCall, Start, Stop, StartPrepare, StartDrain, StartInstall, StartDriver,
       StartUndoInstall,
       StartClear, StartArm, StartUndoStart, StopCancel, StopDriver, StopLook, StopWait, StopTakeExited,
       StopUninstall, StopFinish, Reconcile, Settle
  <2>2. \/ op' = op
        \/ op' = "none" /\ op = "start" /\ outcome' \in {"StartRefused", "StartFailed"}
        \/ op' = "none" /\ op = "stop" /\ outcome' \in {"StopOk", "StopFailed"}
    <3>1. CASE Settle
      BY <1>1, <3>1 DEF Settle, Return, IInv, Starting
    <3>2. CASE StartPrepare \/ StartInstall
      BY <3>2 DEF StartPrepare, StartInstall, Return, IInv, Calls, StartOnly
    <3>3. CASE StopFinish
      BY <3>3 DEF StopFinish, Return, IInv, Calls, StopOnly
    <3> QED BY <1>3, <3>1, <3>2, <3>3 DEF InCall, Start, Stop, StartDrain, StartDriver,
               StartUndoInstall,
               StartClear, StartArm, StartUndoStart, StopCancel, StopDriver, StopLook, StopWait,
               StopTakeExited, StopUninstall, Reconcile
  <2>3. ASSUME op' = "none", outcome' \in {"StartRefused", "StartFailed", "StopOk", "StopFailed"}
        PROVE  state' = "Stopped" <=> outcome' \in {"StartRefused", "StopOk"}
    BY <2>3 DEF IInv, Calls, States
  <2> QED BY <1>1, <2>1, <2>2, <2>3 DEF Alive
<1> QED BY <1>2, <1>3

-----------------------------------------------------------------------------
(* The invariant. *)

LEMMA SourceBegins ==
  ASSUME SourceInit PROVE SourceInv
<1>1. TypeOK /\ IInv
  BY TypeInit, InvInit DEF SourceInit
<1>2. \A t \in Task : ~Alive(t)
  BY DEF SourceInit, Init, Alive
<1>3. SourceTypes
  BY DEF SourceInit, SourceTypes, Outcomes
<1>4. Claims
  BY DEF SourceInit, Init, Claims, Claim
<1> QED BY <1>1, <1>2, <1>3, <1>4 DEF SourceInv, SourceInit, Init, Told, Claimed

LEMMA GoesOnKeeps ==
  ASSUME SourceInv, TypeOK', IInv', BusGoesOn
  PROVE  SourceInv'
<1>1. /\ UNCHANGED <<op, run, owns, who, returned, answer, starter>>
      /\ state' = "Stopped" <=> state = "Stopped"
      /\ \A t \in Task : Alive(t)' => Alive(t)
  BY GoesOnActs DEF SourceInv, sources
<1>2. \A s \in Source : Claim(s)' <=> Claim(s)
  BY <1>1 DEF Claim, OwnsAfter
<1>3. SourceTypes' /\ Told'
  BY <1>1 DEF SourceInv, SourceTypes, Told
<1>4. Claims'
  BY <1>1, <1>2 DEF SourceInv, SourceTypes, Claims
<1>5. Claimed'
  BY <1>1, <1>2 DEF SourceInv, SourceTypes, Claimed
<1> QED BY <1>3, <1>4, <1>5 DEF SourceInv

LEMMA CallKeeps ==
  ASSUME SourceInv, TypeOK', IInv', NEW s \in Source, Call(s)
  PROVE  SourceInv'
<1>1. /\ returned[s] = "none" /\ op = "none" /\ who' = s /\ UNCHANGED <<owns, returned, answer, starter, task>>
      /\ \/ op' = "start" /\ state = "Stopped"
         \/ op' = "stop" /\ state # "Stopped" /\ owns[s]
  BY DEF Call, Free, StartBegin, StopBegin, SourceInv, IInv, Calls
<1>2. \A u \in Source : Claim(u)' <=> Claim(u)
  BY <1>1 DEF Claim, OwnsAfter
<1>3. SourceTypes' /\ Told' /\ (\A t \in Task : Alive(t)' <=> Alive(t))
  BY <1>1 DEF SourceInv, SourceTypes, Told, Alive
<1>4. owns[s] => Claim(s)
  BY <1>1 DEF Claim
<1>5. Claims'
  BY <1>1, <1>2, <1>4 DEF SourceInv, Claims
<1>6. Claimed'
  BY <1>1, <1>2, <1>3 DEF SourceInv, SourceTypes, Claimed
<1> QED BY <1>3, <1>5, <1>6 DEF SourceInv

LEMMA AnswerKeeps ==
  ASSUME SourceInv, TypeOK', IInv', NEW s \in Source, StartTurnedDown(s) \/ StopNothing(s)
  PROVE  SourceInv'
<1>1. UNCHANGED <<op, state, task, owns, who, returned, starter>> /\ DOMAIN answer' = Source
  BY DEF StartTurnedDown, StopNothing, Answers, vars, controller, caller, SourceInv, SourceTypes
<1>2. \A u \in Source : Claim(u)' <=> Claim(u)
  BY <1>1 DEF Claim, OwnsAfter
<1>3. SourceTypes' /\ Told' /\ (\A t \in Task : Alive(t)' <=> Alive(t))
  BY <1>1 DEF SourceInv, SourceTypes, Told, Alive
<1>4. Claims'
  BY <1>1, <1>2 DEF SourceInv, SourceTypes, Claims
<1>5. Claimed'
  BY <1>1, <1>2, <1>3 DEF SourceInv, SourceTypes, Claimed
<1> QED BY <1>3, <1>4, <1>5 DEF SourceInv

\* The bookkeeping makes owns_acquisition_ what the claim was already.
LEMMA NoteKeeps ==
  ASSUME SourceInv, TypeOK', IInv', NEW s \in Source, Note(s)
  PROVE  SourceInv'
<1>1. /\ returned[s] # "none" /\ UNCHANGED <<op, state, task, who, starter>> /\ DOMAIN answer' = Source
      /\ owns' = [owns EXCEPT ![s] = OwnsAfter(s)] /\ returned' = [returned EXCEPT ![s] = "none"]
  BY DEF Note, Answers, vars, controller, caller, SourceInv, SourceTypes
<1>2. OwnsAfter(s) \in BOOLEAN
  BY DEF OwnsAfter, SourceInv, SourceTypes
<1>3. SourceTypes'
  <2>1. owns' \in [Source -> BOOLEAN]
    BY <1>1, <1>2, Zenon DEF SourceInv, SourceTypes
  <2> QED BY <1>1, <2>1 DEF SourceInv, SourceTypes, Outcomes
<1>4. owns'[s] = OwnsAfter(s) /\ returned'[s] = "none"
  BY <1>1 DEF SourceInv, SourceTypes
<1>5. \A u \in Source \ {s} : owns'[u] = owns[u] /\ returned'[u] = returned[u]
  BY <1>1 DEF SourceInv, SourceTypes
<1>6. \A u \in Source : Claim(u)' <=> Claim(u)
  BY <1>1, <1>4, <1>5 DEF Claim, OwnsAfter
<1>7. Told' /\ (\A t \in Task : Alive(t)' <=> Alive(t))
  BY <1>1, <1>4, <1>5 DEF SourceInv, Told, Alive
<1>8. Claims'
  BY <1>1, <1>6 DEF SourceInv, SourceTypes, Claims
<1>9. Claimed'
  BY <1>1, <1>6, <1>7 DEF SourceInv, SourceTypes, Claimed
<1> QED BY <1>3, <1>7, <1>8, <1>9 DEF SourceInv

LEMMA InCallKeeps ==
  ASSUME SourceInv, TypeOK', IInv', InCall
  PROVE  SourceInv'
<1> DEFINE new == run' # run
<1>1. /\ op \in {"start", "stop"} /\ op' \in {op, "none"}
      /\ op' = "none" =>
           /\ op = "start" => outcome' \in {"Started", "StartFailed", "StartRefused"}
           /\ op = "stop" => outcome' \in {"StopOk", "StopFailed"}
           /\ state' = "Stopped" <=> outcome' \in {"StartRefused", "StopOk"}
      /\ new => op = "start" /\ op' = "none" /\ outcome' = "Started"
      /\ \A t \in Task : Alive(t)' => Alive(t) \/ (t = run' /\ new)
  BY InCallActs DEF SourceInv
<1>2. /\ returned' = (IF op' = "none" THEN [returned EXCEPT ![who] = outcome'] ELSE returned)
      /\ starter' = (IF new THEN [starter EXCEPT ![run'] = who] ELSE starter)
      /\ UNCHANGED <<owns, who, answer>>
  BY DEF InCall
<1> HIDE DEF new
<1>3. returned[who] = "none" /\ who \in Source /\ (Claim(who) <=> owns[who])
  BY <1>1 DEF SourceInv, Told, SourceTypes, Claim
<1>4. SourceTypes'
  BY <1>1, <1>2, <1>3 DEF SourceInv, SourceTypes, Outcomes
<1>5. \A u \in Source \ {who} : returned'[u] = returned[u] /\ (Claim(u)' <=> Claim(u))
  BY <1>2, <1>3 DEF SourceInv, SourceTypes, Claim, OwnsAfter
<1>6. \A t \in Task : Alive(t)' => IF t = run' /\ new THEN starter'[t] = who ELSE starter'[t] = starter[t]
  BY <1>2 DEF SourceInv, SourceTypes
<1>7. op = "start" => \A t \in Task : ~Alive(t)
  BY DEF SourceInv, IInv, Tasks
<1>8. CASE op' = op
  <2>1. op' # "none" /\ ~new /\ returned' = returned
    BY <1>1, <1>2, <1>8
  <2>2. \A u \in Source : Claim(u)' <=> Claim(u)
    BY <1>2, <2>1 DEF Claim, OwnsAfter
  <2>3. Told'
    BY <1>1, <1>2, <1>3, <2>1 DEF SourceInv, Told
  <2>4. Claims'
    BY <1>1, <1>2, <1>8, <2>1, <2>2 DEF SourceInv, Claims
  <2>5. Claimed'
    BY <1>1, <1>6, <2>1, <2>2 DEF SourceInv, SourceTypes, Claimed
  <2> QED BY <1>4, <2>3, <2>4, <2>5 DEF SourceInv
<1>9. CASE op' = "none"
  <2>1. returned'[who] = outcome'
    BY <1>2, <1>9, <1>3 DEF SourceInv, SourceTypes
  <2>2. Claim(who)' <=> outcome' \in {"Started", "StartFailed"} \/ (owns[who] /\ outcome' # "StopOk")
    BY <1>1, <1>2, <1>9, <2>1 DEF Claim, OwnsAfter
  <2>3. op = "start" => /\ ~owns[who] /\ (Claim(who)' <=> outcome' # "StartRefused")
                        /\ \A u \in Source \ {who} : ~Claim(u)'
    BY <1>1, <1>3, <1>5, <1>9, <2>2 DEF SourceInv, Claims
  <2>4. op = "stop" => /\ owns[who] /\ (Claim(who)' <=> outcome' # "StopOk")
                       /\ \A u \in Source \ {who} : ~Claim(u)'
    BY <1>1, <1>3, <1>5, <1>9, <2>2 DEF SourceInv, Claims
  <2>5. Claims'
    BY <1>1, <1>2, <1>3, <1>9, <2>3, <2>4 DEF Claims
  <2>6. Told'
    <3>1. ASSUME NEW u \in Source, returned'[u] = "StartFailed" PROVE \A t \in Task : ~Alive(t)'
      <4>1. CASE u # who
        <5>1. returned[u] = "StartFailed" /\ Claim(u)
          BY <1>5, <3>1, <4>1 DEF Claim, OwnsAfter
        <5>2. ~new
          BY <1>1, <5>1 DEF SourceInv, Claims
        <5> QED BY <1>1, <5>1, <5>2 DEF SourceInv, Told
      <4>2. CASE u = who
        BY <1>1, <1>7, <1>9, <2>1, <3>1, <4>2
      <4> QED BY <4>1, <4>2
    <3>2. ASSUME NEW u \in Source
          PROVE  (returned'[u] = "Started" => ~owns[u]) /\ (returned'[u] = "StopOk" => owns[u])
      <4>1. CASE u # who
        BY <1>5, <4>1 DEF SourceInv, Told
      <4>2. CASE u = who
        BY <1>1, <1>9, <2>1, <2>3, <2>4, <4>2
      <4> QED BY <4>1, <4>2
    <3> QED BY <1>2, <1>9, <3>1, <3>2 DEF Told
  <2>7. Claimed'
    <3> SUFFICES ASSUME NEW t \in Task, NEW u \in Source, Alive(t)', starter'[t] = u PROVE Claim(u)'
      BY DEF Claimed
    <3>1. CASE t = run' /\ new
      <4>1. u = who /\ who' = who /\ returned'[u] = "Started"
        BY <1>1, <1>2, <1>6, <2>1, <3>1
      <4> QED BY <4>1 DEF Claim, OwnsAfter
    <3>2. CASE ~(t = run' /\ new)
      <4>1. Alive(t) /\ op = "stop" /\ starter'[t] = starter[t] /\ starter[t] = who
        BY <1>1, <1>6, <1>7, <3>2 DEF SourceInv, SourceTypes, Claimed, Claims
      <4>2. outcome' # "StopOk"
        BY <1>1, <1>9 DEF SourceInv, IInv, States, Ownership
      <4>3. u = who /\ owns'[u] /\ returned'[u] = "StopFailed"
        BY <1>1, <1>2, <1>9, <2>1, <2>4, <4>1, <4>2
      <4> QED BY <4>3 DEF Claim, OwnsAfter
    <3> QED BY <3>1, <3>2
  <2> QED BY <1>4, <2>5, <2>6, <2>7 DEF SourceInv
<1> QED BY <1>1, <1>8, <1>9

LEMMA SourceKeeps ==
  ASSUME SourceInv, [SourceNext /\ TokenBeforeRestart]_<<vars, sources>>
  PROVE  SourceInv'
<1>1. TypeOK' /\ IInv'
  BY BusKeeps DEF SourceInv
<1>2. CASE UNCHANGED <<vars, sources>>
  BY <1>1, <1>2 DEF SourceInv, SourceTypes, Claims, Claim, OwnsAfter, Told, Claimed, Alive, vars,
     sources,
     controller, caller
<1> QED BY <1>1, <1>2, GoesOnKeeps, CallKeeps, AnswerKeeps, NoteKeeps, InCallKeeps DEF SourceNext

LEMMA SourceInvariance == SourceSpec => []SourceInv
<1> QED BY SourceBegins, SourceKeeps, PTL DEF SourceSpec

-----------------------------------------------------------------------------
(* The theorems. *)

\* At rest a bus that may hold a driver or a task has exactly one owner among the
\* sources, which its stop() lets through; a bus that is Stopped has none.
THEOREM ExactlyOneClaim == SourceSpec => []OneClaim
<1>1. SourceInv => OneClaim
  <2> SUFFICES ASSUME SourceInv, ctl = "idle", \A s \in Source : returned[s] = "none"
               PROVE  Cardinality({s \in Source : owns[s]}) = IF state = "Stopped" THEN 0 ELSE 1
    BY DEF OneClaim
  <2>1. op = "none" /\ \A s \in Source : Claim(s) <=> owns[s]
    BY DEF SourceInv, IInv, Calls, Claim
  <2>2. CASE state = "Stopped"
    <3>1. {s \in Source : owns[s]} = {}
      BY <2>1, <2>2 DEF SourceInv, Claims
    <3> QED BY <2>2, <3>1, FS_EmptySet
  <2>3. CASE state # "Stopped"
    <3>1. PICK s \in Source : Claim(s) /\ \A u \in Source : Claim(u) => u = s
      BY <2>1, <2>3 DEF SourceInv, Claims
    <3>2. {u \in Source : owns[u]} = {s}
      BY <2>1, <3>1
    <3> QED BY <2>3, <3>2, FS_Singleton
  <2> QED BY <2>2, <2>3
<1> QED BY <1>1, SourceInvariance, PTL

\* The source that made a task keeps its claim as long as the task lives, whoever
\* calls between the return of its own call and its bookkeeping.
THEOREM TaskKeepsOwner == SourceSpec => []TaskHasOwner
<1>1. SourceInv => TaskHasOwner
  <2> SUFFICES ASSUME SourceInv, NEW t \in Task, Alive(t)
               PROVE  owns[starter[t]] \/ returned[starter[t]] = "Started"
    BY DEF TaskHasOwner
  <2>1. starter[t] \in Source /\ Claim(starter[t]) /\ returned[starter[t]] # "StartFailed"
    BY DEF SourceInv, SourceTypes, Claimed, Told
  <2> QED BY <2>1 DEF Claim, OwnsAfter
<1> QED BY <1>1, SourceInvariance, PTL

\* The source s answered a call as SourceContract has it, or nothing happened to it.
Answered(s) == Contract(s)!Next \/ UNCHANGED Contract(s)!vars

LEMMA Noted ==
  ASSUME SourceInv, NEW s \in Source, Note(s), NEW u \in Source
  PROVE  Answered(u)
<1>1. /\ owns' = [owns EXCEPT ![s] = OwnsAfter(s)] /\ returned[s] # "none"
      /\ answer' = [answer EXCEPT ![s] =
           <<IF returned[s] \in {"StopOk", "StopFailed"} THEN "stop" ELSE "start", Result(returned[s])>>]
  BY DEF Note, Answers
<1>2. owns \in [Source -> BOOLEAN] /\ returned[s] \in Outcomes /\ DOMAIN answer = Source
  BY DEF SourceInv, SourceTypes
<1>3. CASE u # s
  <2>1. owns'[u] = owns[u] /\ answer'[u] = answer[u]
    BY <1>1, <1>2, <1>3
  <2> QED BY <2>1 DEF Answered, Contract!vars
<1>4. CASE u = s
  <2>1. /\ owns'[u] = OwnsAfter(u)
        /\ answer'[u] = <<IF returned[u] \in {"StopOk", "StopFailed"} THEN "stop" ELSE "start",
                          Result(returned[u])>>
    BY <1>1, <1>2, <1>4
  <2>2. /\ returned[u] = "Started" => ~owns[u]
        /\ returned[u] = "StopOk" => owns[u]
    BY DEF SourceInv, Told
  <2>3. CASE returned[u] = "Started"
    BY <2>1, <2>2, <2>3 DEF Answered, Contract!Next, Contract!Starts, OwnsAfter, Result
  <2>4. CASE returned[u] = "StartFailed"
    BY <2>1, <2>4 DEF Answered, Contract!Next, Contract!Starts, OwnsAfter, Result
  <2>5. CASE returned[u] = "StartRefused"
    BY <2>1, <2>5 DEF Answered, Contract!Next, Contract!Starts, OwnsAfter, Result
  <2>6. CASE returned[u] = "StopOk"
    BY <2>1, <2>2, <2>6 DEF Answered, Contract!Next, Contract!Stops, OwnsAfter, Result
  <2>7. CASE returned[u] = "StopFailed"
    BY <2>1, <2>7 DEF Answered, Contract!Next, Contract!Stops, OwnsAfter, Result
  <2> QED BY <1>1, <1>2, <1>4, <2>3, <2>4, <2>5, <2>6, <2>7 DEF Outcomes
<1> QED BY <1>3, <1>4

LEMMA Refused ==
  ASSUME SourceInv, NEW s \in Source, StartTurnedDown(s) \/ StopNothing(s), NEW u \in Source
  PROVE  Answered(u)
<1>1. /\ UNCHANGED owns
      /\ \/ \E r \in {"rejected", "failed"} : answer' = [answer EXCEPT ![s] = <<"start", r>>]
         \/ ~owns[s] /\ answer' = [answer EXCEPT ![s] = <<"stop", "notRunning">>]
  BY DEF StartTurnedDown, StopNothing, Answers
<1>2. DOMAIN answer = Source
  BY DEF SourceInv, SourceTypes
<1>3. CASE u # s
  <2>1. owns'[u] = owns[u] /\ answer'[u] = answer[u]
    BY <1>1, <1>2, <1>3
  <2> QED BY <2>1 DEF Answered, Contract!vars
<1>4. CASE u = s
  <2>1. /\ owns'[u] = owns[u]
        /\ \/ \E r \in {"rejected", "failed"} : answer'[u] = <<"start", r>>
           \/ ~owns[u] /\ answer'[u] = <<"stop", "notRunning">>
    BY <1>1, <1>2, <1>4
  <2> QED BY <2>1 DEF Answered, Contract!Next, Contract!Starts, Contract!Stops
<1> QED BY <1>3, <1>4

\* Every CanBusSource answers as the contract that the runtime relies on has it: it
\* reports a release only of what it held, and NotRunning only if it held nothing.
THEOREM SourcesKeepContract == SourceSpec => ContractKept
<1>1. SourceInit => \A s \in Source : Contract(s)!Init
  BY DEF SourceInit, Contract!Init
<1>2. SourceInv /\ [SourceNext /\ TokenBeforeRestart]_<<vars, sources>> =>
        [\A s \in Source : Contract(s)!Next \/ UNCHANGED Contract(s)!vars]_<<vars, sources>>
  <2> SUFFICES ASSUME SourceInv, SourceNext PROVE \A s \in Source : Answered(s)
    BY DEF Answered
  <2>1. CASE UNCHANGED <<owns, answer>>
    BY <2>1 DEF Answered, Contract!vars
  <2>2. ASSUME NEW s \in Source, Call(s) PROVE UNCHANGED <<owns, answer>>
    BY <2>2 DEF Call
  <2> QED BY <2>1, <2>2, Noted, Refused DEF SourceNext, InCall, BusGoesOn, sources
<1> QED BY <1>1, <1>2, SourceInvariance, PTL DEF SourceSpec, ContractKept
=============================================================================
