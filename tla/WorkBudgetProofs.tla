-------------------------- MODULE WorkBudgetProofs --------------------------
(* Theorems about WorkBudget for every accepted configuration and tick rate. *)
EXTENDS WorkBudget, TLAPS

Types == /\ clock \in Int /\ runStart \in Int
         /\ calls \in Nat /\ frames \in Nat /\ unrefreshed \in Nat /\ ticks \in Nat
         /\ asking \in [Thread -> {"no", "lock", "set", "notify"}]

(* Where a receive may still come in this run, where a pause was decided. *)
Working == pc \in {"loop", "receive", "check", "process", "request", "after", "budget"}
Pausing == pc \in {"pause", "sleep", "asleep", "woken", "expired", "tick", "delay", "resume"}
Ending  == pc \in {"recheck", "refresh"}

Phases == /\ Working => action # "pause" /\ calls < MaxCalls /\ frames < MaxFrames
          /\ Working \/ Ending => ~rested
          /\ Ending /\ action # "pause" => calls < MaxCalls
          /\ Pausing => action = "pause"
          /\ pc = "delay" => ticks > 0
          /\ pc \in {"expired", "resume"} \/ (pc = "tick" /\ ticks = 0) => rested
          /\ asking["worker"] # "no" => pc = "request"

(* The frames of a batch are those since the last refresh. *)
Batch == /\ pc \in {"loop", "receive", "check", "process"} => unrefreshed = frames
         /\ pc = "request" => got = "fault"
         /\ pc \in {"after", "budget"} /\ got = "frame" => unrefreshed = frames + 1
         /\ pc = "recheck" /\ ~stop /\ action # "pause" => frames = 0
         /\ pc = "refresh" /\ action # "pause" => frames = 0
         /\ Pausing => unrefreshed = 0

(* Once something has ended after the stop request, only tests of it follow. *)
Promptly == /\ late \in 0..1
            /\ ~stop => late = 0
            /\ late = 1 => pc \in {"check", "recheck", "tick", "left"}

IInv == Types /\ Phases /\ Batch /\ Promptly

-----------------------------------------------------------------------------
(* The wait of a pause is never rounded down to nothing: "Round up, never to *)
(* zero ticks."                                                              *)
LEMMA TicksPositive == PauseTicks \in Nat /\ PauseTicks > 0
<1>1. /\ PauseMs \in Nat /\ PauseMs >= 1
      /\ TickRate \in Nat /\ TickRate >= 1
  BY ConfigAssumption, TickAssumption DEF ValidConfig
<1>2. PauseMs * TickRate \in Nat /\ PauseMs * TickRate >= 1
  BY <1>1, SMT
<1> DEFINE n == PauseMs * TickRate + 999
<1>3. n \in Nat /\ n >= 1000
  BY <1>2
<1> HIDE DEF n
<1>4. n \div 1000 \in Nat /\ n \div 1000 > 0
  BY <1>3, SMT
<1> QED BY <1>4 DEF PauseTicks, n

LEMMA Limits == MaxFrames \in Nat /\ MaxFrames > 0 /\ MaxCalls \in Nat /\ MaxCalls > 0
                /\ MaxRunTime \in Nat /\ MaxRunTime > 0
BY ConfigAssumption DEF ValidConfig

(* The inductive invariant holds initially and is preserved by every action. *)
LEMMA Start == Init => IInv
BY Limits DEF Init, IInv, Types, Phases, Batch, Promptly, Working, Pausing, Ending, Thread

LEMMA Step == IInv /\ [Next]_vars => IInv'
<1> SUFFICES ASSUME IInv, [Next]_vars PROVE IInv'
  OBVIOUS
<1> USE Limits DEF Thread, IInv, Types, Phases, Batch, Promptly, Working, Pausing, Ending, budget, stopping
<1>1. CASE Pass
  BY <1>1, TickAssumption DEF Pass
<1>2. CASE Test
  BY <1>2 DEF Test, Goto
<1>3. CASE Receive
  BY <1>3 DEF Receive, Goto, Late
<1>4. CASE Process
  BY <1>4 DEF Process, Goto
<1>5. CASE Budget
  <2>1. pc = "budget" /\ calls < MaxCalls /\ frames < MaxFrames /\ ~rested
    BY <1>5 DEF Budget
  <2>2. CASE action' = "continue"
    <3>1. got = "frame" /\ calls' = calls + 1 /\ frames' = frames + 1 /\ runStart' = runStart
          /\ calls' < MaxCalls /\ frames' < MaxFrames
      BY <1>5, <2>2 DEF Budget, AfterReceive, Checkpoint, BatchOver
    <3> QED BY <1>5, <2>1, <2>2, <3>1 DEF Budget
  <2>3. CASE action' # "continue"
    <3>1. /\ calls' = calls + 1 /\ frames' \in Nat /\ runStart' = runStart
          /\ action' # "pause" => frames' = 0 /\ calls' < MaxCalls
      BY <1>5, <2>3 DEF Budget, AfterReceive, Checkpoint
    <3> QED BY <1>5, <2>1, <2>3, <3>1 DEF Budget
  <2> QED BY <2>2, <2>3
<1>6. CASE Refresh
  BY <1>6 DEF Refresh, Goto
<1>7. CASE Resume
  <2>1. ~rested'
    BY <1>7, Zenon DEF Resume
  <2>2. /\ pc = "resume" /\ pc' = "loop" /\ action' = "continue"
        /\ calls' = 0 /\ frames' = 0 /\ runStart' = clock
        /\ UNCHANGED <<clock, unrefreshed, ticks, asking, stop, got, late>>
    BY <1>7 DEF Resume, AfterPause, Goto
  <2>3. Types'
    BY <2>2
  <2>4. Phases'
    BY <2>1, <2>2
  <2>5. Batch' /\ Promptly'
    BY <2>2
  <2> QED BY <2>3, <2>4, <2>5
<1>8. CASE HostLook \/ HostSleep \/ HostWake \/ HostExpire \/ HostExpired
  BY <1>8 DEF HostLook, HostSleep, HostWake, HostExpire, HostExpired, Goto
<1>9. CASE EspPause \/ EspTick \/ EspDelay
  BY <1>9, TicksPositive DEF EspPause, EspTick, EspDelay, Goto, Late
<1>10. CASE Ask
  BY <1>10 DEF Ask
<1>11. ASSUME NEW t \in Thread, Request(t) PROVE IInv'
  BY <1>11 DEF Request, RequestLock, RequestSet, RequestNotify
<1>12. CASE UNCHANGED vars
  BY <1>12 DEF vars
<1> QED BY <1>1, <1>2, <1>3, <1>4, <1>5, <1>6, <1>7, <1>8, <1>9, <1>10, <1>11, <1>12
        DEF Next, Worker

LEMMA Invariance == Spec => []IInv
BY Start, Step, PTL DEF Spec

-----------------------------------------------------------------------------
(* Types.  The counters stay within the configured limits because the limits *)
(* are tested after every receive, and a pause counts down whole ticks.      *)
LEMMA TypesStart == Init => TypeOK
<1> SUFFICES ASSUME Init PROVE TypeOK
  OBVIOUS
<1>1. stop \in BOOLEAN /\ rested \in BOOLEAN
  BY Zenon DEF Init
<1> QED BY <1>1, Limits, TicksPositive, TickAssumption DEF Init, TypeOK, Thread

LEMMA FlagsStep == stop \in BOOLEAN /\ rested \in BOOLEAN /\ [Next]_vars
                   => stop' \in BOOLEAN /\ rested' \in BOOLEAN
<1> SUFFICES ASSUME stop \in BOOLEAN, rested \in BOOLEAN, [Next]_vars
             PROVE  stop' \in BOOLEAN /\ rested' \in BOOLEAN
  OBVIOUS
<1> USE DEF stopping
<1>1. CASE Pass \/ Test \/ Receive \/ Process \/ Budget \/ Refresh
  BY <1>1, Zenon DEF Pass, Test, Receive, Process, Budget, Refresh
<1>2. CASE Resume \/ HostLook \/ HostSleep \/ HostWake \/ HostExpire \/ HostExpired
  BY <1>2, Zenon DEF Resume, HostLook, HostSleep, HostWake, HostExpire, HostExpired
<1>3. CASE EspPause \/ EspTick \/ EspDelay \/ Ask
  BY <1>3, Zenon DEF EspPause, EspTick, EspDelay, Ask
<1>4. ASSUME NEW t \in Thread, Request(t) PROVE stop' \in BOOLEAN /\ rested' \in BOOLEAN
  BY <1>4, Zenon DEF Request, RequestLock, RequestSet, RequestNotify
<1>5. CASE UNCHANGED vars
  BY <1>5 DEF vars
<1> QED BY <1>1, <1>2, <1>3, <1>4, <1>5 DEF Next, Worker

LEMMA TypesStep == TypeOK /\ IInv /\ [Next]_vars => TypeOK'
<1> SUFFICES ASSUME TypeOK, IInv, [Next]_vars PROVE TypeOK'
  OBVIOUS
<1>f. stop' \in BOOLEAN /\ rested' \in BOOLEAN
  BY FlagsStep DEF TypeOK
<1> USE <1>f, Limits, TickAssumption, TicksPositive DEF TypeOK, Thread, budget, stopping
<1>1. CASE Pass
  BY <1>1 DEF Pass
<1>2. CASE Test
  BY <1>2 DEF Test, Goto
<1>3. CASE Receive
  BY <1>3 DEF Receive, Goto, Late
<1>4. CASE Process
  BY <1>4 DEF Process, Goto
<1>5. CASE Budget
  <2>1. calls < MaxCalls /\ frames < MaxFrames
    BY <1>5 DEF Budget, IInv, Phases, Working
  <2>2. /\ calls' = calls + 1 /\ frames' \in {0, frames, frames + 1}
        /\ batchStart' \in {batchStart, clock} /\ runStart' = runStart
        /\ action' \in {"continue", "checkpoint", "pause"}
    BY <1>5 DEF Budget, AfterReceive, Checkpoint
  <2>3. UNCHANGED <<backend, clock, got, ticks, mutex, asking, unrefreshed, late>>
        /\ pc' \in {"receive", "recheck"}
    BY <1>5 DEF Budget
  <2> QED BY <2>1, <2>2, <2>3
<1>6. CASE Refresh
  BY <1>6 DEF Refresh, Goto
<1>7. CASE Resume
  BY <1>7 DEF Resume, AfterPause, Goto
<1>8. CASE HostLook \/ HostSleep \/ HostWake \/ HostExpire \/ HostExpired
  BY <1>8 DEF HostLook, HostSleep, HostWake, HostExpire, HostExpired, Goto
<1>9. CASE EspPause \/ EspTick
  BY <1>9 DEF EspPause, EspTick, Goto
<1>10. CASE EspDelay
  BY <1>10 DEF EspDelay, Goto, Late, IInv, Phases
<1>11. CASE Ask
  BY <1>11 DEF Ask
<1>12. ASSUME NEW t \in Thread, Request(t) PROVE TypeOK'
  BY <1>12 DEF Request, RequestLock, RequestSet, RequestNotify
<1>13. CASE UNCHANGED vars
  BY <1>13 DEF vars
<1> QED BY <1>1, <1>2, <1>3, <1>4, <1>5, <1>6, <1>7, <1>8, <1>9, <1>10, <1>11, <1>12, <1>13
        DEF Next, Worker

(* Every counter of the budget stays within the limit it is compared with. *)
THEOREM TypeCorrect == Spec => []TypeOK
<1>1. TypeOK /\ IInv /\ [Next]_vars => TypeOK'
  BY TypesStep
<1> QED BY <1>1, TypesStart, Invariance, PTL DEF Spec

-----------------------------------------------------------------------------
(* A silence shows at the latest after a batch's worth of frames. *)
THEOREM Refreshed == Spec => []RefreshedInTime
<1>1. IInv => RefreshedInTime
  BY DEF IInv, Phases, Batch, Working, RefreshedInTime
<1> QED BY <1>1, Invariance, PTL

(* At most one receive or tick ends after a stop request. *)
THEOREM Prompt == Spec => []StopIsPrompt
<1>1. IInv => StopIsPrompt
  BY DEF IInv, Promptly, StopIsPrompt
<1> QED BY <1>1, Invariance, PTL

(* The worker's pacing implements the abstract bound on work between pauses. *)
LEMMA PacedStart == Init => BW!Init
BY DEF Init, BW!Init

LEMMA PacedStep == IInv /\ [Next]_vars => [BW!Next]_BW!vars
<1> SUFFICES ASSUME IInv, [Next]_vars PROVE [BW!Next]_BW!vars
  OBVIOUS
<1> USE DEF IInv, Types, Phases, Working, Pausing, Ending
<1> DEFINE Same == UNCHANGED <<clock, calls, runStart, action, rested>>
<1>s. Same => UNCHANGED BW!vars
  BY DEF BW!vars
<1>1. CASE Pass
  <2>1. clock' > clock /\ UNCHANGED <<calls, runStart, action, rested>>
    BY <1>1, TickAssumption DEF Pass, budget
  <2> QED BY <2>1 DEF BW!Next, BW!Pass
<1>2. CASE Test \/ Receive \/ Process \/ HostLook \/ HostSleep \/ HostWake \/ HostExpired \/ EspPause
           \/ EspTick \/ Ask
  BY <1>2, <1>s DEF Test, Receive, Process, HostLook, HostSleep, HostWake, HostExpired, EspPause,
                    EspTick, Ask, budget
<1>3. CASE Budget
  <2>1. /\ action # "pause" /\ ~rested
        /\ calls' = calls + 1 /\ UNCHANGED <<clock, runStart, rested>>
    BY <1>3 DEF Budget, AfterReceive, Checkpoint
  <2>2. (action' = "pause") <=> (calls' >= MaxCalls \/ clock - runStart >= MaxRunTime)
    BY <1>3, Limits DEF Budget, AfterReceive, Checkpoint, Elapsed
  <2> QED BY <2>1, <2>2 DEF BW!Next, BW!Work
<1>4. CASE Refresh
  <2>1. UNCHANGED <<clock, calls, runStart, rested>> /\ (action' = "pause") = (action = "pause")
    BY <1>4 DEF Refresh
  <2> QED BY <2>1 DEF BW!vars
<1>5. CASE HostExpire \/ EspDelay
  <2>1. action = "pause" /\ rested' = TRUE /\ UNCHANGED <<clock, calls, runStart, action>>
    BY <1>5 DEF HostExpire, EspDelay, Goto, budget
  <2> QED BY <2>1 DEF BW!Next, BW!Rest
<1>6. CASE Resume
  <2>1. rested /\ calls' = 0 /\ runStart' = clock /\ action' = "continue" /\ rested' = FALSE
        /\ UNCHANGED clock
    BY <1>6 DEF Resume, Goto, AfterPause
  <2> QED BY <2>1 DEF BW!Next, BW!Resume
<1>7. ASSUME NEW t \in Thread, Request(t) PROVE Same
  BY <1>7 DEF Request, RequestLock, RequestSet, RequestNotify, budget
<1>8. CASE UNCHANGED vars
  BY <1>8, <1>s DEF vars, budget
<1> QED BY <1>1, <1>2, <1>3, <1>4, <1>5, <1>6, <1>7, <1>8, <1>s DEF Next, Worker

THEOREM Paced == Spec => WorkSpec
<1>1. Spec => BW!Init /\ [][BW!Next]_BW!vars
  BY PacedStart, PacedStep, Invariance, PTL DEF Spec
<1> QED BY <1>1 DEF WorkSpec, BW!Spec
=============================================================================
