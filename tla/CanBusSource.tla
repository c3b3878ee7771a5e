---------------------------- MODULE CanBusSource ----------------------------
(***************************************************************************)
(* CanBusSource (can_bus_source.cpp): several sources, each of its own     *)
(* runtime or application, on the one acquisition that CanBus models.  A   *)
(* source decides by owns_acquisition_ alone whether its stop() may touch  *)
(* the bus.                                                                *)
(*                                                                         *)
(* Calls of can_bus are serialized.  What a source does with the result of *)
(* its call is not: another source's call may come between can_bus's       *)
(* return and the source's own bookkeeping.                                *)
(***************************************************************************)
EXTENDS CanBus

CONSTANT Source

VARIABLES owns,      \* each source: owns_acquisition_
          who,       \* the source whose can_bus call is running, or ran last
          returned,  \* each source: the outcome it got and has not noted yet
          answer,    \* each source: its last call and what it answered
          starter    \* ghost: the source that made the task of each run

sources == <<owns, who, returned, answer, starter>>

SourceInit == /\ Init
              /\ owns = [s \in Source |-> FALSE]
              /\ who \in Source
              /\ returned = [s \in Source |-> "none"]
              /\ answer = [s \in Source |-> <<"none", "none">>]
              /\ starter = [t \in Task |-> who]

Free(s) == ctl = "idle" /\ returned[s] = "none"
Answers(s, call, r) == answer' = [answer EXCEPT ![s] = <<call, r>>]

-----------------------------------------------------------------------------
(* A start that can_bus does not admit: the configuration is invalid, or the bus *)
(* is not Stopped.  Only AlreadyRunning and InvalidConfiguration tell the caller *)
(* that it has nothing to clean up.                                              *)
StartTurnedDown(s) ==
  /\ Free(s)
  /\ \E r \in {"rejected", "failed"} :
       /\ r = "failed" => state \in {"Stopping", "Faulted"}
       /\ Answers(s, "start", r)
  /\ UNCHANGED <<vars, owns, who, returned, starter>>

(* stop() and retry_stop() without an acquisition of this source: NotRunning. *)
StopNothing(s) == /\ Free(s) /\ ~owns[s]
                  /\ Answers(s, "stop", "notRunning")
                  /\ UNCHANGED <<vars, owns, who, returned, starter>>

(* The call of can_bus::internal::start_with_ownership() or can_bus::stop(). *)
Call(s) == /\ Free(s)
           /\ StartBegin \/ (owns[s] /\ StopBegin)
           /\ who' = s
           /\ UNCHANGED <<owns, returned, answer, starter>>

InCall == /\ Start \/ Stop \/ Reconcile \/ Settle
          /\ returned' = IF op' = "none" THEN [returned EXCEPT ![who] = outcome'] ELSE returned
          /\ starter' = IF run' # run THEN [starter EXCEPT ![run'] = who] ELSE starter
          /\ UNCHANGED <<owns, who, answer>>

(* Mutation: the lifecycle of the bus is sampled instead of the outcome of the call. *)
OwnsAfterSampled(s) == IF returned[s] \in {"Started", "StartFailed", "StartRefused"}
                       THEN owns[s] \/ state # "Stopped"
                       ELSE owns[s] /\ returned[s] # "StopOk"

(* Mutation: the claim is dropped by a stop that failed. *)
OwnsAfterAnyStop(s) == returned[s] \in {"Started", "StartFailed"}
                       \/ (owns[s] /\ returned[s] = "StartRefused")

(* cleanup_required makes a claim, a confirmed release ends it. *)
OwnsAfter(s) == \/ returned[s] \in {"Started", "StartFailed"}
                \/ owns[s] /\ returned[s] # "StopOk"

(* Mutation: a stop that failed is mapped to Ok. *)
ResultOk(out) == IF out \in {"Started", "StopOk", "StopFailed"} THEN "ok" ELSE "failed"

Result(out) == IF out \in {"Started", "StopOk"} THEN "ok" ELSE "failed"

Note(s) == /\ returned[s] # "none"
           /\ owns' = [owns EXCEPT ![s] = OwnsAfter(s)]
           /\ Answers(s, IF returned[s] \in {"StopOk", "StopFailed"} THEN "stop" ELSE "start",
                      Result(returned[s]))
           /\ returned' = [returned EXCEPT ![s] = "none"]
           /\ UNCHANGED <<vars, who, starter>>

BusGoesOn == /\ (\E t \in Task : TaskNext(t)) \/ Receive
             /\ UNCHANGED sources

SourceNext == \/ InCall \/ BusGoesOn
              \/ \E s \in Source : StartTurnedDown(s) \/ StopNothing(s) \/ Call(s) \/ Note(s)

(* Under the scheduling assumption of CanBus. *)
SourceSpec == SourceInit /\ [][SourceNext /\ TokenBeforeRestart]_<<vars, sources>>

-----------------------------------------------------------------------------
(* Each source keeps the contract the runtime is built on, with its claim for what *)
(* it holds, whatever the driver, the task and the other sources do.               *)
Contract(s) == INSTANCE SourceContract WITH source <- IF owns[s] THEN "held" ELSE "idle",
                                            answer <- answer[s]
ContractKept ==
  /\ \A s \in Source : Contract(s)!Init
  /\ [][\A s \in Source : Contract(s)!Next \/ UNCHANGED Contract(s)!vars]_<<vars, sources>>

(* No orphan and no second owner: at rest a bus that is not Stopped, and so may  *)
(* hold a driver or a task, is claimed by exactly one source, which will be      *)
(* let through when it retries its stop; a bus that is Stopped is claimed by none. *)
OneClaim ==
  ctl = "idle" /\ (\A s \in Source : returned[s] = "none") =>
    Cardinality({s \in Source : owns[s]}) = IF state = "Stopped" THEN 0 ELSE 1

(* Only the source that started an acquisition can end it: as long as its task *)
(* lives the claim stays with that source, also when another source comes in   *)
(* between a return and its bookkeeping.                                       *)
TaskHasOwner ==
  \A t \in Task : Alive(t) =>
    \/ owns[starter[t]] \/ returned[starter[t]] = "Started"
    \/ op = "start" /\ who = starter[t]
=============================================================================
