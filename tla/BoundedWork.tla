---------------------------- MODULE BoundedWork ----------------------------
(***************************************************************************)
(* What the pacing of the runtime's worker promises to the other tasks of  *)
(* the core (runtime_budget.hpp): after MaxWork receives, or once MaxTime  *)
(* has passed at the end of one, there is no further receive before a      *)
(* pause that really took time.                                            *)
(***************************************************************************)
EXTENDS Integers

CONSTANTS MaxWork, MaxTime

VARIABLES clock,
          work, since,   \* receives since, and the time of, the end of the last pause
          due,           \* a pause has to come first
          rested         \* and has come

vars == <<clock, work, since, due, rested>>

Init == work = 0 /\ since = clock /\ due = FALSE /\ rested = FALSE

Pass == clock' > clock /\ UNCHANGED <<work, since, due, rested>>

Work == /\ ~due
        /\ work' = work + 1
        /\ due' = (work' >= MaxWork \/ clock - since >= MaxTime)
        /\ UNCHANGED <<clock, since, rested>>

Rest == due /\ rested' = TRUE /\ UNCHANGED <<clock, work, since, due>>

Resume == /\ rested
          /\ work' = 0 /\ since' = clock /\ due' = FALSE /\ rested' = FALSE
          /\ UNCHANGED clock

Next == Pass \/ Work \/ Rest \/ Resume
Spec == Init /\ [][Next]_vars
=============================================================================
