---- MODULE BoundedFifo ----
(***************************************************************************)
(* What the acquisition queue promises, with every operation atomic: the   *)
(* frames taken out are the accepted ones in the order of acceptance, and  *)
(* a frame is refused only while the queue is full (the newest frame is    *)
(* the one that is dropped).  FrameRing implements it with two atomic      *)
(* indices and per-access steps; CanBus uses a queue of this kind.         *)
(***************************************************************************)
EXTENDS Naturals, Sequences

CONSTANTS Frame,      \* what the queue holds
          Capacity    \* frames it can hold

VARIABLES queue,      \* accepted and not yet delivered, oldest first
          out,        \* the frame delivered last
          lost        \* number of frames refused

vars == <<queue, out, lost>>

Init == queue = <<>> /\ out = 0 /\ lost = 0

Accept == \E f \in Frame :
  /\ Len(queue) < Capacity
  /\ queue' = Append(queue, f)
  /\ UNCHANGED <<out, lost>>

Refuse ==
  /\ Len(queue) = Capacity
  /\ lost' = lost + 1
  /\ UNCHANGED <<queue, out>>

Deliver ==
  /\ queue # <<>>
  /\ out' = Head(queue)
  /\ queue' = Tail(queue)
  /\ UNCHANGED lost

\* The queue is emptied between two runs of the bus.
Discard ==
  /\ queue' = <<>>
  /\ UNCHANGED <<out, lost>>

Next == Accept \/ Refuse \/ Deliver \/ Discard

Spec == Init /\ [][Next]_vars
====
