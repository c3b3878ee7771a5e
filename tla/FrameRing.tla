---- MODULE FrameRing ----
(***************************************************************************)
(* can_bus::internal::FrameRing (frame_ring.hpp): the single-producer,     *)
(* single-consumer ring between the receive task and the consumer, one     *)
(* action per access to a shared atomic or to a storage slot.              *)
(*                                                                         *)
(* Threads: the producer (push, and the record_* counters), the consumer   *)
(* (pop), an observer that takes statistics at any time, and the starter,  *)
(* which runs clear() while producer and consumer are both idle.           *)
(* A frame is the serial number of its arrival.  A local variable of the   *)
(* code is 0 (its IdleSnap value) outside the accesses that use it.        *)
(***************************************************************************)
EXTENDS Integers, Sequences

CONSTANTS Capacity,     \* slots of the ring
          Modulus,      \* 2^width of the index words head_ and tail_
          StartIndex,   \* both indices after StartIndex frames have passed through
          MaxArrivals,  \* bound: frames pushed in a behaviour
          MaxRecords    \* bound: driver events recorded in a behaviour

ASSUME CapacityAssumption == Capacity \in Nat \ {0}

\* Not checked by the code (it asserts Capacity > 0 only): slots follow one
\* another across the wrap of the index words only if Capacity divides 2^width.
ASSUME ModulusAssumption ==
  /\ Modulus \in Nat /\ Modulus > Capacity
  /\ \E laps \in 1..Modulus : Modulus = laps * Capacity

ASSUME StartAssumption == StartIndex \in 0..(Modulus - 1)
ASSUME BoundAssumption == MaxArrivals \in Nat /\ MaxRecords \in Nat

Index   == 0..(Modulus - 1)
Counter == {"received", "queued", "delivered", "dropped", "overflows", "driver"}

\* The order in which snapshot() exchanges the counters.  "driver" stands for
\* the four counters that only record_* increments.
ResetOrder == <<"received", "queued", "delivered", "dropped", "overflows", "driver">>

Snapshotter == {"observer", "starter"}

VARIABLES
  head, tail,       \* head_ and tail_
  slots,            \* frames_
  counter,          \* the interval counters
  watermark,        \* queue_high_watermark_
  producer, ptail, pmark,   \* producer: program counter, tail and watermark it loaded
  consumer, popped,         \* consumer: program counter, frame it copied out
  snap,             \* per snapshotter: program counter and local variables
  collected,        \* history: sum of the values returned by resetting snapshots
  arrivals,         \* history: calls of push
  records,          \* history: calls of record_*
  out,              \* history: the frame delivered last
  discarded         \* history: frames dropped by clear

indices      == <<head, tail, slots>>
producerVars == <<producer, ptail, pmark>>
consumerVars == <<consumer, popped>>
history      == <<arrivals, records, out, discarded>>
vars == <<indices, counter, watermark, producerVars, consumerVars, snap, collected, history>>

\* head - tail in unsigned arithmetic, and index + 1.
Distance(h, t) == IF h >= t THEN h - t ELSE (h - t) + Modulus
\* Mutation: the index word does not wrap.
SuccNoWrap(i) == i + 1
Succ(i) == IF i = Modulus - 1 THEN 0 ELSE i + 1
Slot(i) == i % Capacity
Depth   == Distance(head, tail)

\* What the resets returned plus what the counters hold.
Reported(c) == collected[c] + counter[c]

\* History: the frames that have left the ring, one by one or by clear().
Departed == Reported("delivered") + (IF consumer = "count" THEN 1 ELSE 0) + discarded

Bump(c) == counter' = [counter EXCEPT ![c] = @ + 1]

\* since and truth are history: how many frames had left at the first load of a
\* sample, and the depth there was at its load of head_.
IdleSnap == [pc |-> "idle", op |-> "look", tail |-> 0, since |-> 0, head |-> 0, truth |-> 0,
             depth |-> 0, next |-> 1, mark |-> 0]

Init ==
  /\ head = StartIndex /\ tail = StartIndex
  /\ slots = [s \in 0..(Capacity - 1) |-> 0]
  /\ counter = [c \in Counter |-> 0]
  /\ watermark = 0
  /\ producer = "idle" /\ ptail = 0 /\ pmark = 0
  /\ consumer = "idle" /\ popped = 0
  /\ snap = [p \in Snapshotter |-> IdleSnap]
  /\ collected = [c \in Counter |-> 0]
  /\ arrivals = 0 /\ records = 0 /\ out = 0 /\ discarded = 0

\* The task does not exist and the consumer is stopped while start() clears.
StarterIdle == snap["starter"].pc = "idle"

-----------------------------------------------------------------------------
(* push *)

ProducerStep(from, to) == producer = from /\ producer' = to

PushBegin ==
  /\ StarterIdle
  /\ arrivals < MaxArrivals
  /\ ProducerStep("idle", "test")
  /\ arrivals' = arrivals + 1
  /\ Bump("received")
  /\ UNCHANGED <<indices, watermark, ptail, pmark, consumerVars, snap, collected,
                 records, out, discarded>>

\* Mutations: the full test off by one, either way.
IsFullLate(t)  == Distance(head, t) > Capacity
IsFullEarly(t) == Distance(head, t) >= Capacity - 1
IsFull(t) == Distance(head, t) >= Capacity

\* Mutation: push waits for a free slot instead of dropping the frame.
PushTestWaits ==
  /\ ~ IsFull(tail)
  /\ ProducerStep("test", "write")
  /\ ptail' = tail
  /\ UNCHANGED <<indices, counter, watermark, pmark, consumerVars, snap, collected, history>>

PushTest ==
  /\ ProducerStep("test", IF IsFull(tail) THEN "drop" ELSE "write")
  /\ ptail' = tail
  /\ UNCHANGED <<indices, counter, watermark, pmark, consumerVars, snap, collected, history>>

PushDrop ==
  /\ \/ ProducerStep("drop", "overflow") /\ Bump("dropped")
     \/ ProducerStep("overflow", "idle") /\ Bump("overflows")
  /\ ptail' = 0
  /\ UNCHANGED <<indices, watermark, pmark, consumerVars, snap, collected, history>>

PushWrite ==
  /\ ProducerStep("write", "publish")
  /\ slots' = [slots EXCEPT ![Slot(head)] = arrivals]
  /\ UNCHANGED <<head, tail, counter, watermark, ptail, pmark, consumerVars, snap,
                 collected, history>>

PushPublish ==
  /\ ProducerStep("publish", "mark")
  /\ head' = Succ(head)
  /\ UNCHANGED <<tail, slots, counter, watermark, ptail, pmark, consumerVars, snap,
                 collected, history>>

\* The depth push() reports to update_watermark: (head + 1) - tail as loaded.
PushDepth == Distance(head, ptail)

PushMark ==
  /\ ProducerStep("mark", IF PushDepth > watermark THEN "raise" ELSE "count")
  /\ pmark' = IF PushDepth > watermark THEN watermark ELSE 0
  /\ UNCHANGED <<indices, counter, watermark, ptail, consumerVars, snap, collected, history>>

\* compare_exchange: store on a match, else reload and test the loop condition.
PushRaise ==
  /\ producer = "raise"
  /\ \/ /\ watermark = pmark
        /\ watermark' = PushDepth
        /\ producer' = "count"
        /\ pmark' = 0
     \/ /\ watermark # pmark
        /\ pmark' = IF PushDepth > watermark THEN watermark ELSE 0
        /\ producer' = IF PushDepth > watermark THEN "raise" ELSE "count"
        /\ UNCHANGED watermark
  /\ UNCHANGED <<indices, counter, ptail, consumerVars, snap, collected, history>>

PushCount ==
  /\ ProducerStep("count", "idle")
  /\ Bump("queued")
  /\ ptail' = 0
  /\ UNCHANGED <<indices, watermark, pmark, consumerVars, snap, collected, history>>

\* record_bus_error, record_driver_rx_missed, record_controller_reset, record_bus_off.
Record ==
  /\ StarterIdle
  /\ producer = "idle"
  /\ records < MaxRecords
  /\ records' = records + 1
  /\ Bump("driver")
  /\ UNCHANGED <<indices, watermark, producerVars, consumerVars, snap, collected,
                 arrivals, out, discarded>>

-----------------------------------------------------------------------------
(* pop; on an empty ring it changes nothing *)

ConsumerStep(from, to) == consumer = from /\ consumer' = to

PopTest ==
  /\ StarterIdle
  /\ head # tail
  /\ ConsumerStep("idle", "read")
  /\ UNCHANGED <<indices, counter, watermark, producerVars, popped, snap, collected, history>>

PopRead ==
  /\ ConsumerStep("read", "release")
  /\ popped' = slots[Slot(tail)]
  /\ UNCHANGED <<indices, counter, watermark, producerVars, snap, collected, history>>

PopRelease ==
  /\ ConsumerStep("release", "count")
  /\ tail' = Succ(tail)
  /\ out' = popped
  /\ popped' = 0
  /\ UNCHANGED <<head, slots, counter, watermark, producerVars, snap, collected,
                 arrivals, records, discarded>>

PopCount ==
  /\ ConsumerStep("count", "idle")
  /\ Bump("delivered")
  /\ UNCHANGED <<indices, watermark, producerVars, popped, snap, collected, history>>

-----------------------------------------------------------------------------
(* coherent_depth: tail, head, tail again; retried until tail stood still.  *)
(* snap[p].pc names the next access; a resetting snapshot samples twice,    *)
(* with the suffix "2" the second time.                                     *)

SnapUnchanged == UNCHANGED <<indices, producerVars, consumerVars, history>>

\* Mutation: tail_ is not compared with its second load.
SampleOnce(p, tailPc, headPc, againPc, donePc) ==
  /\ \/ /\ snap[p].pc = tailPc
        /\ snap' = [snap EXCEPT ![p].pc = headPc, ![p].tail = tail,
                                ![p].since = Departed]
     \/ /\ snap[p].pc = headPc
        /\ snap' = [snap EXCEPT ![p].pc = againPc, ![p].head = head, ![p].truth = Depth]
     \/ /\ snap[p].pc = againPc
        /\ snap' = [snap EXCEPT ![p].pc = donePc,
                                ![p].depth = Distance(snap[p].head, snap[p].tail)]
  /\ SnapUnchanged
  /\ UNCHANGED <<counter, watermark, collected>>

Sample(p, tailPc, headPc, againPc, donePc) ==
  /\ \/ /\ snap[p].pc = tailPc
        /\ snap' = [snap EXCEPT ![p].pc = headPc, ![p].tail = tail,
                                ![p].since = Departed]
     \/ /\ snap[p].pc = headPc
        /\ snap' = [snap EXCEPT ![p].pc = againPc, ![p].head = head, ![p].truth = Depth]
     \/ /\ snap[p].pc = againPc
        /\ LET distance == Distance(snap[p].head, tail)
               coherent == snap[p].tail = tail /\ distance <= Capacity
           IN  snap' = [snap EXCEPT ![p] = [snap[p] EXCEPT
                 !.pc = IF coherent THEN donePc ELSE tailPc,
                 !.depth = IF coherent THEN distance ELSE @,
                 !.tail = 0, !.since = 0, !.head = 0, !.truth = 0]]
  /\ SnapUnchanged
  /\ UNCHANGED <<counter, watermark, collected>>

SampleDepth(p) == Sample(p, "tail", "head", "again",
                         IF snap[p].op = "reset" THEN "exchange" ELSE "look")

SampleDepthAgain(p) == Sample(p, "tail2", "head2", "again2", "ensure")

-----------------------------------------------------------------------------
(* snapshot *)

SnapshotBegin(op) ==
  /\ snap["observer"].pc = "idle"
  /\ snap' = [snap EXCEPT !["observer"] = [IdleSnap EXCEPT !.pc = "tail", !.op = op]]
  /\ SnapUnchanged
  /\ UNCHANGED <<counter, watermark, collected>>

\* kSnapshot only loads the counters: it returns.
SnapshotLook(p) ==
  /\ snap[p].pc = "look"
  /\ snap' = [snap EXCEPT ![p] = IdleSnap]
  /\ SnapUnchanged
  /\ UNCHANGED <<counter, watermark, collected>>

\* Mutation: the counters are returned but not reset.
SnapshotExchangeKeeps(p) ==
  /\ snap[p].pc = "exchange"
  /\ LET c == ResetOrder[snap[p].next]
     IN  collected' = [collected EXCEPT ![c] = @ + counter[c]]
  /\ snap' = [snap EXCEPT
       ![p].pc = IF snap[p].next = Len(ResetOrder) THEN "mark" ELSE "exchange",
       ![p].next = IF snap[p].next = Len(ResetOrder) THEN 1 ELSE @ + 1]
  /\ SnapUnchanged
  /\ UNCHANGED <<counter, watermark>>

\* counter.exchange(0), one counter after the other.
SnapshotExchange(p) ==
  /\ snap[p].pc = "exchange"
  /\ LET c == ResetOrder[snap[p].next]
     IN  /\ collected' = [collected EXCEPT ![c] = @ + counter[c]]
         /\ counter' = [counter EXCEPT ![c] = 0]
  /\ snap' = [snap EXCEPT
       ![p].pc = IF snap[p].next = Len(ResetOrder) THEN "mark" ELSE "exchange",
       ![p].next = IF snap[p].next = Len(ResetOrder) THEN 1 ELSE @ + 1]
  /\ SnapUnchanged
  /\ UNCHANGED watermark

\* Where snapshot() returns to: its caller, or clear().
AfterSnapshot(p) == IF p = "starter" THEN "zero" ELSE "idle"

\* Mutation: the watermark is not reconciled after its exchange.
SnapshotMarkOnly(p) ==
  /\ snap[p].pc = "mark"
  /\ watermark' = snap[p].depth
  /\ snap' = [snap EXCEPT ![p] = [IdleSnap EXCEPT !.pc = AfterSnapshot(p)]]
  /\ SnapUnchanged
  /\ UNCHANGED <<counter, collected>>

\* watermark.exchange(result.queue_depth)
SnapshotMark(p) ==
  /\ snap[p].pc = "mark"
  /\ watermark' = snap[p].depth
  /\ snap' = [snap EXCEPT ![p].pc = "tail2"]
  /\ SnapUnchanged
  /\ UNCHANGED <<counter, collected>>

\* ensure_watermark_at_least: load and test, then compare_exchange.
SnapshotEnsure(p) ==
  /\ \/ /\ snap[p].pc = "ensure"
        /\ UNCHANGED watermark
     \/ /\ snap[p].pc = "raise"
        /\ watermark' = IF watermark = snap[p].mark THEN snap[p].depth ELSE watermark
  /\ LET stored == snap[p].pc = "raise" /\ watermark = snap[p].mark
         done   == stored \/ watermark >= snap[p].depth
     IN  snap' = [snap EXCEPT
           ![p] = IF done THEN [IdleSnap EXCEPT !.pc = AfterSnapshot(p)]
                  ELSE [@ EXCEPT !.pc = "raise", !.mark = watermark]]
  /\ SnapUnchanged
  /\ UNCHANGED <<counter, collected>>

-----------------------------------------------------------------------------
(* clear *)

ClearBegin ==
  /\ StarterIdle /\ producer = "idle" /\ consumer = "idle"
  /\ tail' = head
  /\ discarded' = discarded + Depth
  /\ snap' = [snap EXCEPT !["starter"] = [IdleSnap EXCEPT !.pc = "tail", !.op = "reset"]]
  /\ UNCHANGED <<head, slots, counter, watermark, producerVars, consumerVars, collected,
                 arrivals, records, out>>

ClearEnd ==
  /\ snap["starter"].pc = "zero"
  /\ watermark' = 0
  /\ snap' = [snap EXCEPT !["starter"] = IdleSnap]
  /\ SnapUnchanged
  /\ UNCHANGED <<counter, collected>>

-----------------------------------------------------------------------------
Push == PushTest \/ PushDrop \/ PushWrite \/ PushPublish \/ PushMark \/ PushRaise \/ PushCount
Pop  == PopTest \/ PopRead \/ PopRelease \/ PopCount

Snapshot(p) == SampleDepth(p) \/ SampleDepthAgain(p) \/ SnapshotLook(p)
            \/ SnapshotExchange(p) \/ SnapshotMark(p) \/ SnapshotEnsure(p)

Next ==
  \/ PushBegin \/ Push \/ Record
  \/ Pop
  \/ \E op \in {"look", "reset"} : SnapshotBegin(op)
  \/ \E p \in Snapshotter : Snapshot(p)
  \/ ClearBegin \/ ClearEnd

\* Only the thread inside push() is assumed to run.
Spec == Init /\ [][Next]_vars /\ WF_vars(Push)

-----------------------------------------------------------------------------
(* Properties *)

TypeOK ==
  /\ head \in Index /\ tail \in Index /\ ptail \in Index
  /\ slots \in [0..(Capacity - 1) -> Nat]
  /\ counter \in [Counter -> Nat] /\ collected \in [Counter -> Nat]
  /\ watermark \in 0..Capacity /\ pmark \in 0..Capacity
  /\ producer \in {"idle", "test", "drop", "overflow", "write", "publish",
                   "mark", "raise", "count"}
  /\ consumer \in {"idle", "read", "release", "count"}
  /\ popped \in Nat /\ out \in Nat
  /\ arrivals \in Nat /\ records \in Nat /\ discarded \in Nat
  /\ snap \in [Snapshotter ->
       [pc : {"idle", "tail", "head", "again", "look", "exchange", "mark",
              "tail2", "head2", "again2", "ensure", "raise", "zero"},
        op : {"look", "reset"}, tail : Index, since : Nat, head : Index, truth : 0..Capacity,
        depth : 0..Capacity, next : 1..Len(ResetOrder), mark : 0..Capacity]]

\* The copy into a slot and the copy out of a slot are not atomic: push() and
\* pop() never work on the same slot at the same time, nor does the producer
\* overwrite a slot that still holds an undelivered frame (the SPSC boundary).
SlotExclusive ==
  /\ producer = "write" => Depth < Capacity
  /\ producer = "write" /\ consumer \in {"read", "release"} => Slot(head) # Slot(tail)

\* A depth that coherent_depth() returns is the depth the ring really had when
\* head_ was loaded, whatever push, pop and clear did between the three loads. It
\* compares index words, so this holds of a sample during which fewer frames left
\* the ring than the words have values (2^32 on the target).
CoherentDepth ==
  [][\A p \in Snapshotter :
       /\ snap[p].pc \in {"again", "again2"} /\ snap'[p].pc \in {"look", "exchange", "ensure"}
       /\ Departed - snap[p].since < Modulus
       => snap'[p].depth = snap[p].truth]_vars

\* After the producer raised the watermark and the resets reconciled it, it
\* is not below the live depth (comments in push() and snapshot(), and the
\* contract of kSnapshotAndReset), in whatever order those accesses fell.
WatermarkCoversDepth ==
  (/\ producer \notin {"mark", "raise"}
   /\ \A p \in Snapshotter :
        snap[p].pc \notin {"tail2", "head2", "again2", "ensure", "raise"})
  => watermark >= Depth

\* Resets that race pushes and pops lose and duplicate nothing: with no
\* operation of the ring in progress every arrival is reported as queued or
\* dropped, and every queued frame is delivered, cleared or still in the ring.
Accounting ==
  producer = "idle" /\ consumer = "idle" =>
    /\ Reported("received") = arrivals
    /\ Reported("received") = Reported("queued") + Reported("dropped")
    /\ Reported("overflows") = Reported("dropped")
    /\ Reported("queued") = Reported("delivered") + discarded + Depth
    /\ Reported("driver") = records

\* The frames between tail_ and head_, oldest first.
Contents == [k \in 1..Depth |-> slots[Slot((tail + k - 1) % Modulus)]]

Fifo == INSTANCE BoundedFifo WITH
  Frame <- 1..MaxArrivals,
  queue <- Contents,
  lost  <- Reported("dropped") + (IF producer = "drop" THEN 1 ELSE 0)

\* The ring is a FIFO that refuses a frame only while it is full: publishing
\* head_ accepts, publishing tail_ delivers, the load of tail_ refuses.
FifoSpec == Fifo!Spec

\* A push() that began returns although the consumer may never run again and
\* the observer may reset the watermark at every compare_exchange: "an absent
\* or slow consumer can never block acquisition".
PushCompletes == producer # "idle" ~> producer = "idle"
====
