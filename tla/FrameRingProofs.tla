-------------------------- MODULE FrameRingProofs --------------------------
(***************************************************************************)
(* Proofs about FrameRing, for every capacity, every width of the index    *)
(* words that the capacity divides and every history (StartIndex): slots   *)
(* are never shared, counters add up, the watermark covers the depth, and  *)
(* a sample is coherent unless a full turn of the index words leaves the   *)
(* ring while it is taken.  FrameRingRefinement goes on to the FIFO.       *)
(***************************************************************************)
EXTENDS FrameRing, TLAPS

-----------------------------------------------------------------------------
(* The index arithmetic. *)

LEMMA Sizes == /\ Capacity \in Nat /\ Capacity > 0
               /\ Modulus \in Nat /\ Modulus > Capacity
BY CapacityAssumption, ModulusAssumption

LEMMA Indexed ==
  ASSUME NEW h \in Index, NEW t \in Index
  PROVE  /\ Distance(h, t) \in 0..(Modulus - 1) /\ Succ(h) \in Index
         /\ Distance(h, t) = 0 <=> h = t
BY Sizes DEF Index, Distance, Succ

LEMMA Advance ==
  ASSUME NEW h \in Index, NEW t \in Index, Distance(h, t) < Capacity
  PROVE  Distance(Succ(h), t) = Distance(h, t) + 1
BY Sizes DEF Index, Distance, Succ

LEMMA Retreat ==
  ASSUME NEW h \in Index, NEW t \in Index, Distance(h, t) > 0
  PROVE  Distance(h, Succ(t)) = Distance(h, t) - 1
BY Sizes DEF Index, Distance, Succ

(* A number is whole laps of the ring and its slot. *)
LEMMA Laps ==
  ASSUME NEW i \in Nat
  PROVE  /\ Slot(i) \in 0..(Capacity - 1)
         /\ \E q \in Nat : i = (q * Capacity) + Slot(i)
<1>1. Capacity \in Nat /\ Capacity > 0
  BY CapacityAssumption
<1> DEFINE q == i \div Capacity
<1>2. q \in Nat
  BY <1>1, SMT
<1>3. (i % Capacity) \in 0..(Capacity - 1)
  BY <1>1, SMT
<1>4. i = (q * Capacity) + (i % Capacity)
  BY <1>1, SMT
<1> QED BY <1>1, <1>2, <1>3, <1>4 DEF Slot

(* Different multiples of c are at least c apart. *)
LEMMA Gap ==
  ASSUME NEW a \in Nat, NEW b \in Nat, NEW c \in Nat, c > 0, a # b
  PROVE  a * c - b * c >= c \/ b * c - a * c >= c
<1>1. CASE a > b
  <2>1. (a - b) \in Nat /\ a - b >= 1
    BY <1>1
  <2>2. (a - b) * c >= c
    BY <2>1, SMT
  <2> QED BY <2>1, <2>2, SMT
<1>2. CASE b > a
  <2>1. (b - a) \in Nat /\ b - a >= 1
    BY <1>2
  <2>2. (b - a) * c >= c
    BY <2>1, SMT
  <2> QED BY <2>1, <2>2, SMT
<1> QED BY <1>1, <1>2

(* Numbers less than a lap apart have slots of their own. *)
LEMMA Near ==
  ASSUME NEW i \in Nat, NEW j \in Nat, i > j, i - j < Capacity
  PROVE  Slot(i) # Slot(j)
<1> SUFFICES ASSUME Slot(i) = Slot(j) PROVE FALSE
    OBVIOUS
<1>1. PICK a \in Nat : i = (a * Capacity) + Slot(i)
  BY Laps
<1>2. PICK b \in Nat : j = (b * Capacity) + Slot(j)
  BY Laps
<1>3. Slot(i) \in Nat /\ Capacity \in Nat /\ Capacity > 0
  BY Laps, Sizes
<1>4. a * Capacity \in Nat /\ b * Capacity \in Nat
  BY <1>3, SMT
<1>5. a * Capacity - b * Capacity = i - j
  BY <1>1, <1>2, <1>3, <1>4
<1>6. a # b
  BY <1>1, <1>2
<1>7. a * Capacity - b * Capacity >= Capacity \/ b * Capacity - a * Capacity >= Capacity
  BY <1>3, <1>6, Gap
<1> QED BY <1>3, <1>4, <1>5, <1>7

(* A whole turn of the index word comes back to the same slot. *)
LEMMA Turn ==
  ASSUME NEW i \in Nat
  PROVE  Slot(i + Modulus) = Slot(i)
<1>1. PICK laps \in 1..Modulus : Modulus = laps * Capacity
  BY ModulusAssumption
<1>2. PICK a \in Nat : i = (a * Capacity) + Slot(i)
  BY Laps
<1>3. i + Modulus \in Nat
  BY Sizes
<1>4. PICK b \in Nat : i + Modulus = (b * Capacity) + Slot(i + Modulus)
  BY <1>3, Laps
<1>5. /\ Slot(i) \in 0..(Capacity - 1) /\ Slot(i + Modulus) \in 0..(Capacity - 1)
      /\ Capacity \in Nat /\ Capacity > 0 /\ laps \in Nat
  BY <1>3, Laps, Sizes
<1>6. (a + laps) \in Nat /\ (a + laps) * Capacity = a * Capacity + laps * Capacity
      /\ a * Capacity \in Nat /\ b * Capacity \in Nat
  BY <1>5, SMT
<1>7. i + Modulus = ((a + laps) * Capacity) + Slot(i)
  BY <1>1, <1>2, <1>5, <1>6
<1>8. CASE a + laps # b
  <2> DEFINE m == (a + laps) * Capacity
             n == b * Capacity
  <2>1. m - n >= Capacity \/ n - m >= Capacity
    BY <1>5, <1>6, <1>8, Gap
  <2>2. m \in Nat /\ n \in Nat /\ m + Slot(i) = n + Slot(i + Modulus)
    BY <1>1, <1>4, <1>5, <1>6, <1>7
  <2> HIDE DEF m, n
  <2> QED BY <1>5, <2>1, <2>2
<1>9. CASE a + laps = b
  BY <1>4, <1>5, <1>6, <1>7, <1>9
<1> QED BY <1>8, <1>9

(* Two index words less than a lap apart, across the wrap too, have different slots. *)
LEMMA SlotsDiffer ==
  ASSUME NEW h \in Index, NEW t \in Index, 0 < Distance(h, t), Distance(h, t) < Capacity
  PROVE  Slot(h) # Slot(t)
<1>1. h \in Nat /\ t \in Nat /\ h + Modulus \in Nat
  BY Sizes DEF Index
<1>2. CASE h >= t
  <2>1. h > t /\ h - t < Capacity
    BY <1>1, <1>2 DEF Distance
  <2> QED BY <1>1, <2>1, Near
<1>3. CASE h < t
  <2>1. h + Modulus > t /\ (h + Modulus) - t < Capacity
    BY <1>1, <1>3, Sizes DEF Distance, Index
  <2> QED BY <1>1, <2>1, Near, Turn
<1> QED BY <1>1, <1>2, <1>3

-----------------------------------------------------------------------------
(* The inductive invariant. *)

Places == {"idle", "tail", "head", "again", "look", "exchange", "mark",
           "tail2", "head2", "again2", "ensure", "raise", "zero"}

Snaps ==
  [pc : Places, op : {"look", "reset"}, tail : Index, since : Nat, head : Index,
   truth : 0..Capacity, depth : 0..Capacity, next : 1..Len(ResetOrder), mark : 0..Capacity]

SnapType == snap \in [Snapshotter -> Snaps]

RingType ==
  /\ head \in Index /\ tail \in Index /\ ptail \in Index
  /\ slots \in [0..(Capacity - 1) -> Nat]
  /\ counter \in [Counter -> Nat] /\ collected \in [Counter -> Nat]
  /\ watermark \in 0..Capacity /\ pmark \in 0..Capacity
  /\ producer \in {"idle", "test", "drop", "overflow", "write", "publish",
                   "mark", "raise", "count"}
  /\ consumer \in {"idle", "read", "release", "count"}
  /\ popped \in Nat /\ out \in Nat
  /\ arrivals \in Nat /\ records \in Nat /\ discarded \in Nat

(* Room for the frame that is written, a frame for the reader that copies; the *)
(* depth that push() reports was computed with a tail that may be old.         *)
Room == /\ Depth <= Capacity
        /\ producer \in {"write", "publish"} => Depth < Capacity /\ PushDepth < Capacity
        /\ producer \in {"mark", "raise"} => PushDepth <= Capacity
        /\ consumer \in {"read", "release"} => Depth > 0

(* A frame is in its slot before head_ shows it, a copy is of the oldest frame. *)
Held == /\ producer = "publish" => slots[Slot(head)] = arrivals
        /\ consumer = "release" => popped = slots[Slot(tail)]
        /\ arrivals <= MaxArrivals /\ (producer # "idle" => arrivals > 0)

(* Where a count is due that its thread has not made yet. *)
Pending(due) == IF due THEN 1 ELSE 0

Counts ==
  /\ Reported("received") = arrivals
  /\ arrivals = Reported("queued") + Reported("dropped")
                + Pending(producer \notin {"idle", "overflow"})
  /\ Reported("dropped") = Reported("overflows") + Pending(producer = "overflow")
  /\ Reported("queued") + Pending(producer \in {"mark", "raise", "count"})
       = Reported("delivered") + Pending(consumer = "count") + discarded + Depth
  /\ Reported("driver") = records

IInv == SnapType /\ RingType /\ Room /\ Held /\ Counts

LEMMA TypeParts == TypeOK <=> RingType /\ SnapType
BY DEF TypeOK, RingType, SnapType, Snaps, Places

LEMMA Deep ==
  ASSUME RingType
  PROVE  Depth \in Nat /\ (Depth = 0 <=> head = tail)
<1>1. head \in Index /\ tail \in Index
  BY DEF RingType
<1>2. Distance(head, tail) \in 0..(Modulus - 1)
  BY <1>1, Indexed
<1>3. Distance(head, tail) = 0 <=> head = tail
  BY <1>1, Indexed
<1> QED BY <1>2, <1>3, Sizes DEF Depth

LEMMA Orders == Len(ResetOrder) = 6 /\ \A n \in 1..6 : ResetOrder[n] \in Counter
BY DEF ResetOrder, Counter

(* A snapshot at rest has a value of its record type. *)
LEMMA Idle ==
  /\ IdleSnap \in Snaps
  /\ \A at \in Places : \A op \in {"look", "reset"} :
       [IdleSnap EXCEPT !.pc = at, !.op = op] \in Snaps /\ [IdleSnap EXCEPT !.pc = at] \in Snaps
<1>1. 0 \in Index /\ 0 \in 0..Capacity /\ 1 \in 1..Len(ResetOrder)
  BY Sizes, Orders DEF Index
<1> QED BY <1>1 DEF IdleSnap, Snaps, Places

LEMMA Start == Init => IInv
<1> SUFFICES ASSUME Init PROVE IInv
    OBVIOUS
<1>1. 0 \in Index /\ StartIndex \in Index /\ 0 \in 0..Capacity /\ Depth = 0 /\ MaxArrivals \in Nat
  <2>1. StartIndex \in Index /\ 0 \in Index
    BY StartAssumption, Sizes DEF Index
  <2> QED BY <2>1, Sizes, Indexed, BoundAssumption DEF Init, Depth
<1>2. RingType
  BY <1>1, Sizes DEF Init, RingType
<1>3. SnapType
  BY Idle DEF Init, SnapType
<1>4. Room /\ Held
  BY <1>1, Sizes DEF Init, Room, Held
<1>5. Counts
  BY <1>1 DEF Init, Counts, Reported, Counter, Pending
<1> QED BY <1>2, <1>3, <1>4, <1>5 DEF IInv

(* One counter grows, the others stay. *)
Grown(c) ==
  /\ counter'["received"] = counter["received"] + Pending(c = "received")
  /\ counter'["queued"] = counter["queued"] + Pending(c = "queued")
  /\ counter'["delivered"] = counter["delivered"] + Pending(c = "delivered")
  /\ counter'["dropped"] = counter["dropped"] + Pending(c = "dropped")
  /\ counter'["overflows"] = counter["overflows"] + Pending(c = "overflows")
  /\ counter'["driver"] = counter["driver"] + Pending(c = "driver")

(* An increment of one counter keeps the others. *)
LEMMA Bumped ==
  ASSUME IInv, NEW c \in Counter, Bump(c)
  PROVE  counter' \in [Counter -> Nat] /\ Grown(c)
<1>1. counter' \in [Counter -> Nat]
  BY DEF IInv, RingType, Bump
<1>2. \A d \in Counter : counter'[d] = counter[d] + Pending(c = d)
  BY DEF IInv, RingType, Bump, Pending
<1> QED BY <1>1, <1>2 DEF Grown, Counter

LEMMA CountsNat ==
  IInv =>
  /\ counter["received"] \in Nat /\ collected["received"] \in Nat
  /\ counter["queued"] \in Nat /\ collected["queued"] \in Nat
  /\ counter["delivered"] \in Nat /\ collected["delivered"] \in Nat
  /\ counter["dropped"] \in Nat /\ collected["dropped"] \in Nat
  /\ counter["overflows"] \in Nat /\ collected["overflows"] \in Nat
  /\ counter["driver"] \in Nat /\ collected["driver"] \in Nat
  /\ arrivals \in Nat /\ records \in Nat /\ discarded \in Nat
BY DEF IInv, RingType, Counter

-----------------------------------------------------------------------------
(* The producer. *)

LEMMA PushKeeps ==
  ASSUME IInv, PushBegin \/ Push \/ Record
  PROVE  IInv'
<1> USE DEF IInv
<1>a. /\ Depth \in 0..(Modulus - 1) /\ PushDepth \in 0..(Modulus - 1)
      /\ Slot(head) \in 0..(Capacity - 1) /\ Modulus \in Nat /\ Capacity \in Nat
  <2>1. head \in Nat
    BY Sizes DEF RingType, Index
  <2> QED BY <2>1, Indexed, Laps, Sizes DEF RingType, Depth, PushDepth
<1>b. SnapType'
  BY DEF SnapType, Snaps, Places, PushBegin, Push, PushTest, PushDrop, PushWrite, PushPublish, PushMark,
         PushRaise, PushCount, Record
<1>1. CASE PushBegin
  <2>a. counter' \in [Counter -> Nat] /\ Grown("received")
    BY <1>1, Bumped DEF PushBegin, Counter
  <2>1. RingType'
    BY <1>1, <2>a DEF RingType, PushBegin, ProducerStep, indices, consumerVars
  <2>2. Room'
    BY <1>1 DEF Room, PushBegin, ProducerStep, indices, consumerVars, Depth
  <2>3. Held'
    BY <1>1, BoundAssumption DEF Held, RingType, PushBegin, ProducerStep, indices, consumerVars
  <2>d. Depth' = Depth
    BY <1>1 DEF PushBegin, indices, Depth
  <2>4. Counts'
    BY <1>1, <2>a, CountsNat, <1>a, <2>d DEF Counts, PushBegin, ProducerStep, indices, consumerVars,
       Reported, Grown, Pending
  <2> QED BY <1>b, <2>1, <2>2, <2>3, <2>4
<1>2. CASE PushTest
  <2>1. RingType'
    BY <1>2 DEF RingType, PushTest, ProducerStep, indices, consumerVars, history
  <2>2. Room'
    BY <1>2, <1>a DEF Room, PushTest, ProducerStep, IsFull, indices, consumerVars, Depth, PushDepth
  <2>3. Held'
    BY <1>2 DEF Held, PushTest, ProducerStep, indices, consumerVars, history
  <2>d. Depth' = Depth
    BY <1>2 DEF PushTest, indices, Depth
  <2>4. Counts'
    BY <1>2, CountsNat, <1>a, <2>d DEF Counts, PushTest, ProducerStep, indices, consumerVars, history,
       Reported, Pending
  <2> QED BY <1>b, <2>1, <2>2, <2>3, <2>4
<1>3. CASE PushDrop
  <2> DEFINE c == IF producer = "drop" THEN "dropped" ELSE "overflows"
  <2>0. /\ producer \in {"drop", "overflow"} /\ Bump(c) /\ c \in Counter
        /\ producer' = (IF producer = "drop" THEN "overflow" ELSE "idle")
        /\ ptail' = 0
        /\ UNCHANGED <<head, tail, slots, watermark, pmark, consumer, popped, collected, arrivals,
                       records, out, discarded>>
    BY <1>3 DEF PushDrop, ProducerStep, indices, consumerVars, history, Counter
  <2>a. counter' \in [Counter -> Nat] /\ Grown(c)
    <3> HIDE DEF c
    <3> QED BY <2>0, Bumped
  <2>1. RingType'
    BY <2>0, <2>a, Sizes DEF RingType, Index
  <2>2. Room'
    BY <2>0 DEF Room, Depth
  <2>3. Held'
    BY <2>0 DEF Held
  <2>d. Depth' = Depth
    BY <2>0 DEF Depth
  <2>4. Counts'
    <3>1. CASE producer = "drop"
      BY <3>1, <2>0, <2>a, <2>d, <1>a, CountsNat DEF Counts, Reported, Grown, Pending
    <3>2. CASE producer = "overflow"
      BY <3>2, <2>0, <2>a, <2>d, <1>a, CountsNat DEF Counts, Reported, Grown, Pending
    <3> QED BY <2>0, <3>1, <3>2
  <2> QED BY <1>b, <2>1, <2>2, <2>3, <2>4
<1>4. CASE PushWrite
  <2>1. RingType'
    BY <1>4, <1>a DEF RingType, PushWrite, ProducerStep, consumerVars, history
  <2>2. Room'
    BY <1>4 DEF Room, PushWrite, ProducerStep, consumerVars, Depth, PushDepth
  <2>3. Held'
    <3>1. consumer \in {"read", "release"} => Slot(head) # Slot(tail)
      BY <1>4, <1>a, SlotsDiffer DEF PushWrite, ProducerStep, Room, RingType, Depth
    <3>2. slots' = [slots EXCEPT ![Slot(head)] = arrivals]
          /\ UNCHANGED <<head, tail, consumer, popped, arrivals>> /\ producer' = "publish" /\ producer = "write"
      BY <1>4 DEF PushWrite, ProducerStep, consumerVars, history
    <3>3. slots'[Slot(head)] = arrivals
      BY <3>2, <1>a DEF RingType
    <3>4. consumer = "release" => slots'[Slot(tail)] = slots[Slot(tail)]
      BY <3>1, <3>2 DEF RingType
    <3> QED BY <3>2, <3>3, <3>4 DEF Held
  <2>d. Depth' = Depth
    BY <1>4 DEF PushWrite, indices, Depth
  <2>4. Counts'
    BY <1>4, CountsNat, <1>a, <2>d DEF Counts, PushWrite, ProducerStep, consumerVars, history,
       Reported, Pending
  <2> QED BY <1>b, <2>1, <2>2, <2>3, <2>4
<1>5. CASE PushPublish
  <2>0. /\ head' = Succ(head) /\ producer = "publish" /\ producer' = "mark"
        /\ UNCHANGED <<tail, slots, counter, watermark, ptail, pmark, consumer, popped, collected,
                       arrivals, records, out, discarded>>
    BY <1>5 DEF PushPublish, ProducerStep, consumerVars, history
  <2>1. RingType'
    BY <2>0, Indexed DEF RingType
  <2>5. Depth' = Depth + 1 /\ PushDepth' = PushDepth + 1
    BY <2>0, Advance DEF Room, RingType, Depth, PushDepth
  <2>2. Room'
    BY <2>0, <2>5, <1>a DEF Room
  <2>3. Held'
    BY <2>0 DEF Held
  <2>4. Counts'
    BY <2>0, CountsNat, <2>5, <1>a DEF Counts, Reported, Pending
  <2> QED BY <1>b, <2>1, <2>2, <2>3, <2>4
<1>6. CASE PushMark
  <2>1. RingType'
    BY <1>6, Sizes DEF RingType, PushMark, ProducerStep, indices, consumerVars, history
  <2>2. Room'
    BY <1>6 DEF Room, PushMark, ProducerStep, indices, consumerVars, Depth, PushDepth
  <2>3. Held'
    BY <1>6 DEF Held, PushMark, ProducerStep, indices, consumerVars, history
  <2>d. Depth' = Depth
    BY <1>6 DEF PushMark, indices, Depth
  <2>4. Counts'
    BY <1>6, CountsNat, <1>a, <2>d DEF Counts, PushMark, ProducerStep, indices, consumerVars, history,
       Reported, Pending
  <2> QED BY <1>b, <2>1, <2>2, <2>3, <2>4
<1>7. CASE PushRaise
  <2>1. RingType'
    BY <1>7, <1>a, Sizes DEF RingType, Room, PushRaise, indices, consumerVars, history
  <2>2. Room'
    BY <1>7 DEF Room, PushRaise, indices, consumerVars, Depth, PushDepth
  <2>3. Held'
    BY <1>7 DEF Held, PushRaise, indices, consumerVars, history
  <2>d. Depth' = Depth
    BY <1>7 DEF PushRaise, indices, Depth
  <2>4. Counts'
    BY <1>7, CountsNat, <1>a, <2>d DEF Counts, PushRaise, indices, consumerVars, history, Reported,
       Pending
  <2> QED BY <1>b, <2>1, <2>2, <2>3, <2>4
<1>8. CASE PushCount
  <2>a. counter' \in [Counter -> Nat] /\ Grown("queued")
    BY <1>8, Bumped DEF PushCount, Counter
  <2>1. RingType'
    BY <1>8, <2>a, Sizes DEF RingType, PushCount, ProducerStep, indices, consumerVars, history, Index
  <2>2. Room'
    BY <1>8 DEF Room, PushCount, ProducerStep, indices, consumerVars, Depth
  <2>3. Held'
    BY <1>8 DEF Held, PushCount, ProducerStep, indices, consumerVars, history
  <2>d. Depth' = Depth
    BY <1>8 DEF PushCount, indices, Depth
  <2>4. Counts'
    BY <1>8, <2>a, CountsNat, <1>a, <2>d DEF Counts, PushCount, ProducerStep, indices, consumerVars,
       history,
                Reported, Grown, Pending
  <2> QED BY <1>b, <2>1, <2>2, <2>3, <2>4
<1>9. CASE Record
  <2>a. counter' \in [Counter -> Nat] /\ Grown("driver")
    BY <1>9, Bumped DEF Record, Counter
  <2>1. RingType'
    BY <1>9, <2>a DEF RingType, Record, indices, producerVars, consumerVars
  <2>2. Room'
    BY <1>9 DEF Room, Record, indices, producerVars, consumerVars, Depth, PushDepth
  <2>3. Held'
    BY <1>9 DEF Held, Record, indices, producerVars, consumerVars
  <2>d. Depth' = Depth
    BY <1>9 DEF Record, indices, Depth
  <2>4. Counts'
    BY <1>9, <2>a, CountsNat, <1>a, <2>d DEF Counts, Record, indices, producerVars, consumerVars,
       Reported, Grown, Pending
  <2> QED BY <1>b, <2>1, <2>2, <2>3, <2>4
<1> QED BY <1>1, <1>2, <1>3, <1>4, <1>5, <1>6, <1>7, <1>8, <1>9 DEF Push

(* The consumer. *)
LEMMA PopKeeps ==
  ASSUME IInv, Pop
  PROVE  IInv'
<1> USE DEF IInv
<1>a. /\ Depth \in 0..(Modulus - 1) /\ Modulus \in Nat /\ Capacity \in Nat
      /\ Slot(tail) \in 0..(Capacity - 1)
  <2>1. tail \in Nat
    BY Sizes DEF RingType, Index
  <2> QED BY <2>1, Indexed, Laps, Sizes DEF RingType, Depth
<1>b. SnapType'
  BY DEF SnapType, Snaps, Places, Pop, PopTest, PopRead, PopRelease, PopCount
<1>1. CASE PopTest
  <2>0. /\ head # tail /\ consumer' = "read"
        /\ UNCHANGED <<head, tail, ptail, producer>>
    BY <1>1 DEF PopTest, ConsumerStep, indices, producerVars
  <2>1. RingType'
    BY <1>1 DEF RingType, PopTest, ConsumerStep, indices, producerVars, history
  <2>5. Depth > 0
    BY <2>0, Deep
  <2>2. Room'
    BY <2>0, <2>5 DEF Room, Depth, PushDepth
  <2>3. Held'
    BY <1>1 DEF Held, PopTest, ConsumerStep, indices, producerVars, history
  <2>d. Depth' = Depth
    BY <2>0 DEF Depth
  <2>4. Counts'
    BY <1>1, CountsNat, <1>a, <2>d DEF Counts, PopTest, ConsumerStep, indices, producerVars, history,
       Reported, Pending
  <2> QED BY <1>b, <2>1, <2>2, <2>3, <2>4
<1>2. CASE PopRead
  <2>1. RingType'
    BY <1>2, <1>a DEF RingType, PopRead, ConsumerStep, indices, producerVars, history
  <2>2. Room'
    BY <1>2 DEF Room, PopRead, ConsumerStep, indices, producerVars, Depth, PushDepth
  <2>3. Held'
    BY <1>2 DEF Held, PopRead, ConsumerStep, indices, producerVars, history
  <2>d. Depth' = Depth
    BY <1>2 DEF PopRead, indices, Depth
  <2>4. Counts'
    BY <1>2, CountsNat, <1>a, <2>d DEF Counts, PopRead, ConsumerStep, indices, producerVars, history,
       Reported, Pending
  <2> QED BY <1>b, <2>1, <2>2, <2>3, <2>4
<1>3. CASE PopRelease
  <2>0. /\ consumer = "release" /\ consumer' = "count" /\ tail' = Succ(tail)
        /\ out' = popped /\ popped' = 0
        /\ UNCHANGED <<head, slots, counter, watermark, producer, ptail, pmark, collected,
                       arrivals, records, discarded>>
    BY <1>3 DEF PopRelease, ConsumerStep, producerVars
  <2>1. RingType'
    BY <2>0, Indexed DEF RingType
  <2>5. Depth' = Depth - 1 /\ PushDepth' = PushDepth
    BY <2>0, Retreat DEF Room, RingType, Depth, PushDepth
  <2>2. Room'
    BY <2>0, <2>5, <1>a DEF Room
  <2>3. Held'
    BY <2>0 DEF Held
  <2>4. Counts'
    BY <2>0, CountsNat, <2>5, <1>a DEF Counts, Reported, Pending
  <2> QED BY <1>b, <2>1, <2>2, <2>3, <2>4
<1>4. CASE PopCount
  <2>a. counter' \in [Counter -> Nat] /\ Grown("delivered")
    BY <1>4, Bumped DEF PopCount, Counter
  <2>1. RingType'
    BY <1>4, <2>a DEF RingType, PopCount, ConsumerStep, indices, producerVars, history
  <2>2. Room'
    BY <1>4 DEF Room, PopCount, ConsumerStep, indices, producerVars, Depth, PushDepth
  <2>3. Held'
    BY <1>4 DEF Held, PopCount, ConsumerStep, indices, producerVars, history
  <2>d. Depth' = Depth
    BY <1>4 DEF PopCount, indices, Depth
  <2>4. Counts'
    BY <1>4, <2>a, CountsNat, <1>a, <2>d DEF Counts, PopCount, ConsumerStep, indices, producerVars,
       history,
                Reported, Grown, Pending
  <2> QED BY <1>b, <2>1, <2>2, <2>3, <2>4
<1> QED BY <1>1, <1>2, <1>3, <1>4 DEF Pop

-----------------------------------------------------------------------------
(* Observers and clear(). *)

LEMMA SampleKeeps ==
  ASSUME IInv, NEW p \in Snapshotter,
         SampleDepth(p) \/ SampleDepthAgain(p) \/ SnapshotLook(p)
  PROVE  IInv'
<1> USE DEF IInv
<1>1. UNCHANGED <<head, tail, slots, producer, ptail, pmark, consumer, popped, arrivals, records,
                  out, discarded, counter, watermark, collected>>
  BY DEF SampleDepth, SampleDepthAgain, Sample, SnapshotLook, SnapUnchanged, indices, producerVars,
         consumerVars, history
<1>2. RingType' /\ Room' /\ Held' /\ Counts'
  BY <1>1 DEF RingType, Room, Held, Counts, Reported, Pending, Depth, PushDepth
<1>3. /\ Depth \in 0..Capacity /\ head \in Index /\ tail \in Index
      /\ \A h \in Index : Distance(h, tail) \in Nat
  <2>1. Depth \in Nat /\ head \in Index /\ tail \in Index
    BY Deep DEF RingType
  <2>2. ASSUME NEW h \in Index PROVE Distance(h, tail) \in Nat
    <3>1. Distance(h, tail) \in 0..(Modulus - 1)
      BY <2>1, Indexed
    <3> QED BY <3>1, Sizes
  <2> QED BY <2>1, <2>2, Sizes DEF Room
<1>4. SnapType'
  <2>1. CASE SnapshotLook(p)
    BY <2>1, Idle DEF SnapType, SnapshotLook
  <2>2. ASSUME NEW a \in {"tail", "tail2"}, NEW b \in {"head", "head2"}, NEW c \in {"again", "again2"},
               NEW d \in {"exchange", "look", "ensure"}, Sample(p, a, b, c, d)
        PROVE  SnapType'
    <3> DEFINE s == snap[p]
               distance == Distance(s.head, tail)
               coherent == s.tail = tail /\ distance <= Capacity
    <3>1. s \in Snaps /\ snap \in [Snapshotter -> Snaps] /\ {a, b, c, d} \subseteq Places
      BY DEF SnapType, Places
    <3>2. distance \in Nat /\ 0 \in Index /\ 0 \in 0..Capacity
      BY <1>3, <3>1, Sizes DEF Snaps, Index
    <3>3. \E e \in Snaps : snap' = [snap EXCEPT ![p] = e]
      <4>1. CASE s.pc = a /\ snap' = [snap EXCEPT ![p].pc = b, ![p].tail = tail, ![p].since = Departed]
        <5>1. Departed \in Nat
          BY CountsNat DEF Departed, Reported
        <5>2. [s EXCEPT !.pc = b, !.tail = tail, !.since = Departed] \in Snaps
          BY <1>3, <3>1, <5>1 DEF Snaps
        <5>3. snap' = [snap EXCEPT ![p] = [s EXCEPT !.pc = b, !.tail = tail, !.since = Departed]]
          BY <4>1
        <5> QED BY <5>2, <5>3
      <4>2. CASE s.pc = b /\ snap' = [snap EXCEPT ![p].pc = c, ![p].head = head, ![p].truth = Depth]
        <5>1. [s EXCEPT !.pc = c, !.head = head, !.truth = Depth] \in Snaps
          BY <1>3, <3>1 DEF Snaps
        <5>2. snap' = [snap EXCEPT ![p] = [s EXCEPT !.pc = c, !.head = head, !.truth = Depth]]
          BY <4>2
        <5> QED BY <5>1, <5>2
      <4>3. CASE /\ s.pc = c
                 /\ snap' = [snap EXCEPT ![p] = [s EXCEPT
                      !.pc = IF coherent THEN d ELSE a,
                      !.depth = IF coherent THEN distance ELSE @,
                      !.tail = 0, !.since = 0, !.head = 0, !.truth = 0]]
        <5> DEFINE e == [s EXCEPT !.pc = IF coherent THEN d ELSE a,
                                  !.depth = IF coherent THEN distance ELSE s.depth,
                                  !.tail = 0, !.since = 0, !.head = 0, !.truth = 0]
        <5>1. coherent => distance \in 0..Capacity
          BY <3>2, Sizes
        <5>2. snap' = [snap EXCEPT ![p] = e]
          BY <4>3
        <5>3. e \in Snaps
          <6> HIDE DEF coherent, distance
          <6> QED BY <3>1, <3>2, <5>1 DEF Snaps
        <5> HIDE DEF e
        <5> QED BY <5>2, <5>3
      <4> QED BY <2>2, <4>1, <4>2, <4>3 DEF Sample
    <3> QED BY <3>1, <3>3 DEF SnapType
  <2> QED BY <2>1, <2>2 DEF SampleDepth, SampleDepthAgain
<1> QED BY <1>2, <1>4

LEMMA ResetKeeps ==
  ASSUME IInv, NEW p \in Snapshotter,
         SnapshotExchange(p) \/ SnapshotMark(p) \/ SnapshotEnsure(p)
  PROVE  IInv'
<1> USE DEF IInv
<1>1. UNCHANGED <<head, tail, slots, producer, ptail, pmark, consumer, popped, arrivals, records,
                  out, discarded>>
  BY DEF SnapshotExchange, SnapshotMark, SnapshotEnsure, SnapUnchanged, indices, producerVars,
         consumerVars, history
<1>2. Room' /\ Held'
  BY <1>1 DEF Room, Held, Depth, PushDepth
<1>3. CASE SnapshotExchange(p)
  <2> DEFINE c == ResetOrder[snap[p].next]
  <2>1. c \in Counter
    <3>1. snap[p].next \in 1..6
      BY Orders DEF SnapType, Snaps
    <3> QED BY <3>1, Orders
  <2>2. /\ collected' = [collected EXCEPT ![c] = @ + counter[c]]
        /\ counter' = [counter EXCEPT ![c] = 0] /\ UNCHANGED watermark
    BY <1>3 DEF SnapshotExchange
  <2> HIDE DEF c
  <2>3. counter' \in [Counter -> Nat] /\ collected' \in [Counter -> Nat]
    BY <2>1, <2>2 DEF RingType
  <2>4. \A d \in Counter : collected'[d] + counter'[d] = collected[d] + counter[d]
    BY <2>1, <2>2 DEF RingType
  <2>5. RingType'
    BY <1>1, <2>2, <2>3 DEF RingType
  <2>6. Counts'
    BY <1>1, <2>4 DEF Counts, Reported, Counter, Pending, Depth
  <2>7. SnapType'
    BY <1>3, Orders DEF SnapType, Snaps, Places, SnapshotExchange
  <2> QED BY <1>2, <2>5, <2>6, <2>7
<1>4. CASE SnapshotMark(p)
  <2>1. SnapType' /\ UNCHANGED <<counter, collected>> /\ watermark' \in 0..Capacity
    <3>1. snap \in [Snapshotter -> Snaps] /\ snap[p] \in Snaps /\ snap[p].depth \in 0..Capacity
      BY DEF SnapType, Snaps
    <3>2. [snap[p] EXCEPT !.pc = "tail2"] \in Snaps
      BY <3>1 DEF Snaps, Places
    <3>3. snap' = [snap EXCEPT ![p] = [snap[p] EXCEPT !.pc = "tail2"]]
          /\ UNCHANGED <<counter, collected>> /\ watermark' = snap[p].depth
      BY <1>4 DEF SnapshotMark
    <3> QED BY <3>1, <3>2, <3>3 DEF SnapType
  <2> QED BY <1>1, <1>2, <2>1 DEF RingType, Counts, Reported, Pending, Depth
<1>5. CASE SnapshotEnsure(p)
  <2>1. UNCHANGED <<counter, collected>> /\ watermark' \in 0..Capacity
    BY <1>5 DEF RingType, SnapType, Snaps, Places, SnapshotEnsure
  <2>2. SnapType'
    <3>1. AfterSnapshot(p) \in Places /\ snap \in [Snapshotter -> Snaps] /\ watermark \in 0..Capacity
      BY DEF AfterSnapshot, Places, SnapType, RingType
    <3>2. /\ [IdleSnap EXCEPT !.pc = AfterSnapshot(p)] \in Snaps
          /\ [snap[p] EXCEPT !.pc = "raise", !.mark = watermark] \in Snaps
      <4>1. [IdleSnap EXCEPT !.pc = AfterSnapshot(p)] \in Snaps
        BY <3>1, Idle
      <4>2. [snap[p] EXCEPT !.pc = "raise", !.mark = watermark] \in Snaps
        BY <3>1 DEF Snaps, Places
      <4> QED BY <4>1, <4>2
    <3> QED BY <1>5, <3>1, <3>2 DEF SnapType, SnapshotEnsure
  <2> QED BY <1>1, <1>2, <2>1, <2>2 DEF RingType, Counts, Reported, Pending, Depth
<1> QED BY <1>3, <1>4, <1>5

LEMMA ClearKeeps ==
  ASSUME IInv, ClearBegin \/ ClearEnd \/ (\E op \in {"look", "reset"} : SnapshotBegin(op))
  PROVE  IInv'
<1> USE DEF IInv
<1>a. Depth \in Nat /\ 0 \in Index /\ 0 \in 0..Capacity
  BY Deep, Sizes DEF Index
<1>b. SnapType'
  <2>1. "tail" \in Places /\ snap \in [Snapshotter -> Snaps]
    BY DEF Places, SnapType
  <2>2. CASE ClearBegin
    BY <2>1, <2>2, Idle DEF SnapType, ClearBegin
  <2>3. CASE ClearEnd
    BY <2>1, <2>3, Idle DEF SnapType, ClearEnd
  <2>4. ASSUME NEW op \in {"look", "reset"}, SnapshotBegin(op) PROVE SnapType'
    BY <2>1, <2>4, Idle DEF SnapType, SnapshotBegin
  <2> QED BY <2>2, <2>3, <2>4
<1>1. CASE ClearBegin
  <2>0. /\ producer = "idle" /\ consumer = "idle" /\ tail' = head /\ discarded' = discarded + Depth
        /\ UNCHANGED <<head, slots, counter, watermark, producer, ptail, pmark, consumer, popped,
                       collected, arrivals, records, out>>
    BY <1>1 DEF ClearBegin, producerVars, consumerVars
  <2>1. RingType'
    BY <2>0, <1>a DEF RingType
  <2>d. Depth' = 0
    BY <2>0, <2>1, Indexed DEF RingType, Depth, Distance, Index
  <2>2. Room'
    BY <2>0, <2>d, Sizes DEF Room
  <2>3. Held'
    BY <2>0 DEF Held
  <2>4. Counts'
    BY <2>0, CountsNat, <1>a, <2>d DEF Counts, Reported, Pending
  <2> QED BY <1>b, <2>1, <2>2, <2>3, <2>4
<1>2. CASE ClearEnd \/ (\E op \in {"look", "reset"} : SnapshotBegin(op))
  <2>1. /\ watermark' \in 0..Capacity
        /\ UNCHANGED <<head, tail, slots, producer, ptail, pmark, consumer, popped, arrivals, records,
                       out, discarded, counter, collected>>
    BY <1>2, <1>a DEF RingType, ClearEnd, SnapshotBegin, SnapUnchanged, indices, producerVars,
                      consumerVars, history
  <2> QED BY <1>b, <2>1 DEF RingType, Room, Held, Counts, Reported, Pending, Depth, PushDepth
<1> QED BY <1>1, <1>2

LEMMA Step == IInv /\ [Next]_vars => IInv'
<1> SUFFICES ASSUME IInv, [Next]_vars PROVE IInv'
    OBVIOUS
<1>1. ASSUME NEW p \in Snapshotter, Snapshot(p) PROVE IInv'
  BY <1>1, SampleKeeps, ResetKeeps DEF Snapshot
<1>2. CASE UNCHANGED vars
  BY <1>2 DEF IInv, SnapType, RingType, Room, Held, Counts, Reported, Pending, Depth, PushDepth,
              vars, indices, producerVars, consumerVars, history
<1> QED BY <1>1, <1>2, PushKeeps, PopKeeps, ClearKeeps DEF Next

(* Whatever the threads of the ring do in whatever order, IInv stays. *)
THEOREM Invariance == Spec => []IInv
BY Start, Step, PTL DEF Spec

-----------------------------------------------------------------------------
(* The theorems. *)

(* Every variable keeps its type; so no depth that push() or a snapshot computes *)
(* from index words loaded at different times leaves 0..Capacity.                *)
THEOREM TypeCorrect == Spec => []TypeOK
<1>1. IInv => TypeOK
  BY TypeParts DEF IInv
<1> QED BY <1>1, Invariance, PTL

(* Producer and consumer never work on one slot. *)
THEOREM SlotsApart == Spec => []SlotExclusive
<1>1. IInv => SlotExclusive
  BY SlotsDiffer DEF IInv, Room, RingType, SlotExclusive, Depth
<1> QED BY <1>1, Invariance, PTL

(* Resets, whenever they come, lose and duplicate no count. *)
THEOREM NothingLost == Spec => []Accounting
<1>1. IInv => Accounting
  <2> SUFFICES ASSUME IInv, producer = "idle", consumer = "idle" PROVE Accounting
      BY DEF Accounting
  <2>1. Depth \in Nat
    BY Deep DEF IInv
  <2> QED BY <2>1, CountsNat DEF IInv, Counts, Reported, Pending, Accounting
<1> QED BY <1>1, Invariance, PTL
-----------------------------------------------------------------------------
(* Depths and the watermark.  A sample is compared with a second load of tail_ *)
(* only; so it is coherent if tail_ did not come all the way round while it    *)
(* was taken.                                                                  *)

(* The index word w is the one that k frames have passed. *)
Shows(w, k) == \E q \in Nat : StartIndex + k = (q * Modulus) + w

(* A sample has loaded the word tail_ had when it began. If no frame left since, *)
(* the depth of its head and the present tail is the one it saw.                 *)
Seen(p) ==
  /\ snap[p].pc \in {"head", "head2", "again", "again2"} =>
       snap[p].since <= Departed /\ Shows(snap[p].tail, snap[p].since)
  /\ snap[p].pc \in {"again", "again2"} /\ snap[p].since = Departed =>
       snap[p].truth = Distance(snap[p].head, tail)
  /\ snap[p].pc = "raise" => snap[p].mark < snap[p].depth

Samples == Shows(tail, Departed) /\ \A p \in Snapshotter : Seen(p)

(* The ring rests while start() clears it; a push reports no less than the depth. *)
Resting == snap["starter"].pc # "idle" => producer = "idle" /\ consumer = "idle" /\ Depth = 0
Reach   == producer \in {"write", "publish", "mark", "raise"} => PushDepth >= Depth

(* Below the depth the watermark is only while a push or a reset is about to raise  *)
(* it. The second sample of the reset suffices even if its tail came all the way     *)
(* round: a push that published since the exchange has raised the watermark itself,  *)
(* and without one the head that was loaded is the present head.                     *)
Raising == producer \in {"mark", "raise"}
Covered ==
  /\ \/ Raising \/ watermark >= Depth
     \/ snap["observer"].pc \in {"tail2", "head2", "again2", "ensure", "raise"}
  /\ snap["observer"].pc = "again2" =>
       Raising \/ watermark >= Depth \/ snap["observer"].head = head
  /\ snap["observer"].pc \in {"ensure", "raise"} =>
       Raising \/ watermark >= Depth \/ snap["observer"].depth >= Depth

DepthInv == Samples /\ Resting /\ Reach /\ Covered

LEMMA ShowsNext ==
  ASSUME NEW w \in Index, NEW k \in Nat, Shows(w, k)
  PROVE  Shows(Succ(w), k + 1)
<1>1. PICK q \in Nat : StartIndex + k = (q * Modulus) + w
  BY DEF Shows
<1>2. StartIndex \in Nat /\ w \in Nat /\ Modulus \in Nat /\ q * Modulus \in Nat
  BY Sizes, StartAssumption, SMT DEF Index
<1>3. CASE w = Modulus - 1
  <2>1. (q + 1) * Modulus = (q * Modulus) + Modulus
    BY <1>2, SMT
  <2>2. StartIndex + (k + 1) = ((q + 1) * Modulus) + 0
    BY <1>1, <1>2, <1>3, <2>1
  <2> QED BY <1>3, <2>2 DEF Shows, Succ
<1>4. CASE w # Modulus - 1
  <2>1. StartIndex + (k + 1) = (q * Modulus) + (w + 1)
    BY <1>1, <1>2
  <2> QED BY <1>4, <2>1 DEF Shows, Succ
<1> QED BY <1>3, <1>4

(* As many words further on as there are frames between them. *)
LEMMA ShowsAhead ==
  ASSUME NEW h \in Index, NEW t \in Index, NEW k \in Nat, Shows(t, k)
  PROVE  Shows(h, k + Distance(h, t))
<1>1. PICK q \in Nat : StartIndex + k = (q * Modulus) + t
  BY DEF Shows
<1>2. StartIndex \in Nat /\ t \in Nat /\ h \in Nat /\ Modulus \in Nat /\ q * Modulus \in Nat
  BY Sizes, StartAssumption, SMT DEF Index
<1>3. CASE h >= t
  <2>1. StartIndex + (k + (h - t)) = (q * Modulus) + h
    BY <1>1, <1>2
  <2> QED BY <1>3, <2>1 DEF Shows, Distance
<1>4. CASE ~(h >= t)
  <2>1. (q + 1) * Modulus = (q * Modulus) + Modulus
    BY <1>2, SMT
  <2>2. StartIndex + (k + ((h - t) + Modulus)) = ((q + 1) * Modulus) + h
    BY <1>1, <1>2, <2>1
  <2> QED BY <1>4, <2>2 DEF Shows, Distance
<1> QED BY <1>3, <1>4

(* Less than a turn apart, one word is one count. *)
LEMMA ShowsOnce ==
  ASSUME NEW w \in Index, NEW k \in Nat, NEW m \in Nat, k <= m, m - k < Modulus,
         Shows(w, k), Shows(w, m)
  PROVE  k = m
<1>1. PICK q \in Nat : StartIndex + k = (q * Modulus) + w
  BY DEF Shows
<1>2. PICK u \in Nat : StartIndex + m = (u * Modulus) + w
  BY DEF Shows
<1>3. /\ StartIndex \in Nat /\ w \in Nat /\ Modulus \in Nat /\ Modulus > 0
      /\ q * Modulus \in Nat /\ u * Modulus \in Nat
  BY Sizes, StartAssumption, SMT DEF Index
<1>4. CASE u = q
  BY <1>1, <1>2, <1>3, <1>4
<1>5. CASE u < q
  <2>1. (q - u) * Modulus = (q * Modulus) - (u * Modulus) /\ (q - u) * Modulus >= Modulus
    BY <1>3, <1>5, SMT
  <2> QED BY <1>1, <1>2, <1>3, <2>1
<1>6. CASE u > q
  <2>1. (u - q) * Modulus = (u * Modulus) - (q * Modulus) /\ (u - q) * Modulus >= Modulus
    BY <1>3, <1>6, SMT
  <2> QED BY <1>1, <1>2, <1>3, <2>1
<1> QED BY <1>4, <1>5, <1>6

LEMMA Counted ==
  ASSUME IInv
  PROVE  Departed \in Nat /\ Depth \in 0..Capacity
<1>1. Depth \in Nat /\ Depth <= Capacity
  BY Deep DEF IInv, Room
<1> QED BY <1>1, CountsNat, Sizes DEF Departed, Reported

(* A snapshotter that stands still has seen what it saw. *)
LEMMA StillSeen ==
  ASSUME IInv, NEW p \in Snapshotter, Seen(p), snap'[p] = snap[p], Departed' \in Nat,
         Departed' >= Departed, Departed' = Departed => tail' = tail
  PROVE  Seen(p)'
<1>1. Departed \in Nat /\ snap[p].since \in Nat
  BY Counted DEF IInv, SnapType, Snaps
<1>2. snap[p].since <= Departed => snap'[p].since <= Departed'
  BY <1>1
<1>3. snap[p].since <= Departed /\ snap'[p].since = Departed' => snap[p].since = Departed /\ tail' = tail
  BY <1>1
<1> QED BY <1>2, <1>3 DEF Seen, Shows, Distance

LEMMA DepthStart == Init => DepthInv
<1> SUFFICES ASSUME Init PROVE DepthInv
    OBVIOUS
<1>1. Depth = 0
  BY StartAssumption, Indexed DEF Init, Depth, Index
<1>2. Departed = 0
  BY DEF Init, Departed, Reported, Counter
<1>3. Shows(StartIndex, 0)
  <2>1. StartIndex + 0 = (0 * Modulus) + StartIndex
    BY StartAssumption, Sizes
  <2> QED BY <2>1 DEF Shows
<1>4. \A p \in Snapshotter : snap[p].pc = "idle"
  BY DEF Init, IdleSnap
<1>5. Samples
  BY <1>2, <1>3, <1>4 DEF Init, Samples, Seen
<1>6. Resting /\ Reach /\ Covered
  BY <1>1, <1>4 DEF Init, Resting, Reach, Covered, Raising, Snapshotter
<1> QED BY <1>5, <1>6 DEF DepthInv

LEMMA PushDepths ==
  ASSUME IInv, DepthInv, PushBegin \/ Push \/ Record
  PROVE  DepthInv'
<1>1. UNCHANGED <<tail, consumer, discarded, collected, snap>>
      /\ snap["starter"].pc = "idle"
      /\ counter'["delivered"] = counter["delivered"]
  <2>1. snap["starter"].pc = "idle"
    BY DEF PushBegin, Push, Record, StarterIdle, DepthInv, Resting, PushTest, PushDrop, PushWrite,
           PushPublish, PushMark, PushRaise, PushCount, ProducerStep
  <2>2. UNCHANGED <<tail, consumer, discarded, collected, snap>>
    BY DEF PushBegin, Push, Record, PushTest, PushDrop, PushWrite, PushPublish, PushMark, PushRaise,
           PushCount, indices, consumerVars, history
  <2>3. counter' = counter \/ \E c \in Counter \ {"delivered"} : Bump(c)
    BY DEF PushBegin, Push, Record, PushTest, PushDrop, PushWrite, PushPublish, PushMark, PushRaise,
           PushCount, Counter
  <2> QED BY <2>1, <2>2, <2>3 DEF Bump, IInv, RingType, Counter
<1>2. Departed' = Departed
  BY <1>1 DEF Departed, Reported
<1>3. Samples'
  <2>1. ASSUME NEW p \in Snapshotter PROVE Seen(p)'
    BY <1>1, <1>2, Counted, StillSeen DEF DepthInv, Samples
  <2>2. Shows(tail', Departed')
    BY <1>1, <1>2 DEF DepthInv, Samples
  <2> QED BY <2>1, <2>2 DEF Samples, Shows
<1>4. Resting'
  BY <1>1 DEF Resting
<1>5. /\ Depth \in Nat /\ PushDepth \in Nat /\ watermark \in Nat
      /\ head \in Index /\ tail \in Index /\ ptail \in Index
  <2>1. head \in Index /\ tail \in Index /\ ptail \in Index /\ watermark \in Nat
    BY Sizes DEF IInv, RingType
  <2>2. PushDepth \in 0..(Modulus - 1) /\ Depth \in 0..Capacity
    BY <2>1, Counted, Indexed DEF PushDepth
  <2> QED BY <2>1, <2>2, Sizes
<1>6. Reach' /\ Covered'
  <2> USE DEF DepthInv, Reach, Covered, Raising
  <2>1. CASE PushTest
    <3>1. ptail' = tail /\ UNCHANGED <<head, tail, watermark, snap>> /\ ~Raising /\ ~Raising'
      BY <2>1 DEF PushTest, ProducerStep, indices
    <3>2. Depth' = Depth /\ PushDepth' = Depth
      BY <3>1 DEF Depth, PushDepth
    <3> QED BY <1>5, <3>1, <3>2
  <2>2. CASE PushPublish
    <3>1. producer = "publish" /\ producer' = "mark" /\ head' = Succ(head) /\ UNCHANGED <<tail, ptail>>
      BY <2>2 DEF PushPublish, ProducerStep
    <3>2. Depth' = Depth + 1 /\ PushDepth' = PushDepth + 1
      BY <1>5, <3>1, Advance DEF IInv, Room, Depth, PushDepth
    <3> QED BY <1>5, <3>1, <3>2
  <2>3. CASE PushMark \/ PushRaise
    <3>1. /\ Raising /\ PushDepth >= Depth
          /\ UNCHANGED <<head, tail, ptail, snap>>
          /\ producer' \in {"raise", "count"}
      BY <2>3 DEF PushMark, PushRaise, ProducerStep, indices
    <3>2. Depth' = Depth /\ PushDepth' = PushDepth
      BY <3>1 DEF Depth, PushDepth
    <3>3. producer' = "count" => watermark' >= PushDepth
      <4>1. CASE PushMark
        BY <1>5, <4>1 DEF PushMark, ProducerStep
      <4>2. CASE PushRaise
        BY <1>5, <4>2 DEF PushRaise
      <4> QED BY <2>3, <4>1, <4>2
    <3>4. watermark' \in Nat
      BY <1>5, <2>3 DEF PushMark, PushRaise
    <3>5. CASE producer' = "raise"
      BY <3>1, <3>2, <3>5
    <3>6. CASE producer' = "count"
      <4>1. watermark' >= Depth'
        BY <1>5, <3>1, <3>2, <3>3, <3>4, <3>6
      <4> QED BY <4>1, <3>6
    <3> QED BY <3>1, <3>5, <3>6
  <2>4. CASE PushBegin \/ PushDrop \/ PushWrite \/ PushCount \/ Record
    <3>1. /\ UNCHANGED <<head, tail, watermark, snap>>
          /\ ~Raising /\ ~Raising'
          /\ producer' \in {"write", "publish"} => producer \in {"write", "publish"} /\ ptail' = ptail
      BY <2>4 DEF PushBegin, PushDrop, PushWrite, PushCount, Record, ProducerStep, indices, producerVars
    <3>2. Depth' = Depth
      BY <3>1 DEF Depth
    <3>3. ptail' = ptail => PushDepth' = PushDepth
      BY <3>1 DEF PushDepth
    <3> QED BY <3>1, <3>2, <3>3
  <2> QED BY <2>1, <2>2, <2>3, <2>4 DEF Push
<1> QED BY <1>3, <1>4, <1>6 DEF DepthInv

LEMMA PopDepths ==
  ASSUME IInv, DepthInv, Pop
  PROVE  DepthInv'
<1>1. UNCHANGED <<head, watermark, producer, ptail, discarded, collected, snap>>
      /\ snap["starter"].pc = "idle"
  BY DEF Pop, PopTest, PopRead, PopRelease, PopCount, ConsumerStep, StarterIdle, DepthInv, Resting,
         indices, producerVars, history
<1>2. /\ Depth \in Nat /\ PushDepth \in Nat /\ watermark \in Nat /\ Departed \in Nat
      /\ head \in Index /\ tail \in Index /\ ptail \in Index
  <2>1. head \in Index /\ tail \in Index /\ ptail \in Index /\ watermark \in Nat
    BY Sizes DEF IInv, RingType
  <2>2. PushDepth \in 0..(Modulus - 1) /\ Depth \in 0..Capacity
    BY <2>1, Counted, Indexed DEF PushDepth
  <2> QED BY <2>1, <2>2, Counted, Sizes
<1>3. Depth' \in Nat /\ Depth' <= Depth /\ PushDepth' = PushDepth
      /\ Departed' \in Nat /\ Departed' >= Departed /\ (Departed' = Departed => tail' = tail)
      /\ Shows(tail', Departed')
  <2>1. CASE PopRelease
    <3>1. /\ consumer = "release" /\ consumer' = "count" /\ tail' = Succ(tail) /\ UNCHANGED counter
      BY <2>1 DEF PopRelease, ConsumerStep
    <3>2. Depth > 0 /\ Depth' = Depth - 1
      BY <1>1, <1>2, <3>1, Retreat DEF IInv, Room, Depth
    <3>3. Departed' = Departed + 1
      BY <1>1, <1>2, <3>1, CountsNat DEF Departed, Reported
    <3>4. Shows(tail', Departed')
      <4>1. Shows(Succ(tail), Departed + 1)
        BY <1>2, ShowsNext DEF DepthInv, Samples
      <4> QED BY <3>1, <3>3, <4>1
    <3> QED BY <1>1, <1>2, <3>1, <3>2, <3>3, <3>4 DEF PushDepth
  <2>2. CASE PopTest \/ PopRead
    <3>1. UNCHANGED <<tail, counter>> /\ consumer # "count" /\ consumer' # "count"
      BY <2>2 DEF PopTest, PopRead, ConsumerStep, indices
    <3>2. Departed' = Departed /\ Depth' = Depth /\ PushDepth' = PushDepth
      BY <1>1, <3>1 DEF Departed, Reported, Depth, PushDepth
    <3> QED BY <1>2, <3>1, <3>2 DEF DepthInv, Samples
  <2>3. CASE PopCount
    <3>1. consumer = "count" /\ consumer' = "idle" /\ UNCHANGED tail /\ Bump("delivered")
      BY <2>3 DEF PopCount, ConsumerStep, indices
    <3>2. counter'["delivered"] = counter["delivered"] + 1
      BY <3>1 DEF Bump, IInv, RingType, Counter
    <3>3. Departed' = Departed
      BY <1>1, <1>2, <3>1, <3>2, CountsNat DEF Departed, Reported
    <3>4. Depth' = Depth /\ PushDepth' = PushDepth
      BY <1>1, <3>1 DEF Depth, PushDepth
    <3> QED BY <1>2, <3>1, <3>3, <3>4 DEF DepthInv, Samples
  <2> QED BY <2>1, <2>2, <2>3 DEF Pop
<1>4. Samples'
  <2>1. ASSUME NEW p \in Snapshotter PROVE Seen(p)'
    BY <1>1, <1>3, StillSeen DEF DepthInv, Samples
  <2> QED BY <1>3, <2>1 DEF Samples, Shows
<1>5. Resting'
  BY <1>1 DEF Resting
<1>6. Reach'
  BY <1>1, <1>2, <1>3 DEF DepthInv, Reach
<1>7. Covered'
  <2>1. snap["observer"].depth \in Nat
    BY Sizes DEF IInv, SnapType, Snaps, Snapshotter
  <2> QED BY <1>1, <1>2, <1>3, <2>1 DEF DepthInv, Covered, Raising
<1> QED BY <1>4, <1>5, <1>6, <1>7 DEF DepthInv

LEMMA SampleDepths ==
  ASSUME IInv, DepthInv, NEW p \in Snapshotter,
         SampleDepth(p) \/ SampleDepthAgain(p) \/ SnapshotLook(p)
  PROVE  DepthInv'
<1>1. /\ UNCHANGED <<head, tail, watermark, counter, producer, ptail, consumer, discarded, collected>>
      /\ \A q \in Snapshotter : q # p => snap'[q] = snap[q]
  BY DEF SampleDepth, SampleDepthAgain, Sample, SnapshotLook, SnapUnchanged, indices, producerVars,
         consumerVars, history, IInv, SnapType
<1>2. Departed' = Departed /\ Depth' = Depth /\ PushDepth' = PushDepth
  BY <1>1 DEF Departed, Reported, Depth, PushDepth
<1>3. /\ Departed \in Nat /\ Depth \in 0..Capacity
      /\ snap[p] \in Snaps /\ snap \in [Snapshotter -> Snaps] /\ Shows(tail, Departed)
      /\ head \in Index /\ tail \in Index
  BY Counted DEF IInv, RingType, SnapType, DepthInv, Samples
<1>4. Seen(p) /\ \A q \in Snapshotter : q # p => Seen(q)'
  BY <1>1, <1>2, <1>3, StillSeen DEF DepthInv, Samples
<1>5. Reach'
  BY <1>1, <1>2 DEF DepthInv, Reach
<1>6. CASE SnapshotLook(p)
  <2>1. snap[p].pc = "look" /\ snap'[p].pc = "idle"
    BY <1>3, <1>6 DEF SnapshotLook, IdleSnap
  <2>2. Seen(p)'
    BY <2>1 DEF Seen
  <2>3. Resting'
    BY <1>1, <1>2, <2>1 DEF DepthInv, Resting, Snapshotter
  <2>4. Covered'
    BY <1>1, <1>2, <2>1 DEF DepthInv, Covered, Raising, Snapshotter
  <2> QED BY <1>1, <1>2, <1>3, <1>4, <1>5, <2>2, <2>3, <2>4 DEF DepthInv, Samples, Shows
<1>7. ASSUME NEW a, NEW b, NEW c, NEW d, Sample(p, a, b, c, d),
             \/ a = "tail" /\ b = "head" /\ c = "again" /\ d \in {"exchange", "look"}
             \/ a = "tail2" /\ b = "head2" /\ c = "again2" /\ d = "ensure"
      PROVE  DepthInv'
  <2>1. CASE /\ snap[p].pc = a
             /\ snap' = [snap EXCEPT ![p].pc = b, ![p].tail = tail, ![p].since = Departed]
    <3>1. snap'[p].pc = b /\ snap'[p].tail = tail /\ snap'[p].since = Departed
      BY <1>3, <2>1 DEF Snaps
    <3>2. Seen(p)'
      BY <1>2, <1>3, <1>7, <3>1 DEF Seen, Shows
    <3>3. Resting' /\ Covered'
      BY <1>1, <1>2, <1>7, <2>1, <3>1 DEF DepthInv, Resting, Covered, Raising, Snapshotter
    <3> QED BY <1>1, <1>2, <1>3, <1>4, <1>5, <3>2, <3>3 DEF DepthInv, Samples, Shows
  <2>2. CASE /\ snap[p].pc = b
             /\ snap' = [snap EXCEPT ![p].pc = c, ![p].head = head, ![p].truth = Depth]
    <3>1. snap'[p].pc = c /\ snap'[p].head = head /\ snap'[p].truth = Depth /\ snap'[p].tail = snap[p].tail
      BY <1>3, <2>2 DEF Snaps
    <3>2. snap'[p].since = snap[p].since
      BY <1>3, <2>2 DEF Snaps
    <3>3. snap[p].since <= Departed /\ Shows(snap[p].tail, snap[p].since)
      BY <1>4, <1>7, <2>2 DEF Seen
    <3>4. Distance(head, tail)' = Depth
      BY <1>1 DEF Depth, Distance
    <3>5. Seen(p)'
      BY <1>1, <1>2, <1>7, <3>1, <3>2, <3>3, <3>4 DEF Seen, Shows, Distance
    <3>6. Resting' /\ Covered'
      BY <1>1, <1>2, <1>3, <1>7, <2>2, <3>1 DEF DepthInv, Resting, Covered, Raising, Snapshotter
    <3> QED BY <1>1, <1>2, <1>3, <1>4, <1>5, <3>5, <3>6 DEF DepthInv, Samples, Shows
  <2>3. ASSUME NEW coherent, NEW distance, snap[p].pc = c, distance = Distance(snap[p].head, tail),
               snap' = [snap EXCEPT ![p] = [snap[p] EXCEPT
                 !.pc = IF coherent THEN d ELSE a,
                 !.depth = IF coherent THEN distance ELSE snap[p].depth,
                 !.tail = 0, !.since = 0, !.head = 0, !.truth = 0]]
        PROVE  DepthInv'
    <3>1. snap'[p] = [snap[p] EXCEPT
                        !.pc = IF coherent THEN d ELSE a,
                        !.depth = IF coherent THEN distance ELSE snap[p].depth,
                        !.tail = 0, !.since = 0, !.head = 0, !.truth = 0]
      BY <1>3, <2>3
    <3>2. /\ snap'[p].pc = IF coherent THEN d ELSE a
          /\ coherent => snap'[p].depth = distance
      BY <1>3, <3>1 DEF Snaps
    <3>3. snap[p].head = head => distance = Depth
      BY <2>3 DEF Depth
    <3>4. Seen(p)'
      <4>1. CASE coherent
        BY <1>7, <3>2, <4>1 DEF Seen
      <4>2. CASE ~coherent
        BY <1>7, <3>2, <4>2 DEF Seen
      <4> QED BY <4>1, <4>2
    <3>5. Resting'
      BY <1>1, <1>2, <1>7, <2>3, <3>2 DEF DepthInv, Resting, Snapshotter
    <3>6. Covered'
      <4>1. CASE p = "starter"
        BY <1>1, <1>2, <4>1 DEF DepthInv, Covered, Raising, Snapshotter
      <4>2. CASE p = "observer" /\ c = "again2"
        <5>1. Raising \/ watermark >= Depth \/ distance = Depth
          BY <2>3, <3>3, <4>2 DEF DepthInv, Covered
        <5>2. coherent /\ distance = Depth => snap'[p].depth >= Depth
          BY <1>3, <3>2
        <5> QED BY <1>1, <1>2, <1>7, <3>2, <4>2, <5>1, <5>2 DEF Covered, Raising
      <4>3. CASE p = "observer" /\ c # "again2"
        <5>1. snap'[p].pc \in {"tail", "exchange", "look"} /\ snap[p].pc = "again"
          BY <1>7, <2>3, <3>2, <4>3
        <5> QED BY <1>1, <1>2, <4>3, <5>1 DEF DepthInv, Covered, Raising
      <4> QED BY <4>1, <4>2, <4>3 DEF Snapshotter
    <3> QED BY <1>1, <1>2, <1>3, <1>4, <1>5, <3>4, <3>5, <3>6 DEF DepthInv, Samples, Shows
  <2> QED BY <1>7, <2>1, <2>2, <2>3 DEF Sample
<1> QED BY <1>6, <1>7 DEF SampleDepth, SampleDepthAgain

LEMMA ResetDepths ==
  ASSUME IInv, DepthInv, NEW p \in Snapshotter,
         SnapshotExchange(p) \/ SnapshotMark(p) \/ SnapshotEnsure(p)
  PROVE  DepthInv'
<1>1. /\ UNCHANGED <<head, tail, producer, ptail, consumer, discarded>>
      /\ \A q \in Snapshotter : q # p => snap'[q] = snap[q]
  BY DEF SnapshotExchange, SnapshotMark, SnapshotEnsure, SnapUnchanged, indices, producerVars,
         consumerVars, history, IInv, SnapType
<1>2. Reported("delivered")' = Reported("delivered")
  <2>1. CASE SnapshotExchange(p)
    <3> DEFINE c == ResetOrder[snap[p].next]
    <3>1. c \in Counter
      <4>1. snap[p].next \in 1..6
        BY Orders DEF IInv, SnapType, Snaps
      <4> QED BY <4>1, Orders
    <3>2. /\ collected' = [collected EXCEPT ![c] = @ + counter[c]]
          /\ counter' = [counter EXCEPT ![c] = 0]
      BY <2>1 DEF SnapshotExchange
    <3> HIDE DEF c
    <3>3. collected'["delivered"] + counter'["delivered"] = collected["delivered"] + counter["delivered"]
      BY <3>1, <3>2 DEF IInv, RingType, Counter
    <3> QED BY <3>3 DEF Reported
  <2>2. CASE SnapshotMark(p) \/ SnapshotEnsure(p)
    BY <2>2 DEF SnapshotMark, SnapshotEnsure, Reported
  <2> QED BY <2>1, <2>2
<1>3. Departed' = Departed /\ Depth' = Depth /\ PushDepth' = PushDepth
  BY <1>1, <1>2 DEF Departed, Pending, Depth, PushDepth
<1>4. /\ Departed \in Nat /\ Depth \in 0..Capacity /\ Shows(tail, Departed) /\ watermark \in 0..Capacity
      /\ snap[p] \in Snaps /\ snap \in [Snapshotter -> Snaps] /\ snap[p].depth \in 0..Capacity
  BY Counted DEF IInv, RingType, SnapType, Snaps, DepthInv, Samples, Snapshotter
<1>5. Seen(p) /\ \A q \in Snapshotter : q # p => Seen(q)'
  BY <1>1, <1>3, <1>4, StillSeen DEF DepthInv, Samples
<1>6. Reach'
  BY <1>1, <1>3 DEF DepthInv, Reach
<1>7. p = "starter" /\ snap[p].pc # "idle" => Depth = 0
  BY DEF DepthInv, Resting
<1>8. CASE SnapshotExchange(p)
  <2>1. /\ snap[p].pc = "exchange" /\ snap'[p].pc \in {"exchange", "mark"} /\ UNCHANGED watermark
    BY <1>4, <1>8 DEF SnapshotExchange, Snaps
  <2>2. Seen(p)'
    BY <1>5, <2>1 DEF Seen
  <2>3. Resting' /\ Covered'
    BY <1>1, <1>3, <2>1 DEF DepthInv, Resting, Covered, Raising, Snapshotter
  <2> QED BY <1>1, <1>3, <1>4, <1>5, <1>6, <2>2, <2>3 DEF DepthInv, Samples, Shows
<1>9. CASE SnapshotMark(p)
  <2>1. snap[p].pc = "mark" /\ snap'[p].pc = "tail2" /\ watermark' \in 0..Capacity
    BY <1>4, <1>9 DEF SnapshotMark
  <2>2. Seen(p)'
    BY <2>1 DEF Seen
  <2>3. Resting'
    BY <1>1, <1>3, <2>1 DEF DepthInv, Resting, Snapshotter
  <2>4. Covered'
    <3>1. CASE p = "observer"
      BY <2>1, <3>1 DEF Covered
    <3>2. CASE p = "starter"
      <4>1. watermark' >= Depth'
        BY <1>3, <1>4, <1>7, <2>1, <3>2, Sizes
      <4> QED BY <4>1 DEF Covered
    <3> QED BY <3>1, <3>2 DEF Snapshotter
  <2> QED BY <1>1, <1>3, <1>4, <1>5, <1>6, <2>2, <2>3, <2>4 DEF DepthInv, Samples, Shows
<1>10. CASE SnapshotEnsure(p)
  <2> DEFINE stored == snap[p].pc = "raise" /\ watermark = snap[p].mark
             done   == stored \/ watermark >= snap[p].depth
  <2>1. /\ snap[p].pc \in {"ensure", "raise"}
        /\ watermark' = (IF stored THEN snap[p].depth ELSE watermark)
    BY <1>10 DEF SnapshotEnsure
  <2>2. stored => watermark < snap[p].depth
    BY <1>5, <2>1 DEF Seen
  <2>3. done => snap'[p].pc \in {"idle", "zero"} /\ (p = "observer" => snap'[p].pc = "idle")
    BY <1>4, <1>10 DEF SnapshotEnsure, AfterSnapshot, IdleSnap
  <2>4. ~done => /\ snap'[p].pc = "raise" /\ snap'[p].mark = watermark
                 /\ snap'[p].depth = snap[p].depth
                 /\ watermark < snap[p].depth
    <3>1. ~done => snap' = [snap EXCEPT ![p] = [snap[p] EXCEPT !.pc = "raise", !.mark = watermark]]
      BY <1>10 DEF SnapshotEnsure
    <3>2. ~done => watermark < snap[p].depth
      BY <1>4
    <3>3. ~done => snap'[p] = [snap[p] EXCEPT !.pc = "raise", !.mark = watermark]
      BY <1>4, <3>1
    <3> HIDE DEF done
    <3> QED BY <1>4, <3>2, <3>3 DEF Snaps
  <2>5. watermark' >= watermark /\ watermark' \in 0..Capacity /\ (done => watermark' >= snap[p].depth)
    BY <1>4, <2>1, <2>2
  <2> HIDE DEF done, stored
  <2>6. Seen(p)'
    BY <2>2, <2>3, <2>4 DEF Seen
  <2>7. Resting'
    BY <1>1, <1>3, <2>1 DEF DepthInv, Resting, Snapshotter
  <2>8. Covered'
    <3>1. CASE p = "starter"
      <4>1. watermark' >= Depth'
        BY <1>3, <1>4, <1>7, <2>1, <2>5, <3>1, Sizes
      <4> QED BY <4>1 DEF Covered
    <3>2. CASE p = "observer"
      <4>1. Raising \/ watermark >= Depth \/ snap[p].depth >= Depth
        BY <2>1, <3>2 DEF DepthInv, Covered
      <4>2. Raising' = Raising
        BY <1>1 DEF Raising
      <4>3. CASE done
        <5>1. Raising \/ watermark' >= Depth
          BY <1>4, <2>2, <2>5, <4>1, <4>3
        <5> QED BY <1>3, <2>3, <3>2, <4>2, <4>3, <5>1 DEF Covered
      <4>4. CASE ~done
        <5>1. Raising \/ watermark' >= Depth \/ snap'[p].depth >= Depth
          BY <1>4, <2>4, <2>5, <4>1, <4>4
        <5> QED BY <1>3, <2>4, <3>2, <4>2, <4>4, <5>1 DEF Covered
      <4> QED BY <4>3, <4>4
    <3> QED BY <3>1, <3>2 DEF Snapshotter
  <2> QED BY <1>1, <1>3, <1>4, <1>5, <1>6, <2>6, <2>7, <2>8 DEF DepthInv, Samples, Shows
<1> QED BY <1>8, <1>9, <1>10

LEMMA ClearDepths ==
  ASSUME IInv, DepthInv,
         ClearBegin \/ ClearEnd \/ (\E op \in {"look", "reset"} : SnapshotBegin(op))
  PROVE  DepthInv'
<1>1. /\ Departed \in Nat /\ Depth \in 0..Capacity /\ Shows(tail, Departed)
      /\ snap \in [Snapshotter -> Snaps] /\ watermark \in Nat /\ head \in Index /\ tail \in Index
  BY Counted, Sizes DEF IInv, RingType, SnapType, DepthInv, Samples
<1>2. CASE ClearBegin
  <2>1. /\ producer' = "idle" /\ consumer = "idle" /\ consumer' = "idle"
        /\ tail' = head /\ discarded' = discarded + Depth
        /\ UNCHANGED <<head, watermark, counter, collected>>
        /\ snap'["starter"].pc = "tail" /\ snap'["observer"] = snap["observer"]
    BY <1>1, <1>2 DEF ClearBegin, producerVars, consumerVars, IdleSnap, Snapshotter
  <2>2. Departed' = Departed + Depth
    BY <1>1, <2>1, CountsNat DEF Departed, Reported
  <2>3. Depth' = 0
    BY <1>1, <2>1, Indexed DEF Depth
  <2>4. Shows(tail', Departed')
    <3>1. Shows(head, Departed + Distance(head, tail))
      BY <1>1, ShowsAhead
    <3> QED BY <2>1, <2>2, <3>1 DEF Depth
  <2>5. Departed' \in Nat /\ Departed' >= Departed /\ (Departed' = Departed => tail' = tail)
    <3>1. Depth \in Nat /\ (Depth = 0 => head = tail)
      BY Deep DEF IInv
    <3> QED BY <1>1, <2>1, <2>2, <3>1
  <2>6. Seen("starter")' /\ Seen("observer")'
    <3>1. Seen("starter")'
      BY <2>1 DEF Seen
    <3>2. Seen("observer")'
      BY <2>1, <2>5, StillSeen DEF DepthInv, Samples, Snapshotter
    <3> QED BY <3>1, <3>2
  <2>7. Resting' /\ Reach' /\ Covered'
    BY <1>1, <2>1, <2>3 DEF Resting, Reach, Covered
  <2> QED BY <2>4, <2>6, <2>7 DEF DepthInv, Samples, Snapshotter, Shows
<1>3. ASSUME NEW p \in Snapshotter,
             UNCHANGED <<head, tail, producer, ptail, consumer, discarded, counter, collected>>,
             snap'[p].pc \in {"idle", "tail"}, \A q \in Snapshotter : q # p => snap'[q] = snap[q],
             watermark' = watermark \/ (Depth = 0 /\ watermark' = 0),
             snap[p].pc \in {"idle", "zero"}, snap'["starter"].pc # "idle" => snap["starter"].pc # "idle"
      PROVE  DepthInv'
  <2>1. Departed' = Departed /\ Depth' = Depth /\ PushDepth' = PushDepth
    BY <1>3 DEF Departed, Reported, Depth, PushDepth
  <2>2. ASSUME NEW q \in Snapshotter PROVE Seen(q)'
    <3>1. CASE q = p
      BY <1>3, <3>1 DEF Seen
    <3>2. CASE q # p
      BY <1>1, <1>3, <2>1, <3>2, StillSeen DEF DepthInv, Samples
    <3> QED BY <3>1, <3>2
  <2>3. Resting' /\ Reach'
    BY <1>3, <2>1 DEF DepthInv, Resting, Reach
  <2>4. Covered'
    BY <1>1, <1>3, <2>1 DEF DepthInv, Covered, Raising, Snapshotter
  <2> QED BY <1>1, <1>3, <2>1, <2>2, <2>3, <2>4 DEF DepthInv, Samples, Shows
<1>4. CASE ClearEnd
  <2>1. Depth = 0
    BY <1>4 DEF ClearEnd, DepthInv, Resting
  <2> QED BY <1>1, <1>3, <1>4, <2>1 DEF ClearEnd, SnapUnchanged, indices, producerVars, consumerVars,
                 history, IdleSnap, Snapshotter
<1>5. ASSUME NEW op \in {"look", "reset"}, SnapshotBegin(op) PROVE DepthInv'
  <2>1. /\ UNCHANGED <<head, tail, producer, ptail, consumer, discarded, counter, collected, watermark>>
        /\ snap["observer"].pc = "idle" /\ snap'["observer"].pc = "tail"
        /\ snap'["starter"] = snap["starter"]
    BY <1>1, <1>5 DEF SnapshotBegin, SnapUnchanged, indices, producerVars, consumerVars, history,
                 IdleSnap, Snapshotter
  <2>2. "observer" \in Snapshotter /\ \A q \in Snapshotter : q # "observer" => snap'[q] = snap[q]
    BY <2>1 DEF Snapshotter
  <2>3. /\ UNCHANGED <<head, tail, producer, ptail, consumer, discarded, counter, collected>>
        /\ snap'["observer"].pc \in {"idle", "tail"} /\ snap["observer"].pc \in {"idle", "zero"}
        /\ watermark' = watermark \/ (Depth = 0 /\ watermark' = 0)
        /\ snap'["starter"].pc # "idle" => snap["starter"].pc # "idle"
    BY <2>1
  <2> QED BY <1>3, <2>2, <2>3
<1> QED BY <1>2, <1>4, <1>5

LEMMA DepthStep == IInv /\ DepthInv /\ [Next]_vars => DepthInv'
<1> SUFFICES ASSUME IInv, DepthInv, [Next]_vars PROVE DepthInv'
    OBVIOUS
<1>1. ASSUME NEW p \in Snapshotter, Snapshot(p) PROVE DepthInv'
  BY <1>1, SampleDepths, ResetDepths DEF Snapshot
<1>2. CASE UNCHANGED vars
  BY <1>2 DEF DepthInv, Samples, Seen, Resting, Reach, Covered, Raising, Departed, Shows, Reported,
              Depth, PushDepth, vars, indices, producerVars, consumerVars, history
<1> QED BY <1>1, <1>2, PushDepths, PopDepths, ClearDepths DEF Next

LEMMA DepthInvariance == Spec => []DepthInv
<1>1. IInv /\ DepthInv /\ [Next]_vars => DepthInv'
  BY DepthStep
<1> QED BY <1>1, DepthStart, Invariance, PTL DEF Spec

CoherentStep ==
  \A p \in Snapshotter :
    /\ snap[p].pc \in {"again", "again2"} /\ snap'[p].pc \in {"look", "exchange", "ensure"}
    /\ Departed - snap[p].since < Modulus
    => snap'[p].depth = snap[p].truth

(* A sample is accepted by its second load of tail_ only. *)
LEMMA Accepting ==
  ASSUME IInv, [Next]_vars, NEW p \in Snapshotter,
         snap[p].pc \in {"again", "again2"}, snap'[p].pc \in {"look", "exchange", "ensure"}
  PROVE  snap[p].tail = tail /\ snap'[p].depth = Distance(snap[p].head, tail)
<1>1. snap[p] \in Snaps /\ snap \in [Snapshotter -> Snaps]
  BY DEF IInv, SnapType
<1>2. snap'[p] # snap[p]
  BY <1>1
<1>3. snap' # snap
  BY <1>2
<1>4. ASSUME NEW a, NEW b, NEW c, NEW d, Sample(p, a, b, c, d),
             \/ a = "tail" /\ b = "head" /\ c = "again"
             \/ a = "tail2" /\ b = "head2" /\ c = "again2"
      PROVE  snap[p].tail = tail /\ snap'[p].depth = Distance(snap[p].head, tail)
  <2> DEFINE distance == Distance(snap[p].head, tail)
             coherent == snap[p].tail = tail /\ distance <= Capacity
  <2>1. snap[p].pc = c
    BY <1>4 DEF Sample
  <2>2. snap' = [snap EXCEPT ![p] = [snap[p] EXCEPT
                  !.pc = IF coherent THEN d ELSE a,
                  !.depth = IF coherent THEN distance ELSE @,
                  !.tail = 0, !.since = 0, !.head = 0, !.truth = 0]]
    BY <1>4, <2>1 DEF Sample
  <2> HIDE DEF distance
  <2>3. /\ snap'[p].pc = IF coherent THEN d ELSE a
        /\ coherent => snap'[p].depth = distance
    BY <1>1, <2>2 DEF Snaps
  <2>4. coherent
    BY <1>4, <2>3
  <2> QED BY <2>3, <2>4 DEF distance
<1>5. CASE Snapshot(p)
  <2>1. ~(SnapshotLook(p) \/ SnapshotExchange(p) \/ SnapshotMark(p) \/ SnapshotEnsure(p))
    BY DEF SnapshotLook, SnapshotExchange, SnapshotMark, SnapshotEnsure
  <2> QED BY <1>4, <1>5, <2>1 DEF Snapshot, SampleDepth, SampleDepthAgain
<1>6. ASSUME NEW q \in Snapshotter, q # p, Snapshot(q) PROVE FALSE
  BY <1>1, <1>2, <1>6 DEF Snapshot, SampleDepth, SampleDepthAgain, Sample, SnapshotLook, SnapshotExchange,
                     SnapshotMark, SnapshotEnsure
<1>7. ASSUME ClearBegin \/ ClearEnd \/ \E op \in {"look", "reset"} : SnapshotBegin(op) PROVE FALSE
  BY <1>1, <1>2, <1>7 DEF ClearBegin, ClearEnd, SnapshotBegin, IdleSnap, StarterIdle, Snapshotter
<1>8. ASSUME PushBegin \/ Push \/ Record \/ Pop \/ UNCHANGED vars PROVE FALSE
  BY <1>3, <1>8 DEF PushBegin, Push, Record, PushTest, PushDrop, PushWrite, PushPublish, PushMark,
               PushRaise, PushCount, Pop, PopTest, PopRead, PopRelease, PopCount, vars
<1> QED BY <1>5, <1>6, <1>7, <1>8 DEF Next

(* The depth that coherent_depth() returns is one that the ring had, however push, *)
(* pop and clear() fall between its loads, in histories of any length: unless a    *)
(* full turn of the index words left the ring during that very sample.             *)
THEOREM DepthsCoherent == Spec => CoherentDepth
<1>1. IInv /\ DepthInv /\ [Next]_vars => [CoherentStep]_vars
  <2> SUFFICES ASSUME IInv, DepthInv, [Next]_vars, NEW p \in Snapshotter,
                      snap[p].pc \in {"again", "again2"}, snap'[p].pc \in {"look", "exchange", "ensure"},
                      Departed - snap[p].since < Modulus
               PROVE  snap'[p].depth = snap[p].truth
      BY DEF CoherentStep
  <2>1. snap[p].tail = tail /\ snap'[p].depth = Distance(snap[p].head, tail)
    BY Accepting
  <2>2. /\ snap[p].since <= Departed /\ Shows(snap[p].tail, snap[p].since) /\ Shows(tail, Departed)
        /\ snap[p].since = Departed => snap[p].truth = Distance(snap[p].head, tail)
    BY DEF DepthInv, Samples, Seen
  <2>3. Departed \in Nat /\ snap[p].since \in Nat /\ tail \in Index
    BY Counted DEF IInv, RingType, SnapType, Snaps
  <2>4. snap[p].since = Departed
    BY <2>1, <2>2, <2>3, ShowsOnce
  <2> QED BY <2>1, <2>2, <2>4
<1>2. CoherentDepth <=> [][CoherentStep]_vars
  BY PTL DEF CoherentDepth, CoherentStep
<1> QED BY <1>1, <1>2, DepthInvariance, Invariance, PTL DEF Spec

(* A reset of the watermark that races pushes and pops never leaves it below the *)
(* depth: whoever comes last has raised it. This holds of every history, also if *)
(* a sample of the reset was not coherent.                                       *)
THEOREM WatermarkSuffices == Spec => []WatermarkCoversDepth
<1>1. DepthInv => WatermarkCoversDepth
  BY DEF DepthInv, Covered, Raising, WatermarkCoversDepth, Snapshotter
<1> QED BY <1>1, DepthInvariance, PTL
=============================================================================
