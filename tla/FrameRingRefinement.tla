------------------------ MODULE FrameRingRefinement ------------------------
(***************************************************************************)
(* The ring implements BoundedFifo, for every capacity, every width of the *)
(* index words that the capacity divides and every history.                *)
(***************************************************************************)
EXTENDS FrameRingProofs, SequenceTheorems

-----------------------------------------------------------------------------
(* The queue that two index words and the slots stand for. *)

\* The index word of the k-th oldest frame.
At(t, k) == (t + k - 1) % Modulus

Queue(h, t, s) == [k \in 1..Distance(h, t) |-> s[Slot(At(t, k))]]

(* The remainder of a sum of two numbers below m. *)
LEMMA Wrap ==
  ASSUME NEW m \in Nat, m > 0, NEW i \in Nat, i < m + m
  PROVE  i % m = IF i < m THEN i ELSE i - m
<1> DEFINE q == i \div m
           r == i % m
<1>1. q \in Nat /\ r \in 0..(m - 1) /\ i = (q * m) + r
  <2>1. q \in Nat
    BY SMT
  <2>2. r \in 0..(m - 1)
    BY SMT
  <2>3. i = (q * m) + r
    BY SMT
  <2> QED BY <2>1, <2>2, <2>3
<1> HIDE DEF q, r
<1>2. CASE q >= 2
  <2>1. (q - 2) \in Nat /\ q * m = (q - 2) * m + m + m
    BY <1>1, <1>2, SMT
  <2>2. (q - 2) * m \in Nat
    BY <2>1, SMT
  <2> QED BY <1>1, <2>1, <2>2
<1>3. CASE q = 1
  BY <1>1, <1>3 DEF r
<1>4. CASE q = 0
  BY <1>1, <1>4 DEF r
<1> QED BY <1>1, <1>2, <1>3, <1>4

LEMMA Position ==
  ASSUME NEW t \in Index, NEW k \in 1..Modulus
  PROVE  At(t, k) = IF t + k - 1 < Modulus THEN t + k - 1 ELSE t + k - 1 - Modulus
<1> DEFINE i == t + k - 1
<1>1. i \in Nat /\ i < Modulus + Modulus /\ Modulus \in Nat /\ Modulus > 0
  BY Sizes DEF Index
<1> HIDE DEF i
<1>2. i % Modulus = IF i < Modulus THEN i ELSE i - Modulus
  BY <1>1, Wrap
<1>3. At(t, k) = i % Modulus /\ i = t + k - 1
  BY DEF At, i
<1>4. t \in Nat /\ k \in Nat
  BY Sizes DEF Index
<1> QED BY <1>1, <1>2, <1>3, <1>4

(* How far an index word is from the newest, where the first free one is, and *)
(* that releasing the oldest frame renumbers the others.                      *)
LEMMA Numbering ==
  ASSUME NEW h \in Index, NEW t \in Index, NEW k \in 1..(Distance(h, t) + 1)
  PROVE  /\ At(t, k) \in Index /\ Distance(h, At(t, k)) = Distance(h, t) + 1 - k
         /\ k = Distance(h, t) + 1 => At(t, k) = h
         /\ k = 1 => At(t, k) = t
         /\ k <= Distance(h, t) => At(Succ(t), k) = At(t, k + 1)
<1>1. Distance(h, t) \in 0..(Modulus - 1) /\ Succ(t) \in Index /\ k \in 1..Modulus
  <2>1. Distance(h, t) \in 0..(Modulus - 1) /\ Succ(t) \in Index
    BY Indexed
  <2> QED BY <2>1, Sizes
<1>2. At(t, k) = IF t + k - 1 < Modulus THEN t + k - 1 ELSE t + k - 1 - Modulus
  BY <1>1, Position
<1>3. /\ At(t, k) \in Index /\ Distance(h, At(t, k)) = Distance(h, t) + 1 - k
      /\ k = Distance(h, t) + 1 => At(t, k) = h
      /\ k = 1 => At(t, k) = t
  BY <1>1, <1>2, Sizes DEF Index, Distance
<1>4. ASSUME k <= Distance(h, t) PROVE At(Succ(t), k) = At(t, k + 1)
  <2>1. k + 1 \in 1..Modulus
    BY <1>1, <1>4, Sizes
  <2>2. At(Succ(t), k) = IF Succ(t) + k - 1 < Modulus THEN Succ(t) + k - 1 ELSE Succ(t) + k - 1 - Modulus
    BY <1>1, Position
  <2>3. At(t, k + 1) = IF t + (k + 1) - 1 < Modulus THEN t + (k + 1) - 1 ELSE t + (k + 1) - 1 - Modulus
    BY <2>1, Position
  <2> QED BY <1>1, <2>1, <2>2, <2>3, Sizes DEF Index, Succ
<1> QED BY <1>3, <1>4

LEMMA InRing ==
  ASSUME NEW i \in Index
  PROVE  Slot(i) \in 0..(Capacity - 1)
<1>1. i \in Nat
  BY Sizes DEF Index
<1> QED BY <1>1, Laps

(* The queue is a sequence as long as the distance of the index words. *)
LEMMA QueueIs ==
  ASSUME NEW h \in Index, NEW t \in Index, NEW s \in [0..(Capacity - 1) -> Nat]
  PROVE  /\ Queue(h, t, s) \in Seq(Nat) /\ Len(Queue(h, t, s)) = Distance(h, t)
         /\ \A k \in 1..Distance(h, t) : Queue(h, t, s)[k] = s[Slot(At(t, k))]
<1>1. Distance(h, t) \in Nat
  <2>1. Distance(h, t) \in 0..(Modulus - 1)
    BY Indexed
  <2> QED BY <2>1, Sizes
<1>2. ASSUME NEW k \in 1..Distance(h, t) PROVE s[Slot(At(t, k))] \in Nat
  <2>1. At(t, k) \in Index
    BY <1>1, Numbering
  <2>2. Slot(At(t, k)) \in 0..(Capacity - 1)
    BY <2>1, InRing
  <2> QED BY <2>2
<1>3. Queue(h, t, s) \in [1..Distance(h, t) -> Nat]
  BY <1>2 DEF Queue
<1>4. Queue(h, t, s) \in Seq(Nat)
  BY <1>1, <1>3, SeqDef
<1>5. Len(Queue(h, t, s)) = Distance(h, t)
  BY <1>1, <1>3, <1>4, LenProperties
<1> QED BY <1>4, <1>5 DEF Queue

(* Publishing head_ appends the frame in the slot that it was at. *)
LEMMA Appended ==
  ASSUME NEW h \in Index, NEW t \in Index, NEW s \in [0..(Capacity - 1) -> Nat],
         Distance(h, t) < Capacity
  PROVE  Queue(Succ(h), t, s) = Append(Queue(h, t, s), s[Slot(h)])
<1> DEFINE q == Queue(h, t, s)
           r == Queue(Succ(h), t, s)
           n == Distance(h, t)
<1>1. Succ(h) \in Index /\ n \in Nat /\ Distance(Succ(h), t) = n + 1
  <2>1. Succ(h) \in Index /\ n \in 0..(Modulus - 1)
    BY Indexed
  <2> QED BY <2>1, Advance, Sizes
<1>2. /\ q \in Seq(Nat) /\ Len(q) = n /\ \A k \in 1..n : q[k] = s[Slot(At(t, k))]
      /\ r \in Seq(Nat) /\ Len(r) = n + 1 /\ \A k \in 1..(n + 1) : r[k] = s[Slot(At(t, k))]
  <2>1. q \in Seq(Nat) /\ Len(q) = n /\ \A k \in 1..n : q[k] = s[Slot(At(t, k))]
    BY QueueIs
  <2>2. /\ r \in Seq(Nat) /\ Len(r) = Distance(Succ(h), t)
        /\ \A k \in 1..Distance(Succ(h), t) : r[k] = s[Slot(At(t, k))]
    <3> HIDE DEF r
    <3> QED BY <1>1, QueueIs DEF r
  <2> HIDE DEF q, r, n
  <2> QED BY <1>1, <2>1, <2>2
<1>3. At(t, n + 1) = h
  BY <1>1, Numbering
<1>4. s[Slot(h)] \in Nat
  BY InRing
<1> HIDE DEF q, r, n
<1>5. /\ Append(q, s[Slot(h)]) \in Seq(Nat) /\ Len(Append(q, s[Slot(h)])) = n + 1
      /\ \A k \in 1..n : Append(q, s[Slot(h)])[k] = q[k]
      /\ Append(q, s[Slot(h)])[n + 1] = s[Slot(h)]
  BY <1>1, <1>2, <1>4, AppendProperties
<1>6. \A k \in 1..(n + 1) : r[k] = Append(q, s[Slot(h)])[k]
  <2> TAKE k \in 1..(n + 1)
  <2>1. CASE k = n + 1
    BY <1>1, <1>2, <1>3, <1>5, <2>1
  <2>2. CASE k # n + 1
    <3>1. k \in 1..n
      BY <1>1, <2>2
    <3> QED BY <1>1, <1>2, <1>5, <3>1
  <2> QED BY <2>1, <2>2
<1>7. r = Append(q, s[Slot(h)])
  BY <1>1, <1>2, <1>5, <1>6, SeqEqual
<1> QED BY <1>7 DEF q, r

(* Publishing tail_ takes the frame in the slot that it was at. *)
LEMMA Removed ==
  ASSUME NEW h \in Index, NEW t \in Index, NEW s \in [0..(Capacity - 1) -> Nat],
         Distance(h, t) > 0
  PROVE  /\ Queue(h, t, s) # <<>> /\ Head(Queue(h, t, s)) = s[Slot(t)]
         /\ Queue(h, Succ(t), s) = Tail(Queue(h, t, s))
<1> DEFINE q == Queue(h, t, s)
           r == Queue(h, Succ(t), s)
           n == Distance(h, t)
<1>1. Succ(t) \in Index /\ n \in Nat /\ n > 0 /\ Distance(h, Succ(t)) = n - 1
  <2>1. Succ(t) \in Index /\ n \in 0..(Modulus - 1)
    BY Indexed
  <2> QED BY <2>1, Retreat, Sizes
<1>2. /\ q \in Seq(Nat) /\ Len(q) = n /\ \A k \in 1..n : q[k] = s[Slot(At(t, k))]
      /\ r \in Seq(Nat) /\ Len(r) = n - 1 /\ \A k \in 1..(n - 1) : r[k] = s[Slot(At(Succ(t), k))]
  <2>1. q \in Seq(Nat) /\ Len(q) = n /\ \A k \in 1..n : q[k] = s[Slot(At(t, k))]
    BY QueueIs
  <2>2. /\ r \in Seq(Nat) /\ Len(r) = Distance(h, Succ(t))
        /\ \A k \in 1..Distance(h, Succ(t)) : r[k] = s[Slot(At(Succ(t), k))]
    <3> HIDE DEF r
    <3> QED BY <1>1, QueueIs DEF r
  <2> HIDE DEF q, r, n
  <2> QED BY <1>1, <2>1, <2>2
<1>3. At(t, 1) = t /\ \A k \in 1..(n - 1) : At(Succ(t), k) = At(t, k + 1)
  BY <1>1, Numbering
<1> HIDE DEF q, r, n
<1>4. q # <<>>
  BY <1>1, <1>2, EmptySeq
<1>5. Tail(q) \in Seq(Nat) /\ Len(Tail(q)) = n - 1 /\ \A k \in 1..(n - 1) : Tail(q)[k] = q[k + 1]
  BY <1>1, <1>2, <1>4, HeadTailProperties
<1>6. \A k \in 1..(n - 1) : r[k] = Tail(q)[k]
  <2> TAKE k \in 1..(n - 1)
  <2>1. k + 1 \in 1..n
    BY <1>1
  <2> QED BY <1>2, <1>3, <1>5, <2>1
<1>7. r = Tail(q)
  BY <1>1, <1>2, <1>5, <1>6, SeqEqual
<1>8. Head(q) = q[1] /\ q[1] = s[Slot(t)]
  BY <1>1, <1>2, <1>3
<1> QED BY <1>4, <1>7, <1>8 DEF q, r

(* The slot at head_ holds none of the frames while there is room. *)
LEMMA Untouched ==
  ASSUME NEW h \in Index, NEW t \in Index, NEW s \in [0..(Capacity - 1) -> Nat], NEW e \in Nat,
         Distance(h, t) < Capacity
  PROVE  Queue(h, t, [s EXCEPT ![Slot(h)] = e]) = Queue(h, t, s)
<1>1. ASSUME NEW k \in 1..Distance(h, t)
      PROVE  [s EXCEPT ![Slot(h)] = e][Slot(At(t, k))] = s[Slot(At(t, k))]
  <2>1. Distance(h, t) \in Nat /\ k \in Nat /\ k > 0 /\ k <= Distance(h, t)
    <3>1. Distance(h, t) \in 0..(Modulus - 1)
      BY Indexed
    <3> QED BY <3>1, Sizes
  <2>2. At(t, k) \in Index /\ Distance(h, At(t, k)) = Distance(h, t) + 1 - k
    BY <2>1, Numbering
  <2>3. Slot(h) # Slot(At(t, k))
    BY <2>1, <2>2, SlotsDiffer, Sizes
  <2>4. Slot(At(t, k)) \in 0..(Capacity - 1)
    BY <2>2, InRing
  <2> QED BY <2>3, <2>4
<1> QED BY <1>1 DEF Queue

-----------------------------------------------------------------------------
(* The refinement. *)

Lost == Reported("dropped") + (IF producer = "drop" THEN 1 ELSE 0)

LEMMA Mapped == /\ Contents = Queue(head, tail, slots)
                /\ Contents' = Queue(head', tail', slots')
BY DEF Contents, Queue, At, Depth

(* Steps that leave the queue alone, and count no loss. *)
Stutter == UNCHANGED <<Contents, out, Lost>>

LEMMA Same ==
  ASSUME UNCHANGED <<head, tail, slots, out>>, Lost' = Lost
  PROVE  Stutter
BY Mapped DEF Stutter

LEMMA PushMaps ==
  ASSUME IInv, PushBegin \/ Push \/ Record
  PROVE  Stutter \/ Fifo!Next
<1>a. /\ head \in Index /\ tail \in Index /\ slots \in [0..(Capacity - 1) -> Nat]
      /\ Depth \in Nat /\ Depth <= Capacity /\ arrivals \in Nat
  BY Deep DEF IInv, RingType, Room
<1>b. collected["dropped"] \in Nat /\ counter["dropped"] \in Nat
  BY CountsNat
<1>c. Contents \in Seq(Nat) /\ Len(Contents) = Depth
  BY <1>a, Mapped, QueueIs DEF Depth
<1>1. CASE PushTest
  <2>1. /\ producer = "test" /\ producer' = (IF Depth >= Capacity THEN "drop" ELSE "write")
        /\ UNCHANGED <<head, tail, slots, counter, collected, out>>
    BY <1>1 DEF PushTest, ProducerStep, IsFull, Depth, indices, history
  <2>2. CASE Depth >= Capacity
    <3>1. Len(Contents) = Capacity
      BY <1>a, <1>c, <2>2, Sizes
    <3>2. UNCHANGED <<Contents, out>>
      BY <2>1, Mapped
    <3>3. Lost' = Lost + 1
      BY <1>b, <2>1, <2>2 DEF Lost, Reported
    <3>4. Fifo!Refuse
      BY <3>1, <3>2, <3>3 DEF Fifo!Refuse, Lost
    <3> QED BY <3>4 DEF Fifo!Next
  <2>3. CASE ~ (Depth >= Capacity)
    <3>1. Lost' = Lost
      BY <2>1, <2>3 DEF Lost, Reported
    <3> QED BY <2>1, <3>1, Same
  <2> QED BY <2>2, <2>3
<1>2. CASE PushPublish
  <2>1. /\ producer = "publish" /\ producer' = "mark" /\ head' = Succ(head)
        /\ UNCHANGED <<tail, slots, counter, collected, out>>
    BY <1>2 DEF PushPublish, ProducerStep, history
  <2>2. arrivals \in 1..MaxArrivals /\ slots[Slot(head)] = arrivals /\ Depth < Capacity
    BY <1>a, <2>1, BoundAssumption DEF IInv, Held, Room
  <2>3. Contents' = Append(Contents, arrivals) /\ Len(Contents) < Capacity
    BY <1>a, <1>c, <2>1, <2>2, Mapped, Appended DEF Depth
  <2>4. Lost' = Lost
    BY <2>1 DEF Lost, Reported
  <2>5. Fifo!Accept
    BY <2>1, <2>2, <2>3, <2>4 DEF Fifo!Accept, Lost
  <2> QED BY <2>5 DEF Fifo!Next
<1>3. CASE PushWrite
  <2>1. /\ producer = "write" /\ producer' = "publish" /\ UNCHANGED <<head, tail, counter, collected, out>>
        /\ slots' = [slots EXCEPT ![Slot(head)] = arrivals]
    BY <1>3 DEF PushWrite, ProducerStep, history
  <2>2. Depth < Capacity
    BY <2>1 DEF IInv, Room
  <2>3. UNCHANGED Contents
    BY <1>a, <2>1, <2>2, Mapped, Untouched DEF Depth
  <2> QED BY <2>1, <2>3 DEF Stutter, Lost, Reported
<1>4. CASE PushDrop
  <2>1. UNCHANGED <<head, tail, slots, collected, out>>
    BY <1>4 DEF PushDrop, indices, history
  <2>2. CASE producer = "drop"
    <3>1. producer' = "overflow" /\ counter'["dropped"] = counter["dropped"] + 1
      BY <1>4, <2>2 DEF PushDrop, ProducerStep, Bump, IInv, RingType, Counter
    <3> QED BY <1>b, <2>1, <2>2, <3>1, Same DEF Lost, Reported
  <2>3. CASE producer = "overflow"
    <3>1. producer' = "idle" /\ counter'["dropped"] = counter["dropped"]
      BY <1>4, <2>3 DEF PushDrop, ProducerStep, Bump, IInv, RingType, Counter
    <3> QED BY <2>1, <2>3, <3>1, Same DEF Lost, Reported
  <2> QED BY <1>4, <2>2, <2>3 DEF PushDrop, ProducerStep
<1>5. CASE PushBegin \/ PushMark \/ PushRaise \/ PushCount \/ Record
  <2>1. UNCHANGED <<head, tail, slots, collected, out>>
    BY <1>5 DEF PushBegin, PushMark, PushRaise, PushCount, Record, indices, history
  <2>2. counter'["dropped"] = counter["dropped"]
    BY <1>5 DEF PushBegin, PushMark, PushRaise, PushCount, Record, Bump, IInv, RingType, Counter
  <2>3. producer # "drop" /\ producer' # "drop"
    BY <1>5 DEF PushBegin, PushMark, PushRaise, PushCount, Record, ProducerStep, producerVars
  <2> QED BY <2>1, <2>2, <2>3, Same DEF Lost, Reported
<1> QED BY <1>1, <1>2, <1>3, <1>4, <1>5 DEF Push

LEMMA PopMaps ==
  ASSUME IInv, Pop
  PROVE  Stutter \/ Fifo!Next
<1>a. /\ head \in Index /\ tail \in Index /\ slots \in [0..(Capacity - 1) -> Nat]
      /\ UNCHANGED producer
  BY DEF IInv, RingType, Pop, PopTest, PopRead, PopRelease, PopCount, producerVars
<1>1. CASE PopRelease
  <2>1. /\ consumer = "release" /\ tail' = Succ(tail) /\ out' = popped
        /\ UNCHANGED <<head, slots, counter, collected>>
    BY <1>1 DEF PopRelease, ConsumerStep
  <2>2. popped = slots[Slot(tail)] /\ Distance(head, tail) > 0
    BY <2>1 DEF IInv, Held, Room, Depth
  <2>3. Contents # <<>> /\ out' = Head(Contents) /\ Contents' = Tail(Contents)
    BY <1>a, <2>1, <2>2, Mapped, Removed
  <2>4. Lost' = Lost
    BY <1>a, <2>1 DEF Lost, Reported
  <2>5. Fifo!Deliver
    BY <2>3, <2>4 DEF Fifo!Deliver, Lost
  <2> QED BY <2>5 DEF Fifo!Next
<1>2. CASE PopTest \/ PopRead \/ PopCount
  <2>1. UNCHANGED <<head, tail, slots, collected, out>>
    BY <1>2 DEF PopTest, PopRead, PopCount, indices, history
  <2>2. counter'["dropped"] = counter["dropped"]
    BY <1>2 DEF PopTest, PopRead, PopCount, Bump, IInv, RingType, Counter
  <2> QED BY <1>a, <2>1, <2>2, Same DEF Lost, Reported
<1> QED BY <1>1, <1>2 DEF Pop

LEMMA ObserverMaps ==
  ASSUME IInv, NEW p \in Snapshotter, Snapshot(p)
  PROVE  Stutter
<1>1. UNCHANGED <<head, tail, slots, out, producer>>
  BY DEF Snapshot, SampleDepth, SampleDepthAgain, Sample, SnapshotLook, SnapshotExchange,
         SnapshotMark, SnapshotEnsure, SnapUnchanged, indices, producerVars, history
<1>2. Reported("dropped")' = Reported("dropped")
  <2>1. CASE SnapshotExchange(p)
    <3> DEFINE c == ResetOrder[snap[p].next]
    <3>1. c \in Counter
      <4>1. snap[p].next \in 1..6
        BY Orders DEF IInv, SnapType, Snaps
      <4> QED BY <4>1, Orders
    <3>2. /\ collected' = [collected EXCEPT ![c] = @ + counter[c]]
          /\ counter' = [counter EXCEPT ![c] = 0]
      BY <2>1 DEF SnapshotExchange
    <3> HIDE DEF c
    <3>3. counter \in [Counter -> Nat] /\ collected \in [Counter -> Nat] /\ "dropped" \in Counter
      BY DEF IInv, RingType, Counter
    <3> QED BY <3>1, <3>2, <3>3 DEF Reported
  <2>2. CASE UNCHANGED <<counter, collected>>
    BY <2>2 DEF Reported
  <2> QED BY <2>1, <2>2 DEF Snapshot, SampleDepth, SampleDepthAgain, Sample, SnapshotLook,
                            SnapshotMark, SnapshotEnsure
<1>3. Lost' = Lost
  BY <1>1, <1>2 DEF Lost
<1> QED BY <1>1, <1>3, Same

LEMMA ClearMaps ==
  ASSUME IInv, ClearBegin \/ ClearEnd \/ (\E op \in {"look", "reset"} : SnapshotBegin(op))
  PROVE  Stutter \/ Fifo!Next
<1>a. UNCHANGED <<head, slots, counter, collected, out, producer>>
  BY DEF ClearBegin, ClearEnd, SnapshotBegin, SnapUnchanged, indices, producerVars, history
<1>b. Lost' = Lost
  BY <1>a DEF Lost, Reported
<1>1. CASE ClearBegin
  <2>1. tail' = head /\ head \in Index /\ slots \in [0..(Capacity - 1) -> Nat]
    BY <1>1 DEF ClearBegin, IInv, RingType
  <2>2. Distance(head, head) = 0
    BY <2>1, Indexed
  <2>3. Contents' \in Seq(Nat) /\ Len(Contents') = 0
    BY <1>a, <2>1, <2>2, Mapped, QueueIs
  <2>4. Contents' = <<>>
    BY <2>3, EmptySeq
  <2>5. Fifo!Discard
    BY <1>a, <1>b, <2>4 DEF Fifo!Discard, Lost
  <2> QED BY <2>5 DEF Fifo!Next
<1>2. CASE UNCHANGED tail
  BY <1>a, <1>b, <1>2, Same
<1> QED BY <1>1, <1>2 DEF ClearEnd, SnapshotBegin, SnapUnchanged, indices

LEMMA StartMaps == Init => Fifo!Init
<1> SUFFICES ASSUME Init PROVE Fifo!Init
    OBVIOUS
<1>1. Contents = <<>>
  <2>1. head \in Index /\ tail \in Index /\ head = tail /\ slots \in [0..(Capacity - 1) -> Nat]
    BY StartAssumption, Start DEF Init, IInv, RingType
  <2>2. Distance(head, tail) = 0
    BY <2>1, Indexed
  <2>3. Contents \in Seq(Nat) /\ Len(Contents) = 0
    BY <2>1, <2>2, Mapped, QueueIs
  <2> QED BY <2>3, EmptySeq
<1>2. out = 0 /\ Lost = 0
  BY DEF Init, Lost, Reported, Counter
<1> QED BY <1>1, <1>2 DEF Fifo!Init, Lost

LEMMA StepMaps == IInv /\ [Next]_vars => [Fifo!Next]_Fifo!vars
<1> SUFFICES ASSUME IInv, [Next]_vars PROVE Stutter \/ Fifo!Next
    BY DEF Stutter, Lost, Fifo!vars
<1>1. CASE UNCHANGED vars
  BY <1>1, Same DEF vars, indices, producerVars, history, Lost, Reported
<1> QED BY <1>1, PushMaps, PopMaps, ObserverMaps, ClearMaps DEF Next

(* Two index words and slots that are read and written one access at a time are *)
(* a FIFO that refuses a frame only while it is full.                           *)
THEOREM RingIsFifo == Spec => FifoSpec
<1>1. Spec => Init /\ [][Next]_vars /\ []IInv
  BY Invariance, PTL DEF Spec
<1> QED BY <1>1, StartMaps, StepMaps, PTL DEF FifoSpec, Fifo!Spec
=============================================================================
