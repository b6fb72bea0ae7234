-------------------------- MODULE FrameQueueProofs --------------------------
(***************************************************************************)
(* Proofs about FrameQueue.tla, for every queue depth and any number of    *)
(* pushes.  The invariants TLC checks are inductive together: what a slot  *)
(* holds (HoldsNewest, DeadSlotsReleased) says which frame a Pop returns,  *)
(* HeldAfterDelivered that this frame is a new one, and NoLostWakeup needs *)
(* nothing but the types.                                                  *)
(***************************************************************************)
EXTENDS FrameQueue, SequenceTheorems, TLAPS

IInv ==
    /\ TypeOK
    /\ HoldsNewest
    /\ DeadSlotsReleased
    /\ HeldAfterDelivered
    /\ NoLostWakeup

-----------------------------------------------------------------------------
\* The only arithmetic of the ring: an index that is at most one capacity
\* past a slot wraps at most once (queue.go:49, 55 and 74).
LEMMA SlotIs ==
    ASSUME head \in 0 .. Capacity - 1, NEW i \in 0 .. Capacity
    PROVE  Slot(i) = IF head + i < Capacity THEN head + i
                     ELSE head + i - Capacity
  BY CapacityAssumption DEF Slot

\* An index that is one capacity past a slot is that slot.
LEMMA FullTurn ==
    ASSUME NEW h \in 0 .. Capacity - 1
    PROVE  (h + Capacity) % Capacity = h
  <1>1. (h + Capacity) % Capacity = IF h + Capacity < Capacity THEN h + Capacity
                                    ELSE h + Capacity - Capacity
    BY CapacityAssumption
  <1>2. QED
    BY <1>1, CapacityAssumption

\* Distinct offsets below the capacity name distinct slots, and the offset of
\* the capacity is the head again.
LEMMA SlotsDistinct ==
    ASSUME head \in 0 .. Capacity - 1
    PROVE  /\ Slot(0) = head
           /\ Slot(Capacity) = head
           /\ \A i \in 0 .. Capacity - 1 : Slot(i) \in 0 .. Capacity - 1
           /\ \A i, j \in 0 .. Capacity - 1 : i # j => Slot(i) # Slot(j)
  <1>1. Slot(0) = head
    BY SlotIs, CapacityAssumption
  <1>2. Slot(Capacity) = head
    BY SlotIs, CapacityAssumption
  <1>3. \A i \in 0 .. Capacity - 1 :
            Slot(i) = IF head + i < Capacity THEN head + i
                      ELSE head + i - Capacity
    BY CapacityAssumption DEF Slot
  <1>4. QED
    BY <1>1, <1>2, <1>3, CapacityAssumption

\* Moving the head on by one moves every slot on by one.
LEMMA NextSlot ==
    ASSUME head \in 0 .. Capacity - 1, head' = (head + 1) % Capacity
    PROVE  /\ head' \in 0 .. Capacity - 1
           /\ \A i \in 0 .. Capacity - 1 : Slot(i)' = Slot(i + 1)
  <1>1. head' = IF head + 1 < Capacity THEN head + 1 ELSE 0
    BY CapacityAssumption
  <1>2. head' \in 0 .. Capacity - 1
    BY <1>1, CapacityAssumption
  <1>3. ASSUME NEW i \in 0 .. Capacity - 1 PROVE Slot(i)' = Slot(i + 1)
    <2>1. Slot(i)' = IF head' + i < Capacity THEN head' + i
                     ELSE head' + i - Capacity
      BY <1>2, CapacityAssumption DEF Slot
    <2>2. Slot(i + 1) = IF head + (i + 1) < Capacity THEN head + (i + 1)
                        ELSE head + (i + 1) - Capacity
      BY CapacityAssumption DEF Slot
    <2>3. QED
      BY <2>1, <2>2, <1>1, CapacityAssumption
  <1>4. QED
    BY <1>2, <1>3

-----------------------------------------------------------------------------
\* The next write position is the slot of the next offset.
LEMMA SlotAfter ==
    ASSUME head \in 0 .. Capacity - 1, NEW i \in 0 .. Capacity - 1
    PROVE  (Slot(i) + 1) % Capacity = Slot(i + 1)
  <1>1. Slot(i) = IF head + i < Capacity THEN head + i
                  ELSE head + i - Capacity
    BY CapacityAssumption DEF Slot
  <1>2. Slot(i + 1) = IF head + (i + 1) < Capacity THEN head + (i + 1)
                      ELSE head + (i + 1) - Capacity
    BY CapacityAssumption DEF Slot
  <1>3. Slot(i) \in 0 .. Capacity - 1
    BY <1>1, CapacityAssumption
  <1>4. (Slot(i) + 1) % Capacity = IF Slot(i) + 1 < Capacity THEN Slot(i) + 1
                                   ELSE Slot(i) + 1 - Capacity
    BY <1>3, CapacityAssumption
  <1>5. QED
    BY <1>1, <1>2, <1>3, <1>4, CapacityAssumption

-----------------------------------------------------------------------------
\* The ring NewQueue makes is empty, and every slot is dead (queue.go:32-39).
LEMMA InitIInv == Init => IInv
  <1> SUFFICES ASSUME Init PROVE IInv
    OBVIOUS
  <1> USE DEF Init, NewQueue, nil
  <1>1. TypeOK
    <2>1. buf \in [0 .. Capacity - 1 -> Nat]
      OBVIOUS
    <2>2. /\ head \in 0 .. Capacity - 1
          /\ tail \in 0 .. Capacity - 1
          /\ count \in 0 .. Capacity
      BY CapacityAssumption
    <2>3. QED
      BY <2>1, <2>2 DEF TypeOK, PopperStates
  <1>2. Slot(0) = 0
    BY SlotsDistinct, <1>1 DEF TypeOK
  <1>3. HoldsNewest
    BY <1>2 DEF HoldsNewest
  <1>4. DeadSlotsReleased
    BY SlotsDistinct, <1>1, CapacityAssumption DEF DeadSlotsReleased, TypeOK
  <1>5. HeldAfterDelivered /\ NoLostWakeup
    BY DEF HeldAfterDelivered, NoLostWakeup
  <1>6. QED
    BY <1>1, <1>3, <1>4, <1>5 DEF IInv

\* Push into a queue that is full: the slot written is the one the dropped
\* frame held.
LEMMA PushFull ==
    ASSUME IInv, Push, count = Capacity
    PROVE  HoldsNewest' /\ DeadSlotsReleased'
  <1> USE CapacityAssumption DEF IInv
  <1>1. /\ head' = (head + 1) % Capacity
        /\ tail' = (tail + 1) % Capacity
        /\ count' = Capacity
        /\ pushed' = pushed + 1
        /\ buf' = [buf EXCEPT ![tail] = pushed + 1]
    BY DEF Push
  <1>2. tail = head /\ Slot(0) = head /\ Slot(Capacity) = head
    BY SlotsDistinct DEF TypeOK, HoldsNewest
  <1>3. /\ head' \in 0 .. Capacity - 1
        /\ \A i \in 0 .. Capacity - 1 : Slot(i)' = Slot(i + 1)
    BY <1>1, NextSlot DEF TypeOK
  <1>4. tail' = Slot(count)'
    <2>1. head' \in 0 .. Capacity - 1
      BY <1>3
    <2>2. (head' + Capacity) % Capacity = head'
      BY <2>1, FullTurn
    <2>3. QED
      BY <1>1, <1>2, <2>2 DEF Slot
  <1>5. ASSUME NEW i \in 0 .. Capacity - 1
        PROVE  buf'[Slot(i)'] = pushed' - count' + 1 + i
    <2>1. CASE i = Capacity - 1
      <3>1. Slot(i)' = tail
        BY <1>2, <1>3, <2>1
      <3>2. QED
        BY <1>1, <3>1, <2>1 DEF TypeOK
    <2>2. CASE i # Capacity - 1
      <3>1. i + 1 \in 0 .. Capacity - 1 /\ i + 1 # 0
        BY <2>2
      <3>2. Slot(i + 1) # tail /\ Slot(i + 1) \in 0 .. Capacity - 1
        BY <3>1, <1>2, SlotsDistinct, 0 \in 0 .. Capacity - 1 DEF TypeOK
      <3>3. buf'[Slot(i)'] = buf[Slot(i + 1)]
        BY <1>1, <1>3, <3>2 DEF TypeOK
      <3>4. buf[Slot(i + 1)] = pushed - count + 1 + (i + 1)
        BY <3>1 DEF HoldsNewest
      <3>5. QED
        BY <3>3, <3>4, <1>1 DEF TypeOK
    <2>3. QED
      BY <2>1, <2>2
  <1>6. HoldsNewest'
    BY <1>1, <1>4, <1>5 DEF HoldsNewest
  <1>7. DeadSlotsReleased'
    BY <1>1 DEF DeadSlotsReleased
  <1>8. QED
    BY <1>6, <1>7

\* Push into a queue that has room.
LEMMA PushRoom ==
    ASSUME IInv, Push, count # Capacity
    PROVE  HoldsNewest' /\ DeadSlotsReleased'
  <1> USE CapacityAssumption DEF IInv
  <1>1. /\ head' = head
        /\ tail' = (tail + 1) % Capacity
        /\ count' = count + 1
        /\ pushed' = pushed + 1
        /\ buf' = [buf EXCEPT ![tail] = pushed + 1]
        /\ count \in 0 .. Capacity - 1
    BY DEF Push, TypeOK
  <1>2. \A i : Slot(i)' = Slot(i)
    BY <1>1 DEF Slot
  <1>3. tail' = Slot(count)'
    BY <1>1, <1>2, SlotAfter DEF TypeOK, HoldsNewest
  <1>4. tail = Slot(count) /\ tail \in 0 .. Capacity - 1
    BY DEF HoldsNewest, TypeOK
  <1>5. ASSUME NEW i \in 0 .. Capacity - 1, i # count
        PROVE  buf'[Slot(i)'] = buf[Slot(i)]
    <2>1. Slot(i) # tail /\ Slot(i) \in 0 .. Capacity - 1
      BY <1>1, <1>4, <1>5, SlotsDistinct DEF TypeOK
    <2>2. QED
      BY <1>1, <1>2, <2>1 DEF TypeOK
  <1>6. ASSUME NEW i, i = count PROVE buf'[Slot(i)'] = pushed + 1
    BY <1>1, <1>2, <1>4, <1>6 DEF TypeOK
  <1>7. HoldsNewest'
    <2>1. ASSUME NEW i \in 0 .. count' - 1
          PROVE  buf'[Slot(i)'] = pushed' - count' + 1 + i
      <3>1. CASE i = count
        BY <1>1, <1>6, <3>1 DEF TypeOK
      <3>2. CASE i # count
        <4>1. i \in 0 .. count - 1 /\ i \in 0 .. Capacity - 1
          BY <1>1, <3>2
        <4>2. buf'[Slot(i)'] = pushed - count + 1 + i
          BY <1>5, <3>2, <4>1 DEF HoldsNewest
        <4>3. QED
          BY <1>1, <4>1, <4>2 DEF TypeOK
      <3>3. QED
        BY <3>1, <3>2
    <2>2. QED
      BY <1>3, <2>1 DEF HoldsNewest
  <1>8. DeadSlotsReleased'
    <2>1. ASSUME NEW i \in count' .. Capacity - 1
          PROVE  buf'[Slot(i)'] = nil
      <3>1. i \in count .. Capacity - 1 /\ i \in 0 .. Capacity - 1 /\ i # count
        BY <1>1
      <3>2. QED
        BY <1>5, <3>1 DEF DeadSlotsReleased
    <2>2. QED
      BY <2>1 DEF DeadSlotsReleased, nil
  <1>9. QED
    BY <1>7, <1>8

\* Pop gives up the slot it takes the frame from, and what it takes is the
\* oldest frame held.
LEMMA PopTakesOldest ==
    ASSUME IInv, PopFrame
    PROVE  /\ HoldsNewest' /\ DeadSlotsReleased'
           /\ delivered' = pushed - count + 1
  <1> USE CapacityAssumption DEF IInv
  <1>1. /\ head' = (head + 1) % Capacity
        /\ tail' = tail
        /\ count' = count - 1
        /\ pushed' = pushed
        /\ buf' = [buf EXCEPT ![head] = nil]
        /\ delivered' = buf[head]
        /\ count \in 1 .. Capacity
    BY DEF PopFrame, TypeOK
  <1>2. Slot(0) = head /\ Slot(Capacity) = head /\ 0 \in 0 .. Capacity - 1
    BY SlotsDistinct DEF TypeOK
  <1>3. /\ head' \in 0 .. Capacity - 1
        /\ \A i \in 0 .. Capacity - 1 : Slot(i)' = Slot(i + 1)
    BY <1>1, NextSlot DEF TypeOK
  <1>4. delivered' = pushed - count + 1
    <2>1. buf[Slot(0)] = pushed - count + 1 + 0
      BY <1>1 DEF HoldsNewest
    <2>2. QED
      BY <1>1, <1>2, <2>1 DEF TypeOK
  <1>5. ASSUME NEW i \in 0 .. Capacity - 2
        PROVE  buf'[Slot(i)'] = buf[Slot(i + 1)]
    <2>1. i + 1 \in 0 .. Capacity - 1 /\ i + 1 # 0
      OBVIOUS
    <2>2. Slot(i + 1) # head /\ Slot(i + 1) \in 0 .. Capacity - 1
      BY <1>2, <2>1, SlotsDistinct DEF TypeOK
    <2>3. QED
      BY <1>1, <1>3, <2>2 DEF TypeOK
  <1>6. buf'[Slot(Capacity - 1)'] = nil
    BY <1>1, <1>2, <1>3 DEF TypeOK
  <1>7. HoldsNewest'
    <2>1. tail' = Slot(count)'
      <3>1. PICK c \in 0 .. Capacity - 1 : c = count - 1
        BY <1>1
      <3>2. Slot(c)' = Slot(c + 1)
        BY <1>3
      <3>3. Slot(c)' = Slot(count)'
        BY <1>1, <3>1 DEF Slot
      <3>4. c + 1 = count
        BY <1>1, <3>1
      <3>5. QED
        BY <1>1, <3>2, <3>3, <3>4 DEF HoldsNewest
    <2>2. ASSUME NEW i \in 0 .. count' - 1
          PROVE  buf'[Slot(i)'] = pushed' - count' + 1 + i
      <3>1. i \in 0 .. Capacity - 2 /\ i + 1 \in 0 .. count - 1
        BY <1>1
      <3>2. buf[Slot(i + 1)] = pushed - count + 1 + (i + 1)
        BY <3>1 DEF HoldsNewest
      <3>3. QED
        BY <1>1, <1>5, <3>1, <3>2 DEF TypeOK
    <2>3. QED
      BY <2>1, <2>2 DEF HoldsNewest
  <1>8. DeadSlotsReleased'
    <2>1. ASSUME NEW i \in count' .. Capacity - 1
          PROVE  buf'[Slot(i)'] = nil
      <3>1. CASE i = Capacity - 1
        BY <1>6, <3>1
      <3>2. CASE i # Capacity - 1
        <4>1. i \in 0 .. Capacity - 2 /\ i + 1 \in count .. Capacity - 1
          BY <1>1, <3>2
        <4>2. QED
          BY <1>5, <4>1 DEF DeadSlotsReleased
      <3>3. QED
        BY <3>1, <3>2
    <2>2. QED
      BY <2>1 DEF DeadSlotsReleased, nil
  <1>9. QED
    BY <1>4, <1>7, <1>8
-----------------------------------------------------------------------------
\* Each operation keeps the whole invariant; the pushes and Pop are above.
LEMMA NextIInv == IInv /\ [Next]_vars => IInv'
  <1> SUFFICES ASSUME IInv, [Next]_vars PROVE IInv'
    OBVIOUS
  <1> USE CapacityAssumption
  <1>1. CASE Push
    <2>1. TypeOK'
      <3>1. (tail + 1) % Capacity \in 0 .. Capacity - 1
        BY DEF IInv, TypeOK
      <3>2. (head + 1) % Capacity \in 0 .. Capacity - 1
        BY DEF IInv, TypeOK
      <3>3. buf' \in [0 .. Capacity - 1 -> Nat]
        BY <1>1 DEF IInv, TypeOK, Push
      <3>4. count' \in 0 .. Capacity /\ pushed' \in Nat
        BY <1>1 DEF IInv, TypeOK, Push
      <3>5. QED
        BY <1>1, <3>1, <3>2, <3>3, <3>4 DEF IInv, TypeOK, Push
    <2>2. HoldsNewest' /\ DeadSlotsReleased'
      BY <1>1, PushFull, PushRoom
    <2>3. HeldAfterDelivered' /\ NoLostWakeup'
      BY <1>1 DEF IInv, TypeOK, Push, HeldAfterDelivered, NoLostWakeup
    <2>4. QED
      BY <2>1, <2>2, <2>3 DEF IInv
  <1>2. CASE PopFrame
    <2>1. TypeOK'
      <3>1. (head + 1) % Capacity \in 0 .. Capacity - 1
        BY DEF IInv, TypeOK
      <3>2. buf' \in [0 .. Capacity - 1 -> Nat] /\ delivered' \in Nat
        BY <1>2 DEF IInv, TypeOK, PopFrame, nil
      <3>3. QED
        BY <1>2, <3>1, <3>2 DEF IInv, TypeOK, PopFrame, PopperStates
    <2>2. /\ HoldsNewest' /\ DeadSlotsReleased'
          /\ delivered' = pushed - count + 1
      BY <1>2, PopTakesOldest
    <2>3. HeldAfterDelivered' /\ NoLostWakeup'
      BY <1>2, <2>2
      DEF IInv, TypeOK, PopFrame, HeldAfterDelivered, NoLostWakeup
    <2>4. QED
      BY <2>1, <2>2, <2>3 DEF IInv
  <1>3. ASSUME UNCHANGED <<buf, head, tail, count, pushed, delivered>>,
               TypeOK', NoLostWakeup'
        PROVE  IInv'
    <2>1. \A i : Slot(i)' = Slot(i)
      BY <1>3 DEF Slot
    <2>2. HoldsNewest'
      BY <1>3, <2>1 DEF IInv, HoldsNewest
    <2>3. DeadSlotsReleased' /\ HeldAfterDelivered'
      BY <1>3, <2>1 DEF IInv, DeadSlotsReleased, HeldAfterDelivered, nil
    <2>4. QED
      BY <1>3, <2>2, <2>3 DEF IInv
  <1>4. CASE CallPop
    BY <1>3, <1>4 DEF IInv, CallPop, TypeOK, PopperStates, NoLostWakeup
  <1>5. CASE PopEmpty
    BY <1>3, <1>5 DEF IInv, PopEmpty, TypeOK, PopperStates, NoLostWakeup
  <1>6. CASE Select
    BY <1>3, <1>6 DEF IInv, Select, TypeOK, PopperStates, NoLostWakeup
  <1>7. CASE WakeStop
    BY <1>3, <1>7 DEF IInv, WakeStop, TypeOK, PopperStates, NoLostWakeup
  <1>8. CASE WakeSignal
    BY <1>3, <1>8 DEF IInv, WakeSignal, TypeOK, PopperStates, NoLostWakeup
  <1>9. CASE Stop
    BY <1>3, <1>9 DEF IInv, Stop, TypeOK, PopperStates, NoLostWakeup
  <1>10. CASE UNCHANGED vars
    BY <1>3, <1>10 DEF IInv, vars, TypeOK, NoLostWakeup
  <1>11. QED
    BY <1>1, <1>2, <1>4, <1>5, <1>6, <1>7, <1>8, <1>9, <1>10
    DEF Next, PopStep, Terminated

\* Every invariant the runs check holds for every queue depth: the indices
\* stay in the ring, it holds the newest frames in order, keeps no reference to
\* a frame it gave up, and never leaves the consumer asleep (queue.go:43-89).
THEOREM QueueInvariant == SafeSpec => []IInv
  BY InitIInv, NextIInv, PTL DEF SafeSpec

\* head, tail and count never leave the ring, and the signal channel never holds
\* more than one token (queue.go:20-29, 43-78).
THEOREM TypeCorrect == SafeSpec => []TypeOK
  BY QueueInvariant, PTL DEF IInv

\* No slot outside the frames held keeps a reference to a frame (queue.go:73).
THEOREM DeadReleased == SafeSpec => []DeadSlotsReleased
  BY QueueInvariant, PTL DEF IInv

\* Push and Pop keep exactly the newest frames, oldest first (queue.go:5-6).
THEOREM NewestHeld == SafeSpec => []HoldsNewest
  BY QueueInvariant, PTL DEF IInv

\* No interleaving of Push with Pop's unlocked wait loses the wake-up
\* (queue.go:58-62, 79-87).
THEOREM WakeupKept == SafeSpec => []NoLostWakeup
  BY QueueInvariant, PTL DEF IInv

\* Each frame Pop returns is newer than the last and among the Capacity newest
\* pushed (queue.go:71-77).
THEOREM DeliveryFreshInOrder == SafeSpec => FreshInOrder
  <1>1. IInv /\ [Next]_vars => [delivered' # delivered =>
            /\ delivered' > delivered
            /\ delivered' > pushed - Capacity]_vars
    <2> SUFFICES ASSUME IInv, Next, delivered' # delivered
                 PROVE  delivered' > delivered /\ delivered' > pushed - Capacity
      BY DEF vars
    <2>1. PopFrame
      BY DEF Next, PopStep, Push, CallPop, PopEmpty, Select, WakeStop,
             WakeSignal, Stop, Terminated, vars
    <2>2. delivered' = pushed - count + 1
      BY <2>1, PopTakesOldest
    <2>3. QED
      BY <2>2, CapacityAssumption DEF IInv, TypeOK, HeldAfterDelivered
  <1>2. QED
    BY <1>1, QueueInvariant, PTL DEF SafeSpec, FreshInOrder

-----------------------------------------------------------------------------
\* The consecutive frames first to last, as a sequence.
Run(first, last) == [i \in 1 .. last - first + 1 |-> first - 1 + i]

\* A run of frames is a sequence of the length one expects.
LEMMA RunIsSequence ==
    ASSUME NEW a \in Nat, NEW b \in Nat, a =< b + 1
    PROVE  /\ Run(a, b) \in Seq(Int)
           /\ Len(Run(a, b)) = b - a + 1
  BY DEF Run

\* What Push appends to a run continues it.
LEMMA RunAppend ==
    ASSUME NEW a \in Nat, NEW b \in Nat, a =< b + 1
    PROVE  Append(Run(a, b), b + 1) = Run(a, b + 1)
  BY RunIsSequence DEF Run

\* What Pop takes from a run is its first frame, and a run is left.
LEMMA RunTail ==
    ASSUME NEW a \in Nat, NEW b \in Nat, a =< b
    PROVE  /\ Run(a, b) # <<>>
           /\ Head(Run(a, b)) = a
           /\ Tail(Run(a, b)) = Run(a + 1, b)
  <1>1. Run(a, b) \in Seq(Int) /\ Len(Run(a, b)) = b - a + 1
    BY RunIsSequence
  <1>2. Run(a, b) # <<>>
    BY <1>1
  <1>3. Head(Run(a, b)) = a
    BY <1>1, <1>2 DEF Run
  <1>4. /\ Tail(Run(a, b)) \in Seq(Int)
        /\ Len(Tail(Run(a, b))) = b - a
        /\ \A i \in 1 .. b - a : Tail(Run(a, b))[i] = Run(a, b)[i + 1]
    BY <1>1, <1>2, HeadTailProperties
  <1>5. Run(a + 1, b) \in Seq(Int) /\ Len(Run(a + 1, b)) = b - a
    <2>1. a + 1 \in Nat /\ a + 1 =< b + 1
      OBVIOUS
    <2>2. Len(Run(a + 1, b)) = b - (a + 1) + 1
      BY <2>1, RunIsSequence
    <2>3. QED
      BY <2>1, <2>2, RunIsSequence
  <1>6. \A i \in 1 .. b - a : Run(a, b)[i + 1] = Run(a + 1, b)[i]
    BY DEF Run
  <1>7. Tail(Run(a, b)) = Run(a + 1, b)
    BY <1>4, <1>5, <1>6, SeqEqual
  <1>8. QED
    BY <1>2, <1>3, <1>7

\* Under the invariant the frames held are the newest count frames.
HeldRun ==
    /\ Held = Run(pushed - count + 1, pushed)
    /\ pushed - count + 1 \in Nat

\* The frames held are the run that ends with the latest one pushed.
LEMMA HeldIsRun == IInv => HeldRun
  <1> SUFFICES ASSUME IInv PROVE HeldRun
    OBVIOUS
  <1>1. pushed - count + 1 \in Nat
    BY CapacityAssumption DEF IInv, TypeOK, HeldAfterDelivered
  <1>2. ASSUME NEW i \in 1 .. count
        PROVE  buf[Slot(i - 1)] = pushed - count + i
    <2>1. i - 1 \in 0 .. count - 1
      BY DEF IInv, TypeOK
    <2>2. buf[Slot(i - 1)] = pushed - count + 1 + (i - 1)
      BY <2>1 DEF IInv, HoldsNewest
    <2>3. QED
      BY <2>2 DEF IInv, TypeOK
  <1>3. Held = [i \in 1 .. count |-> pushed - count + i]
    BY <1>2 DEF Held
  <1>4. Run(pushed - count + 1, pushed) = [i \in 1 .. count |-> pushed - count + i]
    BY DEF Run, IInv, TypeOK
  <1>5. QED
    BY <1>1, <1>3, <1>4 DEF HeldRun

\* ... and so they are after a step.
LEMMA HeldIsRunNext == IInv' => HeldRun'
  BY HeldIsRun, PTL

\* The empty ring is the empty sequence.
LEMMA InitRefines == Init => Abstract!Init
  <1> SUFFICES ASSUME Init PROVE Abstract!Init
    OBVIOUS
  <1>1. Held = <<>>
    BY DEF Held, Init, NewQueue
  <1>2. QED
    BY <1>1 DEF Init, NewQueue, Caller, Abstract!Init

\* Each step of the ring is a step of the drop-oldest queue or leaves it alone.
LEMMA StepRefines ==
    IInv /\ IInv' /\ [Next]_vars => [Abstract!Next]_(Abstract!vars)
  <1> SUFFICES ASSUME IInv, IInv', [Next]_vars
               PROVE  [Abstract!Next]_(Abstract!vars)
    OBVIOUS
  <1> USE CapacityAssumption
  <1>0. PICK a \in Nat : /\ a = pushed - count + 1
                         /\ Held = Run(a, pushed)
                         /\ a =< pushed + 1
    BY HeldIsRun DEF HeldRun, IInv, TypeOK
  <1>n. PICK b \in Nat : /\ b = pushed' - count' + 1
                         /\ Held' = Run(b, pushed')
    BY HeldIsRunNext DEF HeldRun
  <1>t. pushed \in Nat /\ count \in 0 .. Capacity
    BY DEF IInv, TypeOK
  <1>l. Len(Held) = count
    <2>1. Len(Held) = pushed - a + 1
      BY <1>0, <1>t, RunIsSequence
    <2>2. QED
      BY <2>1, <1>0, <1>t
  <1>1. CASE Push
    <2>1. Append(Abstract!MakeRoom(Held), pushed + 1) = Held'
      <3>1. CASE count = Capacity
        <4>1. b = a + 1 /\ a =< pushed
          BY <1>0, <1>n, <1>t, <1>1, <3>1 DEF Push
        <4>2. Tail(Held) = Run(b, pushed)
          BY <1>0, <1>t, <4>1, RunTail
        <4>3. b \in Nat /\ b =< pushed + 1
          BY <1>t, <4>1
        <4>4. Append(Run(b, pushed), pushed + 1) = Run(b, pushed + 1)
          BY <1>t, <4>3, RunAppend
        <4>5. QED
          BY <1>l, <1>n, <1>1, <3>1, <4>2, <4>4 DEF Push, Abstract!MakeRoom
      <3>2. CASE count # Capacity
        <4>1. b = a
          BY <1>0, <1>n, <1>t, <1>1, <3>2 DEF Push
        <4>2. Append(Run(a, pushed), pushed + 1) = Run(a, pushed + 1)
          BY <1>0, <1>t, RunAppend
        <4>3. QED
          BY <1>0, <1>l, <1>n, <1>1, <3>2, <4>1, <4>2 DEF Push, Abstract!MakeRoom
      <3>3. QED
        BY <3>1, <3>2
    <2>2. Caller' = Caller
      BY <1>1 DEF Push, Caller
    <2>3. QED
      BY <1>1, <2>1, <2>2 DEF Push, Abstract!Push, Abstract!Next
  <1>2. CASE PopFrame
    <2>0. b = a + 1 /\ a =< pushed /\ pushed' = pushed
      BY <1>0, <1>n, <1>t, <1>2 DEF PopFrame
    <2>1. Held # <<>> /\ Head(Held) = a /\ Tail(Held) = Run(b, pushed)
      BY <1>0, <1>t, <2>0, RunTail
    <2>2. Held' = Tail(Held) /\ delivered' = Head(Held)
      BY <1>0, <1>n, <1>2, <2>0, <2>1, PopTakesOldest
    <2>3. Caller = "inPop" /\ Caller' = "busy"
      BY <1>2 DEF PopFrame, Caller
    <2>4. QED
      BY <1>2, <2>1, <2>2, <2>3
      DEF PopFrame, Abstract!ReturnFrame, Abstract!Next
  <1>3. ASSUME UNCHANGED <<buf, head, count>> PROVE Held' = Held
    BY <1>3 DEF Held, Slot
  <1>4. CASE CallPop
    BY <1>3, <1>4 DEF CallPop, Caller, Abstract!CallPop, Abstract!Next
  <1>5. CASE PopEmpty
    BY <1>3, <1>5 DEF PopEmpty, Caller, Abstract!vars
  <1>6. CASE Select
    BY <1>3, <1>6 DEF Select, Caller, Abstract!vars
  <1>7. CASE WakeStop
    BY <1>3, <1>7 DEF WakeStop, Caller, Abstract!ReturnNil, Abstract!Next
  <1>8. CASE WakeSignal
    BY <1>3, <1>8 DEF WakeSignal, Caller, Abstract!vars
  <1>9. CASE Stop
    BY <1>3, <1>9 DEF Stop, Caller, Abstract!Stop, Abstract!Next
  <1>10. CASE UNCHANGED vars
    BY <1>3, <1>10 DEF vars, Caller, Abstract!vars
  <1>11. QED
    BY <1>1, <1>2, <1>4, <1>5, <1>6, <1>7, <1>8, <1>9, <1>10
    DEF Next, PopStep, Terminated

\* The safety half of ImplementsDropOldest: every behaviour of the ring is one
\* of the drop-oldest queue (queue.go:41-89).
THEOREM RingImplementsDropOldest == SafeSpec => Abstract!SafeSpec
  BY QueueInvariant, InitRefines, StepRefines, PTL
  DEF SafeSpec, Abstract!SafeSpec
=============================================================================
