----------------------------- MODULE FrameQueue -----------------------------
(***************************************************************************)
(* internal/inference/queue.go: the ring buffer between the capture bridge *)
(* goroutine, which calls Push, and the inference loop, which calls Pop.   *)
(*                                                                         *)
(* Everything between q.mu.Lock and q.mu.Unlock is one step.  Pop is       *)
(* several: it looks under the lock, and when the queue is empty it lets   *)
(* the lock go and waits on two channels, so that a Push or the stop can   *)
(* come between the look and the wait.                                     *)
(***************************************************************************)
EXTENDS Integers, Sequences

CONSTANTS
    Capacity,   \* capture.queue_depth
    MaxPushes   \* bound: how many frames a behaviour pushes

ASSUME CapacityAssumption == Capacity \in Nat \ {0}
ASSUME MaxPushesAssumption == MaxPushes \in Nat

VARIABLES
    buf,        \* the ring: a frame number, or nil, in each slot
    head,       \* index of the next frame to read
    tail,       \* index of the next write position
    count,      \* frames held
    notEmpty,   \* tokens in the signal channel, whose capacity is 1
    stopped,    \* is stopCh closed?
    popper,     \* the inference loop and where it is in Pop
    pushed,     \* number of the latest frame pushed
    delivered   \* number of the latest frame Pop returned, 0 at first

vars == <<buf, head, tail, count, notEmpty, stopped, popper, pushed, delivered>>

nil == 0

\* "busy": outside Pop; "look": at the top of Pop's loop; "unlocked": it found
\* the queue empty and let the lock go; "select": it waits on both channels;
\* "ended": Pop returned nil, on which the inference loop returns.
PopperStates == {"busy", "look", "unlocked", "select", "ended"}

NewQueue ==
    /\ buf = [i \in 0 .. Capacity - 1 |-> nil]
    /\ head = 0
    /\ tail = 0
    /\ count = 0
    /\ notEmpty = 0

Init ==
    /\ NewQueue
    /\ stopped = FALSE
    /\ popper = "busy"
    /\ pushed = 0
    /\ delivered = 0

-----------------------------------------------------------------------------
\* The mistakes the properties are there to catch (see PROJECT.json).

Push_KeepsHead ==
    /\ pushed < MaxPushes
    /\ pushed' = pushed + 1
    /\ buf' = [buf EXCEPT ![tail] = pushed + 1]
    /\ tail' = (tail + 1) % Capacity
    /\ head' = head
    /\ count' = IF count = Capacity THEN count ELSE count + 1
    /\ notEmpty' = 1
    /\ UNCHANGED <<stopped, popper, delivered>>

Push_NoDecrement ==
    LET full == count = Capacity IN
    /\ pushed < MaxPushes
    /\ pushed' = pushed + 1
    /\ buf' = [buf EXCEPT ![tail] = pushed + 1]
    /\ tail' = (tail + 1) % Capacity
    /\ head' = IF full THEN (head + 1) % Capacity ELSE head
    /\ count' = count + 1
    /\ notEmpty' = 1
    /\ UNCHANGED <<stopped, popper, delivered>>

Push_DropsNewest ==
    /\ pushed < MaxPushes
    /\ pushed' = pushed + 1
    /\ IF count = Capacity
       THEN UNCHANGED <<buf, tail, count>>
       ELSE /\ buf' = [buf EXCEPT ![tail] = pushed + 1]
            /\ tail' = (tail + 1) % Capacity
            /\ count' = count + 1
    /\ notEmpty' = 1
    /\ UNCHANGED <<head, stopped, popper, delivered>>

Push_UnbufferedSignal ==
    LET full == count = Capacity IN
    /\ pushed < MaxPushes
    /\ pushed' = pushed + 1
    /\ buf' = [buf EXCEPT ![tail] = pushed + 1]
    /\ tail' = (tail + 1) % Capacity
    /\ head' = IF full THEN (head + 1) % Capacity ELSE head
    /\ count' = IF full THEN count ELSE count + 1
    /\ notEmpty' = IF popper = "select" THEN 1 ELSE notEmpty
    /\ UNCHANGED <<stopped, popper, delivered>>

PopFrame_KeepsReference ==
    /\ popper = "look"
    /\ count > 0
    /\ delivered' = buf[head]
    /\ head' = (head + 1) % Capacity
    /\ count' = count - 1
    /\ popper' = "busy"
    /\ UNCHANGED <<buf, tail, notEmpty, stopped, pushed>>

WakeStop_GoesOn ==
    /\ popper = "select"
    /\ stopped
    /\ popper' = "look"
    /\ UNCHANGED <<buf, head, tail, count, notEmpty, stopped, pushed, delivered>>

-----------------------------------------------------------------------------
\* Push: a full queue first gives up its oldest frame; the send of the
\* signal has a default branch, so a token already there is enough.
Push ==
    LET full == count = Capacity IN
    /\ pushed < MaxPushes
    /\ pushed' = pushed + 1
    /\ buf' = [buf EXCEPT ![tail] = pushed + 1]
    /\ tail' = (tail + 1) % Capacity
    /\ head' = IF full THEN (head + 1) % Capacity ELSE head
    /\ count' = IF full THEN count ELSE count + 1
    /\ notEmpty' = 1
    /\ UNCHANGED <<stopped, popper, delivered>>

\* The inference loop comes round to q.Pop(stopCh).
CallPop ==
    /\ popper = "busy"
    /\ popper' = "look"
    /\ UNCHANGED <<buf, head, tail, count, notEmpty, stopped, pushed, delivered>>

PopFrame ==
    /\ popper = "look"
    /\ count > 0
    /\ delivered' = buf[head]
    /\ buf' = [buf EXCEPT ![head] = nil]
    /\ head' = (head + 1) % Capacity
    /\ count' = count - 1
    /\ popper' = "busy"
    /\ UNCHANGED <<tail, notEmpty, stopped, pushed>>

PopEmpty ==
    /\ popper = "look"
    /\ count = 0
    /\ popper' = "unlocked"
    /\ UNCHANGED <<buf, head, tail, count, notEmpty, stopped, pushed, delivered>>

Select ==
    /\ popper = "unlocked"
    /\ popper' = "select"
    /\ UNCHANGED <<buf, head, tail, count, notEmpty, stopped, pushed, delivered>>

\* With both channels ready, select picks either.
WakeStop ==
    /\ popper = "select"
    /\ stopped
    /\ popper' = "ended"
    /\ UNCHANGED <<buf, head, tail, count, notEmpty, stopped, pushed, delivered>>

WakeSignal ==
    /\ popper = "select"
    /\ notEmpty = 1
    /\ notEmpty' = 0
    /\ popper' = "look"
    /\ UNCHANGED <<buf, head, tail, count, stopped, pushed, delivered>>

\* stopFn: sync.Once around close(stopCh).
Stop ==
    /\ ~stopped
    /\ stopped' = TRUE
    /\ UNCHANGED <<buf, head, tail, count, notEmpty, popper, pushed, delivered>>

PopStep == PopFrame \/ PopEmpty \/ Select \/ WakeStop \/ WakeSignal

\* The pipeline has come to rest: everything pushed, the consumer gone.
Terminated ==
    /\ pushed = MaxPushes
    /\ popper = "ended"
    /\ UNCHANGED vars

Next == Push \/ CallPop \/ PopStep \/ Stop \/ Terminated

SafeSpec == Init /\ [][Next]_vars

\* A goroutine inside Pop is scheduled whenever it can move; the inference
\* loop always comes back to Pop, since each of its waits has a timeout.
Fairness == WF_vars(PopStep) /\ WF_vars(CallPop)

Spec == SafeSpec /\ Fairness

-----------------------------------------------------------------------------
\* The indices stay in the ring, count within its capacity, and the signal
\* channel never holds more than one token (queue.go:20-29).
TypeOK ==
    /\ buf \in [0 .. Capacity - 1 -> Nat]
    /\ head \in 0 .. Capacity - 1
    /\ tail \in 0 .. Capacity - 1
    /\ count \in 0 .. Capacity
    /\ notEmpty \in {0, 1}
    /\ stopped \in BOOLEAN
    /\ popper \in PopperStates
    /\ pushed \in Nat
    /\ delivered \in Nat

\* The slot of the i-th frame held, counting from 0.
Slot(i) == (head + i) % Capacity

\* The queue holds the newest frames pushed, all of them consecutive and in
\* order: nothing newer than what it holds was ever lost (queue.go:5-6, "the
\* OLDEST frame is dropped, not the newest").
HoldsNewest ==
    /\ tail = Slot(count)
    /\ \A i \in 0 .. count - 1 : buf[Slot(i)] = pushed - count + 1 + i

\* A slot that holds no live frame holds no reference to one: the pixels of a
\* frame that was popped are not kept reachable by the ring (queue.go:73).
DeadSlotsReleased == \A i \in count .. Capacity - 1 : buf[Slot(i)] = nil

\* Everything the queue holds is newer than anything Pop has returned: no
\* frame is both held and delivered, and none comes back (queue.go:72-75).
HeldAfterDelivered == delivered + count =< pushed

\* The consumer is never asleep on an empty signal channel while a frame is
\* there to take, although Pop looks under the lock and waits without it and
\* Push may find the channel already full (queue.go:58-62, 79-87).
NoLostWakeup ==
    popper \in {"unlocked", "select"} /\ count > 0 => notEmpty = 1

\* What Pop returns is newer than anything it returned before and is among
\* the Capacity newest frames pushed: the consumer never goes back in time and
\* never works on a frame the drop-oldest policy should have discarded.
FreshInOrder ==
    [][delivered' # delivered =>
          /\ delivered' > delivered
          /\ delivered' > pushed - Capacity]_vars

\* Once stopCh is closed the consumer leaves Pop for good: no frame that is
\* pushed late and no stale signal keeps it there (main.go:387-390).
StopEndsConsumer == stopped ~> popper = "ended"

\* What the abstract queue sees of the ring and of Pop.
Held == [i \in 1 .. count |-> buf[Slot(i - 1)]]
Caller == IF popper \in {"busy", "ended"} THEN popper ELSE "inPop"

Abstract ==
    INSTANCE DropOldestQueue WITH fifo <- Held, caller <- Caller

\* The ring, its lock and its signal channel implement the drop-oldest queue,
\* and a Pop that can return does return.
ImplementsDropOldest == Abstract!Spec
=============================================================================
