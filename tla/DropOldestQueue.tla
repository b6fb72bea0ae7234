-------------------------- MODULE DropOldestQueue --------------------------
(***************************************************************************)
(* What inference.Queue promises the pipeline, without a ring buffer, a    *)
(* lock or a signal channel: a first-in first-out queue of at most         *)
(* Capacity frames whose Push never waits and drops the oldest frame when  *)
(* there is no room, and whose Pop waits for a frame or for the stop       *)
(* channel.  FrameQueue.tla is the code, and implements this module.       *)
(*                                                                         *)
(* A frame is the number of the Push that brought it.                      *)
(***************************************************************************)
EXTENDS Integers, Sequences

CONSTANTS
    Capacity,   \* capture.queue_depth
    MaxPushes   \* bound: how many frames a behaviour pushes

VARIABLES
    fifo,       \* the frames held, oldest first
    pushed,     \* number of the latest frame pushed
    delivered,  \* number of the latest frame a Pop returned, 0 at first
    stopped,    \* is stopCh closed?
    caller      \* the inference loop: "busy", "inPop", or "ended"

vars == <<fifo, pushed, delivered, stopped, caller>>

Init ==
    /\ fifo = <<>>
    /\ pushed = 0
    /\ delivered = 0
    /\ stopped = FALSE
    /\ caller = "busy"

MakeRoom(s) == IF Len(s) = Capacity THEN Tail(s) ELSE s

Push ==
    /\ pushed < MaxPushes
    /\ pushed' = pushed + 1
    /\ fifo' = Append(MakeRoom(fifo), pushed + 1)
    /\ UNCHANGED <<delivered, stopped, caller>>

CallPop ==
    /\ caller = "busy"
    /\ caller' = "inPop"
    /\ UNCHANGED <<fifo, pushed, delivered, stopped>>

ReturnFrame ==
    /\ caller = "inPop"
    /\ fifo # <<>>
    /\ delivered' = Head(fifo)
    /\ fifo' = Tail(fifo)
    /\ caller' = "busy"
    /\ UNCHANGED <<pushed, stopped>>

\* A Pop that found the queue empty may still report the stop after a frame
\* has come in.
ReturnNil ==
    /\ caller = "inPop"
    /\ stopped
    /\ caller' = "ended"
    /\ UNCHANGED <<fifo, pushed, delivered, stopped>>

Stop ==
    /\ stopped' = TRUE
    /\ UNCHANGED <<fifo, pushed, delivered, caller>>

Next == Push \/ CallPop \/ ReturnFrame \/ ReturnNil \/ Stop

SafeSpec == Init /\ [][Next]_vars

\* A Pop that has something to return returns.
Spec == SafeSpec /\ WF_vars(ReturnFrame \/ ReturnNil)
=============================================================================
