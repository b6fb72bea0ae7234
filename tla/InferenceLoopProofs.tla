------------------------ MODULE InferenceLoopProofs ------------------------
(***************************************************************************)
(* Proofs about InferenceLoop.tla, for every queue depth, rate and number  *)
(* of retries.  RateLimit is inductive once it is known that nothing was   *)
(* spent before NewGovernor put the first token in; NoBurstAfterRecovery   *)
(* rests on the bucket being empty from a drain's end to the next tick.    *)
(***************************************************************************)
EXTENDS InferenceLoop, TLAPS

\* Before NewGovernor has run nothing was spent, and nothing drained.
FreshBucket == pc = "boot" => spent = 0 /\ drain = "none"

\* From the end of a drain to the next tick the bucket is empty.
DrainedIsEmpty == drain = "over" => tokens = 0

IInv ==
    /\ TypeOK
    /\ RateLimit
    /\ FreshBucket
    /\ DrainedIsEmpty
    /\ FailClosed

-----------------------------------------------------------------------------
\* The wait after a failure is at most maxBackoff (main.go:436-440).
LEMMA BackoffBounded ==
    ASSUME NEW n \in Nat \ {0}
    PROVE  Backoff(n) \in 0 .. 60
  <1>1. CASE n >= 6
    BY <1>1 DEF Backoff
  <1>2. CASE n < 6
    <2>1. n \in {1, 2, 3, 4, 5}
      BY <1>2
    <2>2. QED
      BY <2>1 DEF Backoff
  <1>3. QED
    BY <1>1, <1>2

\* A failure, encoded or requested, leaves a legal wait (main.go:435-440).
LEMMA FailureTyped ==
    ASSUME TypeOK, InferFails
    PROVE  fails' \in 0 .. MaxFails /\ wait' \in 0 .. 60 /\ pc' = "backoff"
  <1>1. fails' \in 0 .. MaxFails /\ fails' # 0
    BY LoopAssumption DEF TypeOK, InferFails
  <1>2. wait' \in 0 .. 60
    BY <1>1, LoopAssumption, BackoffBounded DEF InferFails
  <1>3. QED
    BY <1>1, <1>2 DEF InferFails, Goto

\* The daemon before NewGovernor (main.go:237-239).
LEMMA InitIInv == Init => IInv
  <1> SUFFICES ASSUME Init PROVE IInv
    OBVIOUS
  <1>1. TypeOK
    <2>1. capturing \in BOOLEAN /\ stopped \in BOOLEAN /\ expired \in BOOLEAN
      BY Zenon DEF Init
    <2>2. QED
      BY <2>1, LoopAssumption DEF Init, TypeOK, Steps, Vectors
  <1>2. RateLimit
    BY LoopAssumption DEF Init, RateLimit
  <1>3. FreshBucket /\ DrainedIsEmpty /\ FailClosed
    BY DEF Init, FreshBucket, DrainedIsEmpty, FailClosed
  <1>4. QED
    BY <1>1, <1>2, <1>3 DEF IInv

-----------------------------------------------------------------------------
\* The other goroutines move frames, tokens and readings, never the loop.
LEMMA OthersKeepIInv ==
    ASSUME IInv, \/ Capture \/ EndCapture \/ Bridge \/ Stop
                 \/ Sample \/ Refill \/ Expire
    PROVE  IInv'
  <1> USE LoopAssumption
      DEF IInv, TypeOK, RateLimit, FreshBucket, DrainedIsEmpty, FailClosed, Up,
          capture, bucket, infer, failing, frame
  <1>1. CASE Capture
    BY <1>1 DEF Capture
  <1>2. CASE EndCapture
    BY <1>2 DEF EndCapture
  <1>3. CASE Bridge
    BY <1>3 DEF Bridge
  <1>4. CASE Stop
    BY <1>4 DEF Stop
  <1>5. CASE Sample
    BY <1>5 DEF Sample
  <1>6. CASE Refill
    BY <1>6 DEF Refill
  <1>7. CASE Expire
    BY <1>7 DEF Expire
  <1>8. QED
    BY <1>1, <1>2, <1>3, <1>4, <1>5, <1>6, <1>7

\* The loop's own steps: tokens leave the bucket one by one, and only Embed
\* decides that a frame is written.
LEMMA LoopKeepsIInv ==
    ASSUME IInv, LoopStep
    PROVE  IInv'
  <1> USE LoopAssumption
      DEF IInv, TypeOK, RateLimit, FreshBucket, DrainedIsEmpty, FailClosed,
          Goto, Steps, InPop, Vectors, capture, bucket, infer, failing, frame
  <1>1. CASE NewGovernor
    BY <1>1 DEF NewGovernor
  <1>2. CASE PopFrame \/ PopEmpty \/ PopNil \/ Gates
    <2>1. CASE PopFrame
      <3>1. queue' \in 0 .. QueueDepth /\ attempt' \in 0 .. MaxRetries
        BY <2>1 DEF PopFrame
      <3>2. expired' \in BOOLEAN
        BY <2>1, Zenon DEF PopFrame
      <3>3. QED
        BY <2>1, <3>1, <3>2 DEF PopFrame
    <2>2. CASE PopEmpty \/ PopNil
      BY <2>2 DEF PopEmpty, PopNil
    <2>3. CASE Gates
      BY <2>3 DEF Gates
    <2>4. QED
      BY <1>2, <2>1, <2>2, <2>3
  <1>3. CASE Acquire \/ Nap
    BY <1>3 DEF Acquire, Nap, AcquireFails
  <1>4. CASE Take
    BY <1>4 DEF Take, TakeToken, AcquireFails
  <1>5. CASE WaitToken
    BY <1>5 DEF WaitToken, TakeToken, AcquireFails
  <1>6. CASE EncodeFails
    BY <1>6, FailureTyped DEF EncodeFails
  <1>7. CASE Infer
    BY <1>7, FailureTyped DEF Infer
  <1>8. CASE Retry
    BY <1>8, FailureTyped DEF Retry
  <1>9. CASE BackOff \/ DrainToken \/ DrainEnd
    BY <1>9 DEF BackOff, DrainToken, DrainEnd
  <1>10. CASE Score
    BY <1>10 DEF Score
  <1>11. CASE Embed \/ Write
    BY <1>11 DEF Embed, Write
  <1>12. QED
    BY <1>1, <1>2, <1>3, <1>4, <1>5, <1>6, <1>7, <1>8, <1>9, <1>10, <1>11
    DEF LoopStep

\* Every step, and a stutter.
LEMMA NextIInv == IInv /\ [Next]_vars => IInv'
  <1> SUFFICES ASSUME IInv, [Next]_vars PROVE IInv'
    OBVIOUS
  <1>1. CASE LoopStep
    BY <1>1, LoopKeepsIInv
  <1>2. CASE Capture \/ EndCapture \/ Bridge \/ Stop \/ Sample \/ Refill \/ Expire
    BY <1>2, OthersKeepIInv
  <1>3. CASE UNCHANGED vars
    BY <1>3 DEF vars, IInv, TypeOK, RateLimit, FreshBucket, DrainedIsEmpty,
                FailClosed, capture, bucket, infer, failing, frame
  <1>4. QED
    BY <1>1, <1>2, <1>3 DEF Next

\* The invariant of the loop and what runs beside it.
LEMMA LoopInvariant == SafeSpec => []IInv
  BY InitIInv, NextIInv, PTL DEF SafeSpec

-----------------------------------------------------------------------------
\* Everything the loop, the governor and the client keep stays in its range:
\* the bucket within its limit, the attempts within MaxRetries, the wait within
\* maxBackoff (main.go:383-449, throttle.go:57-58, 175-197, ollama.go:220-248).
THEOREM LoopTypeCorrect == SafeSpec => []TypeOK
  BY LoopInvariant, PTL DEF IInv

\* Between two ticks of refillLoop at most Rate frames are sent to the model
\* (throttle.go:53-58, 104-124, 175-197).
THEOREM FramesWithinRate == SafeSpec => []RateLimit
  BY LoopInvariant, PTL DEF IInv

\* A node not known to be coherent is written only with the higher score
\* (main.go:507-530).
THEOREM WrittenFailClosed == SafeSpec => []FailClosed
  BY LoopInvariant, PTL DEF IInv

\* After a recovery no frame is sent before the next tick (main.go:452-459,
\* throttle.go:138-150).
THEOREM RecoveryWithoutBurst == SafeSpec => NoBurstAfterRecovery
  <1>1. IInv /\ [Next]_vars => [Acquired => drain # "over"]_vars
    <2> SUFFICES ASSUME IInv, Next, Acquired PROVE drain # "over"
      OBVIOUS
    <2>1. Take \/ WaitToken
      BY DEF Next, LoopStep, Acquired, Goto, Capture, EndCapture, Bridge, Stop,
             Sample, Refill, Expire, NewGovernor, PopFrame, PopEmpty, PopNil,
             InPop, Gates, Acquire, Nap, EncodeFails, Infer, Retry, BackOff,
             DrainToken, DrainEnd, Score, Embed, Write
    <2>2. tokens > 0
      BY <2>1 DEF Acquired, Take, WaitToken, TakeToken, AcquireFails, Goto
    <2>3. QED
      BY <2>2 DEF IInv, DrainedIsEmpty, TypeOK
  <1>2. QED
    BY <1>1, LoopInvariant, PTL DEF SafeSpec, NoBurstAfterRecovery
=============================================================================
