---------------------------- MODULE InferenceLoop ----------------------------
(***************************************************************************)
(* runInferenceLoop (main.go) with what it drives: the frame queue, the    *)
(* resource governor (throttle.go) and the Ollama client (ollama.go).      *)
(*                                                                         *)
(* The loop is a goroutine; the capturer, the bridge that pushes frames,   *)
(* the governor's two tickers and the context's timer run beside it.  The  *)
(* queue keeps to DropOldestQueue, so the number of its frames is enough   *)
(* here.  The CPU and GPU readings are one: over a threshold or not.       *)
(***************************************************************************)
EXTENDS Naturals, Sequences

CONSTANTS
    QueueDepth,     \* cfg.Capture.QueueDepth
    Rate,           \* cfg.ResourceBudget.MaxInferencePerMin
    MaxRetries,     \* cfg.Inference.MaxRetries
    MaxFails        \* bound: failures in a row that are told apart

\* config.go:168-218 checks the queue's depth and nothing about the others.
ASSUME LoopAssumption ==
    /\ QueueDepth \in Nat \ {0}
    /\ Rate \in Nat /\ MaxRetries \in Nat /\ MaxFails \in Nat \ {0}

VARIABLES
    capturing,      \* does capturer.Run still run?
    ch,             \* frames in the capturer's channel, of capacity 1
    queue,          \* frames in the queue
    stopped,        \* is stopCh closed?
    tokens,         \* Len(tokenBucket)
    load,           \* latest readings over a threshold in a row, up to 2
    pc,             \* where the loop is
    expired,        \* is the deadline of ctx past?
    attempt,        \* Infer's attempt
    fails, wait,    \* consecutiveFails, and the backoff in seconds
    score,          \* "high" clears IsolatedNodeScore, "low" only the minimum
    vector,         \* "none", "isolated" or "coherent": embedding and its check
    spent,          \* history: tokens taken since the last tick of refillLoop
    drain           \* DrainBucket: "running", "ticked" meanwhile, "over" until a tick

capture == <<capturing, ch>>
bucket == <<tokens, spent, drain>>
infer == <<expired, attempt>>
failing == <<fails, wait>>
frame == <<score, vector>>
vars == <<capture, queue, stopped, bucket, load, pc, infer, failing, frame>>

Steps == {"boot", "pop", "wait", "gates", "acquire", "take", "nap", "token",
          "infer", "retry", "backoff", "drain", "score", "embed", "write", "done"}
InPop == {"pop", "wait"}
Vectors == {"none", "isolated", "coherent"}
UnderDeadline == {"acquire", "take", "nap", "token", "infer", "retry"}

\* Everything the loop and the governor keep stays in its range: the bucket
\* within its limit, the attempts within MaxRetries, the wait within maxBackoff.
TypeOK ==
    /\ capturing \in BOOLEAN /\ ch \in 0 .. 1 /\ queue \in 0 .. QueueDepth
    /\ stopped \in BOOLEAN
    /\ tokens \in 0 .. Rate /\ load \in 0 .. 2 /\ pc \in Steps
    /\ expired \in BOOLEAN /\ attempt \in 0 .. MaxRetries
    /\ fails \in 0 .. MaxFails /\ wait \in 0 .. 60
    /\ score \in {"low", "high"} /\ vector \in Vectors
    /\ spent \in 0 .. Rate
    /\ drain \in {"none", "running", "ticked", "over"}

Init ==
    /\ capturing = TRUE /\ ch = 0 /\ queue = 0 /\ stopped = FALSE
    /\ tokens = 0 /\ load = 0 /\ pc = "boot"
    /\ expired = FALSE /\ attempt = 0 /\ fails = 0 /\ wait = 0
    /\ score = "low" /\ vector = "none"
    /\ spent = 0 /\ drain = "none"

Up == pc # "boot"
Goto(step) == pc' = step

-----------------------------------------------------------------------------
\* The other goroutines.

\* monitorLoop.run: a non-blocking send, and the frame is dropped if ch is full.
Capture ==
    /\ Up /\ capturing
    /\ ch = 0
    /\ ch' = 1
    /\ UNCHANGED <<capturing, queue, stopped, bucket, load, pc, infer, failing, frame>>

\* The capturer sees stopCh closed, and runCaptureLoop closes ch behind it.
EndCapture ==
    /\ capturing /\ stopped
    /\ capturing' = FALSE
    /\ UNCHANGED <<ch, queue, stopped, bucket, load, pc, infer, failing, frame>>

\* The bridge drains ch, closed or not; a full queue drops its oldest frame.
Bridge ==
    /\ ch = 1
    /\ ch' = 0
    /\ queue' = IF queue = QueueDepth THEN queue ELSE queue + 1
    /\ UNCHANGED <<capturing, stopped, bucket, load, pc, infer, failing, frame>>

\* stopFn, from a signal, the tray or the other goroutine's recover().
Stop ==
    /\ Up /\ ~stopped
    /\ stopped' = TRUE
    /\ UNCHANGED <<capture, queue, bucket, load, pc, infer, failing, frame>>

\* metricsLoop: every two seconds.
Sample ==
    /\ Up
    /\ load' \in {0, IF load = 2 THEN 2 ELSE load + 1}
    /\ UNCHANGED <<capture, queue, stopped, bucket, pc, infer, failing, frame>>

\* A bug to catch: a bucket without a limit.
Refill_Overfills ==
    /\ Up /\ Rate > 0
    /\ tokens' = tokens + 1
    /\ spent' = 0 /\ drain' = "none"
    /\ UNCHANGED <<capture, queue, stopped, load, pc, infer, failing, frame>>

\* refillLoop: a token, unless the bucket is full.  Ticks are seconds apart, so
\* at most one of them falls into a drain.
Refill ==
    /\ Up /\ Rate > 0
    /\ drain # "ticked"
    /\ drain' = IF drain = "running" THEN "ticked" ELSE "none"
    /\ tokens' = IF tokens < Rate THEN tokens + 1 ELSE tokens
    /\ spent' = 0
    /\ UNCHANGED <<capture, queue, stopped, load, pc, infer, failing, frame>>

\* The timer of the context that covers Acquire and Infer together.
Expire ==
    /\ pc \in UnderDeadline /\ ~expired
    /\ expired' = TRUE
    /\ UNCHANGED <<capture, queue, stopped, bucket, load, pc, attempt, failing, frame>>

-----------------------------------------------------------------------------
\* NewGovernor puts the first token into the bucket, in run(), which blocks if
\* there is no room; the loops start after it.
NewGovernor ==
    /\ pc = "boot"
    /\ tokens < Rate
    /\ tokens' = tokens + 1
    /\ Goto("pop")
    /\ UNCHANGED <<capture, queue, stopped, spent, drain, load, infer, failing, frame>>

\* q.Pop, and the iteration's locals.
PopFrame ==
    /\ pc \in InPop /\ queue > 0
    /\ queue' = queue - 1
    /\ expired' = FALSE /\ attempt' = 0
    /\ score' = "low" /\ vector' = "none"
    /\ Goto("gates")
    /\ UNCHANGED <<capture, stopped, bucket, load, failing>>

PopEmpty ==
    /\ pc = "pop" /\ queue = 0
    /\ Goto("wait")
    /\ UNCHANGED <<capture, queue, stopped, bucket, load, infer, failing, frame>>

\* A bug to catch: Pop waits for a frame only.
PopNil_WaitsForFrame == FALSE /\ UNCHANGED vars

\* stopCh is looked at only by a Pop that found the queue empty.
PopNil ==
    /\ pc = "wait" /\ stopped
    /\ Goto("done")
    /\ UNCHANGED <<capture, queue, stopped, bucket, load, infer, failing, frame>>

\* Dwell and content class, before a token is spent.
Gates ==
    /\ pc = "gates"
    /\ Goto("pop") \/ Goto("acquire")
    /\ UNCHANGED <<capture, queue, stopped, bucket, load, infer, failing, frame>>

\* Acquire: the readings first ...
Acquire ==
    /\ pc = "acquire"
    /\ IF load > 0 THEN Goto("nap") ELSE Goto("take")
    /\ UNCHANGED <<capture, queue, stopped, bucket, load, infer, failing, frame>>

\* Acquire returns ctx.Err(), and the loop returns.
AcquireFails ==
    /\ expired
    /\ Goto("done")
    /\ UNCHANGED bucket

\* A bug to catch: a plain time.Sleep.
Nap_IgnoresDeadline ==
    /\ pc = "nap"
    /\ Goto("acquire")
    /\ UNCHANGED <<capture, queue, stopped, bucket, load, infer, failing, frame>>

\* ... five seconds if they are over a threshold, cut short by ctx ...
Nap ==
    /\ pc = "nap"
    /\ \/ ~expired /\ Goto("acquire") /\ UNCHANGED bucket
       \/ AcquireFails
    /\ UNCHANGED <<capture, queue, stopped, load, infer, failing, frame>>

\* A bug to catch: a length check where a receive is meant.
TakeToken_Keeps ==
    /\ tokens > 0
    /\ spent' = spent + 1
    /\ Goto("infer")
    /\ UNCHANGED <<tokens, drain>>

TakeToken ==
    /\ tokens > 0
    /\ tokens' = tokens - 1
    /\ spent' = spent + 1
    /\ Goto("infer")
    /\ UNCHANGED drain

\* ... then a token, or the deadline, whichever select picks ...
Take ==
    /\ pc = "take"
    /\ \/ TakeToken
       \/ AcquireFails
       \/ tokens = 0 /\ ~expired /\ Goto("token") /\ UNCHANGED bucket
    /\ UNCHANGED <<capture, queue, stopped, load, infer, failing, frame>>

\* ... or the wait for one, during which the readings are not looked at again.
WaitToken ==
    /\ pc = "token"
    /\ TakeToken \/ AcquireFails
    /\ UNCHANGED <<capture, queue, stopped, load, infer, failing, frame>>

-----------------------------------------------------------------------------
\* time.Duration(1<<n) * time.Second in 64 bits: 2^(n+9) * 5^9 nanoseconds, in
\* which 5^9 keeps its low 55-n bits, the highest of them the sign.
Overflows(n) ==
    n >= 55 \/ (n >= 25 /\ 1953125 % 2 ^ (55 - n) >= 2 ^ (54 - n))

\* In seconds, for n > 0; time.After of a negative duration fires at once, as of 0.
Backoff(n) ==
    IF n < 6 THEN <<2, 4, 8, 16, 32>>[n] ELSE IF Overflows(n) THEN 0 ELSE 60

InferFails ==
    /\ fails' = IF fails < MaxFails THEN fails + 1 ELSE fails
    /\ wait' = Backoff(fails')
    /\ Goto("backoff")

\* Infer fails before its first request: the frame cannot be encoded.
EncodeFails ==
    /\ pc = "infer" /\ attempt = 0
    /\ InferFails
    /\ UNCHANGED <<capture, queue, stopped, bucket, load, infer, frame>>

\* One request to Ollama.  With ctx past its deadline it fails at once.
Infer ==
    /\ pc = "infer"
    /\ \/ /\ ~expired
          /\ IF fails > 0 THEN Goto("drain") /\ drain' = "running"
                          ELSE Goto("score") /\ UNCHANGED drain
          /\ UNCHANGED <<attempt, failing>>
       \/ /\ attempt < MaxRetries
          /\ attempt' = attempt + 1
          /\ Goto("retry")
          /\ UNCHANGED <<failing, drain>>
       \/ /\ attempt = MaxRetries
          /\ InferFails
          /\ UNCHANGED <<attempt, drain>>
    /\ UNCHANGED <<capture, queue, stopped, tokens, spent, load, expired, frame>>

\* The pause before the next attempt.
Retry ==
    /\ pc = "retry"
    /\ \/ ~expired /\ Goto("infer") /\ UNCHANGED failing
       \/ expired /\ InferFails
    /\ UNCHANGED <<capture, queue, stopped, bucket, load, infer, frame>>

\* The backoff, or stopCh.
BackOff ==
    /\ pc = "backoff"
    /\ Goto("pop") \/ (stopped /\ Goto("done"))
    /\ UNCHANGED <<capture, queue, stopped, bucket, load, infer, failing, frame>>

\* DrainBucket after the first success: token by token, with refillLoop at work.
DrainToken ==
    /\ pc = "drain" /\ tokens > 0
    /\ tokens' = tokens - 1
    /\ UNCHANGED <<capture, queue, stopped, spent, drain, load, pc, infer, failing, frame>>

\* A bug to catch: the drain ends before the bucket is empty.
DrainEnd_Early ==
    /\ pc = "drain"
    /\ drain' = "over"
    /\ fails' = 0 /\ wait' = 0
    /\ Goto("score")
    /\ UNCHANGED <<capture, queue, stopped, tokens, spent, load, infer, frame>>

DrainEnd ==
    /\ pc = "drain" /\ tokens = 0
    /\ drain' = "over"
    /\ fails' = 0 /\ wait' = 0
    /\ Goto("score")
    /\ UNCHANGED <<capture, queue, stopped, tokens, spent, load, infer, frame>>

-----------------------------------------------------------------------------
\* EngagementScore against MinEngagementScore.
Score ==
    /\ pc = "score"
    /\ \/ Goto("pop") /\ score' = score
       \/ score' \in {"low", "high"} /\ Goto("embed")
    /\ UNCHANGED <<capture, queue, stopped, bucket, load, infer, failing, vector>>

\* A bug to catch: no vector, and the check passes as on an empty graph.
Embed_FailsOpen ==
    /\ pc = "embed"
    /\ vector' \in Vectors
    /\ IF score = "low" /\ vector' = "isolated" THEN Goto("pop") ELSE Goto("write")
    /\ UNCHANGED <<capture, queue, stopped, bucket, load, infer, failing, score>>

\* Embed and the coherence check, either of which may fail, and the score that
\* their outcome asks for.
Embed ==
    /\ pc = "embed"
    /\ vector' \in Vectors
    /\ IF score = "low" /\ vector' # "coherent" THEN Goto("pop") ELSE Goto("write")
    /\ UNCHANGED <<capture, queue, stopped, bucket, load, infer, failing, score>>

\* The new id and store.Write, whose errors are logged.
Write ==
    /\ pc = "write"
    /\ Goto("pop")
    /\ UNCHANGED <<capture, queue, stopped, bucket, load, infer, failing, frame>>

LoopStep ==
    \/ NewGovernor
    \/ PopFrame \/ PopEmpty \/ PopNil \/ Gates
    \/ Acquire \/ Nap \/ Take \/ WaitToken
    \/ EncodeFails \/ Infer \/ Retry \/ BackOff \/ DrainToken \/ DrainEnd
    \/ Score \/ Embed \/ Write

Next ==
    \/ LoopStep
    \/ Capture \/ EndCapture \/ Bridge \/ Stop
    \/ Sample \/ Refill \/ Expire

SafeSpec == Init /\ [][Next]_vars

\* Goroutines run, requests end at the latest with their context, and the
\* context's timer fires.  That a token comes, or that the load falls, is not
\* assumed.
Fairness ==
    /\ WF_vars(LoopStep)
    /\ WF_vars(EndCapture)
    /\ WF_vars(Bridge)
    /\ WF_vars(Expire)

Spec == SafeSpec /\ Fairness

-----------------------------------------------------------------------------
Acquired == pc \in {"take", "token"} /\ pc' = "infer"

\* Between two ticks of refillLoop no more frames are sent to the model than the
\* bucket holds, whatever failed and was retried (throttle.go:53-58, 175-197).
RateLimit == spent + tokens =< Rate

\* After a recovery the next frame waits for a tick, however many tokens the
\* outage had piled up (main.go:379-382, 452-459).
NoBurstAfterRecovery == [][Acquired => drain # "over"]_vars

\* A node whose place in the graph is not known to be coherent is stored only
\* with the higher score, also when the embedding failed (main.go:507-530).
FailClosed == pc = "write" => score = "high" \/ vector = "coherent"

\* No frame holds the loop for ever: not a busy machine, an empty bucket or a
\* silent Ollama (main.go:419-433, throttle.go:73-126).
NeverWedged == pc \notin InPop \cup {"boot"} ~> pc \in {"pop", "done"}

\* Once stopCh is closed the loop ends, frames still queued or not
\* (main.go:387-390, 445-449).
LoopStops == stopped ~> pc = "done"

-----------------------------------------------------------------------------
\* What the comments and the documents say, and the code does not do.

\* THREAT_MODEL.md:146, "On timeout, the frame is discarded and the goroutine
\* proceeds": the loop ends only because of a stop.
LoopEndsOnlyOnStop == pc = "done" => stopped
=============================================================================
