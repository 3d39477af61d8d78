------------------------------ MODULE Batcher ------------------------------
(***************************************************************************)
(* llmserve.scheduler.DynamicBatcher: callers of submit, the worker task   *)
(* (_run and _collect_batch), the thread that runs the engine, and stop.   *)
(*                                                                         *)
(* Everything but the engine call runs on one asyncio event loop, so one   *)
(* action is the code between two suspension points of one coroutine: the  *)
(* worker that resumes after an engine call resolves the batch, goes round *)
(* its loop and collects the next one before anybody else runs.            *)
(***************************************************************************)
EXTENDS Naturals, SequencesExt

CONSTANTS Requests,        \* request ids; each is submitted at most once
          MaxBatchSize,    \* max_batch_size
          QueueMaxsize,    \* queue_maxsize
          BatchWindow,     \* batch_window_s > 0
          Errors,          \* the exceptions an engine call may raise
          MaxLives         \* bound of the model: calls of start

ASSUME SizeAssumption == MaxBatchSize \in Nat \ {0} /\ QueueMaxsize \in Nat \ {0}
ASSUME WindowAssumption == BatchWindow \in BOOLEAN
ASSUME LivesAssumption == MaxLives \in Nat
ASSUME ErrorsAssumption ==
    Errors \cap {"unsubmitted", "not_started", "queue_full", "pending", "result",
                 "shutdown", "cancelled", "idle", "running", "returned"} = {}

VARIABLES
    lives,      \* calls of start so far (bound of the model)
    task,       \* _task and stop's progress; "none" iff _task and _queue are None
    queue,      \* the asyncio.Queue
    worker,     \* the await the worker is suspended on, "idle" without a worker
    batch,      \* the list _collect_batch is still building
    inflight,   \* _inflight, which is also the list _run handed to the engine
    engine,     \* the engine call of the batch: its progress, or what it raised
    results,    \* what a returned engine call left for the worker
    future,     \* each request's future
    value,      \* the request whose generation a resolved future carries
    dropped     \* history: requests in `batch` when the worker was cancelled

client == <<future, value>>
vars == <<lives, task, queue, worker, batch, inflight, engine, results,
          future, value, dropped>>

States == {"unsubmitted", "not_started", "queue_full", "pending",
           "result", "shutdown", "cancelled"} \cup Errors

TypeOK == /\ lives \in 0..MaxLives
          /\ task \in {"none", "running", "cancelling", "cancelled"}
          /\ queue \in Seq(Requests)
          /\ Len(queue) <= QueueMaxsize
          /\ worker \in {"idle", "get", "window", "engine"}
          /\ batch \in Seq(Requests)
          /\ inflight \in Seq(Requests)
          /\ engine \in {"idle", "running", "returned"} \cup Errors
          /\ results \in Seq(Requests)
          /\ future \in [Requests -> States]
          /\ value \in [Requests -> Requests \cup {"none"}]
          /\ dropped \subseteq Requests

Init == /\ lives = 0
        /\ task = "none"
        /\ queue = <<>>
        /\ worker = "idle"
        /\ batch = <<>>
        /\ inflight = <<>>
        /\ engine = "idle"
        /\ results = <<>>
        /\ future = [r \in Requests |-> "unsubmitted"]
        /\ value = [r \in Requests |-> "none"]
        /\ dropped = {}

-----------------------------------------------------------------------------
(* Callers: start, submit, and the end of submit's wait.                   *)

Start == /\ task = "none"
         /\ lives < MaxLives
         /\ lives' = lives + 1
         /\ task' = "running"
         /\ queue' = <<>>
         /\ worker' = "get"
         /\ UNCHANGED <<batch, inflight, engine, results, client, dropped>>

\* Fault: the newest request is put where the oldest is taken.
SubmitLifo(r) == /\ task # "none"
                 /\ future[r] = "unsubmitted"
                 /\ Len(queue) < QueueMaxsize
                 /\ queue' = <<r>> \o queue
                 /\ future' = [future EXCEPT ![r] = "pending"]
                 /\ UNCHANGED <<lives, task, worker, batch, inflight, engine,
                                results, value, dropped>>

Submit(r) == /\ task # "none"
             /\ future[r] = "unsubmitted"
             /\ Len(queue) < QueueMaxsize
             /\ queue' = Append(queue, r)
             /\ future' = [future EXCEPT ![r] = "pending"]
             /\ UNCHANGED <<lives, task, worker, batch, inflight, engine,
                            results, value, dropped>>

\* The two exceptions submit raises before it queues anything.
Refuse(r, why) ==
    /\ future[r] = "unsubmitted"
    /\ \/ why = "not_started" /\ task = "none"
       \/ why = "queue_full" /\ task # "none" /\ Len(queue) >= QueueMaxsize
    /\ future' = [future EXCEPT ![r] = why]
    /\ UNCHANGED <<lives, task, queue, worker, batch, inflight, engine,
                   results, value, dropped>>

\* The caller stops waiting, which cancels the future it awaits; the _Pending
\* stays wherever it is.
Abandon(r) == /\ future[r] = "pending"
              /\ future' = [future EXCEPT ![r] = "cancelled"]
              /\ UNCHANGED <<lives, task, queue, worker, batch, inflight, engine,
                             results, value, dropped>>

-----------------------------------------------------------------------------
(* The worker task.                                                        *)

Smaller(a, b) == IF a < b THEN a ELSE b

\* The worker hands b to the engine and waits; rest stays in the queue.
Dispatch(b, rest) == /\ worker' = "engine"
                     /\ engine' = "running"
                     /\ inflight' = b
                     /\ batch' = <<>>
                     /\ queue' = rest

\* It waits for a straggler, its batch in a local variable.
AwaitStraggler(b) == /\ worker' = "window"
                     /\ engine' = "idle"
                     /\ inflight' = <<>>
                     /\ batch' = b
                     /\ queue' = <<>>

\* The window loop with b collected: it stops on a full batch or a passed
\* deadline, and suspends only on an empty queue.
Extend(b, rest) ==
    \/ Dispatch(b, rest)
    \/ BatchWindow /\ Len(b) < MaxBatchSize /\ rest = <<>> /\ AwaitStraggler(b)

Take(n) == SubSeq(queue, 1, n)
Leave(n) == SubSeq(queue, n + 1, Len(queue))

\* _collect_batch from its first get to the worker's next suspension.
CollectBatch ==
    \/ /\ queue = <<>>
       /\ worker' = "get"
       /\ engine' = "idle"
       /\ inflight' = <<>>
       /\ batch' = <<>>
       /\ UNCHANGED queue
    \/ /\ queue # <<>>
       /\ LET n == Smaller(Len(queue), MaxBatchSize)
          IN  Extend(Take(n), Leave(n))

FirstRequest == /\ task = "running" /\ worker = "get"
                /\ queue # <<>>
                /\ CollectBatch
                /\ UNCHANGED <<lives, task, results, client, dropped>>

\* One or more stragglers arrive within the window.
Stragglers == /\ task = "running" /\ worker = "window"
              /\ \E n \in 1..Smaller(Len(queue), MaxBatchSize - Len(batch)) :
                    Extend(batch \o Take(n), Leave(n))
              /\ UNCHANGED <<lives, task, results, client, dropped>>

\* Fault: the timed-out get has taken the straggler out of the queue.
WindowClosesLosing == /\ task = "running" /\ worker = "window"
                      /\ Dispatch(batch, Leave(1))
                      /\ UNCHANGED <<lives, task, results, client, dropped>>

\* The straggler's wait_for times out.  A request that was put meanwhile stays
\* in the queue: the cancelled get returns it to nobody.
WindowCloses == /\ task = "running" /\ worker = "window"
                /\ Dispatch(batch, queue)
                /\ UNCHANGED <<lives, task, results, client, dropped>>

\* Fault: results are zipped with the futures that are not done.
ResultForNthWaiting(r) ==
    LET waiting == SelectSeq(inflight, LAMBDA q : future[q] = "pending")
    IN  results[CHOOSE i \in DOMAIN waiting : waiting[i] = r]

ResultFor(r) == results[CHOOSE i \in DOMAIN inflight : inflight[i] = r]

\* Fault: no look at future.done().
UnresolvedOrNot == ToSet(inflight)

\* The futures of the batch that nobody resolved or cancelled meanwhile.
Unresolved == {r \in ToSet(inflight) : future[r] = "pending"}

ResolveBatch ==
    /\ future' = [r \in Requests |-> IF r \in Unresolved THEN "result" ELSE future[r]]
    /\ value' = [r \in Requests |-> IF r \in Unresolved THEN ResultFor(r) ELSE value[r]]

\* Fault: the error is logged and its futures are forgotten.
FailBatchOnlyLogs == UNCHANGED client

FailBatch ==
    /\ future' = [r \in Requests |-> IF r \in Unresolved THEN engine ELSE future[r]]
    /\ UNCHANGED value

BatchReturned == /\ task = "running" /\ worker = "engine" /\ engine = "returned"
                 /\ ResolveBatch
                 /\ CollectBatch
                 /\ results' = <<>>
                 /\ UNCHANGED <<lives, task, dropped>>

\* Fault: the error ends the worker's loop.
BatchRaisedKillsWorker == /\ task = "running" /\ worker = "engine" /\ engine \in Errors
                          /\ FailBatch
                          /\ worker' = "idle"
                          /\ engine' = "idle"
                          /\ inflight' = <<>>
                          /\ UNCHANGED <<lives, task, queue, batch, results, dropped>>

BatchRaised == /\ task = "running" /\ worker = "engine" /\ engine \in Errors
               /\ FailBatch
               /\ CollectBatch
               /\ UNCHANGED <<lives, task, results, dropped>>

-----------------------------------------------------------------------------
(* The engine, in the thread of asyncio.to_thread.                         *)

EngineReturns == /\ engine = "running"
                 /\ engine' = "returned"
                 /\ results' = inflight
                 /\ UNCHANGED <<lives, task, queue, worker, batch, inflight,
                                client, dropped>>

EngineRaises(e) == /\ engine = "running"
                   /\ engine' = e
                   /\ UNCHANGED <<lives, task, queue, worker, batch, inflight,
                                  results, client, dropped>>

-----------------------------------------------------------------------------
(* stop: cancel the task, wait for it to end, fail what is left.           *)

StopCancels == /\ task = "running"
               /\ task' = "cancelling"
               /\ UNCHANGED <<lives, queue, worker, batch, inflight, engine,
                              results, client, dropped>>

\* CancelledError at the worker's await.  Its locals go: a batch it was still
\* collecting, and the outcome of an engine call nobody waits for any more.
\* Only _inflight and the queue survive.
WorkerCancelled == /\ task = "cancelling"
                   /\ task' = "cancelled"
                   /\ worker' = "idle"
                   /\ dropped' = dropped \cup ToSet(batch)
                   /\ batch' = <<>>
                   /\ engine' = "idle"
                   /\ results' = <<>>
                   /\ UNCHANGED <<lives, queue, inflight, client>>

\* Fault: stop fails the queue and forgets the batch in the engine.
AbandonedQueueOnly == {r \in ToSet(queue) : future[r] = "pending"}

Abandoned == {r \in ToSet(inflight \o queue) : future[r] = "pending"}

StopReturns == /\ task = "cancelled"
               /\ task' = "none"
               /\ future' = [r \in Requests |->
                                IF r \in Abandoned THEN "shutdown" ELSE future[r]]
               /\ inflight' = <<>>
               /\ queue' = <<>>
               /\ UNCHANGED <<lives, worker, batch, engine, results, value, dropped>>

-----------------------------------------------------------------------------
Caller == \E r \in Requests : \/ Submit(r)
                              \/ Abandon(r)
                              \/ \E why \in {"not_started", "queue_full"} : Refuse(r, why)
Worker == FirstRequest \/ Stragglers \/ WindowCloses \/ BatchReturned \/ BatchRaised
Engine == EngineReturns \/ \E e \in Errors : EngineRaises(e)
Next == Start \/ Caller \/ Worker \/ Engine \/ StopCancels \/ WorkerCancelled \/ StopReturns

Spec == Init /\ [][Next]_vars

\* The event loop runs every ready task, timers fire, and an engine call ends
\* (its loop is bounded, see Engine).  Nobody has to call start, submit or stop.
Fairness == /\ WF_vars(Worker)
            /\ WF_vars(Engine)
            /\ WF_vars(WorkerCancelled)
            /\ WF_vars(StopReturns)
FairSpec == Spec /\ Fairness

-----------------------------------------------------------------------------
(* Properties.                                                             *)

Held == queue \o batch \o inflight

\* Every caller that still waits is in exactly one place of the live batcher
\* (waiting, being collected, being computed), unless the worker was cancelled
\* while it collected it: no path through the drain, the window, the timeout
\* race and the error handler loses or doubles a request.
WaitingIsHeld ==
    \A r \in Requests : future[r] = "pending" /\ r \notin dropped =>
        \E i \in DOMAIN Held : \A j \in DOMAIN Held : Held[j] = r <=> j = i

\* What a resolved future carries was generated for its own request, even when
\* batch-mates timed out, failed earlier or were served across a restart.
OwnResult == \A r \in Requests : future[r] = "result" => value[r] = r

\* A future is resolved once: an answer, an error and a caller's cancellation
\* never overwrite one another, and no request returns to an earlier state.
AnswersAreFinal ==
    [][\A r \in Requests :
          future[r] \notin {"unsubmitted", "pending"} =>
              future'[r] = future[r] /\ value'[r] = value[r]]_vars

\* After stop has returned nobody who got past submit is still waiting (the
\* README: shutdown fails pending and in-flight futures).
StopAnswersAll == task = "none" => \A r \in Requests : future[r] # "pending"

\* The same for every request but those the cancelled worker was collecting.
StopAnswersHeld ==
    task = "none" => \A r \in Requests : future[r] = "pending" => r \in dropped

\* Every accepted request is answered in the end, whatever interleaving of
\* stragglers, timeouts, engine errors and stop it meets.
EveryoneAnswered ==
    \A r \in Requests : future[r] = "pending" ~> (future[r] # "pending" \/ r \in dropped)

\* Requests are served in the order they were accepted, in groups of at most
\* MaxBatchSize, each group answered as a whole before the next begins; submit
\* refuses nobody while there is room; and stop leaves nobody unanswered but
\* the group it caught the worker collecting.
Fifo == INSTANCE FifoService WITH
            GroupSize <- MaxBatchSize,
            LineLimit <- QueueMaxsize,
            Collects <- BatchWindow,
            status <- IF task = "none" THEN "closed"
                      ELSE IF task = "cancelled" THEN "closing" ELSE "open",
            line <- batch \o queue,
            serving <- inflight,
            answer <- future,
            value <- value
ServesInOrder == Fifo!Spec
=============================================================================
