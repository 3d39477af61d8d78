---------------------------- MODULE ServerProofs ----------------------------
(***************************************************************************)
(* Theorems about llmserve's batcher and the endpoint that drives it, for  *)
(* every set of requests, batch size, queue capacity, window, limit and    *)
(* number of starts.  Batcher: its invariants, then the refinement of      *)
(* FifoService, whose line is the batch being collected and the queue      *)
(* behind it.  Server: the endpoint drives the batcher by the batcher's    *)
(* own operations only, and what its clients are told is true.             *)
(***************************************************************************)
EXTENDS Server, SequenceTheorems, TLAPS

-----------------------------------------------------------------------------
(* The batcher.                                                            *)

\* Where the worker is decides which of its lists can be non-empty.
Places ==
    /\ task \in {"none", "cancelled"} => worker = "idle" /\ engine = "idle"
    /\ task = "none" => queue = <<>> /\ inflight = <<>>
    /\ worker # "window" => batch = <<>>
    /\ worker = "window" => BatchWindow
    /\ worker \in {"get", "window"} => inflight = <<>>
    /\ engine = "returned" => results = inflight

\* A caller that waits is in one of the three lists or was dropped.
NoneForgotten ==
    /\ \A r \in Requests : future[r] = "pending" =>
            r \in ToSet(queue) \cup ToSet(batch) \cup ToSet(inflight) \cup dropped
    /\ ~BatchWindow => dropped = {}

IInv == TypeOK /\ Places /\ NoneForgotten /\ OwnResult

-----------------------------------------------------------------------------
(* Lemmas about splitting the queue.                                       *)

\* Taking the first n requests leaves the others: no request is lost.
LEMMA SplitSet ==
    ASSUME NEW s \in Seq(Requests), NEW n \in 0..Len(s)
    PROVE  /\ SubSeq(s, 1, n) \in Seq(Requests)
           /\ SubSeq(s, n + 1, Len(s)) \in Seq(Requests)
           /\ Len(SubSeq(s, 1, n)) = n
           /\ Len(SubSeq(s, n + 1, Len(s))) = Len(s) - n
           /\ ToSet(s) = ToSet(SubSeq(s, 1, n)) \cup ToSet(SubSeq(s, n + 1, Len(s)))
<1> DEFINE a == SubSeq(s, 1, n)
           b == SubSeq(s, n + 1, Len(s))
<1>1. /\ a \in Seq(Requests)
      /\ Len(a) = n
      /\ \A i \in 1..n : a[i] = s[i]
  OBVIOUS
<1>2. /\ b \in Seq(Requests)
      /\ Len(b) = Len(s) - n
      /\ \A i \in 1..(Len(s) - n) : b[i] = s[n + i]
  OBVIOUS
<1> HIDE DEF a, b
<1>3. ASSUME NEW x \in ToSet(s) PROVE x \in ToSet(a) \cup ToSet(b)
  <2>1. PICK i \in 1..Len(s) : s[i] = x
    BY <1>3 DEF ToSet
  <2>2. CASE i <= n
    BY <1>1, <2>1, <2>2 DEF ToSet
  <2>3. CASE i > n
    <3>1. i - n \in 1..(Len(s) - n) /\ b[i - n] = s[i]
      BY <1>2, <2>1, <2>3
    <3>2. QED BY <1>2, <2>1, <3>1 DEF ToSet
  <2>4. QED BY <2>1, <2>2, <2>3
<1>4. ASSUME NEW x \in ToSet(a) \cup ToSet(b) PROVE x \in ToSet(s)
  BY <1>1, <1>2, <1>4 DEF ToSet
<1>5. QED BY <1>1, <1>2, <1>3, <1>4 DEF a, b

\* A concatenation holds the requests of both its parts.
LEMMA ConcatSet ==
    ASSUME NEW s \in Seq(Requests), NEW t \in Seq(Requests)
    PROVE  s \o t \in Seq(Requests) /\ ToSet(s \o t) = ToSet(s) \cup ToSet(t)
<1> DEFINE c == s \o t
<1>1. c \in Seq(Requests) /\ Len(c) = Len(s) + Len(t)
  OBVIOUS
<1>2. /\ \A i \in 1..Len(s) : c[i] = s[i]
      /\ \A i \in 1..Len(t) : c[Len(s) + i] = t[i]
  OBVIOUS
<1> HIDE DEF c
<1>3. ASSUME NEW x \in ToSet(s) PROVE x \in ToSet(c)
  BY <1>1, <1>2, <1>3 DEF ToSet
<1>4. ASSUME NEW x \in ToSet(t) PROVE x \in ToSet(c)
  <2>1. PICK i \in 1..Len(t) : t[i] = x
    BY <1>4 DEF ToSet
  <2>2. Len(s) + i \in 1..Len(c) /\ c[Len(s) + i] = x
    BY <1>1, <1>2, <2>1
  <2>3. QED BY <1>1, <2>2 DEF ToSet
<1>5. ASSUME NEW x \in ToSet(c) PROVE x \in ToSet(s) \cup ToSet(t)
  <2>1. PICK i \in 1..(Len(s) + Len(t)) : c[i] = x
    BY <1>1, <1>5 DEF ToSet
  <2>2. CASE i <= Len(s)
    BY <1>2, <2>1, <2>2 DEF ToSet
  <2>3. CASE i > Len(s)
    <3>1. i - Len(s) \in 1..Len(t) /\ c[i] = t[i - Len(s)]
      BY <1>2, <2>1, <2>3
    <3>2. QED BY <2>1, <3>1 DEF ToSet
  <2>4. QED BY <2>1, <2>2, <2>3
<1>6. QED BY <1>1, <1>3, <1>4, <1>5 DEF c

\* submit adds its request to the queue and nothing else.
LEMMA AppendSet ==
    ASSUME NEW s \in Seq(Requests), NEW r \in Requests
    PROVE  /\ Append(s, r) \in Seq(Requests)
           /\ Len(Append(s, r)) = Len(s) + 1
           /\ ToSet(Append(s, r)) = ToSet(s) \cup {r}
<1>1. Append(s, r) \in Seq(Requests) /\ Len(Append(s, r)) = Len(s) + 1
  OBVIOUS
<1>2. /\ \A i \in 1..Len(s) : Append(s, r)[i] = s[i]
      /\ Append(s, r)[Len(s) + 1] = r
  OBVIOUS
<1>3. QED BY <1>1, <1>2 DEF ToSet

-----------------------------------------------------------------------------
(* What the worker's turns do to the three lists.                          *)

\* The conclusion both lemmas share: the lists are well formed and hold
\* exactly the requests of `before`.
Rearranges(before) ==
    /\ queue' \in Seq(Requests) /\ Len(queue') <= QueueMaxsize
    /\ batch' \in Seq(Requests)
    /\ inflight' \in Seq(Requests)
    /\ worker' \in {"get", "window", "engine"}
    /\ engine' \in {"idle", "running"}
    /\ worker' # "window" => batch' = <<>>
    /\ worker' = "window" => BatchWindow
    /\ worker' \in {"get", "window"} => inflight' = <<>>
    /\ ToSet(queue') \cup ToSet(batch') \cup ToSet(inflight') = before

\* Whether the worker dispatches b or goes on waiting, b and the rest of the
\* queue are kept.
LEMMA ExtendKeeps ==
    ASSUME NEW b \in Seq(Requests), NEW rest \in Seq(Requests),
           Len(rest) <= QueueMaxsize, Extend(b, rest)
    PROVE  Rearranges(ToSet(b) \cup ToSet(rest))
<1>1. <<>> \in Seq(Requests) /\ Len(<<>>) = 0 /\ ToSet(<<>>) = {}
  BY DEF ToSet
<1>2. CASE Dispatch(b, rest)
  BY <1>1, <1>2 DEF Dispatch, Rearranges
<1>3. CASE BatchWindow /\ rest = <<>> /\ AwaitStraggler(b)
  <2>1. 0 <= QueueMaxsize
    BY SizeAssumption
  <2>2. QED BY <1>1, <1>3, <2>1 DEF AwaitStraggler, Rearranges
<1>4. QED BY <1>2, <1>3 DEF Extend

\* Collecting the next batch keeps every request of the queue.
LEMMA CollectKeeps ==
    ASSUME queue \in Seq(Requests), Len(queue) <= QueueMaxsize, CollectBatch
    PROVE  Rearranges(ToSet(queue))
<1>1. CASE queue = <<>>
  <2>1. ToSet(queue) = {} /\ ToSet(<<>>) = {} /\ <<>> \in Seq(Requests)
    BY <1>1 DEF ToSet
  <2>2. QED BY <1>1, <2>1 DEF CollectBatch, Rearranges
<1>2. CASE queue # <<>>
  <2> DEFINE n == Smaller(Len(queue), MaxBatchSize)
  <2>1. n \in 0..Len(queue)
    BY SizeAssumption DEF Smaller
  <2>2. Extend(Take(n), Leave(n))
    BY <1>2 DEF CollectBatch
  <2> HIDE DEF n
  <2>3. /\ Take(n) \in Seq(Requests) /\ Leave(n) \in Seq(Requests)
        /\ Len(Leave(n)) <= QueueMaxsize
        /\ ToSet(queue) = ToSet(Take(n)) \cup ToSet(Leave(n))
    BY <2>1, SplitSet, SizeAssumption DEF Take, Leave
  <2>4. QED BY <2>2, <2>3, ExtendKeeps
<1>3. QED BY <1>1, <1>2

-----------------------------------------------------------------------------
(* The invariant.                                                          *)

\* The batcher starts in the invariant.
LEMMA InitIInv == Init => IInv
<1> SUFFICES ASSUME Init PROVE IInv
  OBVIOUS
<1>1. <<>> \in Seq(Requests) /\ Len(<<>>) = 0 /\ 0 <= QueueMaxsize /\ 0 \in 0..MaxLives
  BY SizeAssumption, LivesAssumption
<1>2. TypeOK
  BY <1>1 DEF Init, TypeOK, States
<1>3. Places
  BY DEF Init, Places
<1>4. NoneForgotten /\ OwnResult
  BY DEF Init, NoneForgotten, OwnResult
<1>5. QED BY <1>2, <1>3, <1>4 DEF IInv

-----------------------------------------------------------------------------
(* One lemma per action.                                                   *)

\* start gives the worker an empty queue.
LEMMA StartKeeps == ASSUME IInv, Start PROVE IInv'
<1> USE DEF IInv
<1>1. <<>> \in Seq(Requests) /\ Len(<<>>) = 0 /\ 0 <= QueueMaxsize
  BY SizeAssumption
<1>2. TypeOK'
  BY <1>1, LivesAssumption DEF TypeOK, Start, client
<1>3. Places'
  BY DEF Places, Start, TypeOK, client
<1>4. NoneForgotten'
  <2>1. queue = <<>>
    BY DEF Places, Start
  <2>2. QED BY <2>1 DEF NoneForgotten, Start, client
<1>5. OwnResult'
  BY DEF OwnResult, Start, client
<1>6. QED BY <1>2, <1>3, <1>4, <1>5

\* submit: the only way a future becomes pending, and its request is queued
\* in the same step.
LEMMA SubmitKeeps == ASSUME IInv, NEW r \in Requests, Submit(r) PROVE IInv'
<1> USE DEF IInv
<1>1. /\ queue' \in Seq(Requests)
      /\ Len(queue') = Len(queue) + 1
      /\ ToSet(queue') = ToSet(queue) \cup {r}
  BY AppendSet DEF Submit, TypeOK
<1>2. TypeOK'
  BY <1>1, SizeAssumption DEF TypeOK, Submit, States
<1>3. Places'
  BY DEF Places, Submit, TypeOK
<1>4. NoneForgotten'
  BY <1>1 DEF NoneForgotten, Submit, TypeOK
<1>5. OwnResult'
  BY DEF OwnResult, Submit, TypeOK
<1>6. QED BY <1>2, <1>3, <1>4, <1>5

\* submit's two early exceptions queue nothing.
LEMMA RefuseKeeps ==
    ASSUME IInv, NEW r \in Requests, NEW why \in {"not_started", "queue_full"},
           Refuse(r, why)
    PROVE  IInv'
<1> USE DEF IInv
<1>1. TypeOK'
  BY DEF TypeOK, Refuse, States
<1>2. Places'
  BY DEF Places, Refuse
<1>3. NoneForgotten' /\ OwnResult'
  BY DEF NoneForgotten, OwnResult, Refuse, TypeOK
<1>4. QED BY <1>1, <1>2, <1>3

\* A caller that gives up only leaves a request too many in the lists.
LEMMA AbandonKeeps == ASSUME IInv, NEW r \in Requests, Abandon(r) PROVE IInv'
<1> USE DEF IInv
<1>1. TypeOK'
  BY DEF TypeOK, Abandon, States
<1>2. Places'
  BY DEF Places, Abandon
<1>3. NoneForgotten' /\ OwnResult'
  BY DEF NoneForgotten, OwnResult, Abandon, TypeOK
<1>4. QED BY <1>1, <1>2, <1>3

\* A turn of the worker that resolves no future and loses no request.
LEMMA RearrangeKeeps ==
    ASSUME IInv, task = "running",
           Rearranges(ToSet(queue) \cup ToSet(batch) \cup ToSet(inflight)),
           UNCHANGED <<lives, task, results, client, dropped>>
    PROVE  IInv'
<1> USE DEF IInv
<1>1. TypeOK'
  BY DEF TypeOK, Rearranges, client
<1>2. Places'
  BY DEF Places, Rearranges
<1>3. NoneForgotten' /\ OwnResult'
  BY DEF NoneForgotten, OwnResult, Rearranges, client
<1>4. QED BY <1>1, <1>2, <1>3

\* The first get of _collect_batch.
LEMMA FirstRequestKeeps == ASSUME IInv, FirstRequest PROVE IInv'
<1>1. Rearranges(ToSet(queue))
  BY CollectKeeps DEF IInv, TypeOK, FirstRequest
<1>2. batch = <<>> /\ inflight = <<>> /\ ToSet(<<>>) = {}
  BY DEF IInv, Places, FirstRequest, ToSet
<1>3. QED BY <1>1, <1>2, RearrangeKeeps DEF FirstRequest

\* Requests that arrive within the window move from the queue to the batch.
LEMMA StragglersKeeps == ASSUME IInv, Stragglers PROVE IInv'
<1>1. PICK n \in 1..Smaller(Len(queue), MaxBatchSize - Len(batch)) :
            Extend(batch \o Take(n), Leave(n))
  BY DEF Stragglers
<1>2. n \in 0..Len(queue)
  BY <1>1, SizeAssumption DEF Smaller, IInv, TypeOK
<1>3. /\ Take(n) \in Seq(Requests) /\ Leave(n) \in Seq(Requests)
      /\ Len(Leave(n)) <= QueueMaxsize
      /\ ToSet(queue) = ToSet(Take(n)) \cup ToSet(Leave(n))
  BY <1>2, SplitSet, SizeAssumption DEF Take, Leave, IInv, TypeOK
<1>4. /\ batch \o Take(n) \in Seq(Requests)
      /\ ToSet(batch \o Take(n)) = ToSet(batch) \cup ToSet(Take(n))
  BY <1>3, ConcatSet DEF IInv, TypeOK
<1>5. Rearranges(ToSet(batch \o Take(n)) \cup ToSet(Leave(n)))
  BY <1>1, <1>3, <1>4, ExtendKeeps
<1>6. ToSet(inflight) = {}
  BY DEF IInv, Places, Stragglers, ToSet
<1>7. ToSet(batch \o Take(n)) \cup ToSet(Leave(n))
        = ToSet(queue) \cup ToSet(batch) \cup ToSet(inflight)
  BY <1>3, <1>4, <1>6
<1>8. QED BY <1>5, <1>7, RearrangeKeeps DEF Stragglers

\* The window times out and whoever was put meanwhile stays queued.
LEMMA WindowClosesKeeps == ASSUME IInv, WindowCloses PROVE IInv'
<1>1. Rearranges(ToSet(batch) \cup ToSet(queue))
  BY ExtendKeeps DEF IInv, TypeOK, WindowCloses, Extend
<1>2. ToSet(inflight) = {}
  BY DEF IInv, Places, WindowCloses, ToSet
<1>3. ToSet(batch) \cup ToSet(queue)
        = ToSet(queue) \cup ToSet(batch) \cup ToSet(inflight)
  BY <1>2
<1>4. QED BY <1>1, <1>3, RearrangeKeeps DEF WindowCloses

\* When the engine call is over the worker holds no batch it is collecting,
\* every future of the inflight batch gets resolved, and the rest waits in
\* the queue.
LEMMA BatchReturnedKeeps == ASSUME IInv, BatchReturned PROVE IInv'
<1> USE DEF IInv
<1>1. Rearranges(ToSet(queue))
  BY CollectKeeps DEF TypeOK, BatchReturned
<1>2. ToSet(batch) = {}
  BY DEF Places, BatchReturned, ToSet
<1>3. Unresolved = {r \in ToSet(inflight) : future[r] = "pending"}
  BY DEF Unresolved
<1>4. ASSUME NEW r \in Unresolved PROVE ResultFor(r) = r
  <2>1. results = inflight
    BY DEF Places, BatchReturned
  <2>2. \E i \in DOMAIN inflight : inflight[i] = r
    BY <1>3 DEF ToSet
  <2>3. QED BY <2>1, <2>2 DEF ResultFor
<1>5. /\ future' = [r \in Requests |-> IF r \in Unresolved THEN "result" ELSE future[r]]
      /\ value' = [r \in Requests |-> IF r \in Unresolved THEN r ELSE value[r]]
  BY <1>4 DEF BatchReturned, ResolveBatch
<1>6. TypeOK'
  <2>1. future' \in [Requests -> States] /\ value' \in [Requests -> Requests \cup {"none"}]
    BY <1>5 DEF TypeOK, States
  <2>2. <<>> \in Seq(Requests)
    OBVIOUS
  <2>3. QED BY <1>1, <2>1, <2>2 DEF TypeOK, Rearranges, BatchReturned
<1>7. Places'
  BY <1>1 DEF Places, Rearranges, BatchReturned
<1>8. NoneForgotten'
  <2>1. ASSUME NEW r \in Requests, future'[r] = "pending"
        PROVE  r \in ToSet(queue') \cup ToSet(batch') \cup ToSet(inflight') \cup dropped'
    <3>1. future[r] = "pending" /\ r \notin Unresolved
      BY <1>5, <2>1
    <3>2. r \in ToSet(queue) \cup dropped
      BY <1>2, <1>3, <3>1 DEF NoneForgotten
    <3>3. QED BY <1>1, <3>2 DEF Rearranges, BatchReturned
  <2>2. ~BatchWindow => dropped' = {}
    BY DEF NoneForgotten, BatchReturned
  <2>3. QED BY <2>1, <2>2 DEF NoneForgotten
<1>9. OwnResult'
  BY <1>5 DEF OwnResult
<1>10. QED BY <1>6, <1>7, <1>8, <1>9

\* An engine error answers the whole batch, like a result does.
LEMMA BatchRaisedKeeps == ASSUME IInv, BatchRaised PROVE IInv'
<1> USE DEF IInv
<1>1. Rearranges(ToSet(queue))
  BY CollectKeeps DEF TypeOK, BatchRaised
<1>2. ToSet(batch) = {}
  BY DEF Places, BatchRaised, ToSet
<1>3. Unresolved = {r \in ToSet(inflight) : future[r] = "pending"}
  BY DEF Unresolved
<1>4. /\ engine \in Errors /\ engine # "pending" /\ engine # "result"
      /\ future' = [r \in Requests |-> IF r \in Unresolved THEN engine ELSE future[r]]
      /\ value' = value
  BY ErrorsAssumption DEF BatchRaised, FailBatch
<1>5. TypeOK'
  <2>1. future' \in [Requests -> States]
    BY <1>4 DEF TypeOK, States
  <2>2. QED BY <1>1, <1>4, <2>1 DEF TypeOK, Rearranges, BatchRaised
<1>6. Places'
  BY <1>1 DEF Places, Rearranges, BatchRaised
<1>7. NoneForgotten'
  <2>1. ASSUME NEW r \in Requests, future'[r] = "pending"
        PROVE  r \in ToSet(queue') \cup ToSet(batch') \cup ToSet(inflight') \cup dropped'
    <3>1. future[r] = "pending" /\ r \notin Unresolved
      BY <1>4, <2>1
    <3>2. r \in ToSet(queue) \cup dropped
      BY <1>2, <1>3, <3>1 DEF NoneForgotten
    <3>3. QED BY <1>1, <3>2 DEF Rearranges, BatchRaised
  <2>2. ~BatchWindow => dropped' = {}
    BY DEF NoneForgotten, BatchRaised
  <2>3. QED BY <2>1, <2>2 DEF NoneForgotten
<1>8. OwnResult'
  BY <1>4 DEF OwnResult
<1>9. QED BY <1>5, <1>6, <1>7, <1>8

\* The engine's thread touches only its own outcome.
LEMMA EngineKeeps == ASSUME IInv, Engine PROVE IInv'
<1> USE DEF IInv
<1>1. CASE EngineReturns
  <2>1. TypeOK'
    BY <1>1 DEF TypeOK, EngineReturns, client
  <2>2. Places'
    BY <1>1 DEF Places, EngineReturns
  <2>3. NoneForgotten' /\ OwnResult'
    BY <1>1 DEF NoneForgotten, OwnResult, EngineReturns, client
  <2>4. QED BY <2>1, <2>2, <2>3
<1>2. ASSUME NEW e \in Errors, EngineRaises(e) PROVE IInv'
  <2>1. TypeOK'
    BY <1>2 DEF TypeOK, EngineRaises, client
  <2>2. Places'
    BY <1>2, ErrorsAssumption DEF Places, EngineRaises
  <2>3. NoneForgotten' /\ OwnResult'
    BY <1>2 DEF NoneForgotten, OwnResult, EngineRaises, client
  <2>4. QED BY <2>1, <2>2, <2>3
<1>3. QED BY <1>1, <1>2 DEF Engine

\* stop asks the worker to end and changes nothing else.
LEMMA StopCancelsKeeps == ASSUME IInv, StopCancels PROVE IInv'
<1> USE DEF IInv
<1>1. TypeOK'
  BY DEF TypeOK, StopCancels, client
<1>2. Places'
  BY DEF Places, StopCancels
<1>3. NoneForgotten' /\ OwnResult'
  BY DEF NoneForgotten, OwnResult, StopCancels, client
<1>4. QED BY <1>1, <1>2, <1>3

\* Whoever leaves the lists here is recorded in `dropped`, and without a window
\* the cancelled worker was collecting nobody.
LEMMA WorkerCancelledKeeps == ASSUME IInv, WorkerCancelled PROVE IInv'
<1> USE DEF IInv
<1>1. <<>> \in Seq(Requests) /\ ToSet(<<>>) = {}
  BY DEF ToSet
<1>2. ToSet(batch) \subseteq Requests
  BY DEF TypeOK, ToSet
<1>3. ~BatchWindow => ToSet(batch) = {}
  BY <1>1 DEF Places
<1>4. TypeOK'
  BY <1>1, <1>2 DEF TypeOK, WorkerCancelled, client
<1>5. Places'
  BY DEF Places, WorkerCancelled
<1>6. NoneForgotten'
  BY <1>1, <1>3 DEF NoneForgotten, WorkerCancelled, client
<1>7. OwnResult'
  BY DEF OwnResult, WorkerCancelled, client
<1>8. QED BY <1>4, <1>5, <1>6, <1>7

\* stop answers exactly those the lists still hold.
LEMMA StopReturnsKeeps == ASSUME IInv, StopReturns PROVE IInv'
<1> USE DEF IInv
<1>1. <<>> \in Seq(Requests) /\ Len(<<>>) = 0 /\ 0 <= QueueMaxsize /\ ToSet(<<>>) = {}
  BY SizeAssumption DEF ToSet
<1>2. batch = <<>>
  BY DEF Places, StopReturns
<1>3. Abandoned = {r \in ToSet(inflight) \cup ToSet(queue) : future[r] = "pending"}
  BY ConcatSet DEF Abandoned, TypeOK
<1>4. TypeOK'
  BY <1>1 DEF TypeOK, StopReturns, States
<1>5. Places'
  <2>1. worker = "idle" /\ engine = "idle"
    BY DEF Places, StopReturns
  <2>2. QED BY <1>2, <2>1 DEF Places, StopReturns
<1>6. NoneForgotten'
  BY <1>1, <1>2, <1>3 DEF NoneForgotten, StopReturns, TypeOK
<1>7. OwnResult'
  BY DEF OwnResult, StopReturns, TypeOK
<1>8. QED BY <1>4, <1>5, <1>6, <1>7

-----------------------------------------------------------------------------
(* Theorems.                                                               *)

\* Every step of the batcher keeps the invariant.
LEMMA NextIInv == ASSUME IInv, [Next]_vars PROVE IInv'
<1>1. CASE Start
  BY <1>1, StartKeeps
<1>2. CASE Caller
  BY <1>2, SubmitKeeps, RefuseKeeps, AbandonKeeps DEF Caller
<1>3. CASE Worker
  BY <1>3, FirstRequestKeeps, StragglersKeeps, WindowClosesKeeps,
     BatchReturnedKeeps, BatchRaisedKeeps DEF Worker
<1>4. CASE Engine
  BY <1>4, EngineKeeps
<1>5. CASE StopCancels \/ WorkerCancelled \/ StopReturns
  BY <1>5, StopCancelsKeeps, WorkerCancelledKeeps, StopReturnsKeeps
<1>6. CASE UNCHANGED vars
  BY <1>6 DEF vars, client, IInv, TypeOK, Places, NoneForgotten, OwnResult
<1>7. QED BY <1>1, <1>2, <1>3, <1>4, <1>5, <1>6 DEF Next

\* IInv is an invariant: the type invariant, where the worker's lists may be
\* non-empty, who holds a waiting request, and whose result a future carries.
THEOREM Invariance == Spec => []IInv
BY InitIInv, NextIInv, PTL DEF Spec

\* The state of the batcher is well formed; in particular submit never lets the
\* queue outgrow queue_maxsize.
THEOREM TypeCorrect == Spec => []TypeOK
<1>1. IInv => TypeOK
  BY DEF IInv
<1>2. QED BY <1>1, Invariance, PTL

\* A future that is resolved with a result carries the result of its own
\* request.
THEOREM ResultsAreOwn == Spec => []OwnResult
<1>1. IInv => OwnResult
  BY DEF IInv
<1>2. QED BY <1>1, Invariance, PTL

\* When the batcher is down no list holds anybody, so whoever still waits was
\* dropped.
LEMMA StoppedIsEmpty ==
    ASSUME IInv, task = "none", NEW r \in Requests, future[r] = "pending"
    PROVE  r \in dropped
<1>1. queue = <<>> /\ batch = <<>> /\ inflight = <<>>
  BY DEF IInv, Places
<1>2. ToSet(queue) = {} /\ ToSet(batch) = {} /\ ToSet(inflight) = {}
  BY <1>1 DEF ToSet
<1>3. QED BY <1>2 DEF IInv, NoneForgotten

\* When stop has returned, a future is still pending only if its request was in
\* the batch the cancelled worker was collecting.
THEOREM StopAnswersTheHeld == Spec => []StopAnswersHeld
<1>1. IInv => StopAnswersHeld
  BY StoppedIsEmpty DEF StopAnswersHeld
<1>2. QED BY <1>1, Invariance, PTL

\* Without a batching window stop keeps the README's promise to the letter: no
\* future is left pending.
THEOREM StopWithoutWindow == ASSUME ~BatchWindow PROVE Spec => []StopAnswersAll
<1>1. IInv => StopAnswersAll
  BY StoppedIsEmpty DEF StopAnswersAll, IInv, NoneForgotten
<1>2. QED BY <1>1, Invariance, PTL

\* No step touches a future that is resolved, failed or cancelled.
LEMMA SettledStays ==
    ASSUME TypeOK, Next, NEW r \in Requests, future[r] \notin {"unsubmitted", "pending"}
    PROVE  future'[r] = future[r] /\ value'[r] = value[r]
<1> USE DEF TypeOK
<1>1. CASE Start \/ Engine \/ StopCancels \/ WorkerCancelled
  BY <1>1 DEF Start, Engine, EngineReturns, EngineRaises, StopCancels,
              WorkerCancelled, client
<1>2. CASE Caller
  BY <1>2 DEF Caller, Submit, Refuse, Abandon
<1>3. CASE FirstRequest \/ Stragglers \/ WindowCloses
  BY <1>3 DEF FirstRequest, Stragglers, WindowCloses, client
<1>4. CASE BatchReturned
  BY <1>4 DEF BatchReturned, ResolveBatch, Unresolved
<1>5. CASE BatchRaised
  BY <1>5 DEF BatchRaised, FailBatch, Unresolved
<1>6. CASE StopReturns
  BY <1>6 DEF StopReturns, Abandoned
<1>7. QED BY <1>1, <1>2, <1>3, <1>4, <1>5, <1>6 DEF Next, Worker

\* A resolved, failed or cancelled future never changes again.
THEOREM Final == Spec => AnswersAreFinal
<1> DEFINE Settled(r) == future[r] \notin {"unsubmitted", "pending"}
           Same(r) == future'[r] = future[r] /\ value'[r] = value[r]
<1>1. TypeOK /\ [Next]_vars => [\A r \in Requests : Settled(r) => Same(r)]_vars
  BY SettledStays
<1>2. QED BY <1>1, TypeCorrect, PTL DEF Spec, AnswersAreFinal

-----------------------------------------------------------------------------
(* The batcher neither loses nor doubles a request: IInv says that whoever  *)
(* waits is in one of its lists; from here on, that nobody is in two places. *)

\* Three lists without repetitions and without a common request.
Apart(q, b, f) ==
    /\ IsInjective(q) /\ IsInjective(b) /\ IsInjective(f)
    /\ ToSet(q) \cap ToSet(b) = {}
    /\ ToSet(q) \cap ToSet(f) = {}
    /\ ToSet(b) \cap ToSet(f) = {}

\* Only submit brings a request in, so it cannot be in already.
Fresh ==
    \A r \in Requests : future[r] = "unsubmitted" =>
        r \notin ToSet(queue) \cup ToSet(batch) \cup ToSet(inflight)

OInv == Apart(queue, batch, inflight) /\ Fresh

-----------------------------------------------------------------------------
(* Lemmas about lists without repetitions.                                 *)

\* The two parts of such a list have no repetitions and nothing in common.
LEMMA SplitOnce ==
    ASSUME NEW s \in Seq(Requests), NEW n \in 0..Len(s), IsInjective(s)
    PROVE  /\ IsInjective(SubSeq(s, 1, n))
           /\ IsInjective(SubSeq(s, n + 1, Len(s)))
           /\ ToSet(SubSeq(s, 1, n)) \cap ToSet(SubSeq(s, n + 1, Len(s))) = {}
<1> DEFINE a == SubSeq(s, 1, n)
           b == SubSeq(s, n + 1, Len(s))
<1>1. DOMAIN a = 1..n /\ \A i \in 1..n : a[i] = s[i]
  OBVIOUS
<1>2. DOMAIN b = 1..(Len(s) - n) /\ \A i \in 1..(Len(s) - n) : b[i] = s[n + i]
  OBVIOUS
<1> HIDE DEF a, b
<1>3. DOMAIN s = 1..Len(s) /\ Len(s) \in Nat
  OBVIOUS
<1>4. IsInjective(a)
  BY <1>1, <1>3 DEF IsInjective
<1>5. IsInjective(b)
  <2> SUFFICES ASSUME NEW i \in DOMAIN b, NEW j \in DOMAIN b, b[i] = b[j]
               PROVE  i = j
    BY DEF IsInjective
  <2>1. n + i \in DOMAIN s /\ n + j \in DOMAIN s /\ s[n + i] = s[n + j]
    BY <1>2, <1>3
  <2>2. n + i = n + j
    BY <2>1 DEF IsInjective
  <2>3. QED BY <1>2, <1>3, <2>2
<1>6. ToSet(a) \cap ToSet(b) = {}
  <2> SUFFICES ASSUME NEW i \in DOMAIN a, NEW j \in DOMAIN b, a[i] = b[j]
               PROVE  FALSE
    BY DEF ToSet
  <2>1. i \in DOMAIN s /\ n + j \in DOMAIN s /\ s[i] = s[n + j]
    BY <1>1, <1>2, <1>3
  <2>2. i = n + j
    BY <2>1 DEF IsInjective
  <2>3. QED BY <1>1, <1>2, <1>3, <2>2
<1>7. QED BY <1>4, <1>5, <1>6 DEF a, b

\* Putting two such lists together makes one, if they have nothing in common.
LEMMA ConcatOnce ==
    ASSUME NEW s \in Seq(Requests), NEW t \in Seq(Requests),
           IsInjective(s), IsInjective(t), ToSet(s) \cap ToSet(t) = {}
    PROVE  IsInjective(s \o t)
<1> DEFINE c == s \o t
<1>1. /\ DOMAIN c = 1..(Len(s) + Len(t))
      /\ \A i \in 1..Len(s) : c[i] = s[i]
      /\ \A i \in 1..Len(t) : c[Len(s) + i] = t[i]
      /\ Len(s) \in Nat /\ Len(t) \in Nat
      /\ DOMAIN s = 1..Len(s) /\ DOMAIN t = 1..Len(t)
  OBVIOUS
<1> HIDE DEF c
<1>2. \A i \in 1..Len(s), j \in 1..Len(t) : s[i] # t[j]
  BY <1>1 DEF ToSet
<1>3. ASSUME NEW i \in DOMAIN c, i > Len(s)
      PROVE  i - Len(s) \in 1..Len(t) /\ c[i] = t[i - Len(s)]
  <2>1. i - Len(s) \in 1..Len(t) /\ i = Len(s) + (i - Len(s))
    BY <1>1, <1>3
  <2>2. QED BY <1>1, <2>1
<1>4. SUFFICES ASSUME NEW i \in DOMAIN c, NEW j \in DOMAIN c, c[i] = c[j]
               PROVE  i = j
  BY DEF IsInjective, c
<1>5. CASE i <= Len(s) /\ j <= Len(s)
  BY <1>1, <1>4, <1>5 DEF IsInjective
<1>6. CASE i > Len(s) /\ j > Len(s)
  <2>1. i - Len(s) = j - Len(s)
    BY <1>1, <1>3, <1>4, <1>6 DEF IsInjective
  <2>2. QED BY <1>1, <2>1
<1>7. CASE i <= Len(s) /\ j > Len(s)
  BY <1>1, <1>2, <1>3, <1>4, <1>7
<1>8. CASE i > Len(s) /\ j <= Len(s)
  BY <1>1, <1>2, <1>3, <1>4, <1>8
<1>9. QED BY <1>1, <1>5, <1>6, <1>7, <1>8

\* The empty list.
LEMMA NobodyTwice == IsInjective(<<>>) /\ ToSet(<<>>) = {}
  BY DEF IsInjective, ToSet

-----------------------------------------------------------------------------
(* The worker's turns.                                                     *)

\* Whether the worker dispatches b or goes on waiting, it keeps b and the rest
\* apart.
LEMMA ExtendOnce ==
    ASSUME NEW b \in Seq(Requests), NEW rest \in Seq(Requests),
           IsInjective(b), IsInjective(rest), ToSet(b) \cap ToSet(rest) = {},
           Extend(b, rest)
    PROVE  Apart(queue', batch', inflight')
<1>1. CASE Dispatch(b, rest)
  BY <1>1, NobodyTwice DEF Dispatch, Apart
<1>2. CASE AwaitStraggler(b)
  BY <1>2, NobodyTwice DEF AwaitStraggler, Apart
<1>3. QED BY <1>1, <1>2 DEF Extend

\* Collecting the next batch splits the queue in two.
LEMMA CollectOnce ==
    ASSUME queue \in Seq(Requests), IsInjective(queue), CollectBatch
    PROVE  Apart(queue', batch', inflight')
<1>1. CASE queue = <<>>
  BY <1>1, NobodyTwice DEF CollectBatch, Apart
<1>2. CASE queue # <<>>
  <2> DEFINE n == Smaller(Len(queue), MaxBatchSize)
  <2>1. n \in 0..Len(queue)
    BY SizeAssumption DEF Smaller
  <2>2. Extend(Take(n), Leave(n))
    BY <1>2 DEF CollectBatch
  <2>3. Take(n) \in Seq(Requests) /\ Leave(n) \in Seq(Requests)
    BY <2>1, SplitSet DEF Take, Leave
  <2>4. /\ IsInjective(Take(n)) /\ IsInjective(Leave(n))
        /\ ToSet(Take(n)) \cap ToSet(Leave(n)) = {}
    BY <2>1, SplitOnce DEF Take, Leave
  <2>5. QED BY <2>2, <2>3, <2>4, ExtendOnce
<1>3. QED BY <1>1, <1>2

-----------------------------------------------------------------------------
(* The invariant.                                                          *)

\* A turn of the worker that leaves the lists apart and takes only from what
\* they held.
LEMMA TurnOnce ==
    ASSUME OInv, Apart(queue', batch', inflight'),
           ToSet(queue') \cup ToSet(batch') \cup ToSet(inflight')
               \subseteq ToSet(queue) \cup ToSet(batch) \cup ToSet(inflight),
           \A r \in Requests : future'[r] = "unsubmitted" => future[r] = "unsubmitted"
    PROVE  OInv'
  BY DEF OInv, Fresh, Apart

\* Stragglers: the batch grows by what leaves the queue.
LEMMA StragglersOnce == ASSUME IInv, OInv, Stragglers PROVE OInv'
<1>1. PICK n \in 1..Smaller(Len(queue), MaxBatchSize - Len(batch)) :
            Extend(batch \o Take(n), Leave(n))
  BY DEF Stragglers
<1>2. n \in 0..Len(queue)
  BY <1>1, SizeAssumption DEF Smaller, IInv, TypeOK
<1>3. /\ Take(n) \in Seq(Requests) /\ Leave(n) \in Seq(Requests)
      /\ Len(Leave(n)) <= QueueMaxsize
      /\ ToSet(queue) = ToSet(Take(n)) \cup ToSet(Leave(n))
      /\ IsInjective(Take(n)) /\ IsInjective(Leave(n))
      /\ ToSet(Take(n)) \cap ToSet(Leave(n)) = {}
  BY <1>2, SplitSet, SplitOnce, SizeAssumption DEF Take, Leave, IInv, TypeOK, OInv, Apart
<1>4. /\ batch \o Take(n) \in Seq(Requests)
      /\ ToSet(batch \o Take(n)) = ToSet(batch) \cup ToSet(Take(n))
      /\ IsInjective(batch \o Take(n))
  BY <1>3, ConcatSet, ConcatOnce DEF IInv, TypeOK, OInv, Apart
<1>5. ToSet(batch \o Take(n)) \cap ToSet(Leave(n)) = {}
  BY <1>3, <1>4 DEF OInv, Apart
<1>6. Apart(queue', batch', inflight')
  BY <1>1, <1>3, <1>4, <1>5, ExtendOnce
<1>7. Rearranges(ToSet(batch \o Take(n)) \cup ToSet(Leave(n)))
  BY <1>1, <1>3, <1>4, ExtendKeeps
<1>8. QED BY <1>3, <1>4, <1>6, <1>7, TurnOnce DEF Rearranges, Stragglers, client

\* Every step of the batcher keeps its lists apart.
LEMMA NextOInv == ASSUME IInv, OInv, [Next]_vars PROVE OInv'
<1> USE DEF IInv, TypeOK
<1>1. CASE FirstRequest
  <2>1. Rearranges(ToSet(queue)) /\ Apart(queue', batch', inflight')
    BY <1>1, CollectKeeps, CollectOnce DEF FirstRequest, OInv, Apart
  <2>2. QED BY <1>1, <2>1, TurnOnce DEF FirstRequest, Rearranges, client
<1>2. CASE Stragglers
  BY <1>2, StragglersOnce
<1>3. CASE WindowCloses
  <2>1. Rearranges(ToSet(batch) \cup ToSet(queue))
    BY <1>3, ExtendKeeps DEF WindowCloses, Extend
  <2>2. Apart(queue', batch', inflight')
    BY <1>3, ExtendOnce DEF WindowCloses, Extend, OInv, Apart
  <2>3. QED BY <1>3, <2>1, <2>2, TurnOnce DEF WindowCloses, Rearranges, client
<1>4. CASE BatchReturned \/ BatchRaised
  <2>1. Rearranges(ToSet(queue)) /\ Apart(queue', batch', inflight')
    BY <1>4, CollectKeeps, CollectOnce DEF BatchReturned, BatchRaised, OInv, Apart
  <2>2. \A r \in Requests : future'[r] = "unsubmitted" => future[r] = "unsubmitted"
    BY <1>4, ErrorsAssumption
       DEF BatchReturned, BatchRaised, ResolveBatch, FailBatch, Unresolved
  <2>3. QED BY <2>1, <2>2, TurnOnce DEF Rearranges
<1>5. ASSUME NEW r \in Requests, Submit(r) PROVE OInv'
  <2>1. /\ queue' = Append(queue, r) /\ queue' = queue \o <<r>>
        /\ ToSet(queue') = ToSet(queue) \cup {r}
        /\ UNCHANGED <<batch, inflight>>
    BY <1>5, AppendSet DEF Submit
  <2>2. <<r>> \in Seq(Requests) /\ IsInjective(<<r>>) /\ ToSet(<<r>>) = {r}
    BY DEF IsInjective, ToSet
  <2>3. r \notin ToSet(queue) \cup ToSet(batch) \cup ToSet(inflight)
    BY <1>5 DEF Submit, OInv, Fresh
  <2>4. IsInjective(queue')
    <3>1. ToSet(queue) \cap ToSet(<<r>>) = {} /\ IsInjective(queue)
      BY <2>2, <2>3 DEF OInv, Apart
    <3>2. IsInjective(queue \o <<r>>)
      BY <2>2, <3>1, ConcatOnce
    <3>3. QED BY <2>1, <3>2
  <2>5. Apart(queue', batch', inflight')
    BY <2>1, <2>3, <2>4 DEF OInv, Apart
  <2>6. Fresh'
    BY <1>5, <2>1 DEF Fresh, OInv, Submit
  <2>7. QED BY <2>5, <2>6 DEF OInv
<1>6. ASSUME NEW r \in Requests,
             Abandon(r) \/ \E why \in {"not_started", "queue_full"} : Refuse(r, why)
      PROVE  OInv'
  BY <1>6 DEF Abandon, Refuse, OInv, Apart, Fresh
<1>7. CASE Engine \/ StopCancels \/ UNCHANGED vars
  BY <1>7 DEF Engine, EngineReturns, EngineRaises, StopCancels, vars, client, OInv, Apart, Fresh
<1>8. CASE Start \/ WorkerCancelled
  <2>1. /\ queue' \in {queue, <<>>} /\ batch' \in {batch, <<>>} /\ UNCHANGED inflight
        /\ UNCHANGED future
    BY <1>8 DEF Start, WorkerCancelled, client
  <2>2. QED BY <2>1, NobodyTwice DEF OInv, Apart, Fresh
<1>9. CASE StopReturns
  <2>1. queue' = <<>> /\ inflight' = <<>> /\ UNCHANGED batch
    BY <1>9 DEF StopReturns
  <2>2. \A r \in Requests : future'[r] = "unsubmitted" => future[r] = "unsubmitted"
    BY <1>9 DEF StopReturns, Abandoned
  <2>3. QED BY <2>1, <2>2, NobodyTwice DEF OInv, Apart, Fresh
<1>10. QED
  BY <1>1, <1>2, <1>3, <1>4, <1>5, <1>6, <1>7, <1>8, <1>9 DEF Next, Caller, Worker

-----------------------------------------------------------------------------
(* Theorems.                                                               *)

\* Nobody is in two places of the batcher's lists.
THEOREM HeldOnce == Spec => []OInv
<1>1. Init => OInv
  BY NobodyTwice DEF Init, OInv, Apart, Fresh
<1>2. IInv /\ OInv /\ [Next]_vars => OInv'
  BY NextOInv
<1>3. QED BY <1>1, <1>2, Invariance, PTL DEF Spec

\* A caller that still waits is in exactly one place of the batcher, unless the
\* worker was cancelled while it collected it.
THEOREM WaitingAreHeld == Spec => []WaitingIsHeld
<1>1. ASSUME IInv, OInv PROVE WaitingIsHeld
  <2> USE DEF IInv, TypeOK
  <2>1. /\ queue \o batch \in Seq(Requests) /\ IsInjective(queue \o batch)
        /\ ToSet(queue \o batch) = ToSet(queue) \cup ToSet(batch)
    BY <1>1, ConcatSet, ConcatOnce DEF OInv, Apart
  <2>2. ToSet(queue \o batch) \cap ToSet(inflight) = {}
    BY <1>1, <2>1 DEF OInv, Apart
  <2>3. IsInjective((queue \o batch) \o inflight)
    BY <1>1, <2>1, <2>2, ConcatOnce DEF OInv, Apart
  <2>4. ToSet((queue \o batch) \o inflight) = ToSet(queue) \cup ToSet(batch) \cup ToSet(inflight)
    BY <1>1, <2>1, ConcatSet
  <2>5. IsInjective(Held) /\ ToSet(Held) = ToSet(queue) \cup ToSet(batch) \cup ToSet(inflight)
    BY <2>3, <2>4 DEF Held
  <2>6. ASSUME NEW r \in Requests, future[r] = "pending", r \notin dropped
        PROVE  \E i \in DOMAIN Held : \A j \in DOMAIN Held : Held[j] = r <=> j = i
    <3>1. PICK i \in DOMAIN Held : Held[i] = r
      BY <1>1, <2>5, <2>6 DEF NoneForgotten, ToSet
    <3>2. QED BY <2>5, <3>1 DEF IsInjective
  <2>7. QED BY <2>6 DEF WaitingIsHeld
<1>2. QED BY <1>1, Invariance, HeldOnce, PTL

-----------------------------------------------------------------------------
(* The refinement: requests are served in the order submit accepted them,  *)
(* in whole groups.                                                        *)

\* The worker waits for stragglers only while its batch has room for one.
Room == Len(batch) < MaxBatchSize

\* A turn of the worker: the first n of the line become the served group.
Splits ==
    \E n \in 0..MaxBatchSize :
        /\ n <= Len(batch \o queue)
        /\ inflight' = SubSeq(batch \o queue, 1, n)
        /\ batch' \o queue' = SubSeq(batch \o queue, n + 1, Len(batch \o queue))

-----------------------------------------------------------------------------
(* Lemmas about the line.                                                  *)

\* A concatenation splits where it was joined.
LEMMA ConcatParts ==
    ASSUME NEW s \in Seq(Requests), NEW t \in Seq(Requests)
    PROVE  /\ s \o t \in Seq(Requests)
           /\ Len(s \o t) = Len(s) + Len(t)
           /\ SubSeq(s \o t, 1, Len(s)) = s
           /\ SubSeq(s \o t, Len(s) + 1, Len(s \o t)) = t
           /\ SubSeq(s \o t, 1, 0) = <<>>
           /\ SubSeq(s \o t, 1, Len(s \o t)) = s \o t
<1> DEFINE c == s \o t
           a == SubSeq(c, 1, Len(s))
           b == SubSeq(c, Len(s) + 1, Len(c))
<1>1. /\ c \in Seq(Requests) /\ Len(c) = Len(s) + Len(t)
      /\ \A i \in 1..Len(c) : c[i] = IF i <= Len(s) THEN s[i] ELSE t[i - Len(s)]
      /\ Len(s) \in Nat /\ Len(t) \in Nat
  BY ConcatProperties, LenProperties
<1> HIDE DEF c
<1>2. a \in Seq(Requests) /\ Len(a) = Len(s) /\ \A i \in 1..Len(s) : a[i] = c[i]
  BY <1>1
<1>3. b \in Seq(Requests) /\ Len(b) = Len(t) /\ \A i \in 1..Len(t) : b[i] = c[Len(s) + i]
  BY <1>1
<1> HIDE DEF a, b
<1>4. a = s
  <2>1. \A i \in 1..Len(a) : a[i] = s[i]
    BY <1>1, <1>2
  <2>2. QED BY <1>2, <2>1, SeqEqual
<1>5. b = t
  <2>1. ASSUME NEW i \in 1..Len(b) PROVE b[i] = t[i]
    <3>1. Len(s) + i \in 1..Len(c) /\ ~(Len(s) + i <= Len(s)) /\ (Len(s) + i) - Len(s) = i
      BY <1>1, <1>3
    <3>2. c[Len(s) + i] = t[i]
      BY <1>1, <3>1
    <3>3. QED BY <1>3, <3>2
  <2>2. QED BY <1>3, <2>1, SeqEqual
<1>6. SubSeq(c, 1, 0) = <<>> /\ SubSeq(c, 1, Len(c)) = c
  BY <1>1, SubSeqEmpty, SubSeqFull
<1>7. QED BY <1>1, <1>4, <1>5, <1>6 DEF a, b, c

\* Concatenation is associative on sequences of requests.
LEMMA Regroup ==
    ASSUME NEW s \in Seq(Requests), NEW t \in Seq(Requests), NEW u \in Seq(Requests)
    PROVE  (s \o t) \o u = s \o (t \o u)
BY ConcatAssociative

\* What the worker takes and what it leaves make up the queue.
LEMMA TakeLeave ==
    ASSUME queue \in Seq(Requests), NEW n \in 0..Len(queue)
    PROVE  Take(n) \o Leave(n) = queue
<1>1. SubSeq(queue, 1, n) \o SubSeq(queue, n + 1, Len(queue)) = SubSeq(queue, 1, Len(queue))
  <2>1. 1 \in 1..Len(queue) + 1 /\ n \in 1 - 1..Len(queue) /\ Len(queue) \in n..Len(queue)
    BY LenProperties
  <2>2. QED BY <2>1, ConcatAdjacentSubSeq
<1>2. QED BY <1>1, SubSeqFull DEF Take, Leave

\* Dispatching or waiting on, the worker splits the line b and rest make.
LEMMA ExtendSplits ==
    ASSUME NEW b \in Seq(Requests), NEW rest \in Seq(Requests), Len(b) <= MaxBatchSize,
           b \o rest = batch \o queue, Extend(b, rest)
    PROVE  Splits
<1> DEFINE line == batch \o queue
<1>0. /\ Len(b) \in 0..MaxBatchSize /\ 0 \in 0..MaxBatchSize
      /\ Len(b) <= Len(line) /\ 0 <= Len(line)
      /\ SubSeq(line, 1, Len(b)) = b
      /\ SubSeq(line, Len(b) + 1, Len(line)) = rest
      /\ SubSeq(line, 1, 0) = <<>>
      /\ SubSeq(line, 0 + 1, Len(line)) = b \o rest
  <2>1. Len(b) \in Nat /\ Len(rest) \in Nat /\ line = b \o rest
    BY LenProperties
  <2>2. /\ Len(b \o rest) = Len(b) + Len(rest)
        /\ SubSeq(b \o rest, 1, Len(b)) = b
        /\ SubSeq(b \o rest, Len(b) + 1, Len(b \o rest)) = rest
        /\ SubSeq(b \o rest, 1, 0) = <<>>
        /\ SubSeq(b \o rest, 1, Len(b \o rest)) = b \o rest
    BY ConcatParts
  <2> HIDE DEF line
  <2>3. /\ Len(line) = Len(b) + Len(rest)
        /\ SubSeq(line, 1, Len(b)) = b
        /\ SubSeq(line, Len(b) + 1, Len(line)) = rest
        /\ SubSeq(line, 1, 0) = <<>>
        /\ SubSeq(line, 1, Len(line)) = b \o rest
    BY <2>1, <2>2, Zenon
  <2>4. /\ Len(b) \in 0..MaxBatchSize /\ 0 \in 0..MaxBatchSize
        /\ Len(b) <= Len(line) /\ 0 <= Len(line)
    BY <2>1, <2>3, SizeAssumption
  <2>5. SubSeq(line, 0 + 1, Len(line)) = b \o rest
    <3>1. 0 + 1 = 1
      OBVIOUS
    <3>2. QED BY <2>3, <3>1, Zenon
  <2>6. QED BY <2>3, <2>4, <2>5, Zenon
<1>1. CASE Dispatch(b, rest)
  <2>1. batch' \o queue' = rest /\ inflight' = b
    BY <1>1, ConcatEmptySeq DEF Dispatch
  <2> HIDE DEF line
  <2>2. \E n \in 0..MaxBatchSize :
            /\ n <= Len(line)
            /\ inflight' = SubSeq(line, 1, n)
            /\ batch' \o queue' = SubSeq(line, n + 1, Len(line))
    <3>1. WITNESS Len(b) \in 0..MaxBatchSize
    <3>2. QED BY <1>0, <2>1
  <2>3. QED BY <2>2 DEF Splits, line
<1>2. CASE rest = <<>> /\ AwaitStraggler(b)
  <2>1. batch' \o queue' = b \o rest /\ inflight' = <<>>
    BY <1>2 DEF AwaitStraggler
  <2> HIDE DEF line
  <2>2. \E n \in 0..MaxBatchSize :
            /\ n <= Len(line)
            /\ inflight' = SubSeq(line, 1, n)
            /\ batch' \o queue' = SubSeq(line, n + 1, Len(line))
    <3> USE SizeAssumption
    <3>1. WITNESS 0 \in 0..MaxBatchSize
    <3>2. QED BY <1>0, <2>1
  <2>3. QED BY <2>2 DEF Splits, line
<1>3. QED BY <1>1, <1>2 DEF Extend

\* Collecting a batch splits the line, which is then the queue.
LEMMA CollectSplits ==
    ASSUME IInv, batch = <<>>, CollectBatch
    PROVE  Splits
<1>0. queue \in Seq(Requests) /\ batch \o queue = queue /\ <<>> \in Seq(Requests)
  BY ConcatEmptySeq DEF IInv, TypeOK
<1>1. CASE queue = <<>>
  <2>1. batch' \o queue' = <<>> /\ inflight' = <<>>
    BY <1>0, <1>1 DEF CollectBatch
  <2>2. SubSeq(<<>>, 1, 0) = <<>> /\ Len(<<>>) = 0 /\ 0 \in 0..MaxBatchSize
    BY SizeAssumption, SubSeqEmpty
  <2>3. QED BY <1>0, <1>1, <2>1, <2>2 DEF Splits
<1>2. CASE queue # <<>>
  <2> DEFINE n == Smaller(Len(queue), MaxBatchSize)
  <2>1. n \in 0..Len(queue) /\ n <= MaxBatchSize
    BY <1>0, SizeAssumption DEF Smaller
  <2>2. Extend(Take(n), Leave(n))
    BY <1>2 DEF CollectBatch
  <2>3. Take(n) \in Seq(Requests) /\ Leave(n) \in Seq(Requests) /\ Len(Take(n)) = n
    BY <1>0, <2>1, SplitSet DEF Take, Leave
  <2>4. Take(n) \o Leave(n) = batch \o queue
    BY <1>0, <2>1, TakeLeave
  <2> HIDE DEF n
  <2>5. QED BY <2>1, <2>2, <2>3, <2>4, ExtendSplits
<1>3. QED BY <1>1, <1>2

\* Stragglers join the batch from the queue behind it.
LEMMA StragglersSplit == ASSUME IInv, Room, Stragglers PROVE Splits
<1>0. queue \in Seq(Requests) /\ batch \in Seq(Requests) /\ MaxBatchSize \in Nat \ {0}
  BY SizeAssumption DEF IInv, TypeOK
<1>1. PICK n \in 1..Smaller(Len(queue), MaxBatchSize - Len(batch)) :
            Extend(batch \o Take(n), Leave(n))
  BY DEF Stragglers
<1>2. n \in 0..Len(queue) /\ Len(batch) + n <= MaxBatchSize
  BY <1>0, <1>1 DEF Smaller, Room
<1>3. Take(n) \in Seq(Requests) /\ Leave(n) \in Seq(Requests) /\ Len(Take(n)) = n
  BY <1>0, <1>2, SplitSet DEF Take, Leave
<1>4. (batch \o Take(n)) \o Leave(n) = batch \o queue
  <2>1. Take(n) \o Leave(n) = queue
    BY <1>0, <1>2, TakeLeave
  <2>2. (batch \o Take(n)) \o Leave(n) = batch \o (Take(n) \o Leave(n))
    BY <1>0, <1>3, Regroup, Zenon
  <2>3. QED BY <2>1, <2>2
<1>5. batch \o Take(n) \in Seq(Requests) /\ Len(batch \o Take(n)) <= MaxBatchSize
  BY <1>0, <1>2, <1>3, ConcatParts
<1>6. QED BY <1>1, <1>3, <1>4, <1>5, ExtendSplits

-----------------------------------------------------------------------------
(* Every step of the batcher is a step of the service.                     *)

\* A turn of the worker while the batcher is open, given what it answers.
LEMMA TurnOfService ==
    ASSUME task = "running", task' = "running", Splits,
           \/ /\ future' = Fifo!Answered(inflight, "result")
              /\ value' = [r \in Requests |->
                             IF future'[r] # future[r] THEN r ELSE value[r]]
           \/ /\ \E e \in Errors : future' = Fifo!Answered(inflight, e)
              /\ UNCHANGED value
    PROVE  Fifo!Next
<1>1. PICK n \in 0..MaxBatchSize :
            /\ n <= Len(batch \o queue)
            /\ inflight' = SubSeq(batch \o queue, 1, n)
            /\ batch' \o queue' = SubSeq(batch \o queue, n + 1, Len(batch \o queue))
  BY DEF Splits
<1>2. Fifo!Turn(n)
  BY <1>1 DEF Fifo!Turn
<1>3. QED BY <1>2 DEF Fifo!Next

\* The worker collects without having anybody to answer.
LEMMA CollectingIsTurn ==
    ASSUME IInv, Room, FirstRequest \/ Stragglers \/ WindowCloses
    PROVE  Fifo!Next
<1> USE DEF IInv, TypeOK
<1>1. inflight = <<>> /\ task = "running" /\ task' = "running" /\ UNCHANGED <<future, value>>
  BY DEF Places, FirstRequest, Stragglers, WindowCloses, client
<1>2. /\ future' = Fifo!Answered(inflight, "result")
      /\ value' = [r \in Requests |-> IF future'[r] # future[r] THEN r ELSE value[r]]
  <2>1. ToSet(<<>>) = {}
    BY DEF ToSet
  <2>2. QED BY <1>1, <2>1 DEF Fifo!Answered, Fifo!ToSet, ToSet
<1>3. Splits
  <2>1. CASE FirstRequest
    BY <2>1, CollectSplits DEF Places, FirstRequest
  <2>2. CASE Stragglers
    BY <2>2, StragglersSplit
  <2>3. CASE WindowCloses
    <3>1. Extend(batch, queue) /\ Len(batch) <= MaxBatchSize
      BY <2>3, SizeAssumption DEF WindowCloses, Extend, Room
    <3>2. QED BY <3>1, ExtendSplits
  <2>4. QED BY <2>1, <2>2, <2>3
<1>4. QED BY <1>1, <1>2, <1>3, TurnOfService

\* The worker answers its batch with the engine's results.
LEMMA ReturningIsTurn == ASSUME IInv, BatchReturned PROVE Fifo!Next
<1> USE DEF IInv, TypeOK
<1>1. task = "running" /\ task' = "running" /\ batch = <<>> /\ results = inflight
  BY DEF Places, BatchReturned
<1>2. ASSUME NEW r \in Unresolved PROVE ResultFor(r) = r
  <2>1. \E i \in DOMAIN inflight : inflight[i] = r
    BY DEF Unresolved, ToSet
  <2>2. QED BY <1>1, <2>1 DEF ResultFor
<1>3. \A r : r \in Unresolved <=> r \in Requests /\ r \in Fifo!ToSet(inflight) /\ future[r] = "pending"
  BY DEF Unresolved, ToSet, Fifo!ToSet
<1>4. future' = Fifo!Answered(inflight, "result")
  BY <1>3 DEF BatchReturned, ResolveBatch, Fifo!Answered
<1>5. value' = [r \in Requests |-> IF future'[r] # future[r] THEN r ELSE value[r]]
  BY <1>2, <1>3 DEF BatchReturned, ResolveBatch
<1>6. Splits
  BY <1>1, CollectSplits DEF BatchReturned
<1>7. QED BY <1>1, <1>4, <1>5, <1>6, TurnOfService

\* The worker answers its batch with the engine's exception.
LEMMA RaisingIsTurn == ASSUME IInv, BatchRaised PROVE Fifo!Next
<1> USE DEF IInv, TypeOK
<1>1. task = "running" /\ task' = "running" /\ batch = <<>> /\ engine \in Errors
  BY DEF Places, BatchRaised
<1>2. \A r : r \in Unresolved <=> r \in Requests /\ r \in Fifo!ToSet(inflight) /\ future[r] = "pending"
  BY DEF Unresolved, ToSet, Fifo!ToSet
<1>3. future' = Fifo!Answered(inflight, engine) /\ UNCHANGED value
  BY <1>2 DEF BatchRaised, FailBatch, Fifo!Answered
<1>4. Splits
  BY <1>1, CollectSplits DEF BatchRaised
<1>5. QED BY <1>1, <1>3, <1>4, TurnOfService

\* submit appends to the line, and its queue being full is a full line.
LEMMA SubmittingIsAccept ==
    ASSUME IInv, Room, NEW r \in Requests, Submit(r)
    PROVE  Fifo!Next
<1> USE DEF IInv, TypeOK
<1>1. /\ Len(batch) \in Nat /\ Len(queue) \in Nat /\ Len(batch \o queue) = Len(batch) + Len(queue)
      /\ ~BatchWindow => Len(batch) = 0
  BY ConcatProperties, LenProperties DEF Places
<1>2. Len(batch \o queue) < QueueMaxsize + Fifo!Collectable
  BY <1>1, SizeAssumption DEF Fifo!Collectable, Submit, Room
<1>3. batch' \o queue' = Append(batch \o queue, r)
  <2>1. /\ Append(queue, r) = queue \o <<r>>
        /\ Append(batch \o queue, r) = (batch \o queue) \o <<r>>
        /\ batch \o queue \in Seq(Requests) /\ <<r>> \in Seq(Requests)
    BY AppendIsConcat, ConcatProperties
  <2>2. (batch \o queue) \o <<r>> = batch \o (queue \o <<r>>)
    BY <2>1, ConcatAssociative
  <2>3. QED BY <2>1, <2>2 DEF Submit
<1>4. Fifo!Accept(r)
  BY <1>2, <1>3 DEF Submit, Fifo!Accept
<1>5. QED BY <1>4 DEF Fifo!Next

\* A refusal has the reason the service allows, and giving up is giving up.
LEMMA CallersLeave ==
    ASSUME IInv, NEW r \in Requests,
           Abandon(r) \/ \E why \in {"not_started", "queue_full"} : Refuse(r, why)
    PROVE  Fifo!Next
<1> USE DEF IInv, TypeOK
<1>1. CASE Abandon(r)
  <2>1. Fifo!GiveUp(r)
    BY <1>1 DEF Abandon, Fifo!GiveUp
  <2>2. QED BY <2>1 DEF Fifo!Next
<1>2. ASSUME NEW why \in {"not_started", "queue_full"}, Refuse(r, why) PROVE Fifo!Next
  <2>1. Len(queue) <= Len(batch \o queue)
    BY ConcatProperties, LenProperties
  <2>2. why = "queue_full" /\ Len(queue) >= QueueMaxsize => Len(batch \o queue) >= QueueMaxsize
    BY <2>1, SizeAssumption, ConcatProperties, LenProperties
  <2>3. Fifo!Refuse(r, why)
    BY <1>2, <2>2 DEF Refuse, Fifo!Refuse
  <2>4. QED BY <2>3 DEF Fifo!Next
<1>3. QED BY <1>1, <1>2

\* start opens the service; cancelling the worker closes it, and what the worker
\* was collecting leaves the line; when stop returns everybody else is answered.
LEMMA LifecycleIsOpenClose ==
    ASSUME IInv, Room, Start \/ WorkerCancelled \/ StopReturns
    PROVE  Fifo!Next
<1> USE DEF IInv, TypeOK
<1>1. CASE Start
  <2>1. batch' \o queue' = batch \o queue
    BY <1>1 DEF Start, Places
  <2>2. Fifo!Open
    BY <1>1, <2>1 DEF Start, Fifo!Open, client
  <2>3. QED BY <2>2 DEF Fifo!Next
<1>2. CASE WorkerCancelled
  <2>1. Len(batch) \in 0..Fifo!Collectable
    BY SizeAssumption, LenProperties DEF Fifo!Collectable, Room, Places
  <2>2. /\ Len(batch) <= Len(batch \o queue)
        /\ SubSeq(batch \o queue, Len(batch) + 1, Len(batch \o queue)) = queue
    BY ConcatParts, LenProperties
  <2>3. batch' \o queue' = queue
    BY <1>2, ConcatEmptySeq DEF WorkerCancelled
  <2>4. Fifo!Close(Len(batch))
    BY <1>2, <2>2, <2>3 DEF WorkerCancelled, Fifo!Close, client
  <2>5. QED BY <2>1, <2>4 DEF Fifo!Next
<1>3. CASE StopReturns
  <2>1. batch = <<>> /\ batch' = <<>> /\ batch' \o queue' = <<>> /\ batch \o queue = queue
    BY <1>3, ConcatEmptySeq DEF StopReturns, Places
  <2>2. \A r : r \in Abandoned <=> r \in Requests /\ r \in Fifo!ToSet(inflight \o (batch \o queue))
                                       /\ future[r] = "pending"
    <3>1. ToSet(inflight \o queue) \subseteq Requests
      BY ConcatSet DEF ToSet
    <3>2. QED BY <2>1, <3>1 DEF Abandoned, ToSet, Fifo!ToSet
  <2>3. future' = Fifo!Answered(inflight \o (batch \o queue), "shutdown")
    BY <1>3, <2>2 DEF StopReturns, Fifo!Answered
  <2>4. Fifo!Closed
    BY <1>3, <2>1, <2>3 DEF StopReturns, Fifo!Closed
  <2>5. QED BY <2>4 DEF Fifo!Next
<1>4. QED BY <1>1, <1>2, <1>3

\* The engine's own steps and the request to stop change nothing of the service.
LEMMA InvisibleSteps ==
    ASSUME IInv, Engine \/ StopCancels \/ UNCHANGED vars
    PROVE  UNCHANGED Fifo!vars
  BY DEF Engine, EngineReturns, EngineRaises, StopCancels, vars, client, Fifo!vars

\* All steps together.
LEMMA StepIsServiceStep ==
    ASSUME IInv, Room, [Next]_vars
    PROVE  [Fifo!Next]_(Fifo!vars)
<1>1. CASE FirstRequest \/ Stragglers \/ WindowCloses
  BY <1>1, CollectingIsTurn
<1>2. CASE BatchReturned \/ BatchRaised
  BY <1>2, ReturningIsTurn, RaisingIsTurn
<1>3. CASE Caller
  BY <1>3, SubmittingIsAccept, CallersLeave DEF Caller
<1>4. CASE Start \/ WorkerCancelled \/ StopReturns
  BY <1>4, LifecycleIsOpenClose
<1>5. CASE Engine \/ StopCancels \/ UNCHANGED vars
  BY <1>5, InvisibleSteps
<1>6. QED BY <1>1, <1>2, <1>3, <1>4, <1>5 DEF Next, Worker

\* The batch in the window never grows to a full one without being dispatched.
LEMMA RoomStays == ASSUME IInv, Room, [Next]_vars PROVE Room'
<1> USE SizeAssumption DEF Room
<1>1. Len(<<>>) = 0
  OBVIOUS
<1>2. \A b, rest : Extend(b, rest) => Len(batch') < MaxBatchSize
  BY <1>1 DEF Extend, Dispatch, AwaitStraggler
<1>3. CollectBatch => Len(batch') < MaxBatchSize
  BY <1>1, <1>2 DEF CollectBatch
<1>4. CASE Worker
  BY <1>1, <1>2, <1>3, <1>4 DEF Worker, FirstRequest, Stragglers, WindowCloses, Dispatch,
                               BatchReturned, BatchRaised
<1>5. CASE WorkerCancelled
  BY <1>1, <1>5 DEF WorkerCancelled
<1>6. CASE Start \/ Caller \/ Engine \/ StopCancels \/ StopReturns \/ UNCHANGED vars
  BY <1>6 DEF Start, Caller, Submit, Refuse, Abandon, Engine, EngineReturns, EngineRaises,
              StopCancels, StopReturns, vars
<1>7. QED BY <1>4, <1>5, <1>6 DEF Next

-----------------------------------------------------------------------------
(* Theorems.                                                               *)

\* A batch in the window always has room for a straggler.
THEOREM AlwaysRoom == Spec => []Room
<1>1. Init => Room
  BY SizeAssumption DEF Init, Room
<1>2. QED BY <1>1, RoomStays, Invariance, PTL DEF Spec

\* The batcher implements the FIFO service: it serves requests in the order submit
\* accepted them, answers a group as a whole before the next one, refuses nobody
\* while the queue has room, and forgets only what it was collecting when stopped.
THEOREM Implements == Spec => ServesInOrder
<1>1. Init => Fifo!Init
  BY ConcatEmptySeq DEF Init, Fifo!Init
<1>2. QED BY <1>1, StepIsServiceStep, AlwaysRoom, Invariance, PTL
          DEF Spec, ServesInOrder, Fifo!Spec

-----------------------------------------------------------------------------
(* The server.                                                             *)

Statuses == {"none", "waiting", "200", "400", "500", "503", "504"}

\* How a future may end without its caller's help.
Outcomes == {"result", "shutdown"} \cup Errors

\* A started batcher has a live worker until stop is called.
Alive == task = "running" => worker # "idle"

\* Where a handler is decides what its request's future may be.
HandlersInStep ==
    \A r \in Requests :
        /\ reply[r] = "none" => future[r] = "unsubmitted"
        /\ reply[r] = "waiting" => future[r] \in {"pending"} \cup Outcomes

SInv == /\ IInv
        /\ ready \in BOOLEAN
        /\ reply \in [Requests -> Statuses]
        /\ Alive
        /\ ready => task = "running"
        /\ HandlersInStep
        /\ LiveWhileWaited
        /\ StatusHasCause

-----------------------------------------------------------------------------
(* The server as a user of the batcher.                                    *)

\* Whatever the endpoint, its timers and the lifespan do to the batcher is one
\* of the batcher's own steps: they reach into none of its state.
LEMMA StepIsBatcherStep == [ServerNext]_serverVars => [Next]_vars
<1>1. Startup => Next
  BY DEF Startup, Next
<1>2. Shutdown => Next
  BY DEF Shutdown, Next
<1>3. EngineCall => Engine
  BY EngineExceptions DEF EngineCall, Engine
<1>4. Background => Next
  BY <1>3 DEF Background, Next
<1>5. ASSUME NEW r \in Requests, Completion(r) PROVE [Next]_vars
  BY <1>5 DEF Completion, Next, Caller
<1>6. ASSUME NEW r \in Requests, Deliver(r) PROVE [Next]_vars
  BY <1>6 DEF Deliver
<1>7. ASSUME NEW r \in Requests, Timeout(r) PROVE [Next]_vars
  BY <1>7 DEF Timeout, Next, Caller
<1>8. UNCHANGED serverVars => UNCHANGED vars
  BY DEF serverVars
<1>9. QED BY <1>1, <1>2, <1>4, <1>5, <1>6, <1>7, <1>8 DEF ServerNext

\* Every behaviour of the server is one of the batcher, so what is proved of the
\* batcher holds under the endpoint's traffic.
THEOREM ServerDrivesBatcher == ServerSpec => Spec
<1>1. ServerInit => Init
  BY DEF ServerInit
<1>2. QED BY <1>1, StepIsBatcherStep, PTL DEF ServerSpec, Spec

\* Clients of the endpoint are served in the order their requests were accepted,
\* in whole groups, and no answer is ever taken back.
THEOREM ClientsAreServedInOrder == ServerSpec => ServesInOrder /\ AnswersAreFinal
BY ServerDrivesBatcher, Implements, Final, PTL

-----------------------------------------------------------------------------
(* What the batcher's steps do to the worker and to the futures.           *)

\* Collecting a batch suspends the worker on some await.
LEMMA CollectingIsAlive == CollectBatch => worker' # "idle"
BY DEF CollectBatch, Extend, Dispatch, AwaitStraggler

\* No turn of the worker, no engine call and no caller ends the worker; it ends
\* when it is cancelled, and then the task is no longer running.
LEMMA AliveStays == ASSUME Alive, [Next]_vars PROVE Alive'
<1>1. \A b, rest : Extend(b, rest) => worker' # "idle"
  BY DEF Extend, Dispatch, AwaitStraggler
<1>2. CASE Worker
  BY <1>1, <1>2, CollectingIsAlive
     DEF Alive, Worker, FirstRequest, Stragglers, WindowCloses, Dispatch, BatchReturned,
         BatchRaised
<1>3. CASE Start \/ Caller \/ Engine \/ UNCHANGED vars
  BY <1>3 DEF Alive, Start, Caller, Submit, Refuse, Abandon, Engine, EngineReturns,
              EngineRaises, vars
<1>4. CASE StopCancels \/ WorkerCancelled \/ StopReturns
  BY <1>4 DEF Alive, StopCancels, WorkerCancelled, StopReturns
<1>5. QED BY <1>2, <1>3, <1>4 DEF Next

\* Between a handler's steps its future is only ever resolved, and only with a
\* result, the engine's error or the shutdown's.
LEMMA BackgroundResolves ==
    ASSUME IInv, Background, NEW r \in Requests
    PROVE  \/ future'[r] = future[r]
           \/ future[r] = "pending" /\ future'[r] \in Outcomes
<1> USE DEF IInv, TypeOK, Outcomes
<1>1. CASE FirstRequest \/ Stragglers \/ WindowCloses \/ EngineCall \/ WorkerCancelled
  BY <1>1 DEF FirstRequest, Stragglers, WindowCloses, EngineCall, EngineReturns, EngineRaises,
              WorkerCancelled, client
<1>2. CASE BatchReturned
  BY <1>2 DEF BatchReturned, ResolveBatch, Unresolved
<1>3. CASE BatchRaised
  BY <1>3 DEF BatchRaised, FailBatch, Unresolved
<1>4. CASE StopReturns
  BY <1>4 DEF StopReturns, Abandoned
<1>5. QED BY <1>1, <1>2, <1>3, <1>4 DEF Background, Worker

-----------------------------------------------------------------------------
(* The server's invariant.                                                 *)

\* Nobody has asked, nothing runs.
LEMMA ServerInitSInv == ServerInit => SInv
<1> SUFFICES ASSUME ServerInit PROVE SInv
  OBVIOUS
<1>1. IInv
  BY InitIInv DEF ServerInit
<1>2. QED
  BY <1>1 DEF SInv, ServerInit, Init, Statuses, Alive, HandlersInStep, LiveWhileWaited,
              StatusHasCause

\* Starting up and shutting down touch no handler and no future.
LEMMA LifespanKeeps == ASSUME SInv, IInv', Alive', Startup \/ Shutdown PROVE SInv'
<1>1. UNCHANGED <<reply, future, value>> /\ ready' \in BOOLEAN /\ (ready' => task' = "running")
  BY DEF SInv, Startup, Start, Shutdown, StopCancels, client
<1>2. QED
  BY <1>1 DEF SInv, HandlersInStep, LiveWhileWaited, StatusHasCause

\* A future that is resolved under a waiting handler leaves it waiting; the other
\* futures are settled or not submitted, and stay so.
LEMMA BackgroundKeeps == ASSUME SInv, IInv', Alive', Background PROVE SInv'
<1>1. UNCHANGED <<ready, reply>> /\ (task = "running" => task' = "running")
  <2>1. task = "running" => ~WorkerCancelled /\ ~StopReturns
    BY DEF WorkerCancelled, StopReturns
  <2>2. Worker \/ EngineCall => UNCHANGED task
    BY DEF Worker, FirstRequest, Stragglers, WindowCloses, BatchReturned, BatchRaised,
           EngineCall, EngineReturns, EngineRaises
  <2>3. QED BY <2>1, <2>2 DEF Background
<1>2. ASSUME NEW r \in Requests
      PROVE  \/ future'[r] = future[r]
             \/ future[r] = "pending" /\ future'[r] \in Outcomes
  BY BackgroundResolves DEF SInv
<1>3. "pending" \notin Outcomes /\ "unsubmitted" # "pending"
  BY ErrorsAssumption DEF Outcomes
<1>4. HandlersInStep' /\ LiveWhileWaited'
  BY <1>1, <1>2, <1>3 DEF SInv, HandlersInStep, LiveWhileWaited
<1>5. StatusHasCause'
  <2>1. ASSUME NEW r \in Requests, reply[r] \in {"200", "400", "500", "503"}
        PROVE  future'[r] = future[r]
    BY <1>2, <2>1 DEF SInv, LiveWhileWaited
  <2>2. OwnResult'
    BY DEF IInv
  <2>3. QED BY <1>1, <2>1, <2>2 DEF SInv, StatusHasCause, OwnResult
<1>6. QED BY <1>1, <1>4, <1>5 DEF SInv

\* The handler either answers at once, without a future, or waits on one.
LEMMA CompletionKeeps ==
    ASSUME SInv, IInv', Alive', NEW r \in Requests, Completion(r) PROVE SInv'
<1> USE DEF Completion, Reply
<1>1. reply[r] = "none" /\ future[r] = "unsubmitted" /\ reply \in [Requests -> Statuses]
  BY DEF SInv, HandlersInStep
<1>2. CASE \/ ~ready /\ Reply(r, "503") /\ UNCHANGED vars
           \/ r \in OverLimit /\ Reply(r, "400") /\ UNCHANGED vars
  BY <1>1, <1>2 DEF SInv, Statuses, HandlersInStep, LiveWhileWaited, StatusHasCause, vars
<1>3. CASE Submit(r) /\ Reply(r, "waiting")
  BY <1>1, <1>3 DEF SInv, IInv, TypeOK, Statuses, HandlersInStep, LiveWhileWaited,
                    StatusHasCause, Submit
<1>4. CASE ready /\ \E why \in {"not_started", "queue_full"} :
               Refuse(r, why) /\ Reply(r, IF why = "queue_full" THEN "503" ELSE "500")
  BY <1>1, <1>4 DEF SInv, IInv, TypeOK, Statuses, HandlersInStep, LiveWhileWaited,
                    StatusHasCause, Refuse
<1>5. QED BY <1>2, <1>3, <1>4

\* The status is the one the future's outcome calls for.
LEMMA DeliverKeeps ==
    ASSUME SInv, IInv', Alive', NEW r \in Requests, Deliver(r) PROVE SInv'
<1>1. /\ reply \in [Requests -> Statuses] /\ reply[r] = "waiting"
      /\ future[r] \in Outcomes
  BY DEF SInv, HandlersInStep, Deliver
<1>2. reply' = [reply EXCEPT ![r] = StatusOf(future[r])] /\ UNCHANGED <<ready, vars>>
  BY DEF Deliver, Reply
<1>3. /\ StatusOf(future[r]) \in {"200", "400", "500"}
      /\ StatusOf(future[r]) = "200" => future[r] = "result"
      /\ StatusOf(future[r]) = "400" => future[r] = "ContextLengthError"
      /\ StatusOf(future[r]) = "500" => future[r] \in {"RuntimeError", "shutdown"}
  BY <1>1, EngineExceptions DEF StatusOf, Outcomes
<1>4. future[r] # "pending"
  BY <1>1, ErrorsAssumption DEF Outcomes
<1>5. future[r] = "result" => value[r] = r
  BY DEF SInv, IInv, OwnResult
<1>6. QED
  BY <1>1, <1>2, <1>3, <1>4, <1>5
     DEF SInv, Statuses, HandlersInStep, LiveWhileWaited, StatusHasCause, vars, client

\* The timer answers 504, with the future cancelled or too late.
LEMMA TimeoutKeeps ==
    ASSUME SInv, IInv', Alive', NEW r \in Requests, Timeout(r) PROVE SInv'
<1>1. reply \in [Requests -> Statuses] /\ reply[r] = "waiting" /\ future \in [Requests -> States]
  BY DEF SInv, IInv, TypeOK, Timeout
<1>2. reply' = [reply EXCEPT ![r] = "504"] /\ UNCHANGED <<ready, value, task>>
  BY DEF Timeout, Reply, Abandon, vars, client
<1>3. \/ future' = [future EXCEPT ![r] = "cancelled"]
      \/ future[r] # "pending" /\ future' = future
  BY DEF Timeout, Abandon, vars, client
<1>4. QED
  BY <1>1, <1>2, <1>3 DEF SInv, Statuses, HandlersInStep, LiveWhileWaited, StatusHasCause

\* Every step of the server keeps its invariant.
LEMMA ServerStepKeeps == ASSUME SInv, [ServerNext]_serverVars PROVE SInv'
<1>1. IInv' /\ Alive'
  BY StepIsBatcherStep, NextIInv, AliveStays DEF SInv
<1>2. CASE UNCHANGED serverVars
  BY <1>1, <1>2 DEF serverVars, vars, client, SInv, HandlersInStep, LiveWhileWaited, StatusHasCause
<1>3. QED
  BY <1>1, <1>2, LifespanKeeps, BackgroundKeeps, CompletionKeeps, DeliverKeeps, TimeoutKeeps
     DEF ServerNext

\* The invariant of the endpoint and the batcher together.
THEOREM ServerInvariance == ServerSpec => []SInv
BY ServerInitSInv, ServerStepKeeps, PTL DEF ServerSpec

\* While /ready is open the batcher's worker is alive.
THEOREM OpenGateHasWorker == ServerSpec => []ReadyMeansRunning
<1>1. SInv => ReadyMeansRunning
  BY DEF SInv, Alive, ReadyMeansRunning
<1>2. QED BY <1>1, ServerInvariance, PTL

\* Nothing is computed for a client that has its answer already: a future is
\* pending only while its handler waits for it.
THEOREM NoOrphanedFutures == ServerSpec => []LiveWhileWaited
<1>1. SInv => LiveWhileWaited
  BY DEF SInv
<1>2. QED BY <1>1, ServerInvariance, PTL

\* Every status names the thing that happened: 200 the request's own result, 400 a
\* limit, 503 overload or a closed gate, 500 an engine error or the shutdown.
THEOREM StatusesAreTrue == ServerSpec => []StatusHasCause
<1>1. SInv => StatusHasCause
  BY DEF SInv
<1>2. QED BY <1>1, ServerInvariance, PTL
=============================================================================
