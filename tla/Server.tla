------------------------------- MODULE Server -------------------------------
(***************************************************************************)
(* llmserve.api: the completions endpoint and the application's lifespan,  *)
(* composed with the dynamic batcher.  A handler is a coroutine on the     *)
(* batcher's event loop: from its readiness check to its wait on the       *)
(* future it runs without suspending.                                      *)
(***************************************************************************)
EXTENDS Batcher

CONSTANTS OverLimit,   \* requests over max_new_tokens_limit or max_prompt_chars
          TooLong      \* requests whose prompt tokens + max_tokens exceed max_context

ASSUME RequestKinds == OverLimit \subseteq Requests /\ TooLong \subseteq Requests
ASSUME EngineExceptions == Errors = {"ContextLengthError", "RuntimeError"}

VARIABLES ready,       \* app.state.ready
          reply        \* "none" before the request, "waiting" in the handler, then
                       \* the HTTP status

serverVars == <<ready, reply, vars>>

ServerInit == /\ Init
              /\ ready = FALSE
              /\ reply = [r \in Requests |-> "none"]

Reply(r, status) == reply' = [reply EXCEPT ![r] = status]

-----------------------------------------------------------------------------
(* lifespan                                                                *)

\* Fault: ready only falls when stop has returned.
ShutdownThenUnready == /\ ready
                       /\ \/ StopCancels /\ UNCHANGED ready
                          \/ StopReturns /\ ready' = FALSE
                       /\ UNCHANGED reply

Startup == /\ Start
           /\ ready' = TRUE
           /\ UNCHANGED reply

Shutdown == /\ ready
            /\ ready' = FALSE
            /\ StopCancels
            /\ UNCHANGED reply

-----------------------------------------------------------------------------
(* completions                                                             *)

\* The handler up to its first suspension.
Completion(r) ==
    /\ reply[r] = "none"
    /\ \/ /\ ~ready
          /\ Reply(r, "503")
          /\ UNCHANGED vars
       \/ /\ ready /\ r \in OverLimit
          /\ Reply(r, "400")
          /\ UNCHANGED vars
       \/ /\ ready /\ r \notin OverLimit
          /\ \/ Submit(r) /\ Reply(r, "waiting")
             \/ \E why \in {"not_started", "queue_full"} :
                    /\ Refuse(r, why)
                    /\ Reply(r, IF why = "queue_full" THEN "503" ELSE "500")
    /\ UNCHANGED ready

\* Fault: the retriable server errors are reported as the client's.
StatusOfAnyError(outcome) == IF outcome = "result" THEN "200" ELSE "400"

\* What the handler makes of the future it awaited: a shutdown's RuntimeError and
\* any other engine error are nobody's except clause.
StatusOf(outcome) == CASE outcome = "result" -> "200"
                       [] outcome = "ContextLengthError" -> "400"
                       [] OTHER -> "500"

Deliver(r) == /\ reply[r] = "waiting"
              /\ future[r] # "pending"
              /\ Reply(r, StatusOf(future[r]))
              /\ UNCHANGED <<ready, vars>>

\* Fault: the handler shields the future it waits for.
TimeoutShielded(r) == /\ reply[r] = "waiting"
                      /\ Reply(r, "504")
                      /\ UNCHANGED <<ready, vars>>

\* Fault: no timeout around submit.
TimeoutNever(r) == FALSE /\ UNCHANGED serverVars

\* wait_for's timer.  It also beats an answer the handler has not resumed for.
Timeout(r) == /\ reply[r] = "waiting"
              /\ \/ Abandon(r)
                 \/ future[r] # "pending" /\ UNCHANGED vars
              /\ Reply(r, "504")
              /\ UNCHANGED ready

-----------------------------------------------------------------------------
(* The batcher's own steps, with the engine's check of every request of the *)
(* batch against the context.                                               *)

Fits == ToSet(inflight) \cap TooLong = {}

EngineCall == \/ Fits /\ EngineReturns
              \/ ~Fits /\ EngineRaises("ContextLengthError")
              \/ EngineRaises("RuntimeError")

Background == /\ Worker \/ EngineCall \/ WorkerCancelled \/ StopReturns
              /\ UNCHANGED <<ready, reply>>

ServerNext == \/ Startup
              \/ Shutdown
              \/ Background
              \/ \E r \in Requests : Completion(r) \/ Deliver(r) \/ Timeout(r)

ServerSpec == ServerInit /\ [][ServerNext]_serverVars

\* Ready coroutines run, timers fire and engine calls end; no request need
\* arrive, and nobody has to shut the server down.
ServerFairness ==
    /\ WF_serverVars(Worker /\ UNCHANGED <<ready, reply>>)
    /\ WF_serverVars(EngineCall /\ UNCHANGED <<ready, reply>>)
    /\ WF_serverVars((WorkerCancelled \/ StopReturns) /\ UNCHANGED <<ready, reply>>)
    /\ \A r \in Requests : WF_serverVars(Deliver(r)) /\ WF_serverVars(Timeout(r))
FairServerSpec == ServerSpec /\ ServerFairness

-----------------------------------------------------------------------------
(* Properties.                                                             *)

\* /ready is the gate for traffic: while it is open the batcher's worker is
\* alive, through engine errors, timeouts and the start of a shutdown.
ReadyMeansRunning == ready => task = "running" /\ worker # "idle"

\* A future is live exactly while its handler waits for it: no request computed
\* for a client that was already answered, no answer to a client whose request
\* the batcher still owes, whichever of timeout, result and shutdown came first.
LiveWhileWaited == \A r \in Requests : future[r] = "pending" => reply[r] = "waiting"

\* Overload and timeouts map to 503/504: a 500 means the engine failed or the
\* server went down under the request, a 400 that some limit or the engine's
\* context check spoke.
StatusHasCause ==
    \A r \in Requests :
        /\ reply[r] = "500" => future[r] \in {"RuntimeError", "shutdown"}
        /\ reply[r] = "400" => r \in OverLimit \/ future[r] = "ContextLengthError"
        /\ reply[r] = "200" => future[r] = "result" /\ value[r] = r
        /\ reply[r] = "503" => future[r] \in {"unsubmitted", "queue_full"}

\* Every client gets a reply, a request the shutdown dropped included: there the
\* timeout around submit is the only thing that answers.
EveryoneGetsAReply == \A r \in Requests : reply[r] = "waiting" ~> reply[r] # "waiting"

\* Back-pressure ends: timed-out requests keep their places in the queue, but a
\* full queue always drains, so 503 is never permanent.
BackpressureEnds == Len(queue) = QueueMaxsize ~> Len(queue) < QueueMaxsize

\* ContextLengthError says of a request that its prompt tokens + max_new_tokens
\* would exceed the model context.
ContextErrorIsOwn ==
    \A r \in Requests : future[r] = "ContextLengthError" => r \in TooLong
=============================================================================
