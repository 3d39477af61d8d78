---------------------------- MODULE FifoService ----------------------------
(***************************************************************************)
(* What the dynamic batcher of llmserve promises its callers, with neither *)
(* event loop nor worker task: one line of accepted requests, served from  *)
(* its head in groups, every group answered as a whole before the next one *)
(* begins, and a shutdown that answers whatever is left.  Batcher refines  *)
(* this specification.                                                     *)
(***************************************************************************)
EXTENDS Naturals, SequencesExt

CONSTANTS Requests,      \* the requests clients may ever submit
          GroupSize,     \* the most requests served together
          LineLimit,     \* no submission is refused while fewer wait
          Collects,      \* the service collects a group before it begins it
          Errors         \* what serving a group may end with

VARIABLES status,        \* "open", "closing" or "closed"
          line,          \* accepted and not yet being served, oldest first
          serving,       \* the group being served
          answer,        \* what each request got so far
          value          \* the request whose generation a result carries

vars == <<status, line, serving, answer, value>>

\* The requests of a group being collected are in the line and take no place
\* in it.
Collectable == IF Collects THEN GroupSize - 1 ELSE 0

Answered(group, how) ==
    [r \in Requests |-> IF r \in ToSet(group) /\ answer[r] = "pending"
                        THEN how ELSE answer[r]]

Init == /\ status = "closed"
        /\ line = <<>>
        /\ serving = <<>>
        /\ answer = [r \in Requests |-> "unsubmitted"]
        /\ value = [r \in Requests |-> "none"]

Open == /\ status = "closed"
        /\ status' = "open"
        /\ UNCHANGED <<line, serving, answer, value>>

Accept(r) == /\ status # "closed"
             /\ answer[r] = "unsubmitted"
             /\ Len(line) < LineLimit + Collectable
             /\ line' = Append(line, r)
             /\ answer' = [answer EXCEPT ![r] = "pending"]
             /\ UNCHANGED <<status, serving, value>>

\* Back-pressure is a full line, never a policy of the service.
Refuse(r, why) ==
    /\ answer[r] = "unsubmitted"
    /\ \/ why = "not_started" /\ status = "closed"
       \/ why = "queue_full" /\ status # "closed" /\ Len(line) >= LineLimit
    /\ answer' = [answer EXCEPT ![r] = why]
    /\ UNCHANGED <<status, line, serving, value>>

\* The caller gives up; the request keeps its place in the line.
GiveUp(r) == /\ answer[r] = "pending"
             /\ answer' = [answer EXCEPT ![r] = "cancelled"]
             /\ UNCHANGED <<status, line, serving, value>>

\* The whole group gets its own results, or the whole group fails; the next n
\* requests of the line (none, if nobody waits) become the group being served.
Turn(n) == /\ status = "open"
           /\ n <= Len(line)
           /\ serving' = SubSeq(line, 1, n)
           /\ line' = SubSeq(line, n + 1, Len(line))
           /\ \/ /\ answer' = Answered(serving, "result")
                 /\ value' = [r \in Requests |->
                                IF answer'[r] # answer[r] THEN r ELSE value[r]]
              \/ /\ \E e \in Errors : answer' = Answered(serving, e)
                 /\ UNCHANGED value
           /\ UNCHANGED status

\* A shutdown begins.  A group that is being collected is forgotten: this is
\* the one way a waiting request leaves the service unanswered.
Close(n) == /\ status = "open"
            /\ n <= Len(line)
            /\ status' = "closing"
            /\ line' = SubSeq(line, n + 1, Len(line))
            /\ UNCHANGED <<serving, answer, value>>

\* It ends: whoever is left is answered.
Closed == /\ status = "closing"
          /\ status' = "closed"
          /\ answer' = Answered(serving \o line, "shutdown")
          /\ line' = <<>>
          /\ serving' = <<>>
          /\ UNCHANGED value

Next == \/ Open
        \/ Closed
        \/ \E n \in 0..Collectable : Close(n)
        \/ \E n \in 0..GroupSize : Turn(n)
        \/ \E r \in Requests : \/ Accept(r)
                               \/ GiveUp(r)
                               \/ \E why \in {"not_started", "queue_full"} : Refuse(r, why)

Spec == Init /\ [][Next]_vars
=============================================================================
