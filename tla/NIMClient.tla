------------------------------ MODULE NIMClient ------------------------------
(***************************************************************************)
(* The NIM chat client (app/normalization/nim_client.py) over its key      *)
(* pool: the shared semaphore, the attempt loop of _request and the        *)
(* validation pass of complete_bulk.  A caller is one coroutine inside a   *)
(* public method; between two awaits it runs alone, so a step is the code  *)
(* from one await to the next.                                             *)
(*                                                                         *)
(* asyncio.Semaphore is external: acquire takes a free permit only when    *)
(* nobody waits, release hands the permit to the longest waiter.           *)
(* Text is abstracted to what the code tells apart: a line is "valid" (in  *)
(* the choices), "other" (not in them) or "empty".                         *)
(***************************************************************************)
EXTENDS NIMKeyPool, Sequences

CONSTANTS Limit,        \* NIM_CONCURRENCY_LIMIT
          MaxAttempts,  \* _MAX_RETRIES
          RetryDelay,   \* _RETRY_DELAY, in ticks
          MaxItems,     \* bound: items of one complete_bulk call
          Jobs          \* bound: the public methods this instance exercises

ASSUME CallersAssumption == IsFiniteSet(Callers)
ASSUME LimitAssumption == Limit \in Nat \ {0}
ASSUME AttemptsAssumption == MaxAttempts \in Nat \ {0}
ASSUME DelayAssumption == RetryDelay \in Nat
ASSUME ItemsAssumption == MaxItems \in Nat \ {0}
ASSUME JobsAssumption == Jobs \subseteq {"complete", "choices", "bulk", "health"}

VARIABLES pc,       \* which await the caller is at
          permits,  \* the semaphore's value
          queue,    \* the semaphore's waiters, longest first
          attempt,  \* the loop variable of _request
          delay,    \* ticks left of asyncio.sleep(_RETRY_DELAY)
          job,      \* the method; "requery" inside complete_bulk's second pass
          items,    \* len(items) of a bulk call
          lines,    \* lines of a bulk call, once its answer is parsed
          cursor,   \* the line being re-queried, counted from 1
          result,   \* what the last call returned or that it raised
          posts     \* history: posts that have ended during this call

clientVars == <<pc, permits, queue, attempt, delay, job, items, lines, cursor, result, posts>>
vars == <<poolVars, clientVars>>

Lines == {"valid", "other", "empty"}
Results == {"none", "valid", "other", "empty", "raised", "lines", "reachable", "unreachable"}
Holders == {c \in Callers : pc[c] \in {"request", "backoff"}}

Init ==
    /\ PoolInit
    /\ pc = [c \in Callers |-> "idle"]
    /\ permits = Limit
    /\ queue = <<>>
    /\ attempt = [c \in Callers |-> 0]
    /\ delay = [c \in Callers |-> 0]
    /\ job = [c \in Callers |-> "none"]
    /\ items = [c \in Callers |-> 0]
    /\ lines = [c \in Callers |-> <<>>]
    /\ cursor = [c \in Callers |-> 0]
    /\ result = [c \in Callers |-> "none"]
    /\ posts = [c \in Callers |-> 0]

-----------------------------------------------------------------------------
(* The semaphore. *)

Acquire(c) ==
    \/ /\ permits > 0
       /\ queue = <<>>
       /\ permits' = permits - 1
       /\ pc' = [pc EXCEPT ![c] = "request"]
       /\ UNCHANGED queue
    \/ /\ permits = 0 \/ queue # <<>>
       /\ pc' = [pc EXCEPT ![c] = "queued"]
       /\ queue' = Append(queue, c)
       /\ UNCHANGED permits

\* Mutant: hands its permit to the first waiter and counts it as free too.
Leave_Twice(c) ==
    /\ permits' = permits + 1
    /\ \/ /\ queue = <<>>
          /\ pc' = [pc EXCEPT ![c] = "idle"]
          /\ UNCHANGED queue
       \/ /\ queue # <<>>
          /\ pc' = [pc EXCEPT ![c] = "idle", ![Head(queue)] = "request"]
          /\ queue' = Tail(queue)

\* c leaves the async with block and its public method.
Leave(c) ==
    \/ /\ queue = <<>>
       /\ permits' = permits + 1
       /\ pc' = [pc EXCEPT ![c] = "idle"]
       /\ UNCHANGED queue
    \/ /\ queue # <<>>
       /\ pc' = [pc EXCEPT ![c] = "idle", ![Head(queue)] = "request"]
       /\ queue' = Tail(queue)
       /\ UNCHANGED permits

\* c leaves one async with block and, without an await in between, enters the
\* next: it keeps a free permit but goes behind whoever already waits.
Reenter(c) ==
    \/ /\ queue = <<>>
       /\ pc' = [pc EXCEPT ![c] = "request"]
       /\ UNCHANGED <<permits, queue>>
    \/ /\ queue # <<>>
       /\ pc' = [pc EXCEPT ![c] = "queued", ![Head(queue)] = "request"]
       /\ queue' = Append(Tail(queue), c)
       /\ UNCHANGED permits

-----------------------------------------------------------------------------
(* complete_bulk: pad, truncate, then look for lines outside the choices. *)

\* Mutant: pads a short reply, does not cut a long one.
Fit_NoCut(reply, n) ==
    [i \in 1 .. (IF Len(reply) > n THEN Len(reply) ELSE n) |->
        IF i <= Len(reply) THEN reply[i] ELSE "empty"]

\* The n lines kept of a reply: padded with "" or cut.
Fit(reply, n) == [i \in 1 .. n |-> IF i <= Len(reply) THEN reply[i] ELSE "empty"]

Posted(c) == posts' = [posts EXCEPT ![c] = @ + 1]

Return(c, r) ==
    /\ Leave(c)
    /\ result' = [result EXCEPT ![c] = r]
    /\ job' = [job EXCEPT ![c] = "none"]
    /\ attempt' = [attempt EXCEPT ![c] = 0]
    /\ cursor' = [cursor EXCEPT ![c] = 0]
    /\ posts' = [posts EXCEPT ![c] = 0]
    /\ UNCHANGED <<delay, items>>

\* Continue the enumeration over ls after line i: re-query the next line that
\* is not a choice, or return the lines.
Validate(c, ls, i) ==
    /\ lines' = [lines EXCEPT ![c] = ls]
    /\ \/ /\ \A j \in i + 1 .. items[c] : ls[j] = "valid"
          /\ Return(c, "lines")
       \/ \E j \in i + 1 .. items[c] :
          /\ ls[j] # "valid"
          /\ \A k \in i + 1 .. j - 1 : ls[k] = "valid"
          /\ cursor' = [cursor EXCEPT ![c] = j]
          /\ job' = [job EXCEPT ![c] = "requery"]
          /\ attempt' = [attempt EXCEPT ![c] = 0]
          /\ Posted(c)
          /\ Reenter(c)
          /\ UNCHANGED <<delay, items, result>>

\* What the method makes of _request's answer: health_check keeps whether
\* there was one.
Outcome(c, r) ==
    IF job[c] # "health" THEN r
    ELSE IF r = "empty" THEN "unreachable" ELSE "reachable"

\* Mutant: the re-queried line is stored one place too far.
Answer_NextLine(c, r) ==
    \/ /\ job[c] \in {"complete", "choices", "health"}
       /\ Return(c, Outcome(c, r))
       /\ UNCHANGED lines
    \/ /\ job[c] = "requery"
       /\ Validate(c, [i \in 1 .. Len(lines[c]) |->
                          IF i = cursor[c] + 1 THEN r ELSE lines[c][i]], cursor[c])

\* _request returned r (not a bulk reply) to complete, complete_with_choices,
\* health_check or the re-query of one line.
Answer(c, r) ==
    \/ /\ job[c] \in {"complete", "choices", "health"}
       /\ Return(c, Outcome(c, r))
       /\ UNCHANGED lines
    \/ /\ job[c] = "requery"
       /\ Validate(c, [lines[c] EXCEPT ![cursor[c]] = r], cursor[c])

\* _request returned the text of a bulk reply.
BulkAnswer(c, reply) ==
    /\ job[c] = "bulk"
    /\ Validate(c, Fit(reply, items[c]), 0)

\* Mutant: a failed re-query is made again.
Raise_AskAgain(c) ==
    \/ /\ job[c] # "requery"
       /\ Return(c, IF job[c] = "health" THEN "unreachable" ELSE "raised")
       /\ UNCHANGED lines
    \/ /\ job[c] = "requery"
       /\ Validate(c, lines[c], cursor[c] - 1)

\* _request raised: the re-query swallows it, and keeps the bulk line, and so
\* does health_check.
Raise(c) ==
    \/ /\ job[c] # "requery"
       /\ Return(c, IF job[c] = "health" THEN "unreachable" ELSE "raised")
       /\ UNCHANGED lines
    \/ /\ job[c] = "requery"
       /\ Validate(c, lines[c], cursor[c])

-----------------------------------------------------------------------------
(* The public methods. *)

Call(c, j, n) ==
    /\ pc[c] = "idle"
    /\ Acquire(c)
    /\ job' = [job EXCEPT ![c] = j]
    /\ items' = [items EXCEPT ![c] = n]
    /\ lines' = [lines EXCEPT ![c] = <<>>]
    /\ result' = [result EXCEPT ![c] = "none"]
    /\ UNCHANGED <<poolVars, attempt, delay, cursor, posts>>

Complete(c) == "complete" \in Jobs /\ Call(c, "complete", 0)
\* GET /health, which runs complete() in the same pool and semaphore.
HealthCheck(c) == "health" \in Jobs /\ Call(c, "health", 0)
CompleteWithChoices(c) == "choices" \in Jobs /\ Call(c, "choices", 0)
\* Every caller of complete_bulk passes items and choices.
CompleteBulk(c) == "bulk" \in Jobs /\ \E n \in 1 .. MaxItems : Call(c, "bulk", n)

-----------------------------------------------------------------------------
(* _request: one iteration of the attempt loop. *)

PickKey(c) ==
    /\ pc[c] = "request"
    /\ GetClientNow(c) \/ GetClientWait(c)
    /\ UNCHANGED clientVars

WakeUp(c) ==
    /\ Wake(c)
    /\ UNCHANGED clientVars

\* Mutant: one attempt too many.
LastAttempt_OffByOne(c) == attempt[c] = MaxAttempts

LastAttempt(c) == attempt[c] = MaxAttempts - 1

NextAttempt(c) ==
    /\ attempt' = [attempt EXCEPT ![c] = @ + 1]
    /\ Posted(c)

\* A 2xx whose body has the expected shape.  guided_choice makes the service
\* answer with a choice; a bulk reply has any number of lines.
Succeed(c) ==
    /\ Release(c)
    /\ \/ job[c] \in {"complete", "health"} /\ \E r \in {"other", "empty"} : Answer(c, r)
       \/ job[c] \in {"choices", "requery"} /\ Answer(c, "valid")
       \/ \E n \in 0 .. MaxItems + 1 : \E reply \in [1 .. n -> Lines] : BulkAnswer(c, reply)

\* Mutant: a 429 does not count as an attempt.
TooMany_Uncounted(c) ==
    /\ MarkRateLimited(c)
    /\ UNCHANGED clientVars

\* 429: mark the key and go on at once; after the last attempt return "",
\* which a bulk call parses as a reply without lines.
TooMany(c) ==
    /\ MarkRateLimited(c)
    /\ \/ /\ ~LastAttempt(c)
          /\ NextAttempt(c)
          /\ UNCHANGED <<pc, permits, queue, delay, job, items, lines, cursor, result>>
       \/ /\ LastAttempt(c)
          /\ Answer(c, "empty") \/ BulkAnswer(c, <<>>)

\* Another HTTP error, a transport error, or a KeyError or IndexError on the
\* body: sleep and retry, or re-raise after the last attempt.
Fail(c) ==
    /\ Release(c)
    /\ \/ /\ ~LastAttempt(c)
          /\ NextAttempt(c)
          /\ pc' = [pc EXCEPT ![c] = "backoff"]
          /\ delay' = [delay EXCEPT ![c] = RetryDelay]
          /\ UNCHANGED <<permits, queue, job, items, lines, cursor, result>>
       \/ /\ LastAttempt(c)
          /\ Raise(c)

\* A body that is not JSON (ValueError) or not the expected types (TypeError,
\* AttributeError) is caught by no handler: no further attempt is made.
Crash(c) ==
    /\ Release(c)
    /\ Raise(c)

EndBackoff(c) ==
    /\ pc[c] = "backoff"
    /\ delay[c] = 0
    /\ pc' = [pc EXCEPT ![c] = "request"]
    /\ UNCHANGED <<poolVars, permits, queue, attempt, delay, job, items, lines, cursor, result, posts>>

Close ==
    /\ \A c \in Callers : pc[c] = "idle"
    /\ CloseAll
    /\ UNCHANGED clientVars

ClientTick ==
    /\ \/ \E k \in Keys : cooldowns[k] > 0
       \/ \E c \in Callers : nap[c] > 0 \/ delay[c] > 0
    /\ Elapse
    /\ delay' = [c \in Callers |-> Less(delay[c])]
    /\ UNCHANGED <<pc, permits, queue, attempt, job, items, lines, cursor, result, posts>>

-----------------------------------------------------------------------------
Reply(c) == Succeed(c) \/ TooMany(c) \/ Fail(c) \/ Crash(c)

ClientNext ==
    \/ \E c \in Callers :
          \/ Complete(c) \/ HealthCheck(c) \/ CompleteWithChoices(c) \/ CompleteBulk(c)
          \/ PickKey(c) \/ WakeUp(c) \/ EndBackoff(c)
          \/ Succeed(c) \/ TooMany(c) \/ Fail(c) \/ Crash(c)
    \/ Close
    \/ ClientTick

\* Ready coroutines run, time passes, and every post ends: httpx gives up
\* after _TIMEOUT with a RequestError.  Nobody is obliged to call.
ClientFairness ==
    /\ WF_vars(ClientTick)
    /\ \A c \in Callers :
          WF_vars(PickKey(c)) /\ WF_vars(WakeUp(c)) /\ WF_vars(EndBackoff(c)) /\ WF_vars(Reply(c))

ClientSpec == Init /\ [][ClientNext]_vars /\ ClientFairness

-----------------------------------------------------------------------------
ClientTypeOK ==
    /\ pc \in [Callers -> {"idle", "queued", "request", "backoff"}]
    /\ permits \in Nat
    /\ queue \in Seq(Callers)
    /\ attempt \in [Callers -> 0 .. MaxAttempts - 1]
    /\ delay \in [Callers -> 0 .. RetryDelay]
    /\ job \in [Callers -> {"none", "complete", "choices", "bulk", "health", "requery"}]
    /\ items \in [Callers -> 0 .. MaxItems]
    /\ lines \in [Callers -> Seq(Lines)]
    /\ cursor \in [Callers -> 0 .. MaxItems]
    /\ result \in [Callers -> Results]
    /\ posts \in [Callers -> Nat]

TypeOK == PoolTypeOK /\ ClientTypeOK

\* No permit is lost or made up, on any path out of a request: what is not
\* free is held by exactly the callers inside the semaphore.
PermitsBalanced == permits + Cardinality(Holders) = Limit

\* NIM never sees more than NIM_CONCURRENCY_LIMIT requests at once, nor a
\* request of a caller that does not hold a permit.
InFlightBounded ==
    /\ \A c \in Callers : stage[c] # "out" => pc[c] = "request"
    /\ Cardinality({c \in Callers : stage[c] = "using"}) <= Limit

\* One call never asks more of NIM than MaxAttempts posts for its own request
\* and, in complete_bulk, as many again for each line: whatever mix of 429s,
\* errors and wrong lines it meets, no attempt is uncounted, no line is
\* re-queried twice, and a failed re-query does not start the pass over.
PostsBounded ==
    \A c \in Callers : stage[c] = "using" => posts[c] < MaxAttempts * (1 + items[c])

\* complete_bulk returns one line per item, whatever the reply's length, and
\* re-queries only inside the list.
BulkShape ==
    \A c \in Callers :
       /\ job[c] = "requery" => /\ Len(lines[c]) = items[c]
                                /\ cursor[c] \in 1 .. items[c]
                                /\ lines[c][cursor[c]] # "valid"
       /\ result[c] = "lines" => Len(lines[c]) = items[c]

\* The validation pass touches only lines outside the choices: a line that is
\* already a choice survives every re-query, failed or not.
ValidLinesKept ==
    [][\A c \in Callers : \A i \in 1 .. Len(lines[c]) :
          job[c] = "requery" /\ lines[c][i] = "valid" => lines'[c][i] = "valid"]_vars

\* Every call returns or raises: no chain of 429s, errors and cooldowns keeps a
\* caller for ever, and waiters are served although others keep calling.
CallsReturn == \A c \in Callers : pc[c] # "idle" ~> pc[c] = "idle"
==============================================================================
