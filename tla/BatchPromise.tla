---------------------------- MODULE BatchPromise ----------------------------
(***************************************************************************)
(* What run_batch_prediction promises its caller (the docstring of         *)
(* app/pipeline/orchestrator.py:129-134): rounds over the products that    *)
(* are still open, at most MaxRetries of them; a product that is predicted *)
(* is settled for good; what the last round leaves open gets null values;  *)
(* the response is delivered when, and only when, every product is         *)
(* settled.  A missing Model A aborts the call before anything is settled. *)
(***************************************************************************)
EXTENDS Integers

CONSTANTS Products, MaxRetries

VARIABLES answer, round, status

promiseVars == <<answer, round, status>>

Open == {p \in Products : answer[p] = "open"}

PromiseInit ==
    /\ answer = [p \in Products |-> "open"]
    /\ round = 0
    /\ status = "working"

\* One round: S is predicted, the rest stays open or, in the last round, is
\* given up.
Round ==
    /\ status = "working"
    /\ round < MaxRetries
    /\ round' = round + 1
    /\ \E S \in SUBSET Open :
          LET rest == IF round' = MaxRetries THEN "null" ELSE "open"
          IN  /\ answer' = [p \in Products |->
                              IF p \in S THEN "predicted"
                              ELSE IF p \in Open THEN rest ELSE answer[p]]
              /\ status' = IF S = Open \/ round' = MaxRetries THEN "delivered" ELSE "working"

Abort ==
    /\ status = "working"
    /\ round = 0
    /\ status' = "raised"
    /\ UNCHANGED <<answer, round>>

PromiseNext == Round \/ Abort

Promise == PromiseInit /\ [][PromiseNext]_promiseVars /\ WF_promiseVars(PromiseNext)
=============================================================================
