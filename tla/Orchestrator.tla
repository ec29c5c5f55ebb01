---------------------------- MODULE Orchestrator ----------------------------
(***************************************************************************)
(* One call of run_batch_prediction (app/pipeline/orchestrator.py): the    *)
(* retry loop around the six-phase pipeline.  The loop and the pipeline    *)
(* keep three index spaces: the caller's products, positions in the lists  *)
(* of the current attempt, and positions in the lists of its rare records. *)
(*                                                                         *)
(* A model's output carries the product whose record it was computed from  *)
(* (of), which the code does not store: it is what alignment is judged by. *)
(* conf is the overall confidence in steps of 1/MaxConf; None is a record  *)
(* whose predict() raised.                                                 *)
(***************************************************************************)
EXTENDS Integers, Sequences, FiniteSets

CONSTANTS N,           \* len(products)
          MaxRetries,  \* max_retries
          MaxConf,     \* bound: confidence levels 0 .. MaxConf
          Threshold    \* RARITY_CONFIDENCE_THRESHOLD

ASSUME NAssumption == N \in Nat \ {0}
ASSUME RetriesAssumption == MaxRetries \in Nat \ {0}
ASSUME ConfAssumption == MaxConf \in Nat
ASSUME ThresholdAssumption == Threshold \in 0 .. MaxConf

VARIABLES loaded,    \* models whose artifact was found at startup
          override,  \* the request's confidence_threshold
          phase,     \* the await the call is at
          attempt,
          pending,   \* original indexes of the products of this attempt
          resultsA,  \* results_a, by position in the attempt
          rare,      \* rare_indices: positions in the attempt
          resultsB,  \* results_b and results_c, by position in rare
          resultsC,
          running,   \* models whose to_thread has not returned
          final,     \* the results kept so far, by original index
          retried,   \* total_retried
          rareCount, \* total_rare
          failures   \* history: attempts in which a product got an error

vars == <<loaded, override, phase, attempt, pending, resultsA, rare, resultsB,
          resultsC, running, final, retried, rareCount, failures>>

Products == 1 .. N
None == -1
Conf == 0 .. MaxConf
Output == [of : Products, conf : {None} \cup Conf]
Open == [kind |-> "open", of |-> 0, conf |-> None, model |-> "none", rare |-> FALSE]
Null == [Open EXCEPT !.kind = "null"]

\* confidence_threshold or settings.RARITY_CONFIDENCE_THRESHOLD: 0 is falsy.
EffectiveThreshold == IF override \in {None, 0} THEN Threshold ELSE override

\* s lists the set S in increasing order, as a loop over indexes collects it.
Lists(s, S) ==
    /\ \A i \in DOMAIN s, j \in DOMAIN s : i < j => s[i] < s[j]
    /\ \A x \in S : \E i \in DOMAIN s : s[i] = x

Listings(S) == {s \in [1 .. Cardinality(S) -> S] : Lists(s, S)}

\* batch_predict: one output per record, in order; each predict() may raise.
BatchPredict(recs) ==
    {[i \in DOMAIN recs |-> [of |-> recs[i], conf |-> r[i]]] :
        r \in [DOMAIN recs -> {None} \cup Conf]}

-----------------------------------------------------------------------------
Init ==
    /\ loaded \in SUBSET {"A", "B", "C"}
    /\ override \in {None} \cup Conf
    /\ phase = "normalize"
    /\ attempt = 1
    /\ pending = [i \in Products |-> i]
    /\ resultsA = <<>>
    /\ rare = <<>>
    /\ resultsB = <<>>
    /\ resultsC = <<>>
    /\ running = {}
    /\ final = [p \in Products |-> Open]
    /\ retried = 0
    /\ rareCount = 0
    /\ failures = [p \in Products |-> 0]

\* Mutant: the KeyError is caught and the phase tried again.
Normalize_Catches ==
    /\ phase = "normalize"
    /\ phase' = IF "A" \in loaded THEN "modelA" ELSE "normalize"
    /\ UNCHANGED <<loaded, override, attempt, pending, resultsA, rare, resultsB,
                   resultsC, running, final, retried, rareCount, failures>>

\* Phases 1 and 2; model_loader.get("A") raises KeyError when A is missing.
Normalize ==
    /\ phase = "normalize"
    /\ phase' = IF "A" \in loaded THEN "modelA" ELSE "raised"
    /\ UNCHANGED <<loaded, override, attempt, pending, resultsA, rare, resultsB,
                   resultsC, running, final, retried, rareCount, failures>>

IsRare(out) == out.conf = None \/ out.conf < EffectiveThreshold

\* Phases 3 and 4, and the start of phase 5: a model that is not loaded counts
\* as having failed on every rare record.
ModelADone ==
    /\ phase = "modelA"
    /\ resultsA' \in BatchPredict(pending)
    /\ rare' \in Listings({i \in DOMAIN pending : IsRare(resultsA'[i])})
    /\ resultsB' = [j \in DOMAIN rare' |-> [of |-> pending[rare'[j]], conf |-> None]]
    /\ resultsC' = resultsB'
    /\ running' = IF rare' = <<>> THEN {} ELSE loaded \cap {"B", "C"}
    /\ phase' = "gather"
    /\ UNCHANGED <<loaded, override, attempt, pending, final, retried, rareCount, failures>>

\* Mutant: a position in the attempt is taken for an original index.
RareRecords_Unmapped == [j \in DOMAIN rare |-> rare[j]]

RareRecords == [j \in DOMAIN rare |-> pending[rare[j]]]

ModelBDone ==
    /\ "B" \in running
    /\ running' = running \ {"B"}
    /\ resultsB' \in BatchPredict(RareRecords)
    /\ UNCHANGED <<loaded, override, phase, attempt, pending, resultsA, rare,
                   resultsC, final, retried, rareCount, failures>>

ModelCDone ==
    /\ "C" \in running
    /\ running' = running \ {"C"}
    /\ resultsC' \in BatchPredict(RareRecords)
    /\ UNCHANGED <<loaded, override, phase, attempt, pending, resultsA, rare,
                   resultsB, final, retried, rareCount, failures>>

Result(out, model, isRare) ==
    [kind |-> "predicted", of |-> out.of, conf |-> out.conf, model |-> model, rare |-> isRare]

\* Mutant: Model A is kept whenever it gave a value.
SelectBest_PrefersA(ra, rb, rc) ==
    IF ra.conf = None /\ rb.conf = None /\ rc.conf = None THEN Open
    ELSE IF ra.conf # None THEN Result(ra, "A", TRUE)
    ELSE IF rb.conf >= rc.conf THEN Result(rb, "B", TRUE)
    ELSE Result(rc, "C", TRUE)

\* _select_best and _format_result: max keeps the first of equal confidences;
\* with no candidate a failed result, which the loop reads as an error.
SelectBest(ra, rb, rc) ==
    IF ra.conf = None /\ rb.conf = None /\ rc.conf = None THEN Open
    ELSE IF ra.conf >= rb.conf /\ ra.conf >= rc.conf THEN Result(ra, "A", TRUE)
    ELSE IF rb.conf >= rc.conf THEN Result(rb, "B", TRUE)
    ELSE Result(rc, "C", TRUE)

\* The value of rare_ptr when the assembly loop reaches position i of rare_set.
RarePtr(i) == Cardinality({j \in DOMAIN rare : rare[j] < i}) + 1

\* Phase 6: what the pipeline returns for the i-th product of the attempt.
Prediction(i) ==
    IF \E j \in DOMAIN rare : rare[j] = i
    THEN SelectBest(resultsA[i], resultsB[RarePtr(i)], resultsC[RarePtr(i)])
    ELSE Result(resultsA[i], "A", FALSE)

\* Mutant: retries whatever Model A failed on, answered or not.
Failed_ModelA == {i \in DOMAIN pending : resultsA[i].conf = None}

Failed == {i \in DOMAIN pending : Prediction(i).kind = "open"}

\* Mutants: one attempt less, one attempt more.
LastAttempt_Early == attempt >= MaxRetries - 1
LastAttempt_Late == attempt = MaxRetries + 1

LastAttempt == attempt = MaxRetries

\* The loop body after _run_pipeline has returned.
Collect ==
    /\ phase = "gather"
    /\ running = {}
    /\ final' = [p \in Products |->
          IF \E i \in DOMAIN pending : pending[i] = p
          THEN LET i == CHOOSE j \in DOMAIN pending : pending[j] = p
               IN  IF LastAttempt /\ i \in Failed THEN Null ELSE Prediction(i)
          ELSE final[p]]
    /\ pending' \in Listings(IF LastAttempt THEN {} ELSE {pending[i] : i \in Failed})
    /\ failures' = [p \in Products |->
          failures[p] + IF \E i \in Failed : pending[i] = p THEN 1 ELSE 0]
    /\ retried' = retried + Len(pending')
    /\ rareCount' = rareCount + Len(rare)
    /\ phase' = IF pending' = <<>> THEN "done" ELSE "normalize"
    /\ attempt' = IF pending' = <<>> THEN attempt ELSE attempt + 1
    /\ resultsA' = <<>>
    /\ rare' = <<>>
    /\ resultsB' = <<>>
    /\ resultsC' = <<>>
    /\ UNCHANGED <<loaded, override, running>>

Next == Normalize \/ ModelADone \/ ModelBDone \/ ModelCDone \/ Collect

\* The executor runs every thread to its end and the coroutine is resumed.
Fairness == WF_vars(Next)

Spec == Init /\ [][Next]_vars /\ Fairness

-----------------------------------------------------------------------------
TypeOK ==
    /\ loaded \in SUBSET {"A", "B", "C"}
    /\ override \in {None} \cup Conf
    /\ phase \in {"normalize", "modelA", "gather", "done", "raised"}
    /\ attempt \in 1 .. MaxRetries
    /\ pending \in Seq(Products)
    /\ resultsA \in Seq(Output)
    /\ rare \in Seq(Products)
    /\ resultsB \in Seq(Output)
    /\ resultsC \in Seq(Output)
    /\ running \in SUBSET {"B", "C"}
    /\ final \in [Products -> [kind : {"open", "predicted", "null"}, of : 0 .. N,
                               conf : {None} \cup Conf, model : {"A", "B", "C", "none"},
                               rare : BOOLEAN]]
    /\ retried \in Nat
    /\ rareCount \in Nat
    /\ failures \in [Products -> 0 .. MaxRetries]

\* Every product gets the values a model computed from its own record, through
\* the retries' shrinking lists and the rare sub-list: the three index spaces
\* of the code never slip against each other.
AnswersOwnRecord ==
    \A p \in Products : final[p].kind = "predicted" => final[p].of = p

\* A product is in the next attempt's list exactly when it is not settled:
\* none is lost (final[i] would raise KeyError) and none is run again.
PendingIsOpen ==
    phase # "raised" =>
       \A p \in Products : final[p].kind = "open" <=> \E i \in DOMAIN pending : pending[i] = p

\* Null carbon values mean that every one of the MaxRetries attempts ran and
\* failed for this product, and a predicted product has no failure after it.
NullOnlyAfterAllAttempts ==
    \A p \in Products :
       /\ final[p].kind = "null" => failures[p] = MaxRetries
       /\ final[p].kind # "null" => failures[p] < MaxRetries

\* An answer is the most confident one of the attempt that produced it, and a
\* product judged rare is answered although Model A failed, if B or C can.
BestAnswerKept ==
    [][\A i \in DOMAIN pending : \A j \in DOMAIN rare :
          phase = "gather" /\ phase' # "gather" /\ rare[j] = i =>
             LET offered == {resultsA[i].conf, resultsB[j].conf, resultsC[j].conf}
             IN  /\ \A x \in offered : final'[pending[i]].conf >= x
                 /\ final'[pending[i]].conf \in offered]_vars

\* run_batch_prediction keeps the promise of its docstring.
Promised == INSTANCE BatchPromise WITH
    answer <- [p \in Products |-> final[p].kind],
    round <- IF phase = "done" THEN attempt ELSE attempt - 1,
    status <- CASE phase = "done" -> "delivered"
                [] phase = "raised" -> "raised"
                [] OTHER -> "working"

KeepsPromise == Promised!Promise

\* The call ends, with an answer for every product if Model A is there.
Delivers == <>(IF "A" \in loaded THEN phase = "done" ELSE phase = "raised")
=============================================================================
