------------------------ MODULE Orchestrator_proofs ------------------------
(***************************************************************************)
(* The safety of Orchestrator for any number of products and attempts, and *)
(* that each of its steps is a step of BatchPromise or none.  The three    *)
(* index spaces stay aligned because the lists of an attempt are in order: *)
(* a product is at one position, and the pointer that runs over the rare   *)
(* list is, at each rare position, where that position is in the list.     *)
(***************************************************************************)
EXTENDS Orchestrator, FiniteSetTheorems, TLAPS

-----------------------------------------------------------------------------
(* Lists of indexes.                                                       *)

Ordered(s) == \A i \in DOMAIN s, j \in DOMAIN s : i < j => s[i] < s[j]

\* What a loop over indexes collects is in order and complete.
LEMMA ListingFacts ==
  ASSUME NEW n \in Nat, NEW S \in SUBSET (1 .. n), NEW s \in Listings(S)
  PROVE  /\ s \in Seq(S)
         /\ s \in Seq(1 .. n)
         /\ Len(s) \in Nat /\ DOMAIN s = 1 .. Len(s) /\ Len(s) <= n
         /\ Ordered(s)
         /\ \A i \in DOMAIN s : s[i] \in S
         /\ \A x \in S : \E i \in DOMAIN s : s[i] = x
         /\ s = <<>> <=> S = {}
<1> DEFINE c == Cardinality(S)
<1>1. IsFiniteSet(1 .. n) /\ Cardinality(1 .. n) = n
  <2>1. IsFiniteSet(1 .. n) /\ Cardinality(1 .. n) = IF 1 > n THEN 0 ELSE n - 1 + 1
    BY FS_Interval
  <2> QED
    BY <2>1
<1>2. IsFiniteSet(S) /\ c <= n
  BY <1>1, FS_Subset
<1>3. c \in Nat
  BY <1>2, FS_CardinalityType
<1>4. c = 0 <=> S = {}
  BY <1>2, FS_EmptySet
<1>5. s \in [1 .. c -> S] /\ Lists(s, S)
  BY DEF Listings
<1> HIDE DEF c
<1>6. s \in Seq(S) /\ Len(s) = c /\ DOMAIN s = 1 .. c
  BY <1>3, <1>5
<1>7. s \in Seq(1 .. n)
  <2>1. s \in [1 .. c -> 1 .. n]
    BY <1>5
  <2> QED
    BY <1>3, <2>1
<1>8. s = <<>> <=> c = 0
  BY <1>3, <1>6
<1>9. \A i \in DOMAIN s : s[i] \in S
  BY <1>5
<1> QED
  BY <1>2, <1>3, <1>4, <1>5, <1>6, <1>7, <1>8, <1>9 DEF Lists, Ordered

\* A list in order has an index once.
LEMMA OrderedOnce ==
  ASSUME NEW s \in Seq(Nat), Ordered(s), NEW i \in DOMAIN s, NEW j \in DOMAIN s, s[i] = s[j]
  PROVE  i = j
<1>1. i \in Nat /\ j \in Nat /\ s[i] \in Nat
  OBVIOUS
<1>2. ~ (i < j) /\ ~ (j < i)
  BY <1>1 DEF Ordered
<1> QED
  BY <1>1, <1>2

\* rare_ptr, when the loop reaches a rare position, points at it.
LEMMA RarePtrPoints ==
  ASSUME rare \in Seq(Nat), Ordered(rare), NEW j \in DOMAIN rare
  PROVE  RarePtr(rare[j]) = j
<1> DEFINE before == {k \in DOMAIN rare : rare[k] < rare[j]}
<1>1. DOMAIN rare = 1 .. Len(rare) /\ Len(rare) \in Nat /\ j \in Nat /\ j >= 1 /\ j <= Len(rare)
  OBVIOUS
<1>2. \A k \in DOMAIN rare : rare[k] < rare[j] <=> k < j
  <2> SUFFICES ASSUME NEW k \in DOMAIN rare PROVE rare[k] < rare[j] <=> k < j
    OBVIOUS
  <2>1. rare[k] \in Nat /\ rare[j] \in Nat /\ k \in Nat
    OBVIOUS
  <2>2. k < j => rare[k] < rare[j]
    BY DEF Ordered
  <2>3. j < k => rare[j] < rare[k]
    BY DEF Ordered
  <2> QED
    BY <1>1, <2>1, <2>2, <2>3
<1>3. before = 1 .. (j - 1)
  BY <1>1, <1>2
<1>4. \A m \in Nat : Cardinality(1 .. m) = m
  <2> SUFFICES ASSUME NEW m \in Nat PROVE Cardinality(1 .. m) = m
    OBVIOUS
  <2>1. Cardinality(1 .. m) = IF 1 > m THEN 0 ELSE m - 1 + 1
    BY FS_Interval
  <2> QED
    BY <2>1
<1>5. j - 1 \in Nat
  BY <1>1
<1>6. Cardinality(before) = j - 1
  BY <1>3, <1>4, <1>5, Zenon
<1> QED
  BY <1>1, <1>6 DEF RarePtr

\* batch_predict keeps the order of its records.
LEMMA BatchPredictFacts ==
  ASSUME NEW recs \in Seq(Products), NEW out \in BatchPredict(recs)
  PROVE  /\ out \in Seq(Output)
         /\ Len(out) = Len(recs) /\ DOMAIN out = DOMAIN recs
         /\ \A i \in DOMAIN recs : out[i].of = recs[i]
<1>1. PICK r \in [DOMAIN recs -> {None} \cup Conf] :
         out = [i \in DOMAIN recs |-> [of |-> recs[i], conf |-> r[i]]]
  BY DEF BatchPredict
<1>2. DOMAIN recs = 1 .. Len(recs) /\ Len(recs) \in Nat
  OBVIOUS
<1>3. \A i \in DOMAIN recs : [of |-> recs[i], conf |-> r[i]] \in Output
  BY DEF Output
<1>4. out \in [1 .. Len(recs) -> Output]
  BY <1>1, <1>2, <1>3
<1>5. out \in Seq(Output) /\ Len(out) = Len(recs)
  BY <1>2, <1>4
<1>6. \A i \in DOMAIN recs : out[i].of = recs[i]
  BY <1>1
<1> QED
  BY <1>1, <1>5, <1>6

-----------------------------------------------------------------------------
(* What one attempt returns.                                               *)

Answers == [kind : {"open", "predicted", "null"}, of : 0 .. N, conf : {None} \cup Conf,
            model : {"A", "B", "C", "none"}, rare : BOOLEAN]

LEMMA OpenNullType ==
  /\ Open \in Answers /\ Open.kind = "open" /\ Open.conf = None
  /\ Null \in Answers /\ Null.kind = "null" /\ Null.conf = None
<1>1. 0 \in 0 .. N
  BY NAssumption
<1> QED
  BY <1>1 DEF Open, Null, Answers

LEMMA ResultType ==
  ASSUME NEW out \in Output, NEW m \in {"A", "B", "C"}, NEW b \in BOOLEAN
  PROVE  /\ Result(out, m, b) \in Answers
         /\ Result(out, m, b).kind = "predicted"
         /\ Result(out, m, b).of = out.of
         /\ Result(out, m, b).conf = out.conf
<1>1. out.of \in 0 .. N /\ out.conf \in {None} \cup Conf
  BY DEF Output, Products
<1> QED
  BY <1>1 DEF Result, Answers

\* The most confident of the outputs that have a value, or an error.
LEMMA SelectBestFacts ==
  ASSUME NEW ra \in Output, NEW rb \in Output, NEW rc \in Output,
         NEW best, best = SelectBest(ra, rb, rc)
  PROVE  /\ best \in Answers
         /\ best.kind \in {"open", "predicted"}
         /\ best.kind = "predicted" => best.of \in {ra.of, rb.of, rc.of}
         /\ best.kind = "open" => best.conf = None
         /\ best.conf >= ra.conf /\ best.conf >= rb.conf /\ best.conf >= rc.conf
         /\ best.conf \in {ra.conf, rb.conf, rc.conf}
<1>1. /\ ra.conf \in {None} \cup Conf /\ rb.conf \in {None} \cup Conf
      /\ rc.conf \in {None} \cup Conf
  BY DEF Output
<1>2. ra.conf \in Int /\ rb.conf \in Int /\ rc.conf \in Int
  BY <1>1, ConfAssumption DEF None, Conf
<1>3. CASE ra.conf = None /\ rb.conf = None /\ rc.conf = None
  <2>1. best = Open
    BY <1>3 DEF SelectBest
  <2>2. best \in Answers /\ best.kind = "open" /\ best.conf = None
    BY <2>1, OpenNullType
  <2>3. best.conf = ra.conf /\ best.conf = rb.conf /\ best.conf = rc.conf
    BY <1>3, <2>2
  <2> QED
    BY <1>2, <2>2, <2>3
<1>4. CASE /\ ~ (ra.conf = None /\ rb.conf = None /\ rc.conf = None)
           /\ ra.conf >= rb.conf /\ ra.conf >= rc.conf
  <2>1. best = Result(ra, "A", TRUE)
    BY <1>4 DEF SelectBest
  <2>2. /\ best \in Answers /\ best.kind = "predicted"
        /\ best.of = ra.of /\ best.conf = ra.conf
    BY <2>1, ResultType
  <2>3. ra.conf >= ra.conf /\ ra.conf >= rb.conf /\ ra.conf >= rc.conf
    BY <1>2, <1>4, SMT
  <2> QED
    BY <2>2, <2>3
<1>5. CASE /\ ~ (ra.conf = None /\ rb.conf = None /\ rc.conf = None)
           /\ ~ (ra.conf >= rb.conf /\ ra.conf >= rc.conf) /\ rb.conf >= rc.conf
  <2>1. best = Result(rb, "B", TRUE)
    BY <1>5 DEF SelectBest
  <2>2. /\ best \in Answers /\ best.kind = "predicted"
        /\ best.of = rb.of /\ best.conf = rb.conf
    BY <2>1, ResultType
  <2>3. rb.conf >= ra.conf /\ rb.conf >= rb.conf /\ rb.conf >= rc.conf
    BY <1>2, <1>5, SMT
  <2> QED
    BY <2>2, <2>3
<1>6. CASE /\ ~ (ra.conf = None /\ rb.conf = None /\ rc.conf = None)
           /\ ~ (ra.conf >= rb.conf /\ ra.conf >= rc.conf) /\ ~ (rb.conf >= rc.conf)
  <2>1. best = Result(rc, "C", TRUE)
    BY <1>6 DEF SelectBest
  <2>2. /\ best \in Answers /\ best.kind = "predicted"
        /\ best.of = rc.of /\ best.conf = rc.conf
    BY <2>1, ResultType
  <2>3. rc.conf >= ra.conf /\ rc.conf >= rb.conf /\ rc.conf >= rc.conf
    BY <1>2, <1>6, SMT
  <2> QED
    BY <2>2, <2>3
<1> QED
  BY <1>3, <1>4, <1>5, <1>6

-----------------------------------------------------------------------------
(* The inductive invariant.                                                *)

\* The lists of an attempt are in order, the rare one within the other.
ListsOrdered ==
    /\ Ordered(pending) /\ Len(pending) <= N
    /\ Ordered(rare) /\ \A j \in DOMAIN rare : rare[j] \in DOMAIN pending

\* An output at a position is of the product at that position.
Aligned ==
    phase = "gather" =>
       /\ DOMAIN resultsA = DOMAIN pending
       /\ \A i \in DOMAIN pending : resultsA[i].of = pending[i]
       /\ DOMAIN resultsB = DOMAIN rare /\ DOMAIN resultsC = DOMAIN rare
       /\ \A j \in DOMAIN rare :
             resultsB[j].of = pending[rare[j]] /\ resultsC[j].of = pending[rare[j]]

PendingIsUnsettled ==
    \A p \in Products : final[p].kind = "open" <=> \E i \in DOMAIN pending : pending[i] = p

\* An open product has failed in every attempt before this one.
FailuresCounted ==
    \A p \in Products :
       /\ final[p].kind = "open" => failures[p] = attempt - 1
       /\ final[p].kind = "predicted" => failures[p] < MaxRetries
       /\ final[p].kind = "null" => failures[p] = MaxRetries

DoneIsSettled == phase = "done" => pending = <<>>

\* Without Model A the call is over before an attempt is.
AbortsFirst ==
    /\ "A" \notin loaded => attempt = 1 /\ phase \in {"normalize", "raised"}
    /\ phase = "raised" => "A" \notin loaded

IndInv ==
    /\ TypeOK
    /\ ListsOrdered
    /\ Aligned
    /\ AnswersOwnRecord
    /\ PendingIsUnsettled
    /\ FailuresCounted
    /\ DoneIsSettled
    /\ AbortsFirst

LEMMA PendingFacts ==
  ASSUME IndInv
  PROVE  /\ pending \in Seq(Nat) /\ rare \in Seq(Nat)
         /\ \A i \in DOMAIN pending : pending[i] \in Products
         /\ DOMAIN pending \in SUBSET Products
         /\ \A i, j \in DOMAIN pending : pending[i] = pending[j] => i = j
<1>1. Products \subseteq Nat
  BY NAssumption DEF Products
<1>2. pending \in Seq(Nat) /\ rare \in Seq(Nat)
  <2>1. pending \in Seq(Products) /\ rare \in Seq(Products)
    BY DEF IndInv, TypeOK
  <2>2. ASSUME NEW s \in Seq(Products) PROVE s \in Seq(Nat)
    <3>1. Len(s) \in Nat /\ s \in [1 .. Len(s) -> Products]
      OBVIOUS
    <3>2. s \in [1 .. Len(s) -> Nat]
      BY <1>1, <3>1
    <3> QED
      BY <3>1, <3>2
  <2> QED
    BY <2>1, <2>2
<1>3. \A i \in DOMAIN pending : pending[i] \in Products
  BY DEF IndInv, TypeOK
<1>4. DOMAIN pending \in SUBSET Products
  <2>1. DOMAIN pending = 1 .. Len(pending) /\ Len(pending) \in Nat /\ Len(pending) <= N
    BY <1>2 DEF IndInv, ListsOrdered
  <2> QED
    BY <2>1, NAssumption DEF Products
<1>5. \A i, j \in DOMAIN pending : pending[i] = pending[j] => i = j
  BY <1>2, OrderedOnce DEF IndInv, ListsOrdered
<1> QED
  BY <1>2, <1>3, <1>4, <1>5

\* Every position of an attempt gets an answer for its own product; a rare one
\* gets the best of the outputs that belong together.
LEMMA PredictionFacts ==
  ASSUME IndInv, phase = "gather", NEW i \in DOMAIN pending
  PROVE  /\ Prediction(i) \in Answers
         /\ Prediction(i).kind \in {"open", "predicted"}
         /\ Prediction(i).kind = "predicted" => Prediction(i).of = pending[i]
         /\ \A j \in DOMAIN rare :
               rare[j] = i =>
                  /\ Prediction(i) = SelectBest(resultsA[i], resultsB[j], resultsC[j])
                  /\ resultsA[i] \in Output /\ resultsB[j] \in Output /\ resultsC[j] \in Output
<1>1. resultsA[i] \in Output /\ resultsA[i].of = pending[i]
  BY DEF IndInv, TypeOK, Aligned
<1>2. ASSUME NEW j \in DOMAIN rare, rare[j] = i
      PROVE  /\ Prediction(i) = SelectBest(resultsA[i], resultsB[j], resultsC[j])
             /\ resultsB[j] \in Output /\ resultsC[j] \in Output
             /\ resultsB[j].of = pending[i] /\ resultsC[j].of = pending[i]
  <2>1. RarePtr(i) = j
    BY <1>2, PendingFacts, RarePtrPoints DEF IndInv, ListsOrdered
  <2>2. Prediction(i) = SelectBest(resultsA[i], resultsB[j], resultsC[j])
    BY <1>2, <2>1 DEF Prediction
  <2>3. resultsB[j] \in Output /\ resultsC[j] \in Output
    BY DEF IndInv, TypeOK, Aligned
  <2>4. resultsB[j].of = pending[i] /\ resultsC[j].of = pending[i]
    BY <1>2 DEF IndInv, Aligned
  <2> QED
    BY <2>2, <2>3, <2>4
<1>3. CASE \E j \in DOMAIN rare : rare[j] = i
  <2>1. PICK j \in DOMAIN rare : rare[j] = i
    BY <1>3
  <2> DEFINE best == SelectBest(resultsA[i], resultsB[j], resultsC[j])
  <2>2. /\ best \in Answers /\ best.kind \in {"open", "predicted"}
        /\ best.kind = "predicted" =>
              best.of \in {resultsA[i].of, resultsB[j].of, resultsC[j].of}
    BY <1>1, <1>2, <2>1, SelectBestFacts
  <2> HIDE DEF best
  <2>3. Prediction(i) = best
    BY <1>2, <2>1 DEF best
  <2> QED
    BY <1>1, <1>2, <2>1, <2>2, <2>3
<1>4. CASE ~ \E j \in DOMAIN rare : rare[j] = i
  <2>1. Prediction(i) = Result(resultsA[i], "A", FALSE)
    BY <1>4 DEF Prediction
  <2> QED
    BY <1>1, <1>4, <2>1, ResultType
<1> QED
  BY <1>3, <1>4

-----------------------------------------------------------------------------
(* The steps.                                                              *)

LEMMA NormalizeStep == ASSUME IndInv, Normalize PROVE IndInv'
<1>1. UNCHANGED <<loaded, override, attempt, pending, resultsA, rare, resultsB,
                  resultsC, running, final, retried, rareCount, failures>>
  BY DEF Normalize
<1>2. phase = "normalize" /\ phase' = IF "A" \in loaded THEN "modelA" ELSE "raised"
  BY DEF Normalize
<1>3. TypeOK'
  BY <1>1, <1>2 DEF IndInv, TypeOK
<1>4. ListsOrdered' /\ Aligned' /\ AnswersOwnRecord' /\ PendingIsUnsettled' /\ FailuresCounted'
  BY <1>1, <1>2
  DEF IndInv, ListsOrdered, Ordered, Aligned, AnswersOwnRecord, PendingIsUnsettled, FailuresCounted
<1>5. DoneIsSettled' /\ AbortsFirst'
  BY <1>1, <1>2 DEF IndInv, DoneIsSettled, AbortsFirst
<1> QED
  BY <1>3, <1>4, <1>5 DEF IndInv

\* What the rare list of an attempt is, whatever Model A returned.
LEMMA ModelADoneStep == ASSUME IndInv, ModelADone PROVE IndInv'
<1>1. /\ phase = "modelA" /\ phase' = "gather"
      /\ UNCHANGED <<loaded, override, attempt, pending, final, retried, rareCount, failures>>
  BY DEF ModelADone
<1>2. /\ pending \in Seq(Products) /\ DOMAIN pending \in SUBSET Products
      /\ \A i \in DOMAIN pending : pending[i] \in Products
  BY PendingFacts DEF IndInv, TypeOK
<1>3. /\ resultsA' \in Seq(Output) /\ DOMAIN resultsA' = DOMAIN pending
      /\ \A i \in DOMAIN pending : resultsA'[i].of = pending[i]
  BY <1>2, BatchPredictFacts DEF ModelADone
<1>4. /\ rare' \in Seq(Products) /\ Ordered(rare')
      /\ DOMAIN rare' = 1 .. Len(rare') /\ Len(rare') \in Nat
      /\ \A j \in DOMAIN rare' : rare'[j] \in DOMAIN pending
  <2> DEFINE S == {i \in DOMAIN pending : IsRare(resultsA'[i])}
  <2>1. S \in SUBSET (1 .. N) /\ N \in Nat
    BY <1>2, NAssumption DEF Products
  <2>2. rare' \in Listings(S)
    BY DEF ModelADone
  <2>3. S \subseteq DOMAIN pending
    OBVIOUS
  <2> HIDE DEF S
  <2>4. /\ rare' \in Seq(1 .. N) /\ Ordered(rare')
        /\ DOMAIN rare' = 1 .. Len(rare') /\ Len(rare') \in Nat
        /\ \A j \in DOMAIN rare' : rare'[j] \in S
    BY <2>1, <2>2, ListingFacts
  <2> QED
    BY <2>3, <2>4 DEF Products
<1>5. /\ resultsB' = [j \in DOMAIN rare' |-> [of |-> pending[rare'[j]], conf |-> None]]
      /\ resultsC' = resultsB'
  BY DEF ModelADone
<1>6. resultsB' \in Seq(Output)
  <2>1. \A j \in DOMAIN rare' : [of |-> pending[rare'[j]], conf |-> None] \in Output
    BY <1>2, <1>4 DEF Output
  <2>2. resultsB' \in [1 .. Len(rare') -> Output]
    BY <1>4, <1>5, <2>1
  <2> QED
    BY <1>4, <2>2
<1>7. /\ DOMAIN resultsB' = DOMAIN rare' /\ DOMAIN resultsC' = DOMAIN rare'
      /\ \A j \in DOMAIN rare' :
            resultsB'[j].of = pending[rare'[j]] /\ resultsC'[j].of = pending[rare'[j]]
  BY <1>5
<1>8. running' \in SUBSET {"B", "C"}
  BY DEF ModelADone, IndInv, TypeOK
<1>9. TypeOK'
  BY <1>1, <1>3, <1>4, <1>5, <1>6, <1>8 DEF IndInv, TypeOK
<1>10. ListsOrdered'
  BY <1>1, <1>4 DEF IndInv, ListsOrdered, Ordered
<1>11. Aligned'
  BY <1>1, <1>3, <1>7 DEF Aligned
<1>12. AnswersOwnRecord' /\ PendingIsUnsettled' /\ FailuresCounted' /\ DoneIsSettled' /\ AbortsFirst'
  BY <1>1 DEF IndInv, AnswersOwnRecord, PendingIsUnsettled, FailuresCounted, DoneIsSettled,
              AbortsFirst
<1> QED
  BY <1>9, <1>10, <1>11, <1>12 DEF IndInv

\* The records of the rare list, by position in it.
LEMMA RareRecordsFacts ==
  ASSUME IndInv
  PROVE  /\ RareRecords \in Seq(Products) /\ DOMAIN RareRecords = DOMAIN rare
         /\ \A j \in DOMAIN rare : RareRecords[j] = pending[rare[j]]
<1>1. DOMAIN rare = 1 .. Len(rare) /\ Len(rare) \in Nat
  BY PendingFacts
<1>2. \A j \in DOMAIN rare : pending[rare[j]] \in Products
  BY PendingFacts DEF IndInv, ListsOrdered
<1>3. RareRecords \in [1 .. Len(rare) -> Products]
  BY <1>1, <1>2 DEF RareRecords
<1> QED
  BY <1>1, <1>3 DEF RareRecords

\* Models B and C return in either order, for the same records.
LEMMA ModelBDoneStep == ASSUME IndInv, ModelBDone PROVE IndInv'
<1>1. /\ UNCHANGED <<loaded, override, phase, attempt, pending, resultsA, rare,
                     resultsC, final, retried, rareCount, failures>>
      /\ running' \subseteq running
  BY DEF ModelBDone
<1>2. /\ resultsB' \in Seq(Output) /\ DOMAIN resultsB' = DOMAIN rare
      /\ \A j \in DOMAIN rare : resultsB'[j].of = pending[rare[j]]
  BY RareRecordsFacts, BatchPredictFacts DEF ModelBDone
<1>3. TypeOK'
  BY <1>1, <1>2 DEF IndInv, TypeOK
<1>4. Aligned'
  BY <1>1, <1>2 DEF IndInv, Aligned
<1>5. ListsOrdered' /\ AnswersOwnRecord' /\ PendingIsUnsettled' /\ FailuresCounted'
      /\ DoneIsSettled' /\ AbortsFirst'
  BY <1>1 DEF IndInv, ListsOrdered, Ordered, AnswersOwnRecord, PendingIsUnsettled,
              FailuresCounted, DoneIsSettled, AbortsFirst
<1> QED
  BY <1>3, <1>4, <1>5 DEF IndInv

LEMMA ModelCDoneStep == ASSUME IndInv, ModelCDone PROVE IndInv'
<1>1. /\ UNCHANGED <<loaded, override, phase, attempt, pending, resultsA, rare,
                     resultsB, final, retried, rareCount, failures>>
      /\ running' \subseteq running
  BY DEF ModelCDone
<1>2. /\ resultsC' \in Seq(Output) /\ DOMAIN resultsC' = DOMAIN rare
      /\ \A j \in DOMAIN rare : resultsC'[j].of = pending[rare[j]]
  BY RareRecordsFacts, BatchPredictFacts DEF ModelCDone
<1>3. TypeOK'
  BY <1>1, <1>2 DEF IndInv, TypeOK
<1>4. Aligned'
  BY <1>1, <1>2 DEF IndInv, Aligned
<1>5. ListsOrdered' /\ AnswersOwnRecord' /\ PendingIsUnsettled' /\ FailuresCounted'
      /\ DoneIsSettled' /\ AbortsFirst'
  BY <1>1 DEF IndInv, ListsOrdered, Ordered, AnswersOwnRecord, PendingIsUnsettled,
              FailuresCounted, DoneIsSettled, AbortsFirst
<1> QED
  BY <1>3, <1>4, <1>5 DEF IndInv

\* Where the loop body writes: at the products of the attempt, each its own
\* answer, and nowhere else.
LEMMA CollectFinal ==
  ASSUME IndInv, Collect
  PROVE  /\ \A i \in DOMAIN pending :
               final'[pending[i]] = IF LastAttempt /\ i \in Failed THEN Null ELSE Prediction(i)
         /\ \A p \in Products : (~ \E i \in DOMAIN pending : pending[i] = p) => final'[p] = final[p]
         /\ final' \in [Products -> Answers]
<1>1. phase = "gather"
  BY DEF Collect
<1>2. final' = [p \in Products |->
          IF \E i \in DOMAIN pending : pending[i] = p
          THEN LET i == CHOOSE j \in DOMAIN pending : pending[j] = p
               IN  IF LastAttempt /\ i \in Failed THEN Null ELSE Prediction(i)
          ELSE final[p]]
  BY DEF Collect
<1>3. ASSUME NEW i \in DOMAIN pending
      PROVE  final'[pending[i]] = IF LastAttempt /\ i \in Failed THEN Null ELSE Prediction(i)
  <2>1. pending[i] \in Products
    BY PendingFacts
  <2>2. (CHOOSE j \in DOMAIN pending : pending[j] = pending[i]) = i
    BY PendingFacts
  <2> QED
    BY <1>2, <2>1, <2>2
<1>4. \A p \in Products : (~ \E i \in DOMAIN pending : pending[i] = p) => final'[p] = final[p]
  BY <1>2
<1>5. ASSUME NEW p \in Products PROVE final'[p] \in Answers
  <2>1. CASE \E i \in DOMAIN pending : pending[i] = p
    <3>1. PICK i \in DOMAIN pending : pending[i] = p
      BY <2>1
    <3>2. Prediction(i) \in Answers /\ Null \in Answers
      BY <1>1, PredictionFacts, OpenNullType
    <3> QED
      BY <1>3, <3>1, <3>2
  <2>2. CASE ~ \E i \in DOMAIN pending : pending[i] = p
    <3>1. final[p] \in Answers
      BY DEF IndInv, TypeOK, Answers
    <3> QED
      BY <1>4, <2>2, <3>1
  <2> QED
    BY <2>1, <2>2
<1>6. final' \in [Products -> Answers]
  BY <1>2, <1>5
<1> QED
  BY <1>3, <1>4, <1>6

\* The next attempt is over what failed in this one, if there is a next one.
LEMMA CollectPending ==
  ASSUME IndInv, Collect
  PROVE  /\ pending' \in Seq(Products) /\ Ordered(pending') /\ Len(pending') <= N
         /\ Len(pending') \in Nat
         /\ \A p \in Products :
               (\E i \in DOMAIN pending' : pending'[i] = p) <=>
                  ~ LastAttempt /\ \E i \in Failed : pending[i] = p
         /\ pending' = <<>> <=> LastAttempt \/ Failed = {}
<1> DEFINE S == IF LastAttempt THEN {} ELSE {pending[i] : i \in Failed}
<1>1. Failed \subseteq DOMAIN pending
  BY DEF Failed
<1>2. S \in SUBSET (1 .. N) /\ N \in Nat
  BY <1>1, PendingFacts, NAssumption DEF Products
<1>3. pending' \in Listings(S)
  BY DEF Collect
<1>4. \A p : p \in S <=> ~ LastAttempt /\ \E i \in Failed : pending[i] = p
  OBVIOUS
<1>5. S = {} <=> LastAttempt \/ Failed = {}
  OBVIOUS
<1> HIDE DEF S
<1>6. /\ pending' \in Seq(1 .. N) /\ Ordered(pending') /\ Len(pending') <= N
      /\ Len(pending') \in Nat
      /\ \A i \in DOMAIN pending' : pending'[i] \in S
      /\ \A x \in S : \E i \in DOMAIN pending' : pending'[i] = x
      /\ pending' = <<>> <=> S = {}
  BY <1>2, <1>3, ListingFacts
<1>7. \A p \in Products : (\E i \in DOMAIN pending' : pending'[i] = p) <=> p \in S
  BY <1>6
<1> QED
  BY <1>4, <1>5, <1>6, <1>7 DEF Products

\* A product is open after the attempt if and only if it is in the next one.
LEMMA CollectOutcome ==
  ASSUME IndInv, Collect, NEW p \in Products
  PROVE  /\ final[p].kind = "open" =>
               \E i \in DOMAIN pending :
                  /\ pending[i] = p
                  /\ i \in Failed => final'[p].kind = IF LastAttempt THEN "null" ELSE "open"
                  /\ i \notin Failed => final'[p] = Prediction(i) /\ final'[p].kind = "predicted"
         /\ final[p].kind # "open" =>
               final'[p] = final[p] /\ ~ \E i \in DOMAIN pending : pending[i] = p
<1>1. ASSUME final[p].kind = "open"
      PROVE  \E i \in DOMAIN pending :
                /\ pending[i] = p
                /\ i \in Failed => final'[p].kind = IF LastAttempt THEN "null" ELSE "open"
                /\ i \notin Failed => final'[p] = Prediction(i) /\ final'[p].kind = "predicted"
  <2>1. PICK i \in DOMAIN pending : pending[i] = p
    BY <1>1 DEF IndInv, PendingIsUnsettled
  <2>2. final'[p] = IF LastAttempt /\ i \in Failed THEN Null ELSE Prediction(i)
    BY <2>1, CollectFinal
  <2>3. Prediction(i).kind \in {"open", "predicted"}
    BY PredictionFacts DEF Collect
  <2>4. i \in Failed <=> Prediction(i).kind = "open"
    BY DEF Failed
  <2>5. Null.kind = "null"
    BY OpenNullType
  <2> QED
    BY <2>1, <2>2, <2>3, <2>4, <2>5
<1>2. ASSUME final[p].kind # "open"
      PROVE  final'[p] = final[p] /\ ~ \E i \in DOMAIN pending : pending[i] = p
  <2>1. ~ \E i \in DOMAIN pending : pending[i] = p
    BY <1>2 DEF IndInv, PendingIsUnsettled
  <2> QED
    BY <2>1, CollectFinal
<1> QED
  BY <1>1, <1>2

LEMMA CollectStep == ASSUME IndInv, Collect PROVE IndInv'
<1>1. /\ phase = "gather" /\ running = {} /\ UNCHANGED <<loaded, override, running>>
      /\ phase' = IF pending' = <<>> THEN "done" ELSE "normalize"
      /\ attempt' = IF pending' = <<>> THEN attempt ELSE attempt + 1
      /\ resultsA' = <<>> /\ rare' = <<>> /\ resultsB' = <<>> /\ resultsC' = <<>>
      /\ failures' = [p \in Products |->
            failures[p] + IF \E i \in Failed : pending[i] = p THEN 1 ELSE 0]
  BY DEF Collect
<1>2. attempt \in Nat /\ MaxRetries \in Nat /\ attempt >= 1 /\ attempt <= MaxRetries
  BY RetriesAssumption DEF IndInv, TypeOK
<1>3. attempt' \in 1 .. MaxRetries
  BY <1>1, <1>2, CollectPending DEF LastAttempt
<1>4. PendingIsUnsettled'
  <2> SUFFICES ASSUME NEW p \in Products
               PROVE  final'[p].kind = "open" <=> \E i \in DOMAIN pending' : pending'[i] = p
    BY DEF PendingIsUnsettled
  <2>1. (\E i \in DOMAIN pending' : pending'[i] = p) <=>
           ~ LastAttempt /\ \E i \in Failed : pending[i] = p
    BY CollectPending
  <2>2. \A i \in Failed : i \in DOMAIN pending
    BY DEF Failed
  <2>3. CASE final[p].kind # "open"
    BY <2>1, <2>2, <2>3, CollectOutcome
  <2>4. CASE final[p].kind = "open"
    <3>1. PICK i \in DOMAIN pending :
             /\ pending[i] = p
             /\ i \in Failed => final'[p].kind = IF LastAttempt THEN "null" ELSE "open"
             /\ i \notin Failed => final'[p].kind = "predicted"
      BY <2>4, CollectOutcome
    <3>2. (\E j \in Failed : pending[j] = p) <=> i \in Failed
      BY <2>2, <3>1, PendingFacts
    <3> QED
      BY <2>1, <3>1, <3>2
  <2> QED
    BY <2>3, <2>4
<1>5. AnswersOwnRecord'
  <2> SUFFICES ASSUME NEW p \in Products, final'[p].kind = "predicted"
               PROVE  final'[p].of = p
    BY DEF AnswersOwnRecord
  <2>1. CASE final[p].kind # "open"
    BY <2>1, CollectOutcome DEF IndInv, AnswersOwnRecord
  <2>2. CASE final[p].kind = "open"
    <3>1. PICK i \in DOMAIN pending :
             /\ pending[i] = p
             /\ i \in Failed => final'[p].kind = IF LastAttempt THEN "null" ELSE "open"
             /\ i \notin Failed => final'[p] = Prediction(i) /\ final'[p].kind = "predicted"
      BY <2>2, CollectOutcome
    <3>2. final'[p] = Prediction(i)
      BY <3>1
    <3> QED
      BY <1>1, <3>1, <3>2, PredictionFacts
  <2> QED
    BY <2>1, <2>2
<1>6. FailuresCounted' /\ failures' \in [Products -> 0 .. MaxRetries]
  <2> SUFFICES ASSUME NEW p \in Products
               PROVE  /\ final'[p].kind = "open" => failures'[p] = attempt' - 1
                      /\ final'[p].kind = "predicted" => failures'[p] < MaxRetries
                      /\ final'[p].kind = "null" => failures'[p] = MaxRetries
                      /\ failures'[p] \in 0 .. MaxRetries
    BY <1>1 DEF FailuresCounted
  <2>1. failures[p] \in 0 .. MaxRetries
    BY DEF IndInv, TypeOK
  <2>2. \A i \in Failed : i \in DOMAIN pending
    BY DEF Failed
  <2>3. CASE final[p].kind # "open"
    <3>1. failures'[p] = failures[p] /\ final'[p] = final[p]
      BY <1>1, <2>1, <2>2, <2>3, CollectOutcome
    <3> QED
      BY <2>1, <2>3, <3>1 DEF IndInv, FailuresCounted
  <2>4. CASE final[p].kind = "open"
    <3>1. PICK i \in DOMAIN pending :
             /\ pending[i] = p
             /\ i \in Failed => final'[p].kind = IF LastAttempt THEN "null" ELSE "open"
             /\ i \notin Failed => final'[p].kind = "predicted"
      BY <2>4, CollectOutcome
    <3>2. failures[p] = attempt - 1
      BY <2>4 DEF IndInv, FailuresCounted
    <3>3. failures'[p] = failures[p] + IF i \in Failed THEN 1 ELSE 0
      <4>1. (\E j \in Failed : pending[j] = p) <=> i \in Failed
        BY <2>2, <3>1, PendingFacts
      <4> QED
        BY <1>1, <4>1
    <3>4. CASE i \notin Failed
      BY <1>2, <3>1, <3>2, <3>3, <3>4
    <3>5. CASE i \in Failed /\ LastAttempt
      BY <1>2, <3>1, <3>2, <3>3, <3>5 DEF LastAttempt
    <3>6. CASE i \in Failed /\ ~ LastAttempt
      <4>1. attempt' = attempt + 1
        BY <1>1, <3>6, CollectPending
      <4> QED
        BY <1>2, <3>1, <3>2, <3>3, <3>6, <4>1
    <3> QED
      BY <3>4, <3>5, <3>6
  <2> QED
    BY <2>3, <2>4
<1>7. TypeOK'
  <2>1. Len(rare) \in Nat /\ Len(pending') \in Nat
    BY PendingFacts, CollectPending
  <2>2. retried' \in Nat /\ rareCount' \in Nat
    BY <2>1 DEF Collect, IndInv, TypeOK
  <2>3. pending' \in Seq(Products)
    BY CollectPending
  <2>4. final' \in [Products -> Answers]
    BY CollectFinal
  <2>5. /\ phase' \in {"normalize", "modelA", "gather", "done", "raised"}
        /\ resultsA' \in Seq(Output) /\ rare' \in Seq(Products)
        /\ resultsB' \in Seq(Output) /\ resultsC' \in Seq(Output)
    BY <1>1
  <2> QED
    BY <1>1, <1>3, <1>6, <2>2, <2>3, <2>4, <2>5 DEF IndInv, TypeOK, Answers
<1>8. ListsOrdered'
  BY <1>1, CollectPending DEF ListsOrdered, Ordered
<1>9. Aligned' /\ DoneIsSettled'
  BY <1>1 DEF Aligned, DoneIsSettled
<1>10. AbortsFirst'
  BY <1>1 DEF IndInv, AbortsFirst
<1> QED
  BY <1>4, <1>5, <1>6, <1>7, <1>8, <1>9, <1>10 DEF IndInv

-----------------------------------------------------------------------------
(* The invariant and the properties that follow.                           *)

LEMMA InitInv == Init => IndInv
<1> SUFFICES ASSUME Init PROVE IndInv
  OBVIOUS
<1>1. /\ loaded \in SUBSET {"A", "B", "C"} /\ override \in {None} \cup Conf
      /\ phase = "normalize" /\ attempt = 1 /\ running = {}
      /\ pending = [i \in Products |-> i] /\ rare = <<>> /\ resultsA = <<>>
      /\ resultsB = <<>> /\ resultsC = <<>> /\ retried = 0 /\ rareCount = 0
      /\ final = [p \in Products |-> Open] /\ failures = [p \in Products |-> 0]
  BY DEF Init
<1>2. MaxRetries \in Nat /\ MaxRetries >= 1 /\ N \in Nat /\ N >= 1
  BY RetriesAssumption, NAssumption
<1>3. pending \in [1 .. N -> Products] /\ DOMAIN pending = Products
  BY <1>1 DEF Products
<1>4. pending \in Seq(Products) /\ Len(pending) = N
  BY <1>2, <1>3
<1>5. TypeOK
  <2>1. final \in [Products -> Answers]
    BY <1>1, OpenNullType
  <2>2. failures \in [Products -> 0 .. MaxRetries] /\ attempt \in 1 .. MaxRetries
    BY <1>1, <1>2
  <2>3. rare \in Seq(Products) /\ resultsA \in Seq(Output) /\ resultsB \in Seq(Output)
        /\ resultsC \in Seq(Output)
    BY <1>1
  <2> QED
    BY <1>1, <1>4, <2>1, <2>2, <2>3 DEF TypeOK, Answers
<1>6. ListsOrdered
  <2>1. Ordered(pending)
    BY <1>1, <1>2, <1>3 DEF Ordered, Products
  <2>2. DOMAIN rare = {}
    BY <1>1
  <2> QED
    BY <1>2, <1>4, <2>1, <2>2 DEF ListsOrdered, Ordered
<1>7. PendingIsUnsettled /\ FailuresCounted /\ AnswersOwnRecord
  <2>1. \A p \in Products : final[p].kind = "open" /\ failures[p] = 0
    BY <1>1, OpenNullType
  <2>2. \A p \in Products : p \in DOMAIN pending /\ pending[p] = p
    BY <1>1
  <2> QED
    BY <1>1, <2>1, <2>2 DEF PendingIsUnsettled, FailuresCounted, AnswersOwnRecord
<1>8. Aligned /\ DoneIsSettled /\ AbortsFirst
  BY <1>1 DEF Aligned, DoneIsSettled, AbortsFirst
<1> QED
  BY <1>5, <1>6, <1>7, <1>8 DEF IndInv

LEMMA StepInv == IndInv /\ [Next]_vars => IndInv'
<1> SUFFICES ASSUME IndInv, [Next]_vars PROVE IndInv'
  OBVIOUS
<1>1. CASE UNCHANGED vars
  BY <1>1 DEF vars, IndInv, TypeOK, ListsOrdered, Ordered, Aligned, AnswersOwnRecord,
              PendingIsUnsettled, FailuresCounted, DoneIsSettled, AbortsFirst
<1> QED
  BY <1>1, NormalizeStep, ModelADoneStep, ModelBDoneStep, ModelCDoneStep, CollectStep DEF Next

THEOREM Invariance == Spec => []IndInv
<1> QED
  BY InitInv, StepInv, PTL DEF Spec

\* The types of the variables: attempts stay within MaxRetries, and no list is
\* longer than the request.
THEOREM TypeCorrect == Spec => []TypeOK
<1>1. IndInv => TypeOK
  BY DEF IndInv
<1> QED
  BY <1>1, Invariance, PTL

\* No answer is another product's, for any number of products and attempts,
\* any set of loaded models and any confidences.
THEOREM AnswersOwnRecordHolds == Spec => []AnswersOwnRecord
<1>1. IndInv => AnswersOwnRecord
  BY DEF IndInv
<1> QED
  BY <1>1, Invariance, PTL

\* No product is lost between two attempts, and none is run after its answer.
THEOREM PendingIsOpenHolds == Spec => []PendingIsOpen
<1>1. IndInv => PendingIsOpen
  BY DEF IndInv, PendingIsUnsettled, PendingIsOpen
<1> QED
  BY <1>1, Invariance, PTL

\* Null values are given after MaxRetries failures, neither earlier nor later.
THEOREM NullOnlyAfterAllAttemptsHolds == Spec => []NullOnlyAfterAllAttempts
<1>1. ASSUME IndInv PROVE NullOnlyAfterAllAttempts
  <2> SUFFICES ASSUME NEW p \in Products
               PROVE  /\ final[p].kind = "null" => failures[p] = MaxRetries
                      /\ final[p].kind # "null" => failures[p] < MaxRetries
    BY DEF NullOnlyAfterAllAttempts
  <2>1. final[p].kind \in {"open", "predicted", "null"}
    BY <1>1 DEF IndInv, TypeOK
  <2>2. attempt - 1 < MaxRetries
    BY <1>1, RetriesAssumption DEF IndInv, TypeOK
  <2> QED
    BY <1>1, <2>1, <2>2 DEF IndInv, FailuresCounted
<1> QED
  BY <1>1, Invariance, PTL

\* The answer kept is the most confident output of its attempt, wherever the
\* product is in the two lists.
THEOREM BestAnswerKeptHolds == Spec => BestAnswerKept
<1> DEFINE Best ==
        \A i \in DOMAIN pending : \A j \in DOMAIN rare :
           phase = "gather" /\ phase' # "gather" /\ rare[j] = i =>
              LET offered == {resultsA[i].conf, resultsB[j].conf, resultsC[j].conf}
              IN  /\ \A x \in offered : final'[pending[i]].conf >= x
                  /\ final'[pending[i]].conf \in offered
<1>1. ASSUME IndInv, [Next]_vars PROVE [Best]_vars
  <2> SUFFICES ASSUME Next, NEW i \in DOMAIN pending, NEW j \in DOMAIN rare,
                      phase = "gather", phase' # "gather", rare[j] = i
               PROVE  LET offered == {resultsA[i].conf, resultsB[j].conf, resultsC[j].conf}
                      IN  /\ \A x \in offered : final'[pending[i]].conf >= x
                          /\ final'[pending[i]].conf \in offered
    BY <1>1 DEF vars
  <2>1. Collect
    BY DEF Next, Normalize, ModelADone, ModelBDone, ModelCDone
  <2> DEFINE best == SelectBest(resultsA[i], resultsB[j], resultsC[j])
  <2>2. /\ Prediction(i) = best
        /\ resultsA[i] \in Output /\ resultsB[j] \in Output /\ resultsC[j] \in Output
    BY <1>1, PredictionFacts
  <2>3. /\ best.kind = "open" => best.conf = None
        /\ best.conf >= resultsA[i].conf /\ best.conf >= resultsB[j].conf
        /\ best.conf >= resultsC[j].conf
        /\ best.conf \in {resultsA[i].conf, resultsB[j].conf, resultsC[j].conf}
    BY <2>2, SelectBestFacts
  <2> HIDE DEF best
  <2>4. final'[pending[i]].conf = best.conf
    <3>1. final'[pending[i]] = IF LastAttempt /\ i \in Failed THEN Null ELSE Prediction(i)
      BY <1>1, <2>1, CollectFinal
    <3>2. i \in Failed => best.kind = "open"
      BY <2>2 DEF Failed
    <3>3. Null.conf = None
      BY OpenNullType
    <3> QED
      BY <2>2, <2>3, <3>1, <3>2, <3>3
  <2> QED
    BY <2>3, <2>4
<1> QED
  BY <1>1, Invariance, PTL DEF Spec, BestAnswerKept

-----------------------------------------------------------------------------
(* The refinement.                                                         *)

LEMMA PromiseInitHolds == Init => Promised!PromiseInit
<1> SUFFICES ASSUME Init PROVE Promised!PromiseInit
  OBVIOUS
<1>1. phase = "normalize" /\ attempt = 1 /\ final = [p \in Products |-> Open]
  BY DEF Init
<1>2. \A p \in Products : final[p].kind = "open"
  BY <1>1, OpenNullType
<1> QED
  BY <1>1, <1>2 DEF Promised!PromiseInit

\* The loop body after _run_pipeline is one round of the promise: what it
\* predicts is settled, and the last round settles the rest.
LEMMA CollectIsRound == ASSUME IndInv, Collect PROVE Promised!Round
<1> DEFINE unsettled == {p \in Products : final[p].kind = "open"}
           solved == {p \in unsettled : final'[p].kind = "predicted"}
           rest == IF attempt = MaxRetries THEN "null" ELSE "open"
<1>1. /\ phase = "gather"
      /\ phase' = IF pending' = <<>> THEN "done" ELSE "normalize"
      /\ attempt' = IF pending' = <<>> THEN attempt ELSE attempt + 1
  BY DEF Collect
<1>2. attempt \in Nat /\ MaxRetries \in Nat /\ attempt - 1 < MaxRetries
  BY RetriesAssumption DEF IndInv, TypeOK
<1>3. (IF phase' = "done" THEN attempt' ELSE attempt' - 1) = (attempt - 1) + 1
  BY <1>1, <1>2
<1>4. Promised!Open = unsettled
  BY DEF Promised!Open
<1>5. ASSUME NEW p \in Products
      PROVE  final'[p].kind = IF p \in solved THEN "predicted"
                              ELSE IF p \in unsettled THEN rest ELSE final[p].kind
  <2>1. CASE p \notin unsettled
    BY <2>1, CollectOutcome
  <2>2. CASE p \in unsettled
    <3>1. PICK i \in DOMAIN pending :
             /\ pending[i] = p
             /\ i \in Failed => final'[p].kind = IF LastAttempt THEN "null" ELSE "open"
             /\ i \notin Failed => final'[p].kind = "predicted"
      BY <2>2, CollectOutcome
    <3> QED
      BY <2>2, <3>1 DEF LastAttempt
  <2> QED
    BY <2>1, <2>2
<1>6. pending' = <<>> <=> solved = unsettled \/ attempt = MaxRetries
  <2>1. pending' = <<>> <=> LastAttempt \/ Failed = {}
    BY CollectPending
  <2>2. ~ LastAttempt => (Failed = {} <=> solved = unsettled)
    <3> SUFFICES ASSUME ~ LastAttempt PROVE Failed = {} <=> solved = unsettled
      OBVIOUS
    <3>1. ASSUME Failed = {}, NEW p \in unsettled PROVE p \in solved
      BY <3>1, CollectOutcome
    <3>2. ASSUME NEW i \in Failed PROVE pending[i] \in unsettled \ solved
      <4>1. i \in DOMAIN pending /\ pending[i] \in Products
        BY PendingFacts DEF Failed
      <4>2. final[pending[i]].kind = "open"
        BY <4>1 DEF IndInv, PendingIsUnsettled
      <4>3. final'[pending[i]].kind = "open"
        BY <4>1, CollectFinal DEF Failed
      <4> QED
        BY <4>1, <4>2, <4>3
    <3> QED
      BY <3>1, <3>2
  <2> QED
    BY <2>1, <2>2 DEF LastAttempt
<1>7. solved \in SUBSET Promised!Open
  BY <1>4
<1>8. [p \in Products |-> final'[p].kind] =
         [p \in Products |-> IF p \in solved THEN "predicted"
                             ELSE IF p \in Promised!Open THEN rest
                             ELSE [q \in Products |-> final[q].kind][p]]
  BY <1>4, <1>5
<1> HIDE DEF solved, unsettled, rest
<1>9. /\ phase' = "done" => solved = Promised!Open \/ attempt = MaxRetries
      /\ phase' = "normalize" => ~ (solved = Promised!Open \/ attempt = MaxRetries)
      /\ phase' \in {"done", "normalize"}
  BY <1>1, <1>4, <1>6
<1>10. rest = IF attempt = MaxRetries THEN "null" ELSE "open"
  BY DEF rest
<1>11. (attempt - 1) + 1 = attempt
  BY <1>2
<1>12. /\ (CASE phase = "done" -> "delivered" [] phase = "raised" -> "raised"
             [] OTHER -> "working") = "working"
       /\ (IF phase = "done" THEN attempt ELSE attempt - 1) < MaxRetries
       /\ (IF phase' = "done" THEN attempt' ELSE attempt' - 1) =
             (IF phase = "done" THEN attempt ELSE attempt - 1) + 1
       /\ (IF phase' = "done" THEN attempt' ELSE attempt' - 1) = attempt
  BY <1>1, <1>2, <1>3, <1>11
<1>13. (CASE phase' = "done" -> "delivered" [] phase' = "raised" -> "raised"
          [] OTHER -> "working") =
          IF solved = Promised!Open \/ attempt = MaxRetries THEN "delivered" ELSE "working"
  BY <1>9
<1> QED
  BY <1>7, <1>8, <1>10, <1>12, <1>13 DEF Promised!Round

\* A missing Model A aborts, and only in the first round.
LEMMA NormalizeIsAbort ==
  ASSUME IndInv, Normalize
  PROVE  Promised!Abort \/ UNCHANGED Promised!promiseVars
<1>1. phase = "normalize" /\ UNCHANGED <<attempt, final, loaded>>
      /\ phase' = IF "A" \in loaded THEN "modelA" ELSE "raised"
  BY DEF Normalize
<1>2. /\ (CASE phase = "done" -> "delivered" [] phase = "raised" -> "raised"
            [] OTHER -> "working") = "working"
      /\ (IF phase = "done" THEN attempt ELSE attempt - 1) = attempt - 1
      /\ (IF phase' = "done" THEN attempt' ELSE attempt' - 1) = attempt - 1
      /\ [p \in Products |-> final'[p].kind] = [p \in Products |-> final[p].kind]
  BY <1>1
<1>3. CASE "A" \in loaded
  <2>1. (CASE phase' = "done" -> "delivered" [] phase' = "raised" -> "raised"
           [] OTHER -> "working") = "working"
    BY <1>1, <1>3
  <2> QED
    BY <1>2, <2>1 DEF Promised!promiseVars
<1>4. CASE "A" \notin loaded
  <2>1. (CASE phase' = "done" -> "delivered" [] phase' = "raised" -> "raised"
           [] OTHER -> "working") = "raised"
    BY <1>1, <1>4
  <2>2. attempt - 1 = 0
    BY <1>4 DEF IndInv, AbortsFirst
  <2> QED
    BY <1>2, <2>1, <2>2 DEF Promised!Abort
<1> QED
  BY <1>3, <1>4

\* Inside an attempt nothing is promised or taken back.
LEMMA AttemptIsStutter ==
  ASSUME ModelADone \/ ModelBDone \/ ModelCDone \/ UNCHANGED vars
  PROVE  UNCHANGED Promised!promiseVars
<1>1. /\ UNCHANGED <<attempt, final>>
      /\ phase' = phase \/ (phase = "modelA" /\ phase' = "gather")
  BY DEF ModelADone, ModelBDone, ModelCDone, vars
<1>2. (CASE phase' = "done" -> "delivered" [] phase' = "raised" -> "raised"
         [] OTHER -> "working") =
      (CASE phase = "done" -> "delivered" [] phase = "raised" -> "raised"
         [] OTHER -> "working")
  BY <1>1
<1>3. /\ (IF phase' = "done" THEN attempt' ELSE attempt' - 1) =
            (IF phase = "done" THEN attempt ELSE attempt - 1)
      /\ [p \in Products |-> final'[p].kind] = [p \in Products |-> final[p].kind]
  BY <1>1
<1> QED
  BY <1>2, <1>3 DEF Promised!promiseVars

LEMMA StepSimulation ==
  IndInv /\ [Next]_vars => [Promised!PromiseNext]_(Promised!promiseVars)
<1> SUFFICES ASSUME IndInv, [Next]_vars
             PROVE  Promised!PromiseNext \/ UNCHANGED Promised!promiseVars
  OBVIOUS
<1>1. CASE Collect
  BY <1>1, CollectIsRound DEF Promised!PromiseNext
<1>2. CASE Normalize
  BY <1>2, NormalizeIsAbort DEF Promised!PromiseNext
<1>3. CASE ModelADone \/ ModelBDone \/ ModelCDone \/ UNCHANGED vars
  BY <1>3, AttemptIsStutter
<1> QED
  BY <1>1, <1>2, <1>3 DEF Next

\* run_batch_prediction takes no step its docstring does not promise, for any
\* number of products and attempts: the safety of KeepsPromise.
THEOREM ImplementsPromise ==
  Spec => Promised!PromiseInit /\ [][Promised!PromiseNext]_(Promised!promiseVars)
<1> QED
  BY PromiseInitHolds, StepSimulation, Invariance, PTL DEF Spec
=============================================================================
