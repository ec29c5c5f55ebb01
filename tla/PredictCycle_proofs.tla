------------------------ MODULE PredictCycle_proofs ------------------------
(***************************************************************************)
(* The safety of PredictCycle for any products, brands and requests.  The  *)
(* rows in the database outlive the request that wrote them, and what they *)
(* are compared with (who signed, what was found, what was predicted) is   *)
(* state of the request: the invariant says at which stage each of those   *)
(* is final, and that no row is written before.                            *)
(***************************************************************************)
EXTENDS PredictCycle, FiniteSetTheorems, TLAPS

-----------------------------------------------------------------------------
(* The checks in front of predict().                                       *)

Refusals == {400, 401, 403, 500}

\* The six checks of a request, in the order the dependencies run.
CheckList(h, body) ==
    KeyChecks(h) \o BrandChecks(h, secret) \o EndpointChecks(h, body)

LEMMA SixInARow ==
  ASSUME NEW e1, NEW e2, NEW e3, NEW e4, NEW e5, NEW e6, NEW s,
         s = << e1 >> \o << e2, e3, e4 >> \o << e5, e6 >>
  PROVE  /\ DOMAIN s = 1 .. 6
         /\ s[1] = e1 /\ s[2] = e2 /\ s[3] = e3 /\ s[4] = e4 /\ s[5] = e5 /\ s[6] = e6
  OBVIOUS

LEMMA CheckFields ==
  ASSUME NEW b, NEW st, NEW c, c = Check(b, st)
  PROVE  c.status = st /\ (c.fails <=> b)
  BY Zenon DEF Check

LEMMA CheckListFacts ==
  ASSUME NEW h, NEW body, NEW c, c = CheckList(h, body)
  PROVE  /\ DOMAIN c = 1 .. 6
         /\ \A i \in 1 .. 6 : c[i].status \in Refusals
         /\ c[2].fails <=> h.brand = "none"
         /\ c[4].fails <=> (secret /\ h.signature # h.brand)
         /\ c[5].fails <=> body.brand # h.brand
<1>1. PICK e1, e2, e3, e4, e5, e6 :
         /\ e1 = Check(h.token # "key", 401)
         /\ e2 = Check(h.brand = "none", 400)
         /\ e3 = Check(secret /\ h.signature \in {"missing", "malformed", "stale"}, 401)
         /\ e4 = Check(secret /\ h.signature # h.brand, 403)
         /\ e5 = Check(body.brand # h.brand, 403)
         /\ e6 = Check(~configured, 500)
  OBVIOUS
<1>2. c = << e1 >> \o << e2, e3, e4 >> \o << e5, e6 >>
  BY <1>1 DEF CheckList, KeyChecks, BrandChecks, EndpointChecks
<1>3. /\ DOMAIN c = 1 .. 6
      /\ c[1] = e1 /\ c[2] = e2 /\ c[3] = e3 /\ c[4] = e4 /\ c[5] = e5 /\ c[6] = e6
  BY <1>2, SixInARow
<1>4. /\ e1.status = 401 /\ e2.status = 400 /\ e3.status = 401
      /\ e4.status = 403 /\ e5.status = 403 /\ e6.status = 500
  BY <1>1, CheckFields
<1>5. e4.fails <=> (secret /\ h.signature # h.brand)
  <2>1. e4 = Check(secret /\ h.signature # h.brand, 403)
    BY <1>1
  <2> QED
    BY <2>1, Zenon DEF Check
<1>6. e5.fails <=> body.brand # h.brand
  <2>1. e5 = Check(body.brand # h.brand, 403)
    BY <1>1
  <2> QED
    BY <2>1, Zenon DEF Check
<1>7. e2.fails <=> h.brand = "none"
  <2>1. e2 = Check(h.brand = "none", 400)
    BY <1>1
  <2> QED
    BY <2>1, Zenon DEF Check
<1>8. \A i \in 1 .. 6 : c[i].status \in Refusals
  BY <1>3, <1>4, SMT DEF Refusals
<1> QED
  BY <1>3, <1>5, <1>6, <1>7, <1>8, Zenon

\* A nonempty set of six places has a first.
LEMMA FirstOfSix ==
  ASSUME NEW S \in SUBSET (1 .. 6), S # {}
  PROVE  \E i \in S : \A j \in S : i <= j
<1>1. \A i \in 1 .. 6 : i = 1 \/ i = 2 \/ i = 3 \/ i = 4 \/ i = 5 \/ i = 6
  BY SMT
<1>2. CASE 1 \in S
  BY <1>2, SMT
<1>3. CASE 1 \notin S /\ 2 \in S
  BY <1>1, <1>3, SMT
<1>4. CASE 1 \notin S /\ 2 \notin S /\ 3 \in S
  BY <1>1, <1>4, SMT
<1>5. CASE 1 \notin S /\ 2 \notin S /\ 3 \notin S /\ 4 \in S
  BY <1>1, <1>5, SMT
<1>6. CASE 1 \notin S /\ 2 \notin S /\ 3 \notin S /\ 4 \notin S /\ 5 \in S
  BY <1>1, <1>6, SMT
<1>7. CASE 1 \notin S /\ 2 \notin S /\ 3 \notin S /\ 4 \notin S /\ 5 \notin S
  <2>1. \A j \in S : j = 6
    BY <1>1, <1>7
  <2>2. 6 \in S
    BY <2>1
  <2> QED
    BY <2>1, <2>2, SMT
<1> QED
  BY <1>2, <1>3, <1>4, <1>5, <1>6, <1>7

\* A request that is not refused has passed every check: its header names a
\* brand, its body the same one, and where there is a secret that brand signed it.
LEMMA RefusalFacts ==
  ASSUME NEW h, NEW body
  PROVE  /\ Refusal(h, body) \in Refusals \cup {0}
         /\ Refusal(h, body) = 0 => h.brand # "none" /\ body.brand = h.brand
                                    /\ body.brand = Signer(h, secret)
<1> DEFINE c == CheckList(h, body)
           failed == {i \in DOMAIN c : c[i].fails}
           first == CHOOSE i \in failed : \A j \in failed : i <= j
<1>1. Refusal(h, body) = IF failed = {} THEN 0 ELSE c[first].status
  BY Zenon DEF Refusal, FirstFailure, CheckList
<1>2. DOMAIN c = 1 .. 6 /\ \A i \in 1 .. 6 : c[i].status \in Refusals
  BY CheckListFacts, Zenon
<1>3. failed \in SUBSET (1 .. 6)
  BY <1>2
<1>4. failed # {} => first \in failed
  BY <1>3, FirstOfSix, Zenon
<1>5. failed # {} => c[first].status \in Refusals
  BY <1>2, <1>3, <1>4
<1>6. Refusal(h, body) \in Refusals \cup {0}
  BY <1>1, <1>5
<1>7. ASSUME Refusal(h, body) = 0 
      PROVE  h.brand # "none" /\ body.brand = h.brand /\ body.brand = Signer(h, secret)
  <2>1. failed = {}
    BY <1>1, <1>5, <1>7 DEF Refusals
  <2>2. ~ c[2].fails /\ ~ c[4].fails /\ ~ c[5].fails
    BY <1>2, <2>1
  <2>3. h.brand # "none" /\ ~ (secret /\ h.signature # h.brand) /\ ~ (body.brand # h.brand)
    BY <2>2, CheckListFacts, Zenon
  <2> QED
    BY <2>3 DEF Signer
<1> QED
  BY <1>6, <1>7

-----------------------------------------------------------------------------
(* The inductive invariant.                                                *)

Stages == Running \cup {"idle", "done", "crashed"}

\* Before the pipeline has answered, and before the first write.
Unpredicted == {"idle", "fetch", "details", "predict"}
Unwritten == Unpredicted \cup {"env"}

NoRowsYet ==
    \A r \in Requests : pc[r] \in Unwritten =>
       \A p \in Products : env[p] # r /\ pred[p].by # r

GoodIsFound ==
    \A r \in Requests :
       /\ good[r] \subseteq found[r]
       /\ pc[r] \in Unpredicted => good[r] = {}
       /\ pc[r] = "idle" => found[r] = {}

FoundIsOfSigner ==
    \A r \in Requests :
       /\ \A p \in found[r] : Owner[p] = ask[r].signer
       /\ pc[r] = "fetch" => ask[r].brand = ask[r].signer

RowsOfFound ==
    \A p \in Products : pred[p].by # Nobody => p \in found[pred[p].by]

NotAnsweredYet == \A r \in Requests : pc[r] # "done" => reply[r].status # 200

EnvStored ==
    \A r \in Requests :
       pc[r] \in {"head", "pred"} /\ trouble[r] = {} =>
          \A p \in good[r] \cap exists : env[p] # Nobody

Safe ==
    /\ NoRowsYet
    /\ GoodIsFound
    /\ FoundIsOfSigner
    /\ RowsOfFound
    /\ NotAnsweredYet
    /\ EnvStored
    /\ FailedLeavesNoValue
    /\ CleanRunIsStored
    /\ HalfWrittenIsExplained

IndInv == TypeOK /\ Safe

-----------------------------------------------------------------------------
(* Type correctness.                                                       *)

Replies == [status : {0, 200, 400, 401, 403, 500, 502}, written : Nat]

LEMMA WrittenNat == ASSUME TypeOK, NEW r \in Requests PROVE Written(r) \in Nat
<1>1. found[r] \in SUBSET Products
  BY DEF TypeOK, CoreTypeOK
<1>2. IsFiniteSet(found[r])
  BY <1>1, ProductsAssumption, FS_Subset
<1> QED
  BY <1>2, FS_CardinalityType DEF Written

LEMMA RespondType ==
  ASSUME TypeOK, NEW r \in Requests, NEW st \in {0, 200, 400, 401, 403, 500, 502},
         NEW w \in Nat, Respond(r, st, w)
  PROVE  /\ pc' \in [Requests -> Stages]
         /\ reply' \in [Requests -> Replies]
         /\ open' \subseteq Requests
  BY DEF TypeOK, CoreTypeOK, Respond, Goto, Stages, Replies

LEMMA GotoType ==
  ASSUME TypeOK, NEW r \in Requests, NEW l \in Stages, Goto(r, l)
  PROVE  pc' \in [Requests -> Stages]
  BY DEF TypeOK, CoreTypeOK, Goto, Stages

LEMMA TypeStep == ASSUME TypeOK, [Next]_vars PROVE TypeOK'
<1> USE DEF Stages, Replies
<1>1. CASE UNCHANGED vars
  BY <1>1 DEF vars, settings, database, TypeOK, CoreTypeOK
<1>2. ASSUME NEW r \in Requests, Arrive(r) PROVE TypeOK'
  <2>1. PICK h \in Headers, body \in Bodies :
           \/ Refusal(h, body) # 0 /\ Respond(r, Refusal(h, body), 0) /\ UNCHANGED ask
           \/ /\ Refusal(h, body) = 0
              /\ ask' = [ask EXCEPT ![r] = [signer |-> Signer(h, secret),
                                            brand |-> body.brand, ids |-> body.ids]]
              /\ Goto(r, "fetch") /\ open' = open \cup {r} /\ UNCHANGED reply
    BY <1>2 DEF Arrive
  <2>2. /\ UNCHANGED <<settings, database, found, good, trouble>>
        /\ earlier' = [earlier EXCEPT ![r] = {q \in Requests : pc[q] = "done"}]
    BY <1>2 DEF Arrive
  <2>3. pc' \in [Requests -> Stages] /\ reply' \in [Requests -> Replies] /\ open' \subseteq Requests
    <3>1. CASE Refusal(h, body) # 0 /\ Respond(r, Refusal(h, body), 0)
      BY <3>1, RespondType, RefusalFacts DEF Refusals
    <3>2. CASE Goto(r, "fetch") /\ open' = open \cup {r} /\ UNCHANGED reply
      BY <3>2, GotoType DEF TypeOK, CoreTypeOK, Running
    <3> QED
      BY <2>1, <3>1, <3>2
  <2>4. Refusal(h, body) = 0 =>
           [signer |-> Signer(h, secret), brand |-> body.brand, ids |-> body.ids] \in Asks
    <3>1. CASE Refusal(h, body) # 0
      BY <3>1
    <3>2. CASE Refusal(h, body) = 0
      BY <3>2, RefusalFacts DEF Asks, Bodies, Headers
    <3> QED
      BY <3>1, <3>2
  <2>5. ask' \in [Requests -> Asks]
    BY <2>1, <2>4 DEF TypeOK, CoreTypeOK
  <2> QED
    BY <2>2, <2>3, <2>5 DEF TypeOK, CoreTypeOK, settings, database
<1>3. ASSUME NEW r \in Requests, SelectProducts(r) PROVE TypeOK'
  <2>1. Fetched(ask[r]) \subseteq Products
    BY DEF Fetched, TypeOK, CoreTypeOK, Asks
  <2>2. found' \in [Requests -> SUBSET Products]
    BY <1>3, <2>1 DEF SelectProducts, TypeOK, CoreTypeOK
  <2>3. pc' \in [Requests -> Stages] /\ reply' \in [Requests -> Replies] /\ open' \subseteq Requests
    <3>1. CASE Respond(r, 400, 0)
      BY <3>1, RespondType
    <3>2. CASE Goto(r, "details") /\ UNCHANGED <<reply, open>>
      BY <3>2, GotoType DEF TypeOK, CoreTypeOK, Running
    <3> QED
      BY <1>3, <3>1, <3>2 DEF SelectProducts
  <2> QED
    BY <1>3, <2>2, <2>3 DEF SelectProducts, TypeOK, CoreTypeOK, settings, database
<1>4. ASSUME NEW r \in Requests, SelectDetails(r) PROVE TypeOK'
  BY <1>4, GotoType DEF SelectDetails, TypeOK, CoreTypeOK, Running, settings, database
<1>5. ASSUME NEW r \in Requests, FetchFails(r) PROVE TypeOK'
  BY <1>5, RespondType DEF FetchFails, TypeOK, CoreTypeOK, settings, database
<1>6. ASSUME NEW r \in Requests, Predicted(r) PROVE TypeOK'
  <2>1. PICK S \in SUBSET found[r] :
           good' = [good EXCEPT ![r] = S] /\ Goto(r, IF S = {} THEN "head" ELSE "env")
    BY <1>6 DEF Predicted
  <2>2. pc' \in [Requests -> Stages]
    BY <2>1, GotoType DEF Running
  <2>3. good' \in [Requests -> SUBSET Products]
    BY <2>1 DEF TypeOK, CoreTypeOK
  <2> QED
    BY <1>6, <2>2, <2>3 DEF Predicted, TypeOK, CoreTypeOK, settings, database
<1>7. ASSUME NEW r \in Requests, PipelineFails(r) PROVE TypeOK'
  BY <1>7, RespondType DEF PipelineFails, TypeOK, CoreTypeOK, settings, database
<1>8. ASSUME NEW r \in Requests, WriteEnvironment(r) PROVE TypeOK'
  <2>1. pc' \in [Requests -> Stages]
    BY <1>8, GotoType DEF WriteEnvironment, Running
  <2>2. /\ env' \in [Products -> Requests \cup {Nobody}]
        /\ trouble' \in [Requests -> SUBSET {"env", "table", "pred"}]
    <3>1. Inserted(good[r], r) \in [Products -> Requests \cup {Nobody}]
      BY DEF Inserted, TypeOK, CoreTypeOK
    <3>2. [trouble EXCEPT ![r] = @ \cup {"env"}] \in [Requests -> SUBSET {"env", "table", "pred"}]
      BY DEF TypeOK, CoreTypeOK
    <3>3. CASE env' = Inserted(good[r], r)
               /\ trouble' \in {trouble, [trouble EXCEPT ![r] = @ \cup {"env"}]}
      BY <3>1, <3>2, <3>3 DEF TypeOK, CoreTypeOK
    <3>4. CASE trouble' = [trouble EXCEPT ![r] = @ \cup {"env"}] /\ UNCHANGED env
      BY <3>2, <3>4 DEF TypeOK, CoreTypeOK
    <3> QED
      BY <1>8, <3>3, <3>4 DEF WriteEnvironment
  <2> QED
    BY <1>8, <2>1, <2>2 DEF WriteEnvironment, TypeOK, CoreTypeOK, settings, database
<1>9. ASSUME NEW r \in Requests, TableFound(r) PROVE TypeOK'
  BY <1>9, GotoType DEF TableFound, TypeOK, CoreTypeOK, Running, settings, database
<1>10. ASSUME NEW r \in Requests, TableNotFound(r) PROVE TypeOK'
  <2>1. pc' \in [Requests -> Stages] /\ reply' \in [Requests -> Replies] /\ open' \subseteq Requests
    BY <1>10, RespondType, WrittenNat DEF TableNotFound
  <2>2. trouble' \in [Requests -> SUBSET {"env", "table", "pred"}]
    BY <1>10 DEF TableNotFound, TypeOK, CoreTypeOK
  <2> QED
    BY <1>10, <2>1, <2>2 DEF TableNotFound, TypeOK, CoreTypeOK, settings, database
<1>11. ASSUME NEW r \in Requests, WritePredictions(r) PROVE TypeOK'
  <2>1. pc' \in [Requests -> Stages] /\ reply' \in [Requests -> Replies] /\ open' \subseteq Requests
    BY <1>11, RespondType, WrittenNat DEF WritePredictions
  <2>2. /\ pred' \in [Products -> [by : Requests \cup {Nobody}, ok : BOOLEAN]]
        /\ trouble' \in [Requests -> SUBSET {"env", "table", "pred"}]
    <3>1. Upserted(found[r], r) \in [Products -> [by : Requests \cup {Nobody}, ok : BOOLEAN]]
      <4>1. \A p \in Products : (p \in good[r]) \in BOOLEAN
        OBVIOUS
      <4> QED
        BY <4>1 DEF Upserted, TypeOK, CoreTypeOK
    <3>2. [trouble EXCEPT ![r] = @ \cup {"pred"}] \in [Requests -> SUBSET {"env", "table", "pred"}]
      BY DEF TypeOK, CoreTypeOK
    <3>3. CASE pred' = Upserted(found[r], r)
               /\ trouble' \in {trouble, [trouble EXCEPT ![r] = @ \cup {"pred"}]}
      BY <3>1, <3>2, <3>3 DEF TypeOK, CoreTypeOK
    <3>4. CASE trouble' = [trouble EXCEPT ![r] = @ \cup {"pred"}] /\ UNCHANGED pred
      BY <3>2, <3>4 DEF TypeOK, CoreTypeOK
    <3> QED
      BY <1>11, <3>3, <3>4 DEF WritePredictions
  <2> QED
    BY <1>11, <2>1, <2>2 DEF WritePredictions, TypeOK, CoreTypeOK, settings
<1>12. CASE Crash
  BY <1>12 DEF Crash, TypeOK, CoreTypeOK, settings, database
<1>13. ASSUME NEW p \in Products, DeleteProduct(p) PROVE TypeOK'
  BY <1>13 DEF DeleteProduct, TypeOK, CoreTypeOK, NoRow, settings
<1> QED
  BY <1>1, <1>2, <1>3, <1>4, <1>5, <1>6, <1>7, <1>8, <1>9, <1>10, <1>11, <1>12, <1>13
  DEF Next, Step

-----------------------------------------------------------------------------
(* The steps.  A request that only moves on, or ends early, leaves the      *)
(* rows alone; what it fixes for good (who signed, what was found, what    *)
(* was predicted) it fixes before it has any.                              *)

\* A request is refused, or admitted with a signer that is its brand.
LEMMA ArriveStep ==
  ASSUME CoreTypeOK, Safe, NEW r \in Requests, Arrive(r)
  PROVE  Safe'
<1> USE DEF Safe, CoreTypeOK
<1>1. pc[r] = "idle" /\ UNCHANGED <<env, pred, exists, trouble, found, good>>
      /\ \E h \in Headers, body \in Bodies :
            \/ /\ Refusal(h, body) # 0 /\ UNCHANGED ask /\ pc' = [pc EXCEPT ![r] = "done"]
               /\ reply' = [reply EXCEPT ![r] = [status |-> Refusal(h, body), written |-> 0]]
            \/ /\ Refusal(h, body) = 0 /\ UNCHANGED reply /\ pc' = [pc EXCEPT ![r] = "fetch"]
               /\ ask' = [ask EXCEPT ![r] = [signer |-> Signer(h, secret),
                                             brand |-> body.brand, ids |-> body.ids]]
  BY DEF Arrive, Respond, Goto, database
<1>2. NoRowsYet'
  BY <1>1 DEF NoRowsYet, Unwritten, Unpredicted
<1>3. GoodIsFound'
  BY <1>1 DEF GoodIsFound, Unpredicted
<1>4. FoundIsOfSigner'
  <2> SUFFICES ASSUME NEW q \in Requests
               PROVE  /\ \A x \in found[q] : Owner[x] = ask'[q].signer
                      /\ pc'[q] = "fetch" => ask'[q].brand = ask'[q].signer
    BY <1>1 DEF FoundIsOfSigner
  <2>1. CASE q # r
    BY <1>1, <2>1 DEF FoundIsOfSigner
  <2>2. CASE q = r
    <3>1. found[r] = {}
      BY <1>1 DEF GoodIsFound
    <3>2. ASSUME pc'[r] = "fetch" PROVE ask'[r].brand = ask'[r].signer
      <4>1. PICK h \in Headers, body \in Bodies :
               /\ Refusal(h, body) = 0
               /\ ask' = [ask EXCEPT ![r] = [signer |-> Signer(h, secret),
                                             brand |-> body.brand, ids |-> body.ids]]
        BY <1>1, <3>2
      <4> QED
        BY <4>1, RefusalFacts
    <3> QED
      BY <2>2, <3>1, <3>2
  <2> QED
    BY <2>1, <2>2
<1>5. RowsOfFound'
  BY <1>1 DEF RowsOfFound
<1>6. NotAnsweredYet'
  BY <1>1, RefusalFacts DEF NotAnsweredYet, Refusals
<1>7. EnvStored'
  BY <1>1 DEF EnvStored
<1>8. FailedLeavesNoValue'
  BY <1>1 DEF FailedLeavesNoValue
<1>9. CleanRunIsStored'
  <2> SUFFICES ASSUME NEW q \in Requests, reply'[q].status = 200, trouble'[q] = {},
                      NEW x \in found'[q] \cap exists'
               PROVE  pred'[x].by # Nobody /\ (x \in good'[q] => env'[x] # Nobody)
    BY DEF CleanRunIsStored
  <2>1. reply[q].status = 200
    <3>1. CASE q # r
      BY <1>1, <3>1
    <3>2. CASE q = r
      <4>1. \A h, body : Refusal(h, body) # 200
        BY RefusalFacts DEF Refusals
      <4> QED
        BY <1>1, <3>2, <4>1
    <3> QED
      BY <3>1, <3>2
  <2>2. trouble[q] = {} /\ x \in found[q] \cap exists
    BY <1>1
  <2>3. pred[x].by # Nobody /\ (x \in good[q] => env[x] # Nobody)
    BY <2>1, <2>2 DEF CleanRunIsStored
  <2> QED
    BY <1>1, <2>3
<1>10. HalfWrittenIsExplained'
  BY <1>1 DEF HalfWrittenIsExplained
<1> QED
  BY <1>2, <1>3, <1>4, <1>5, <1>6, <1>7, <1>8, <1>9, <1>10

\* What is found belongs to the brand of the body, and so to the signer.
LEMMA SelectProductsStep ==
  ASSUME CoreTypeOK, Safe, NEW r \in Requests, SelectProducts(r)
  PROVE  Safe'
<1> USE DEF Safe, CoreTypeOK
<1>1. pc[r] = "fetch" /\ UNCHANGED <<env, pred, exists, trouble, good, ask>>
      /\ found' = [found EXCEPT ![r] = Fetched(ask[r])]
      /\ \/ /\ pc' = [pc EXCEPT ![r] = "done"]
            /\ reply' = [reply EXCEPT ![r] = [status |-> 400, written |-> 0]]
         \/ pc' = [pc EXCEPT ![r] = "details"] /\ UNCHANGED reply
  BY DEF SelectProducts, Respond, Goto, database
<1>2. NoRowsYet'
  BY <1>1 DEF NoRowsYet, Unwritten, Unpredicted
<1>3. GoodIsFound'
  BY <1>1 DEF GoodIsFound, Unpredicted
<1>4. FoundIsOfSigner'
  BY <1>1 DEF FoundIsOfSigner, Fetched
<1>5. RowsOfFound'
  BY <1>1 DEF RowsOfFound, NoRowsYet, Unwritten, Unpredicted
<1>6. NotAnsweredYet'
  BY <1>1 DEF NotAnsweredYet
<1>7. EnvStored'
  BY <1>1 DEF EnvStored
<1>8. FailedLeavesNoValue'
  BY <1>1 DEF FailedLeavesNoValue
<1>9. CleanRunIsStored'
  <2> SUFFICES ASSUME NEW q \in Requests, reply'[q].status = 200, trouble'[q] = {},
                      NEW x \in found'[q] \cap exists'
               PROVE  pred'[x].by # Nobody /\ (x \in good'[q] => env'[x] # Nobody)
    BY DEF CleanRunIsStored
  <2>1. reply[q].status = 200 /\ q # r
    BY <1>1 DEF NotAnsweredYet
  <2>2. trouble[q] = {} /\ x \in found[q] \cap exists
    BY <1>1, <2>1
  <2>3. pred[x].by # Nobody /\ (x \in good[q] => env[x] # Nobody)
    BY <2>1, <2>2 DEF CleanRunIsStored
  <2> QED
    BY <1>1, <2>3
<1>10. HalfWrittenIsExplained'
  BY <1>1 DEF HalfWrittenIsExplained
<1> QED
  BY <1>2, <1>3, <1>4, <1>5, <1>6, <1>7, <1>8, <1>9, <1>10

\* The pipeline answers once, before the first write.
LEMMA PredictedStep ==
  ASSUME CoreTypeOK, Safe, NEW r \in Requests, Predicted(r)
  PROVE  Safe'
<1> USE DEF Safe, CoreTypeOK
<1>1. pc[r] = "predict" /\ UNCHANGED <<env, pred, exists, trouble, found, ask, reply>>
      /\ \E S \in SUBSET found[r] : /\ good' = [good EXCEPT ![r] = S]
                                    /\ pc' = [pc EXCEPT ![r] = IF S = {} THEN "head" ELSE "env"]
  BY DEF Predicted, Goto, database
<1>2. NoRowsYet'
  BY <1>1 DEF NoRowsYet, Unwritten, Unpredicted
<1>3. GoodIsFound'
  BY <1>1 DEF GoodIsFound, Unpredicted
<1>4. FoundIsOfSigner'
  BY <1>1 DEF FoundIsOfSigner
<1>5. RowsOfFound'
  BY <1>1 DEF RowsOfFound
<1>6. NotAnsweredYet'
  BY <1>1 DEF NotAnsweredYet
<1>7. EnvStored'
  BY <1>1 DEF EnvStored
<1>8. FailedLeavesNoValue'
  BY <1>1 DEF FailedLeavesNoValue, NoRowsYet, Unwritten, Unpredicted
<1>9. CleanRunIsStored'
  BY <1>1 DEF CleanRunIsStored, NotAnsweredYet
<1>10. HalfWrittenIsExplained'
  BY <1>1 DEF HalfWrittenIsExplained, NoRowsYet, Unwritten, Unpredicted
<1> QED
  BY <1>2, <1>3, <1>4, <1>5, <1>6, <1>7, <1>8, <1>9, <1>10

\* A request moves on, or ends with an error, with nothing written.
LEMMA MoveStep ==
  ASSUME CoreTypeOK, Safe, NEW r \in Requests,
         SelectDetails(r) \/ FetchFails(r) \/ PipelineFails(r) \/ TableFound(r)
  PROVE  Safe'
<1> USE DEF Safe, CoreTypeOK
<1>1. UNCHANGED <<env, pred, exists, trouble, found, good, ask>>
      /\ \/ pc[r] = "details" /\ pc' = [pc EXCEPT ![r] = "predict"] /\ UNCHANGED reply
         \/ pc[r] = "head" /\ pc' = [pc EXCEPT ![r] = "pred"] /\ UNCHANGED reply
         \/ /\ pc[r] \in {"fetch", "details", "predict"} /\ pc' = [pc EXCEPT ![r] = "done"]
            /\ \E st \in {500, 502} :
                  reply' = [reply EXCEPT ![r] = [status |-> st, written |-> 0]]
  BY DEF SelectDetails, FetchFails, PipelineFails, TableFound, Respond, Goto, database
<1>2. NoRowsYet'
  BY <1>1 DEF NoRowsYet, Unwritten, Unpredicted
<1>3. GoodIsFound'
  BY <1>1 DEF GoodIsFound, Unpredicted
<1>4. FoundIsOfSigner'
  BY <1>1 DEF FoundIsOfSigner
<1>5. RowsOfFound'
  BY <1>1 DEF RowsOfFound
<1>6. NotAnsweredYet'
  BY <1>1 DEF NotAnsweredYet
<1>7. EnvStored'
  BY <1>1 DEF EnvStored
<1>8. FailedLeavesNoValue'
  BY <1>1 DEF FailedLeavesNoValue
<1>9. CleanRunIsStored'
  <2> SUFFICES ASSUME NEW q \in Requests, reply'[q].status = 200, trouble'[q] = {},
                      NEW x \in found'[q] \cap exists'
               PROVE  pred'[x].by # Nobody /\ (x \in good'[q] => env'[x] # Nobody)
    BY DEF CleanRunIsStored
  <2>1. reply[q].status = 200 /\ trouble[q] = {} /\ x \in found[q] \cap exists
    BY <1>1
  <2>2. pred[x].by # Nobody /\ (x \in good[q] => env[x] # Nobody)
    BY <2>1 DEF CleanRunIsStored
  <2> QED
    BY <1>1, <2>1, <2>2
<1>10. HalfWrittenIsExplained'
  BY <1>1 DEF HalfWrittenIsExplained, NoRowsYet, Unwritten, Unpredicted
<1> QED
  BY <1>2, <1>3, <1>4, <1>5, <1>6, <1>7, <1>8, <1>9, <1>10

\* Rows of product_environment are of predicted products, and once they are
\* asked for without an error every one of them is there.
LEMMA WriteEnvironmentStep ==
  ASSUME CoreTypeOK, Safe, NEW r \in Requests, WriteEnvironment(r)
  PROVE  Safe'
<1> USE DEF Safe, CoreTypeOK
<1>1. pc[r] = "env" /\ pc' = [pc EXCEPT ![r] = "head"]
      /\ UNCHANGED <<pred, exists, found, good, ask, reply>>
      /\ \/ /\ env' = Inserted(good[r], r)
            /\ trouble' \in {trouble, [trouble EXCEPT ![r] = @ \cup {"env"}]}
         \/ env' = env /\ trouble' = [trouble EXCEPT ![r] = @ \cup {"env"}]
  BY DEF WriteEnvironment, Goto
<1>2. NoRowsYet'
  BY <1>1 DEF NoRowsYet, Unwritten, Unpredicted, Inserted
<1>3. GoodIsFound'
  BY <1>1 DEF GoodIsFound, Unpredicted
<1>4. FoundIsOfSigner'
  BY <1>1 DEF FoundIsOfSigner
<1>5. RowsOfFound'
  BY <1>1 DEF RowsOfFound
<1>6. NotAnsweredYet'
  BY <1>1 DEF NotAnsweredYet
<1>7. EnvStored'
  <2> SUFFICES ASSUME NEW q \in Requests, pc'[q] \in {"head", "pred"}, trouble'[q] = {},
                      NEW x \in good[q] \cap exists
               PROVE  env'[x] # Nobody
    BY <1>1 DEF EnvStored
  <2>1. CASE q = r
    <3>1. env' = Inserted(good[r], r)
      <4>1. trouble' # [trouble EXCEPT ![r] = @ \cup {"env"}]
        <5>1. "env" \in [trouble EXCEPT ![r] = @ \cup {"env"}][r]
          OBVIOUS
        <5> QED
          BY <2>1, <5>1
      <4> QED
        BY <1>1, <4>1
    <3> QED
      BY <2>1, <3>1, RequestsAssumption DEF Inserted, Nobody
  <2>2. CASE q # r
    <3>1. env[x] # Nobody
      BY <1>1, <2>2 DEF EnvStored
    <3> QED
      BY <1>1, <3>1 DEF Inserted
  <2> QED
    BY <2>1, <2>2
<1>8. FailedLeavesNoValue'
  BY <1>1 DEF FailedLeavesNoValue, Inserted
<1>9. CleanRunIsStored'
  BY <1>1 DEF CleanRunIsStored, Inserted
<1>10. HalfWrittenIsExplained'
  BY <1>1 DEF HalfWrittenIsExplained, Inserted
<1> QED
  BY <1>2, <1>3, <1>4, <1>5, <1>6, <1>7, <1>8, <1>9, <1>10

\* A table that is not found ends the request with its trouble noted.
LEMMA TableNotFoundStep ==
  ASSUME CoreTypeOK, Safe, NEW r \in Requests, TableNotFound(r)
  PROVE  Safe'
<1> USE DEF Safe, CoreTypeOK
<1>1. pc[r] = "head" /\ pc' = [pc EXCEPT ![r] = "done"]
      /\ UNCHANGED <<env, pred, exists, found, good, ask>>
      /\ trouble' = [trouble EXCEPT ![r] = @ \cup {"table"}]
      /\ reply' = [reply EXCEPT ![r] = [status |-> 200, written |-> Written(r)]]
  BY DEF TableNotFound, Respond, Goto, database
<1>2. NoRowsYet'
  BY <1>1 DEF NoRowsYet, Unwritten, Unpredicted
<1>3. GoodIsFound'
  BY <1>1 DEF GoodIsFound, Unpredicted
<1>4. FoundIsOfSigner'
  BY <1>1 DEF FoundIsOfSigner
<1>5. RowsOfFound'
  BY <1>1 DEF RowsOfFound
<1>6. NotAnsweredYet'
  BY <1>1 DEF NotAnsweredYet
<1>7. EnvStored'
  BY <1>1 DEF EnvStored
<1>8. FailedLeavesNoValue'
  BY <1>1 DEF FailedLeavesNoValue
<1>9. CleanRunIsStored'
  <2> SUFFICES ASSUME NEW q \in Requests, reply'[q].status = 200, trouble'[q] = {},
                      NEW x \in found'[q] \cap exists'
               PROVE  pred'[x].by # Nobody /\ (x \in good'[q] => env'[x] # Nobody)
    BY DEF CleanRunIsStored
  <2>1. q # r
    BY <1>1
  <2>2. reply[q].status = 200 /\ trouble[q] = {}
    BY <1>1, <2>1
  <2>3. x \in found[q] \cap exists
    BY <1>1
  <2>4. pred[x].by # Nobody /\ (x \in good[q] => env[x] # Nobody)
    BY <2>2, <2>3 DEF CleanRunIsStored
  <2> QED
    BY <1>1, <2>4
<1>10. HalfWrittenIsExplained'
  <2> SUFFICES ASSUME NEW x \in Products, env[x] # Nobody, pred[x].by = Nobody
               PROVE  pc'[env[x]] \in {"head", "pred", "crashed"} \/ trouble'[env[x]] # {}
    <3>1. env' = env /\ pred' = pred
      BY <1>1
    <3> QED
      BY <3>1 DEF HalfWrittenIsExplained
  <2>1. env[x] \in Requests
    BY DEF CoreTypeOK
  <2>2. CASE env[x] = r
    BY <1>1, <2>2
  <2>3. CASE env[x] # r
    BY <1>1, <2>1, <2>3 DEF HalfWrittenIsExplained
  <2> QED
    BY <2>2, <2>3
<1> QED
  BY <1>2, <1>3, <1>4, <1>5, <1>6, <1>7, <1>8, <1>9, <1>10

\* The upsert takes over the rows of all products found, with a value for the
\* predicted ones; both tables are complete unless a call failed.
LEMMA WritePredictionsStep ==
  ASSUME CoreTypeOK, Safe, NEW r \in Requests, WritePredictions(r)
  PROVE  Safe'
<1> USE DEF Safe, CoreTypeOK
<1>1. pc[r] = "pred" /\ pc' = [pc EXCEPT ![r] = "done"]
      /\ UNCHANGED <<env, exists, found, good, ask>>
      /\ reply' = [reply EXCEPT ![r] = [status |-> 200, written |-> Written(r)]]
      /\ \/ /\ pred' = Upserted(found[r], r)
            /\ trouble' \in {trouble, [trouble EXCEPT ![r] = @ \cup {"pred"}]}
         \/ pred' = pred /\ trouble' = [trouble EXCEPT ![r] = @ \cup {"pred"}]
  BY DEF WritePredictions, Respond, Goto
<1>2. NoRowsYet'
  BY <1>1 DEF NoRowsYet, Unwritten, Unpredicted, Upserted
<1>3. GoodIsFound'
  BY <1>1 DEF GoodIsFound, Unpredicted
<1>4. FoundIsOfSigner'
  BY <1>1 DEF FoundIsOfSigner
<1>5. RowsOfFound'
  <2> SUFFICES ASSUME NEW x \in Products, pred'[x].by # Nobody
               PROVE  x \in found[pred'[x].by]
    BY <1>1 DEF RowsOfFound
  <2>1. CASE pred'[x] = pred[x]
    BY <2>1 DEF RowsOfFound
  <2>2. CASE pred' = Upserted(found[r], r) /\ x \in found[r]
    <3>1. pred'[x].by = r
      BY <2>2 DEF Upserted
    <3> QED
      BY <2>2, <3>1
  <2> QED
    BY <1>1, <2>1, <2>2 DEF Upserted
<1>6. NotAnsweredYet'
  BY <1>1 DEF NotAnsweredYet
<1>7. EnvStored'
  BY <1>1 DEF EnvStored
<1>8. FailedLeavesNoValue'
  <2> SUFFICES ASSUME NEW x \in Products
               PROVE  /\ env[x] # Nobody => x \in good[env[x]]
                      /\ pred'[x].by # Nobody => (pred'[x].ok <=> x \in good[pred'[x].by])
    BY <1>1 DEF FailedLeavesNoValue
  <2>1. CASE pred'[x] = pred[x]
    BY <2>1 DEF FailedLeavesNoValue
  <2>2. CASE pred' = Upserted(found[r], r) /\ x \in found[r]
    <3>1. pred'[x] = [by |-> r, ok |-> x \in good[r]]
      BY <2>2 DEF Upserted
    <3>2. pred'[x].by = r
      BY <3>1
    <3>3. pred'[x].ok <=> x \in good[r]
      <4>1. PICK row : row = pred'[x]
        OBVIOUS
      <4>2. row = [by |-> r, ok |-> x \in good[r]]
        BY <3>1, <4>1
      <4>3. row.ok <=> x \in good[r]
        BY <4>2, Zenon
      <4> QED
        BY <4>1, <4>3
    <3> QED
      BY <3>2, <3>3 DEF FailedLeavesNoValue
  <2> QED
    BY <1>1, <2>1, <2>2 DEF Upserted
<1>9. CleanRunIsStored'
  <2> SUFFICES ASSUME NEW q \in Requests, reply'[q].status = 200, trouble'[q] = {},
                      NEW x \in found'[q] \cap exists'
               PROVE  pred'[x].by # Nobody /\ (x \in good'[q] => env'[x] # Nobody)
    BY DEF CleanRunIsStored
  <2>1. pred[x].by # Nobody => pred'[x].by # Nobody
    BY <1>1, RequestsAssumption DEF Upserted, Nobody
  <2>2. CASE q # r
    BY <1>1, <2>1, <2>2 DEF CleanRunIsStored
  <2>3. CASE q = r
    <3>1. pred' = Upserted(found[r], r) /\ trouble[r] = {}
      <4>1. trouble' # [trouble EXCEPT ![r] = @ \cup {"pred"}]
        <5>1. "pred" \in [trouble EXCEPT ![r] = @ \cup {"pred"}][r]
          OBVIOUS
        <5> QED
          BY <2>3, <5>1
      <4> QED
        BY <1>1, <2>3, <4>1
    <3>2. pred'[x].by # Nobody
      BY <1>1, <2>3, <3>1, RequestsAssumption DEF Upserted, Nobody
    <3>3. x \in good[r] => env[x] # Nobody
      BY <1>1, <2>3, <3>1 DEF EnvStored
    <3> QED
      BY <1>1, <2>3, <3>2, <3>3
  <2> QED
    BY <2>2, <2>3
<1>10. HalfWrittenIsExplained'
  <2> SUFFICES ASSUME NEW x \in Products, env[x] # Nobody, pred'[x].by = Nobody
               PROVE  pc'[env[x]] \in {"head", "pred", "crashed"} \/ trouble'[env[x]] # {}
    BY <1>1 DEF HalfWrittenIsExplained
  <2>1. env[x] \in Requests /\ x \in found[env[x]]
    BY DEF FailedLeavesNoValue, GoodIsFound
  <2>2. CASE env[x] = r
    <3>1. pred' # Upserted(found[r], r)
      BY <2>1, <2>2, RequestsAssumption DEF Upserted, Nobody
    <3>2. trouble' = [trouble EXCEPT ![r] = @ \cup {"pred"}]
      BY <1>1, <3>1
    <3>3. "pred" \in trouble'[r]
      BY <3>2
    <3> QED
      BY <2>2, <3>3
  <2>3. CASE env[x] # r
    <3>1. pred[x].by = Nobody
      BY <1>1, RequestsAssumption DEF Upserted, Nobody
    <3> QED
      BY <1>1, <2>1, <2>3, <3>1 DEF HalfWrittenIsExplained
  <2> QED
    BY <2>2, <2>3
<1> QED
  BY <1>2, <1>3, <1>4, <1>5, <1>6, <1>7, <1>8, <1>9, <1>10

\* The rows outlive the container; its requests do not.
LEMMA CrashStep ==
  ASSUME CoreTypeOK, Safe, Crash
  PROVE  Safe'
<1> USE DEF Safe, CoreTypeOK
<1>1. UNCHANGED <<env, pred, exists, trouble, found, good, ask, reply>>
      /\ pc' = [r \in Requests |-> IF pc[r] \in Running THEN "crashed" ELSE pc[r]]
  BY DEF Crash, database
<1>2. NoRowsYet'
  BY <1>1 DEF NoRowsYet, Unwritten, Unpredicted, Running
<1>3. GoodIsFound'
  BY <1>1 DEF GoodIsFound, Unpredicted, Running
<1>4. FoundIsOfSigner'
  BY <1>1 DEF FoundIsOfSigner, Running
<1>5. RowsOfFound'
  BY <1>1 DEF RowsOfFound
<1>6. NotAnsweredYet'
  BY <1>1 DEF NotAnsweredYet, Running
<1>7. EnvStored'
  BY <1>1 DEF EnvStored, Running
<1>8. FailedLeavesNoValue'
  BY <1>1 DEF FailedLeavesNoValue
<1>9. CleanRunIsStored'
  BY <1>1 DEF CleanRunIsStored
<1>10. HalfWrittenIsExplained'
  BY <1>1 DEF HalfWrittenIsExplained, Running
<1> QED
  BY <1>2, <1>3, <1>4, <1>5, <1>6, <1>7, <1>8, <1>9, <1>10

\* A product goes from both tables at once.
LEMMA DeleteProductStep ==
  ASSUME CoreTypeOK, Safe, NEW p \in Products, DeleteProduct(p)
  PROVE  Safe'
<1> USE DEF Safe, CoreTypeOK
<1>1. UNCHANGED <<pc, trouble, found, good, ask, reply>>
      /\ exists' = exists \ {p}
      /\ env' = [env EXCEPT ![p] = Nobody] /\ pred' = [pred EXCEPT ![p] = NoRow]
  BY DEF DeleteProduct
<1>2. NoRowsYet'
  BY <1>1, RequestsAssumption DEF NoRowsYet, Nobody, NoRow
<1>3. GoodIsFound'
  BY <1>1 DEF GoodIsFound, Unpredicted
<1>4. FoundIsOfSigner'
  BY <1>1 DEF FoundIsOfSigner
<1>5. RowsOfFound'
  BY <1>1 DEF RowsOfFound, NoRow
<1>6. NotAnsweredYet'
  BY <1>1 DEF NotAnsweredYet
<1>7. EnvStored'
  BY <1>1 DEF EnvStored
<1>8. FailedLeavesNoValue'
  BY <1>1 DEF FailedLeavesNoValue, NoRow
<1>9. CleanRunIsStored'
  <2> SUFFICES ASSUME NEW q \in Requests, reply'[q].status = 200, trouble'[q] = {},
                      NEW x \in found'[q] \cap exists'
               PROVE  pred'[x].by # Nobody /\ (x \in good'[q] => env'[x] # Nobody)
    BY DEF CleanRunIsStored
  <2>1. reply[q].status = 200 /\ trouble[q] = {} /\ x \in found[q] \cap exists
    BY <1>1
  <2>2. pred[x].by # Nobody /\ (x \in good[q] => env[x] # Nobody)
    BY <2>1 DEF CleanRunIsStored
  <2> QED
    BY <1>1, <2>1, <2>2
<1>10. HalfWrittenIsExplained'
  BY <1>1 DEF HalfWrittenIsExplained, NoRow
<1> QED
  BY <1>2, <1>3, <1>4, <1>5, <1>6, <1>7, <1>8, <1>9, <1>10

LEMMA InitInv == Init => IndInv
  BY RequestsAssumption
  DEF Init, IndInv, TypeOK, CoreTypeOK, Safe, NoRowsYet, GoodIsFound, FoundIsOfSigner, RowsOfFound,
      NotAnsweredYet, EnvStored, FailedLeavesNoValue, CleanRunIsStored,
      HalfWrittenIsExplained, Unwritten, Unpredicted, Running, NoRow, NoReply, NoAsk, Asks,
      Defects, Nobody

LEMMA StepInv == IndInv /\ [Next]_vars => IndInv'
<1> SUFFICES ASSUME IndInv, [Next]_vars PROVE Safe'
  BY TypeStep DEF IndInv
<1>0. CoreTypeOK /\ Safe
  BY DEF IndInv, TypeOK
<1>1. CASE UNCHANGED vars
  BY <1>1 DEF vars, settings, database, IndInv, Safe, NoRowsYet, GoodIsFound,
              FoundIsOfSigner, RowsOfFound, NotAnsweredYet, EnvStored,
              FailedLeavesNoValue, CleanRunIsStored, HalfWrittenIsExplained
<1>2. ASSUME NEW r \in Requests, Step(r) PROVE Safe'
  BY <1>0, <1>2, SelectProductsStep, MoveStep, PredictedStep, WriteEnvironmentStep,
     TableNotFoundStep, WritePredictionsStep DEF Step
<1> QED
  BY <1>0, <1>1, <1>2, ArriveStep, CrashStep, DeleteProductStep DEF Next

THEOREM Invariance == Spec => []IndInv
<1> QED
  BY InitInv, StepInv, PTL DEF Spec

\* The types of the variables, for any finite catalogue.
THEOREM TypeCorrect == Spec => []TypeOK
<1>1. IndInv => TypeOK
  BY DEF IndInv
<1> QED
  BY <1>1, Invariance, PTL

\* No row is of another brand's product, whoever asks for what, however often,
\* and whatever products and brands there are.
THEOREM RowsOfVerifiedBrandHolds == Spec => []RowsOfVerifiedBrand
<1>1. IndInv => RowsOfVerifiedBrand
  BY DEF IndInv, TypeOK, CoreTypeOK, Safe, FailedLeavesNoValue, GoodIsFound, RowsOfFound,
         FoundIsOfSigner, RowsOfVerifiedBrand
<1> QED
  BY <1>1, Invariance, PTL

\* A failed product has no value from the request it failed in.
THEOREM FailedLeavesNoValueHolds == Spec => []FailedLeavesNoValue
<1>1. IndInv => FailedLeavesNoValue
  BY DEF IndInv, Safe
<1> QED
  BY <1>1, Invariance, PTL

\* A 200 without a failed call means that everything it counts is stored, for
\* any number of requests that overwrite each other's rows meanwhile.
THEOREM CleanRunIsStoredHolds == Spec => []CleanRunIsStored
<1>1. IndInv => CleanRunIsStored
  BY DEF IndInv, Safe
<1> QED
  BY <1>1, Invariance, PTL

\* A product with the one row and not the other is explained by its request.
THEOREM HalfWrittenIsExplainedHolds == Spec => []HalfWrittenIsExplained
<1>1. IndInv => HalfWrittenIsExplained
  BY DEF IndInv, Safe
<1> QED
  BY <1>1, Invariance, PTL

-----------------------------------------------------------------------------
(* Two requests in turn.  A request that is done acts no more, so what its *)
(* writes left can only be changed by later ones, or go with its product.  *)

\* What a request stored in product_environment without an error is there, or
\* an older value is, for as long as the product exists.
EnvKept ==
    \A r \in Requests :
       pc[r] \in {"head", "pred", "done"} /\ "env" \notin trouble[r] =>
          \A p \in good[r] \cap exists : env[p] # Nobody

EarlierIsDone ==
    \A r \in Requests : \A q \in earlier[r] : pc[q] = "done" /\ q # r

InTurn == EnvKept /\ EarlierIsDone /\ FirstValueLastPrediction

\* A step of a request that writes no row and ends no request with a 200.
LEMMA QuietInTurn ==
  ASSUME IndInv, InTurn, NEW r \in Requests, pc[r] \in Running,
         UNCHANGED <<env, pred, exists, earlier>>,
         \A q \in Requests \ {r} :
            /\ pc'[q] = pc[q] /\ found'[q] = found[q] /\ good'[q] = good[q]
            /\ trouble'[q] = trouble[q] /\ reply'[q] = reply[q],
         reply'[r].status = 200 => trouble'[r] # {},
         pc'[r] \in {"head", "pred", "done"} /\ "env" \notin trouble'[r] =>
            \A p \in good'[r] \cap exists : env[p] # Nobody
  PROVE  InTurn'
<1> USE DEF IndInv, TypeOK, CoreTypeOK, InTurn
<1>1. EnvKept'
  BY DEF EnvKept
<1>2. \A q \in Requests : r \notin earlier[q]
  BY DEF EarlierIsDone, Running
<1>3. EarlierIsDone'
  BY <1>2 DEF EarlierIsDone
<1>4. FirstValueLastPrediction'
  BY <1>2 DEF FirstValueLastPrediction
<1> QED
  BY <1>1, <1>3, <1>4

\* A request comes after those already answered, and has no row.
LEMMA ArriveInTurn ==
  ASSUME IndInv, InTurn, NEW r \in Requests, Arrive(r)
  PROVE  InTurn'
<1> USE DEF IndInv, Safe, TypeOK, CoreTypeOK, InTurn
<1>1. /\ pc[r] = "idle" /\ UNCHANGED <<env, pred, exists, trouble, found, good>>
      /\ pc' \in {[pc EXCEPT ![r] = "done"], [pc EXCEPT ![r] = "fetch"]}
      /\ earlier' = [earlier EXCEPT ![r] = {q \in Requests : pc[q] = "done"}]
      /\ \A q \in Requests \ {r} : reply'[q] = reply[q]
  BY DEF Arrive, Respond, Goto, database
<1>2. good[r] = {} /\ found[r] = {}
  BY <1>1 DEF GoodIsFound, Unpredicted
<1>3. \A p \in Products : env[p] # r /\ pred[p].by # r
  BY <1>1 DEF NoRowsYet, Unwritten, Unpredicted
<1>4. EnvKept'
  BY <1>1, <1>2 DEF EnvKept
<1>5. EarlierIsDone'
  <2> SUFFICES ASSUME NEW q \in Requests, NEW d \in earlier'[q]
               PROVE  pc'[d] = "done" /\ d # q
    BY DEF EarlierIsDone
  <2>1. d \in Requests /\ pc[d] = "done" /\ d # q
    BY <1>1 DEF EarlierIsDone
  <2> QED
    BY <1>1, <2>1
<1>6. FirstValueLastPrediction'
  BY <1>1, <1>2, <1>3 DEF FirstValueLastPrediction
<1> QED
  BY <1>4, <1>5, <1>6

\* A row is inserted only where none is, so not where an earlier request
\* stored one.
LEMMA WriteEnvironmentInTurn ==
  ASSUME IndInv, InTurn, NEW r \in Requests, WriteEnvironment(r)
  PROVE  InTurn'
<1> USE DEF IndInv, Safe, TypeOK, CoreTypeOK, InTurn
<1>1. pc[r] = "env" /\ pc' = [pc EXCEPT ![r] = "head"]
      /\ UNCHANGED <<pred, exists, found, good, reply, earlier>>
      /\ \/ /\ Applicable(good[r])
            /\ env' = Inserted(good[r], r)
            /\ trouble' \in {trouble, [trouble EXCEPT ![r] = @ \cup {"env"}]}
         \/ env' = env /\ trouble' = [trouble EXCEPT ![r] = @ \cup {"env"}]
  BY DEF WriteEnvironment, Goto
<1>2. \A q \in Requests : r \notin earlier[q]
  BY <1>1 DEF EarlierIsDone
<1>3. \A q \in Requests \ {r} : pc'[q] = pc[q] /\ trouble'[q] = trouble[q]
  BY <1>1
<1>4. EnvKept'
  <2> SUFFICES ASSUME NEW q \in Requests, pc'[q] \in {"head", "pred", "done"},
                      "env" \notin trouble'[q], NEW x \in good[q] \cap exists
               PROVE  env'[x] # Nobody
    BY <1>1 DEF EnvKept
  <2>1. CASE q = r
    <3>1. env' = Inserted(good[r], r)
      <4>1. "env" \in [trouble EXCEPT ![r] = @ \cup {"env"}][r]
        OBVIOUS
      <4> QED
        BY <1>1, <2>1, <4>1
    <3> QED
      BY <2>1, <3>1, RequestsAssumption DEF Inserted, Nobody
  <2>2. CASE q # r
    <3>1. env[x] # Nobody
      BY <1>3, <2>2 DEF EnvKept
    <3> QED
      BY <1>1, <3>1 DEF Inserted
  <2> QED
    BY <2>1, <2>2
<1>5. EarlierIsDone'
  BY <1>1, <1>2 DEF EarlierIsDone
<1>6. FirstValueLastPrediction'
  <2> SUFFICES ASSUME NEW q \in Requests, NEW d \in earlier[q], NEW p \in Products
               PROVE  /\ env'[p] = q => p \notin good[d] \/ "env" \in trouble'[d]
                      /\ pred[p].by = d /\ reply[q].status = 200 /\ trouble'[q] = {} =>
                            p \notin found[q]
    BY <1>1 DEF FirstValueLastPrediction
  <2>1. d \in Requests /\ d # r /\ pc[d] = "done" /\ trouble'[d] = trouble[d]
    BY <1>2, <1>3 DEF EarlierIsDone
  <2>2. CASE env'[p] = env[p]
    <3>1. trouble'[q] = {} => trouble[q] = {}
      BY <1>1
    <3> QED
      BY <2>1, <2>2, <3>1 DEF FirstValueLastPrediction
  <2>3. CASE env'[p] # env[p]
    <3>1. p \in good[r] /\ env[p] = Nobody /\ Applicable(good[r])
      BY <1>1, <2>3 DEF Inserted
    <3>2. p \in exists
      BY <3>1 DEF Applicable
    <3>3. p \notin good[d] \/ "env" \in trouble[d]
      BY <2>1, <3>1, <3>2 DEF EnvKept
    <3>4. trouble'[q] = {} => trouble[q] = {}
      BY <1>1
    <3> QED
      BY <2>1, <3>3, <3>4 DEF FirstValueLastPrediction
  <2> QED
    BY <2>2, <2>3
<1> QED
  BY <1>4, <1>5, <1>6

\* The upsert takes every row of what was found over from earlier requests.
LEMMA WritePredictionsInTurn ==
  ASSUME IndInv, InTurn, NEW r \in Requests, WritePredictions(r)
  PROVE  InTurn'
<1> USE DEF IndInv, Safe, TypeOK, CoreTypeOK, InTurn
<1>1. pc[r] = "pred" /\ pc' = [pc EXCEPT ![r] = "done"]
      /\ UNCHANGED <<env, exists, found, good, earlier>>
      /\ reply' = [reply EXCEPT ![r] = [status |-> 200, written |-> Written(r)]]
      /\ \/ /\ pred' = Upserted(found[r], r)
            /\ trouble' \in {trouble, [trouble EXCEPT ![r] = @ \cup {"pred"}]}
         \/ pred' = pred /\ trouble' = [trouble EXCEPT ![r] = @ \cup {"pred"}]
  BY DEF WritePredictions, Respond, Goto
<1>2. \A q \in Requests : r \notin earlier[q]
  BY <1>1 DEF EarlierIsDone
<1>3. \A q \in Requests \ {r} : pc'[q] = pc[q] /\ trouble'[q] = trouble[q] /\ reply'[q] = reply[q]
  BY <1>1
<1>4. "env" \notin trouble'[r] => "env" \notin trouble[r]
  BY <1>1
<1>5. EnvKept'
  BY <1>1, <1>3, <1>4 DEF EnvKept
<1>6. EarlierIsDone'
  BY <1>1, <1>2 DEF EarlierIsDone
<1>7. FirstValueLastPrediction'
  <2> SUFFICES ASSUME NEW q \in Requests, NEW d \in earlier[q], NEW p \in Products
               PROVE  /\ env[p] = q => p \notin good[d] \/ "env" \in trouble'[d]
                      /\ pred'[p].by = d /\ reply'[q].status = 200 /\ trouble'[q] = {} =>
                            p \notin found[q]
    BY <1>1 DEF FirstValueLastPrediction
  <2>1. d \in Requests /\ d # r /\ trouble'[d] = trouble[d]
    BY <1>2, <1>3
  <2>2. pred'[p].by = d => pred[p].by = d
    BY <1>1, <2>1 DEF Upserted
  <2>3. CASE q # r
    BY <1>3, <2>1, <2>2, <2>3 DEF FirstValueLastPrediction
  <2>4. CASE q = r
    <3>1. env[p] = q => p \notin good[d] \/ "env" \in trouble'[d]
      BY <2>1 DEF FirstValueLastPrediction
    <3>2. ASSUME pred'[p].by = d, trouble'[q] = {} PROVE p \notin found[q]
      <4>1. "pred" \in [trouble EXCEPT ![r] = @ \cup {"pred"}][r]
        OBVIOUS
      <4>2. pred' = Upserted(found[r], r)
        BY <1>1, <2>4, <3>2, <4>1
      <4> QED
        BY <2>1, <2>4, <3>2, <4>2 DEF Upserted
    <3> QED
      BY <3>1, <3>2
  <2> QED
    BY <2>3, <2>4
<1> QED
  BY <1>5, <1>6, <1>7

\* The other steps of a request write nothing.
LEMMA StepInTurn ==
  ASSUME IndInv, InTurn, NEW r \in Requests, Step(r)
  PROVE  InTurn'
<1> USE DEF IndInv, Safe, TypeOK, CoreTypeOK, InTurn
<1>1. CASE SelectProducts(r)
  <2>1. good[r] = {}
    BY <1>1 DEF SelectProducts, GoodIsFound, Unpredicted
  <2>2. \A q \in Requests \ {r} : found'[q] = found[q] /\ pc'[q] = pc[q] /\ reply'[q] = reply[q]
    BY <1>1 DEF SelectProducts, Respond, Goto
  <2>3. reply'[r].status # 200
    BY <1>1 DEF SelectProducts, Respond, NotAnsweredYet
  <2> QED
    BY <1>1, <2>1, <2>2, <2>3, QuietInTurn DEF SelectProducts, database, Running
<1>2. CASE SelectDetails(r) \/ FetchFails(r) \/ PipelineFails(r) \/ TableFound(r)
  <2>1. /\ UNCHANGED <<env, pred, exists, trouble, found, good, earlier>>
        /\ \/ pc[r] = "details" /\ pc' = [pc EXCEPT ![r] = "predict"] /\ UNCHANGED reply
           \/ pc[r] = "head" /\ pc' = [pc EXCEPT ![r] = "pred"] /\ UNCHANGED reply
           \/ /\ pc[r] \in {"fetch", "details", "predict"} /\ pc' = [pc EXCEPT ![r] = "done"]
              /\ \E st \in {500, 502} :
                    reply' = [reply EXCEPT ![r] = [status |-> st, written |-> 0]]
    BY <1>2 DEF SelectDetails, FetchFails, PipelineFails, TableFound, Respond, Goto, database
  <2>2. \A q \in Requests \ {r} : pc'[q] = pc[q] /\ reply'[q] = reply[q]
    BY <2>1
  <2>3. reply'[r].status # 200 /\ pc[r] \in Running
    BY <2>1 DEF NotAnsweredYet, Running
  <2>4. ASSUME pc'[r] \in {"head", "pred", "done"}, "env" \notin trouble[r]
        PROVE  \A p \in good[r] \cap exists : env[p] # Nobody
    BY <2>1, <2>4 DEF EnvKept, GoodIsFound, Unpredicted
  <2> QED
    BY <2>1, <2>2, <2>3, <2>4, QuietInTurn
<1>3. CASE Predicted(r)
  <2>1. PICK S \in SUBSET found[r] :
           /\ good' = [good EXCEPT ![r] = S]
           /\ pc' = [pc EXCEPT ![r] = IF S = {} THEN "head" ELSE "env"]
    BY <1>3 DEF Predicted, Goto
  <2>2. /\ pc[r] = "predict"
        /\ UNCHANGED <<env, pred, exists, trouble, found, reply, earlier>>
    BY <1>3 DEF Predicted, database
  <2>3. \A q \in Requests \ {r} : pc'[q] = pc[q] /\ good'[q] = good[q]
    BY <2>1
  <2>4. reply'[r].status # 200
    BY <2>2 DEF NotAnsweredYet
  <2>5. pc'[r] \in {"head", "pred", "done"} => good'[r] = {}
    BY <2>1
  <2> QED
    BY <2>2, <2>3, <2>4, <2>5, QuietInTurn DEF Running
<1>4. CASE TableNotFound(r)
  <2>1. /\ pc[r] = "head" /\ pc' = [pc EXCEPT ![r] = "done"]
        /\ UNCHANGED <<env, pred, exists, found, good, earlier>>
        /\ trouble' = [trouble EXCEPT ![r] = @ \cup {"table"}]
        /\ reply' = [reply EXCEPT ![r] = [status |-> 200, written |-> Written(r)]]
    BY <1>4 DEF TableNotFound, Respond, Goto, database
  <2>2. /\ \A q \in Requests \ {r} :
              pc'[q] = pc[q] /\ trouble'[q] = trouble[q] /\ reply'[q] = reply[q]
        /\ trouble'[r] = trouble[r] \cup {"table"}
    BY <2>1
  <2>3. "env" \notin trouble'[r] => \A p \in good[r] \cap exists : env[p] # Nobody
    BY <2>1, <2>2 DEF EnvKept
  <2> QED
    BY <2>1, <2>2, <2>3, QuietInTurn DEF Running
<1> QED
  BY <1>1, <1>2, <1>3, <1>4, WriteEnvironmentInTurn, WritePredictionsInTurn DEF Step

LEMMA InTurnStep == IndInv /\ InTurn /\ [Next]_vars => InTurn'
<1> SUFFICES ASSUME IndInv, InTurn, [Next]_vars PROVE InTurn'
  OBVIOUS
<1> USE DEF IndInv, TypeOK, CoreTypeOK, InTurn
<1>1. CASE UNCHANGED vars
  BY <1>1 DEF vars, database, EnvKept, EarlierIsDone, FirstValueLastPrediction
<1>2. CASE Crash
  <2>1. /\ UNCHANGED <<env, pred, exists, trouble, found, good, reply, earlier>>
        /\ \A q \in Requests : pc'[q] \in {"head", "pred", "done"} => pc'[q] = pc[q]
        /\ \A q \in Requests : pc[q] = "done" => pc'[q] = "done"
    BY <1>2 DEF Crash, database, Running
  <2> QED
    BY <2>1 DEF EnvKept, EarlierIsDone, FirstValueLastPrediction
<1>3. ASSUME NEW p \in Products, DeleteProduct(p) PROVE InTurn'
  <2>1. /\ UNCHANGED <<pc, trouble, found, good, reply, earlier>>
        /\ exists' = exists \ {p}
        /\ env' = [env EXCEPT ![p] = Nobody] /\ pred' = [pred EXCEPT ![p] = NoRow]
    BY <1>3 DEF DeleteProduct
  <2>2. EnvKept' /\ EarlierIsDone'
    BY <2>1 DEF EnvKept, EarlierIsDone
  <2>3. FirstValueLastPrediction'
    BY <2>1, RequestsAssumption DEF FirstValueLastPrediction, Nobody, NoRow
  <2> QED
    BY <2>2, <2>3
<1> QED
  BY <1>1, <1>2, <1>3, ArriveInTurn, StepInTurn DEF Next

LEMMA InTurnInit == Init => InTurn
  BY DEF Init, InTurn, EnvKept, EarlierIsDone, FirstValueLastPrediction

\* Of two requests one after the other, the first has the value of a product in
\* product_environment and the last the row in product_carbon_predictions, for
\* any number of requests that interleave with both.
THEOREM FirstValueLastPredictionHolds == Spec => []FirstValueLastPrediction
<1>1. InTurn => FirstValueLastPrediction
  BY DEF InTurn
<1> QED
  BY <1>1, InTurnInit, InTurnStep, Invariance, PTL DEF Spec
=============================================================================
