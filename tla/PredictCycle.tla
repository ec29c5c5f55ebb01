---------------------------- MODULE PredictCycle ----------------------------
(***************************************************************************)
(* POST /api/v1/predict (app/api/v1/predict.py): fetch, predict, write,    *)
(* respond, for several requests at once against one Supabase database.    *)
(* Every await of a Supabase call is a boundary between steps.  A call     *)
(* that raises may have been applied (its answer was lost or timed out).   *)
(* The pipeline is the Orchestrator module; here it is the set of products *)
(* it predicted.                                                           *)
(***************************************************************************)
EXTENDS Access, FiniteSets

CONSTANTS Products,
          Owner,     \* products.brand_id
          Requests   \* bound: each is one HTTP call, made at most once

ASSUME OwnerAssumption == Owner \in [Products -> Brands]
ASSUME ProductsAssumption == IsFiniteSet(Products)
\* The history variable that names the writer of a row needs a name for none.
ASSUME RequestsAssumption == "nobody" \notin Requests

VARIABLES configured, \* SUPABASE_URL and SUPABASE_SERVICE_KEY are set
          secret,     \* HMAC_SECRET is set
          exists,     \* rows of products
          env,        \* product_environment: the request that wrote the row
          table,      \* migration 001 has been applied
          pred,       \* product_carbon_predictions: who wrote the row, with a value or NULL
          pc,         \* the await each request is at
          ask,        \* signer, brand and ids of the body of an admitted request
          found,      \* products fetched
          good,       \* products predicted without error
          reply,      \* HTTP status and db_write.written
          open,       \* requests holding an httpx client
          trouble,    \* history: the Supabase calls of a write that failed
          earlier     \* history: the requests answered before this one came

database == <<exists, env, table, pred>>
settings == <<configured, secret>>
vars == <<settings, database, pc, ask, found, good, reply, open, trouble, earlier>>

Nobody == "nobody"
NoRow == [by |-> Nobody, ok |-> FALSE]
NoReply == [status |-> 0, written |-> 0]
Bodies == [brand : Brands, ids : SUBSET Products \ {{}}]
Asks == [signer : Brands \cup Defects, brand : Brands \cup {"none"},
         ids : SUBSET Products]
NoAsk == [signer |-> "missing", brand |-> "none", ids |-> {}]
Running == {"fetch", "details", "predict", "env", "head", "pred"}

Init ==
    /\ configured \in BOOLEAN
    /\ secret \in BOOLEAN
    /\ exists \in SUBSET Products
    /\ env = [p \in Products |-> Nobody]
    /\ table \in BOOLEAN
    /\ pred = [p \in Products |-> NoRow]
    /\ pc = [r \in Requests |-> "idle"]
    /\ ask = [r \in Requests |-> NoAsk]
    /\ found = [r \in Requests |-> {}]
    /\ good = [r \in Requests |-> {}]
    /\ reply = [r \in Requests |-> NoReply]
    /\ open = {}
    /\ trouble = [r \in Requests |-> {}]
    /\ earlier = [r \in Requests |-> {}]

Goto(r, label) == pc' = [pc EXCEPT ![r] = label]

\* Mutant: the client is not closed.
Respond_KeepsClient(r, status, written) ==
    /\ Goto(r, "done")
    /\ reply' = [reply EXCEPT ![r] = [status |-> status, written |-> written]]
    /\ UNCHANGED open

\* The return or raise that ends the request; finally: client.close().
Respond(r, status, written) ==
    /\ Goto(r, "done")
    /\ reply' = [reply EXCEPT ![r] = [status |-> status, written |-> written]]
    /\ open' = open \ {r}

\* The guards of predict() itself.
EndpointChecks(h, body) ==
    << Check(body.brand # h.brand, 403), Check(~configured, 500) >>

Refusal(h, body) ==
    FirstFailure(KeyChecks(h) \o BrandChecks(h, secret) \o EndpointChecks(h, body))

Arrive(r) ==
    /\ pc[r] = "idle"
    /\ \E h \in Headers, body \in Bodies :
          \/ /\ Refusal(h, body) # 0
             /\ Respond(r, Refusal(h, body), 0)
             /\ UNCHANGED ask
          \/ /\ Refusal(h, body) = 0
             /\ ask' = [ask EXCEPT ![r] = [signer |-> Signer(h, secret),
                                          brand |-> body.brand, ids |-> body.ids]]
             /\ Goto(r, "fetch")
             /\ open' = open \cup {r}
             /\ UNCHANGED reply
    /\ earlier' = [earlier EXCEPT ![r] = {q \in Requests : pc[q] = "done"}]
    /\ UNCHANGED <<settings, database, found, good, trouble>>

\* Mutant: the brand filter is missing.
Fetched_AnyBrand(a) == a.ids \cap exists

\* The first select of fetch_products_for_prediction decides what is found.
Fetched(a) == {p \in a.ids \cap exists : Owner[p] = a.brand}

SelectProducts(r) ==
    /\ pc[r] = "fetch"
    /\ found' = [found EXCEPT ![r] = Fetched(ask[r])]
    /\ IF found'[r] = {}
       THEN Respond(r, 400, 0)
       ELSE Goto(r, "details") /\ UNCHANGED <<reply, open>>
    /\ UNCHANGED <<settings, database, ask, good, trouble, earlier>>

\* The selects of the related tables and the assembly of ProductInput.
SelectDetails(r) ==
    /\ pc[r] = "details"
    /\ Goto(r, "predict")
    /\ UNCHANGED <<settings, database, ask, found, good, reply, open, trouble, earlier>>

FetchFails(r) ==
    /\ pc[r] \in {"fetch", "details"}
    /\ Respond(r, 502, 0)
    /\ UNCHANGED <<settings, database, ask, found, good, trouble, earlier>>

Predicted(r) ==
    /\ pc[r] = "predict"
    /\ \E S \in SUBSET found[r] :
          /\ good' = [good EXCEPT ![r] = S]
          /\ Goto(r, IF S = {} THEN "head" ELSE "env")
    /\ UNCHANGED <<settings, database, ask, found, reply, open, trouble, earlier>>

PipelineFails(r) ==
    /\ pc[r] = "predict"
    /\ Respond(r, 500, 0)
    /\ UNCHANGED <<settings, database, ask, found, good, trouble, earlier>>

\* One statement for all rows: one row without its product refuses them all.
Applicable(rows) == rows \subseteq exists

\* Mutant: merges duplicates.
Inserted_Merged(rows, r) == [p \in Products |-> IF p \in rows THEN r ELSE env[p]]

\* insert_if_not_exists: resolution=ignore-duplicates.
Inserted(rows, r) ==
    [p \in Products |-> IF p \in rows /\ env[p] = Nobody THEN r ELSE env[p]]

WriteEnvironment(r) ==
    /\ pc[r] = "env"
    /\ \/ /\ Applicable(good[r])
          /\ env' = Inserted(good[r], r)
          /\ trouble' \in {trouble, [trouble EXCEPT ![r] = @ \cup {"env"}]}
       \/ /\ trouble' = [trouble EXCEPT ![r] = @ \cup {"env"}]
          /\ UNCHANGED env
    /\ Goto(r, "head")
    /\ UNCHANGED <<settings, exists, table, pred, ask, found, good, reply, open, earlier>>

\* written = len(successful) + len(permanently_failed): every prediction.
Written(r) == Cardinality(found[r])

TableFound(r) ==
    /\ pc[r] = "head"
    /\ table
    /\ Goto(r, "pred")
    /\ UNCHANGED <<settings, database, ask, found, good, reply, open, trouble, earlier>>

\* table_exists is False as well when the HEAD request fails.
TableNotFound(r) ==
    /\ pc[r] = "head"
    /\ trouble' = [trouble EXCEPT ![r] = @ \cup {"table"}]
    /\ Respond(r, 200, Written(r))
    /\ UNCHANGED <<settings, database, ask, found, good, earlier>>

\* Mutants: a value for failed products; only the successful rows; only the
\* failed ones.
Upserted_AllValued(rows, r) ==
    [p \in Products |-> IF p \in rows THEN [by |-> r, ok |-> TRUE] ELSE pred[p]]
Upserted_OnlyGood(rows, r) ==
    [p \in Products |-> IF p \in rows \cap good[r] THEN [by |-> r, ok |-> TRUE] ELSE pred[p]]
Upserted_OnlyFailed(rows, r) ==
    [p \in Products |-> IF p \in rows \ good[r] THEN [by |-> r, ok |-> FALSE] ELSE pred[p]]

\* upsert: resolution=merge-duplicates, NULL values for the failed products.
Upserted(rows, r) ==
    [p \in Products |-> IF p \in rows THEN [by |-> r, ok |-> p \in good[r]] ELSE pred[p]]

WritePredictions(r) ==
    /\ pc[r] = "pred"
    /\ \/ /\ Applicable(found[r])
          /\ pred' = Upserted(found[r], r)
          /\ trouble' \in {trouble, [trouble EXCEPT ![r] = @ \cup {"pred"}]}
       \/ /\ trouble' = [trouble EXCEPT ![r] = @ \cup {"pred"}]
          /\ UNCHANGED pred
    /\ Respond(r, 200, Written(r))
    /\ UNCHANGED <<settings, exists, env, table, ask, found, good, earlier>>

\* The container is killed: every request in flight is gone.
Crash ==
    /\ open # {}
    /\ pc' = [r \in Requests |-> IF pc[r] \in Running THEN "crashed" ELSE pc[r]]
    /\ open' = {}
    /\ UNCHANGED <<settings, database, ask, found, good, reply, trouble, earlier>>

\* The Avelero application deletes a product; both tables cascade.
DeleteProduct(p) ==
    /\ p \in exists
    /\ exists' = exists \ {p}
    /\ env' = [env EXCEPT ![p] = Nobody]
    /\ pred' = [pred EXCEPT ![p] = NoRow]
    /\ UNCHANGED <<settings, table, pc, ask, found, good, reply, open, trouble, earlier>>

Step(r) ==
    \/ SelectProducts(r) \/ SelectDetails(r) \/ FetchFails(r)
    \/ Predicted(r) \/ PipelineFails(r)
    \/ WriteEnvironment(r) \/ TableFound(r) \/ TableNotFound(r) \/ WritePredictions(r)

Next ==
    \/ \E r \in Requests : Arrive(r) \/ Step(r)
    \/ Crash
    \/ \E p \in Products : DeleteProduct(p)

Fairness == \A r \in Requests : WF_vars(Step(r))

Spec == Init /\ [][Next]_vars /\ Fairness

-----------------------------------------------------------------------------
CoreTypeOK ==
    /\ configured \in BOOLEAN /\ secret \in BOOLEAN /\ table \in BOOLEAN
    /\ exists \subseteq Products
    /\ env \in [Products -> Requests \cup {Nobody}]
    /\ pred \in [Products -> [by : Requests \cup {Nobody}, ok : BOOLEAN]]
    /\ pc \in [Requests -> Running \cup {"idle", "done", "crashed"}]
    /\ ask \in [Requests -> Asks]
    /\ found \in [Requests -> SUBSET Products]
    /\ good \in [Requests -> SUBSET Products]
    /\ reply \in [Requests -> [status : {0, 200, 400, 401, 403, 500, 502}, written : Nat]]
    /\ open \subseteq Requests
    /\ trouble \in [Requests -> SUBSET {"env", "table", "pred"}]

TypeOK == CoreTypeOK /\ earlier \in [Requests -> SUBSET Requests]

\* Every row a request leaves behind is of a product of the brand that signed
\* the request (or that its header names, where no secret is set), whatever ids
\* and brand its body names: three checks in three places together.
RowsOfVerifiedBrand ==
    \A p \in Products :
       /\ env[p] # Nobody => Owner[p] = ask[env[p]].signer
       /\ pred[p].by # Nobody => Owner[p] = ask[pred[p].by].signer

\* A product that failed gets no product_environment row from the request it
\* failed in, and its product_carbon_predictions row has NULLs.
FailedLeavesNoValue ==
    \A p \in Products :
       /\ env[p] # Nobody => p \in good[env[p]]
       /\ pred[p].by # Nobody => (pred[p].ok <=> p \in good[pred[p].by])

\* What the two tables show of two requests for one product, however others
\* interleave with them: where q was answered before r came, r's value is not
\* in product_environment when q stored one there, and q's row is no longer in
\* product_carbon_predictions once r has ended without a failed call.
FirstValueLastPrediction ==
    \A r \in Requests : \A q \in earlier[r], p \in Products :
       /\ env[p] = r => p \notin good[q] \/ "env" \in trouble[q]
       /\ pred[p].by = q /\ reply[r].status = 200 /\ trouble[r] = {} => p \notin found[r]

\* After a 200 with no failed call, every product it counts as written that
\* still exists has its row in both tables, whichever requests ran meanwhile.
CleanRunIsStored ==
    \A r \in Requests :
       reply[r].status = 200 /\ trouble[r] = {} =>
          \A p \in found[r] \cap exists :
             pred[p].by # Nobody /\ (p \in good[r] => env[p] # Nobody)

\* The two writes are not one transaction.  A predicted product is left with
\* the one row and not the other only while its request is between them,
\* after a crash, or after a failed call of that request.
HalfWrittenIsExplained ==
    \A p \in Products :
       env[p] # Nobody /\ pred[p].by = Nobody =>
          \/ pc[env[p]] \in {"head", "pred", "crashed"}
          \/ trouble[env[p]] # {}

\* Every request that arrives is answered, and its client closed, unless the
\* process is killed under it.
Answered ==
    \A r \in Requests :
       pc[r] \in Running ~> pc[r] \in {"done", "crashed"} /\ r \notin open
=============================================================================
