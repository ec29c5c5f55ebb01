# Verification of the ESPResso service

TLA+ models of the ESPResso carbon footprint service, TLC runs that check them on
small instances, and TLAPS proofs about the parts whose correctness must not depend on the
size of the instance. Paths such as `app/normalization/nim_client.py:197` are
relative to the repository.

## 1. The system

One FastAPI process answers `POST /api/v1/predict`: it fetches the products a
brand asks for from Supabase, normalizes their free-text fields (with the help of a
language model, NIM, when static tables do not know a value), runs up to three
vendored models, writes the results back to two tables and answers. All requests
share one event loop, one NIM client with its pool of API keys, one cache and one
rate limiter. Models run in worker threads. A separate script applies and rolls
back database migrations.

    request -> request logging -> rate limiter -> API key / brand signature
            -> predict endpoint --- product fetcher ----> Supabase (PostgREST)
                    |
                    +-- orchestrator (retry loop)
                    |      +-- bulk normalizer -- 3 column normalizers -- cache
                    |      |                            +-- NIM client -- key pool -- NIM
                    |      +-- data mapper
                    |      +-- model A, then models B and C in parallel (threads)
                    |
                    +-- result writer ------> product_environment,
                                              product_carbon_predictions

| component | state | operations | hard behaviour | what makes it correct |
|---|---|---|---|---|
| Key pool `nim_key_pool.py` | cooldown deadlines, `_next_index`, open clients, a lock | `get_client`, `mark_rate_limited`, `close_all` | the wait is outside the lock: what was read before the sleep is used after it | rotation stays in range; a sleep covers the cooldown it waits out; nobody sleeps for ever; only a late 429 lets a cooldown be cut |
| NIM client `nim_client.py`, `health.py` | a semaphore, the loop variable of each request | `complete`, `complete_with_choices`, `complete_bulk`, `health_check`, `close` | nested use of the semaphore, three classes of errors in one retry loop, replies of any length | permits are conserved on every exit; a bulk answer has one line per item and keeps its valid lines; a call costs a bounded number of posts; every call returns, health checks included |
| Cache `cache.py` | a TTL and LRU bounded map, hit and miss counters | `get`, `set`, `stats` | an entry disappears between two awaits | an entry is the value of its own key |
| Normalizers `material_/step_/category_normalizer.py`, `bulk_normalizer.py` | none but the cache; local result maps | `normalize_bulk`, per-item fallback, `_collect_unknowns`, `_patch_product` | three columns and several batches interleave at each NIM call; positions, raw values and cleaned keys are three name spaces | every raw is replaced by a value made for it; every unknown is resolved; the number of calls is bounded; no blank or unknown step reaches a model, a blank material only if its name is blank, a blank category only if its name is or a single call was given up |
| Synonym tables `synonym_map.py` | constants | `resolve_static` | none | data |
| Orchestrator `orchestrator.py` | `pending`, `final`, counters | `run_batch_prediction`, `_run_pipeline` | three index spaces (caller's list, list of the attempt, list of its rare records), partial failure, retries | an answer is computed from the product's own record; a product is retried exactly while it has none; nulls only after every attempt |
| Model loader, batch predictor | loaded models | `load_all`, `get`, `status`, `batch_predict` | a missing model; one failing record | one result per record, in order |
| Data mapper, batch utils | none | `map_to_record`, unit conversion | missing values; names and masses are two lists made in two modules | the k-th mass belongs to the k-th name; an assumed weight is announced |
| Predict endpoint `predict.py` | one Supabase client per request | `predict`, `_run_predict_cycle` | fetch, predict and write are separate awaits; each may fail | answered on every path, client closed, only rows of the verified brand |
| Product fetcher `product_fetcher.py` | none | six selects and a probe, category paths, assembly | products, rows and the taxonomy edited between selects; a taxonomy with cycles; one row that refuses all | only products of the brand, each once; every part of an input was true at one moment |
| Result writer `result_writer.py` | none | `write_predictions` | two writes that are not one transaction, errors swallowed | of two requests in turn, the first one's value in `product_environment` and the last one's prediction; no value for a failed product; half-written products only after a failure |
| Supabase client `client.py` | an httpx client | `select`, `insert_if_not_exists`, `upsert`, `table_exists` | a call that raises may have been applied | statement-level atomicity is PostgreSQL's |
| Rate limiter `rate_limiter.py` | time stamps per address | `_cleanup`, `dispatch` | boundaries of the window, rounding, a clock that is set back | never more than the quota in a window; no refusal without cause; `Retry-After` is enough |
| API key, brand signature | none | two dependencies | order of the refusals | the verified brand is the header's |
| Request logging, schemas, wiring, configuration | start time | read-only | -- | -- |
| Migrations `migrate.py` | `espresso_migrations`, the schema | apply, roll back, status | several runners, kills, dependencies between files | the schema and the table agree; a file runs once between two rollbacks |
| `scripts/batch_predict.py`, `scripts/local_test.py`, `start.sh`, Docker | none | clients and deployment | -- | -- |

`PROJECT.json` repeats this list with the status of each component, and lists the
hazards (what is hard to test, at its line) with the properties that cover them.

## 2. Modules

| module | models | composes |
|---|---|---|
| `NIMKeyPool` | the key pool | |
| `NIMClient` | the NIM client, its semaphore and retry loop, the health check | extends `NIMKeyPool`: `PickKey`, `WakeUp` and the replies contain the pool's steps |
| `BulkNormalizer` | bulk normalizer, the three column normalizers, the cache | uses of NIM are calls that return or raise, which `NIMClient` justifies |
| `Orchestrator` | retry loop and six-phase pipeline, loader, predictor | refines `BatchPromise` |
| `BatchPromise` | abstract: what the docstring of `run_batch_prediction` promises | |
| `Access` | API key and brand signature checks in their order | |
| `PredictCycle` | endpoint, fetcher, writer, Supabase client, the tables | extends `Access`, whose checks a request passes first; the pipeline is one step, as `Orchestrator` ends every call |
| `ProductAssembly` | one fetch with the edits between its selects, category paths, the mapping to model records | the step `SelectDetails` of `PredictCycle` and phases 1 and 2 of `Orchestrator` in detail |
| `RateLimiter` | the rate limiter and its clock | |
| `Migrations` | the migration runner | |
| `NIMKeyPool_proofs`, `NIMClient_proofs`, `RateLimiter_proofs`, `Orchestrator_proofs`, `BulkNormalizer_proofs`, `PredictCycle_proofs`, `ProductAssembly_proofs`, `Migrations_proofs` | theorems | each extends its module; `NIMClient_proofs` extends `NIMKeyPool_proofs` too |
| `MC*` | instances for TLC | one per module |

Correspondence of state and actions:

* **NIMKeyPool.** `cooldowns`, `nextIndex`, `clients` are the attributes of the same
  name; a cooldown is the number of ticks left. `stage` says whether a caller is outside,
  asleep in `asyncio.sleep`, or using a key. `get_client` is one step up to its
  return (`GetClientNow`) or its sleep (`GetClientWait`), and one after it (`Wake`): the lock
  is never held across an await, so these are exactly the segments other coroutines
  can interleave with. `late` is a history variable: a 429 hit the awaited key
  during the sleep. Ties between cooldowns may be broken either way.
* **NIMClient.** `pc` is the await a caller is at; `permits` and `queue` are the
  semaphore, external, with the FIFO hand-over of `asyncio.Semaphore`. A public method is one
  `Call`; an iteration of `_request` is `PickKey` (and `WakeUp`), then one of
  `Succeed`, `TooMany` (429), `Fail` (an error that is retried after a delay),
  `Crash` (a body that no handler expects, so no retry). A bulk reply is a
  sequence of line classes (a valid choice or another text) of any length
  up to one more than the items; `Fit` pads and cuts it, `Validate` re-queries the invalid
  lines one by one, each re-query taking the semaphore again (`Reenter`). `HealthCheck` is
  `complete` with its answer reduced to whether there was one (`Outcome`) and its errors
  swallowed (`Raise`). `posts`, the posts that ended during the current call, is history.
* **BulkNormalizer.** A text is reduced to its class (`canon`, `unknown`, `junk`,
  `blank`, `fallback`) and the key it was made for; a mix-up of positions or keys
  would put a value with another `of` in a product. A raw may be blank, as a material
  without a name is (`product_fetcher.py:210`); `IsBlank` is a blank text or the fallback of a
  blank raw. Cache operations do not suspend,
  so a task is a step per NIM call. `Expire` is TTL and LRU at once: any entry may
  vanish at any moment. `hit` is history. The unknowns of a column are
  the list, in the order of its texts, of those that neither map resolves (`Selections`).
* **Orchestrator.** Every model output carries the product whose record it was
  computed from (`of`, a history field). `Collect` is the whole loop body after
  `_run_pipeline`: result selection, `final`, the next `pending`, the counters.
  Normalization (phase 1) may be slow but never raises for a single value; a missing
  Model A raises out of the call.
* **Access.** Each check is a condition and the status it raises; the first that
  fails answers. A signature is a fresh one of some brand, or has one of four defects.
  Without `HMAC_SECRET` the header is believed.
* **PredictCycle.** `Arrive` runs all checks, of `Access` and of the endpoint. One step
  per await on Supabase. A call that raises may have been applied. `trouble` and `earlier` (the requests that
  had been answered when this one came) are history. `DeleteProduct` (the Avelero
  application) cascades to both tables, `Crash` stops the process.
* **ProductAssembly.** `pc` is the select that comes next; each is a step and
  `Edit` may fall between any two. A table is the sequence of its rows in the order the
  select asks for; a NULL number is -1. Weights are whole units and the factor of a unit is 1 (g) or 1000
  (kg, or any unit that is not listed), so that a total is in grams and a mass in
  1/100 gram. The assembly follows the last answer without an await, so it is part of
  that step (`Assemble`). `seen`, the databases there have been during the call, is
  history. A `for` loop that skips rows is `Keep`, a recursive function over the positions, and
  the order of `created_at` is `InOrder`.
* **RateLimiter.** `dispatch` decides without an await, so a decision is a step. `now` is
  real time and `lag` how far the clock has been set back, so `time.time()` is
  `Wall == now - lag`. `log` (every admission, with both) and `advice` (the last
  `Retry-After`, and which admission it waits for) are history.
* **Migrations.** The SQL of a file and its row are one transaction; `todo` is the set of
  files a run has left, taken in the order of their names (`IsFirst`), and the applied set
  a run read before is not part of it. `Undone` is what PostgreSQL drops along with
  a table, `Withdrawn` the UPDATE of the row. `ups` is history: how often the up.sql of a file was
  committed since its last rollback.

Operators whose names end in `_Something` and whose comment begins with "Mutant" are not
part of the models: each is a plausible mistake in the definition that follows it,
and swapping it in makes one of the properties fail.

## 3. Runs

| run | instance | what is checked |
|---|---|---|
| `key_pool` | 3 callers, 2 keys, cooldown 2 | `PoolTypeOK`; `SleepCoversCooldown`; `CooldownCutOnlyByLate429`; liveness `SleepersWake` |
| `client` | 2 callers, 1 permit, 2 keys, 2 attempts, up to 2 items, every public method | `TypeOK`; `PermitsBalanced`, `InFlightBounded` (the semaphore); `PostsBounded` (the cost of a call); `BulkShape`, `ValidLinesKept` (bulk answers); liveness `CallsReturn` |
| `orchestrator` | 3 products, 3 attempts, 2 confidence levels, any models loaded | `TypeOK`, `AnswersOwnRecord`, `PendingIsOpen`, `NullOnlyAfterAllAttempts`, `BestAnswerKept`; refinement `KeepsPromise`; liveness `Delivers` |
| `normalizer_shared` | 2 batches, materials, up to 2 of 4 raws over 3 keys, one of them static | `OwnValue`, `EveryUnknownResolved`, `CallBudget` |
| `normalizer_columns` | 1 batch, 3 columns, in each none or one of 3 raws, one of them static and one blank | `BlankIsExplained`; liveness `BatchesPatched` |
| `normalizer_hit` | 2 batches, 1 raw | counterexample to `CacheHitIsUsed` |
| `predict_cycle` | 2 requests, 2 products of one brand, another brand, every combination of headers | `RowsOfVerifiedBrand`, `FailedLeavesNoValue`, `CleanRunIsStored`, `HalfWrittenIsExplained`, `FirstValueLastPrediction`; liveness `Answered` |
| `rate_limiter` | 2 addresses, quota 2, window of 2 ticks, 5 ticks, clock set back by up to 2 | `WindowBound`, `RejectsOnlyFullWindow`, `RetryAfterIsEnough` |
| `migrations` | 3 files, 2 runners | `InEffectIsApplied`, `RunOnce`, `MissingIsUndone` |
| `migrations_pending` | the same | counterexample to `PendingCanBeApplied` |
| `assembly` | 2 products, 3 categories, 2 edits during a fetch | `EveryPartWasTrue`, `OneInputEach`, `RefusedForOwnRow` (the inputs), `PathIsAncestry`, `MassesMatchNames` (the records) |
| `assembly_optional` | the same, no edits | counterexample to `MigrationIsOptional` |

The type invariants of `BulkNormalizer`, `PredictCycle`, `ProductAssembly`, `RateLimiter` and
`Migrations` are stated in the modules, and hold on these instances, but are in no
run of their own. All but that of `ProductAssembly` are proved, as parts of inductive invariants.

Why the bounds are enough for the cases to happen:

* *key_pool*: a third caller can hold a key whose cooldown two others sleep for, so
  that its 429 arrives late; a cooldown of 2 ticks tells the old deadline from the new one.
* *client*: one permit makes any permit held across a nested call stop everybody; two
  items let an early line be kept while a later one is re-queried; the code
  has three attempts, of which two keep both kinds: one that another follows, and the last one;
  two keys let a 429 rotate and two of them leave no free key.
* *orchestrator*: with three products the rare list can skip the middle one and
  a later attempt can have positions that differ from the caller's indexes; two
  confidence levels give ties and both sides of the threshold.
* *normalizer_shared*: two raws share a key and differ, one has its own, one needs no call; two batches
  miss the cache for the same key and store in either order; an entry can expire in between; a fallback
  has a second item.
* *normalizer_columns*: the columns are at any three stages at once, with a text to ask for or none; a
  blank comes as a raw value, an empty line or a call that was given up. One text per column is enough,
  because no column sees another's and the lists of texts are the business of `normalizer_shared`; that the cache
  spreads no blank from batch to batch is proved, for any number of both (section 5).
* *predict_cycle*: with two requests the writes of one fall between the writes of the other;
  with two products a batch can be partly predicted, or refused because one was deleted.
* *rate_limiter*: two ticks to a second make a stamp exactly, or not quite, a window
  old and make `Retry-After` round; five ticks are more than two windows; setting the clock
  back by a whole window puts new stamps before old ones. `MaxTime` and `MaxLag` bound only
  the run: the theorems do not depend on their values.
* *migrations*: the three files of the repository with their one dependency (003
  puts policies on the table of 001); two runners suffice for a stale read.
* *assembly*: the rows of the two products alternate, so a row given to the wrong product or
  a grouping that keeps one row shows; two edits can delete a product after it was selected and
  change what is left, or turn the chain of three categories into a cycle; the rows to write
  hold a NULL, an unknown unit, a share above 100 and a negative weight.

Deadlock is checked for the key pool, the NIM client, the rate limiter and the
migrations, where something can always happen; a batch, a call of the orchestrator,
the one fetch of `ProductAssembly` or the finite set of requests of `PredictCycle` ends.

### Fairness

* `NIMKeyPool`, `NIMClient`: weak fairness of the clock and of each ready
  coroutine, which the event loop gives, and of the reply to a `post`: httpx is given a
  timeout, so a request ends with a response or a `RequestError`. Callers are never
  obliged to call. `CallsReturn` depends on the FIFO queue of the semaphore.
* `BulkNormalizer`: every task that can step does; a NIM call returns or raises,
  which is `CallsReturn`.
* `Orchestrator`: threads of `asyncio.to_thread` end.
* `PredictCycle`: the steps of a request that has arrived; Supabase calls end (httpx
  timeout). Arrivals, crashes and deletions are under no obligation.

## 4. Deviations from the documentation

With a run that shows it:

* A value found in the cache at collection is not used (`bulk_normalizer.py:54`): it is
  neither collected as unknown nor kept, so the product gets its raw text
  (`normalizer_hit`; `README.md:170` draws the hit as resolved). The resolution is used
  in the batch that asked NIM and lost in every later one.
* A migration that was rolled back is pending again but cannot be applied: its row
  still occupies the unique file name (`migrate.py:111`; `migrations_pending`).
* `002_add_packaging_transport.up.sql:4-6` calls that migration "optional for initial rollout"
  and the fetcher says packaging is "gracefully skipped if missing", but the select of the steps
  names the column of 002 (`product_fetcher.py:105`): without it every fetch is
  answered with 502 (`assembly_optional`).

Met while modelling, without a run of their own:

* `complete_with_choices` can return `""` (`nim_client.py:197`) although its docstring
  says the answer is one of the choices (lines 44-45): three 429s in a row.
* A step that was given up is cached as `""` (`step_normalizer.py:161-162`) and left out of the record; a
  category that was given up is `""` in the record (`category_normalizer.py:165`), where a failed call would
  have left the raw name; a material without a name (`product_fetcher.py:210`) stays blank. Model A
  sees the last two. `BlankIsExplained` says that it sees no other blank, and that blanks do not
  travel through the cache.
* `db_write.written` counts the rows that were meant to be written also when both writes
  failed (`result_writer.py:83`; `README.md:269` says null).
* `scripts/batch_predict.py` sends no `X-Brand-Id` and `X-Brand-Signature` headers (line 108),
  so every batch is refused with 400, one of the checks of `Access`; and it reads
  `data["predictions"]` (line 132), which the response does not have.
* `/health` says "healthy" as soon as `load_all` has ended, artifacts missing or not
  (`loader.py:49`; `README.md:209` says all models loaded).
* A weight in a unit that is not listed counts as kg (`data_mapper.py:32`), and the field
  `total_weight_kg` holds a value in `weight_unit` (`request.py:32`), g by default.
* One row outside the bounds of the schema refuses the whole batch, not its product
  (`product_fetcher.py:183-213`; `RefusedForOwnRow` says whose row it is).
* An address keeps its list after its last request (`rate_limiter.py:22`): `_cleanup` runs only for
  addresses that come back. A clock set *forward* would drop stamps early, and more than the
  quota could pass; the model only sets it back.
* A caller that slept for a key hands it out even if a 429 renewed its cooldown meanwhile
  (`nim_key_pool.py:85`; the docstring says cooling keys are skipped).
  `CooldownCutOnlyByLate429` is the strongest statement that does hold.
* `summary.retried` adds up over attempts, so a product that is retried twice counts twice
  (`orchestrator.py:159`, `response.py:50`); so does `rare_count` (line 147).
* A `confidence_threshold` of 0 is read as absent (`orchestrator.py:210`, `README.md:240`).
* The fallback for an empty answer is cached like an answer
  (`material_normalizer.py:194-197`, `README.md:344`).
* A failed bulk call costs one more call per unknown value, so the "at most 3" of
  `README.md:355` holds only when none fails; `CallBudget` states the bound
  that holds. It counts calls of the NIM client; what one of them costs in posts, with the retries and the
  re-queries of `complete_bulk` (`nim_client.py:101-109`), is bounded by `PostsBounded`.
* Rolling back 001 leaves 003 recorded as applied, although its policies went with
  the table (`migrate.py:120-138`); `MissingIsUndone` says that this is the only case.

## 5. Proofs

All theorems are for arbitrary constants that satisfy the `ASSUME`s of the modules:

* positive numbers of keys, permits, attempts, products of a batch (`Orchestrator`) and quota; a
  natural cooldown, window, delay and number of confidence levels; a finite set of callers (a process
  has finitely many coroutines);
* `BulkNormalizer`: every raw has a key, the columns are among the three, a batch has a largest
  number of texts;
* `PredictCycle`: every product has a brand, finitely many products are asked for, and the value that
  stands for "no row" is not a request;
* `ProductAssembly`: finitely many products and categories, tables that are sequences. Nothing is
  assumed of what rows contain, and `MaxEdits` and `NewRows` are arbitrary;
* `Migrations`: a file depends on files before it.

No bound of a run (`MaxTime`, `MaxEdits`, `MaxInput`) matters to a proof. They are checked by TLAPS
(SMT, Zenon, LS4); each inductive invariant was checked by TLC on the instances of section 3 first.

* **Key pool** (`NIMKeyPool_proofs`). `PoolTypeCorrect`: `PoolTypeOK` is inductive. The one
  non-trivial point is `_next_index`, stored before the modulo: `ProbeInKeys` shows that the
  scan looks only at existing keys while the index may be one past the last.
  `SleepCoversCooldownHolds`: `PoolTypeOK /\ SleepCoversCooldown` is
  inductive: going to sleep reads the cooldown, time takes the same from both, and
  what renews the cooldown sets `late`. `CooldownCutOnlyByLate429Holds` follows:
  without `late`, a caller whose nap is over takes a key whose cooldown is zero. Both are
  proved for `Safety`, the specification without its fairness.
* **NIM client** (`NIMClient_proofs`). `TypeCorrect` first, by one lemma for each
  way a call can go on. Then the semaphore: `IndInv == TypeOK /\ SemInv /\ Engaged`.
  `SemInv` joins permit conservation with the queue's shape (`QueueShape`, of the library's semaphore: the queue
  holds each waiting caller once, and is empty while a permit is free). Conservation alone is not inductive,
  because `Leave` hands the permit to the head of the queue: one must know that the head is
  waiting and is not queued twice. `Engaged` says a caller is in the pool only while it holds
  a permit; `InFlightBoundedHolds` needs it. The permit changes hands in three ways only
  (`Acquire`, `Leave`, `Reenter`), each treated in one lemma; the other actions leave
  `permits`, `queue` and who holds a permit alone. Theorems: `PermitsBalancedHolds`,
  `InFlightBoundedHolds`.
  A third layer, `ShapeInv`, is about bulk calls: while a line is re-queried the list has one line per
  item and the cursor is at a line that is not a choice. That invariant survives because a step writes the
  lines of its own caller only (`Aside`), and gives `BulkShapeHolds` and `ValidLinesKeptHolds`.
  `PostsBoundedHolds` rests on `SpentInv`: a caller has posted at most as often as the attempts of the requests
  before the present one, which the cursor counts, and those of the present one.
  `ImplementsPool`: each step of the client is a step of the key pool or leaves it alone, also the ticks
  that only a backoff waits for; so `ClientSpec` implies `Safety`, and the two properties of the
  pool hold of the pool in use (`ClientSleepCoversCooldown`, `ClientCooldownCutOnlyByLate429`).
* **Rate limiter** (`RateLimiter_proofs`). The list of an address is cut at every request, so
  a bound on the list says nothing about the past by itself. `IndInv` relates the list to
  the history of admissions: the list holds the stamps of a suffix of it, and what is
  missing is more than a window old in real time. With a clock that is set back the stamps are not sorted, and a
  forgotten one may look recent again; what carries the proof is that `lag` only grows, so a
  stamp that is a window old by the clock belongs to an admission at least as old in real time
  (`StampExpired`), and that real time never returns. An admission appends to a list shorter
  than the quota, so the admission `MaxRequests` before it is among the forgotten:
  `WindowBoundHolds`. A refusal has the quota in its list and the first of it not expired, which gives
  its real age up to the lag since (`StampRecent`): `RejectsOnlyFullWindowHolds`. The
  advice is due after the stamp it waits for has expired, and once the clock shows that time the
  stamp is cut: `RetryAfterIsEnoughHolds`.
* **Orchestrator** (`Orchestrator_proofs`). None of the four properties is inductive alone. The invariant
  says that the lists of an attempt are strictly increasing, so a product is at one position
  (`ListsOrdered`); that after the models have answered each list of results is aligned with its list of
  records through `pending` and `rare` (`Aligned`); that a product is pending exactly if it has failed in every
  attempt so far (`PendingIsUnsettled`, `FailuresCounted`). The central lemma is that `rare_ptr`, which the
  code only increments, is at each rare position the place of that position in the rare list: because the list
  is ordered, the number of its members before `i` is one less than the place of `i`. `ImplementsPromise`
  is the step simulation of `BatchPromise`: `Collect` is its `Round`, a missing Model A its `Abort`,
  the rest of an attempt stutters.
* **Bulk normalizer** (`BulkNormalizer_proofs`). `ValueInv`: what is in the cache or a lookup under a key was
  made for that key, is "unknown" only for a step and never a blank text for a material; this must be said of all
  batches at once, because any of them may fill the entry another one reads. `GivenUp` adds that no blank category
  is cached and that a batch which holds one has begun its fallback: `BlankIsExplainedHolds`. `TaskInv` says of each task that whatever was unknown at collection either has a value
  or is still before the task's position, so at the end everything has one, whichever calls failed and
  whatever expired. `CountInv` bounds the calls by two cardinalities: the columns that have made their bulk call
  and the items, of columns whose bulk call failed, behind the position of a fallback; each call adds an element to one of them.
  `SelectionExists` builds the list `Selections` asks for, text by text, so `Collect` is never blocked by the
  way its unknowns are described.
* **Predict cycle** (`PredictCycle_proofs`). Rows outlive the step that wrote them and are compared with state of
  the request that wrote them. The invariant says from which stage on that state is final (`GoodIsFound`,
  `FoundIsOfSigner`) and that no row names a request before (`NoRowsYet`, `RowsOfFound`). `RefusalFacts` joins
  the six checks in their order: a request that is not refused names a brand in header and body, and that
  brand signed it. `EnvStored` says that a request past its first write without trouble has its rows, unless
  the product is gone. `FirstValueLastPredictionHolds` needs more (`InTurn`): a request that
  was answered without trouble leaves an environment row for all it predicted that still exist (`EnvKept`), so a later
  one inserts none there; and an upsert takes over every row of what it found.
* **Product assembly** (`ProductAssembly_proofs`). The invariant names, for everything the call holds, a state
  in `seen` it was read from: what an edit does is to add a state, so no edit can falsify it. Two facts about
  the helpers carry the rest. `RowsOfSome`: the rows of one product among the rows of those found are all its
  rows. `PathEnds`: the walk of `_build_category_paths` has ended after as many steps as
  there are categories, plus one, because its nodes differ and there are not that many (the pigeonhole theorem),
  so its last value is the whole ancestry, in a tree as in a taxonomy with cycles. `InOrderFacts` shows that a
  finite set of numbers can be listed in order, which makes the inputs one per product.
* **Migrations** (`Migrations_proofs`). `InEffectIsApplied`, `RunOnce` (as `CountedInRecord`: since its last
  rollback a file was run at most once, and not at all while it has no row) and `MissingIsUndone` are inductive together with `RollbackSeen`: who is about to run a down.sql has seen a
  row, and rows never disappear. `RowsOnlyAdvance`: a row goes from none to applied to rolled back.

How loops are proved. The induction theorems of the library take an operator as a parameter, which
none of the provers can instantiate. What can be cited is that a nonempty set of numbers has a least element
(`WFMin` with `NatLessThanWellFounded`), and that is enough: `Counting` in `ProductAssembly_proofs` is
induction over `0 .. N` by the least counterexample, for a set in place of a predicate, and `Recursion` builds the function
that a definition by a step from each number to the next chooses. With them `Keep` and `Path`, which are
recursive functions, are shown to compute what is said above for every input. `SelectSeq`, the sorting operators and the folds of
the library stay opaque, which is why the modules that are proved about use `Keep`, `Selections`
and `InOrder`.

Only model-checked:

* liveness: `SleepersWake`, `CallsReturn`, `BatchesPatched`, `Delivers`, `Answered`, and the fairness
  of `BatchPromise` in `KeepsPromise`. Fairness is stated with ENABLED, which this version of the
  prover does not handle;
* the type invariant of `ProductAssembly`, which says that a total, a mass and a transport distance are natural
  numbers: `Transport` is a fold;
* that the runs which expect a violation find one: a counterexample is one behaviour, not a theorem.

## 6. What is not modelled

* `scripts/batch_predict.py`: a sequential loop of one operator, which keeps no state of its own and
  whose every batch is refused today (section 4). A model of its sweeps would describe a
  program that never gets past its first answer.
* `health.py` beyond its NIM call: it reads settings, loader and counters.
* `chunk_list` of `batch_utils.py`: nothing calls it.
* `synonym_map.py` is data; `espresso_models` is not in the repository; request logging keeps
  no state; `config.py`, `main.py`, `deps.py` and routing only pass values, which are
  the constants here; `start.sh`, Docker and `scripts/local_test.py` are I/O.
* Inside modelled components: `normalize_batch` and other entry points nobody in
  `app/` calls; cache counters; prompts and numbering prefixes of a bulk reply; carbon values,
  the averages; the factors of lb and oz; rate-limit headers other than `Retry-After`.
* NIM is assumed to keep the order of the items it answers and, when guided, to answer
  with a choice: no code could tell otherwise.

## 7. Plan

Done, in this order: key pool and NIM client (the shared, concurrent heart), the
orchestrator and its promise, the bulk normalizer and the cache, the predict cycle with the
database, rate limiter, migrations, access checks; proofs of the pool, the semaphore and the window;
then the assembly of the inputs under concurrent edits, the health check as one more user of the
NIM client, and a clock that is set back, with the proofs of the rate limiter carried over to it; then the
proofs of every safety and action property the runs check, and that the client implements its pool.

Next:

1. `TypeOK` of `ProductAssembly`, with the sum of the distances written as a recursive function like `Keep`.
2. A lemma for what `FirstFailure` of `Access` does with a list of checks of any length, in place of the six of
   the endpoint.
3. That `ProductAssembly` refines the step `SelectDetails` of `PredictCycle`: the products found are those whose
   inputs are predicted.
