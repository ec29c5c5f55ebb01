--------------------------- MODULE BulkNormalizer ---------------------------
(***************************************************************************)
(* Normalization of raw values: bulk_normalize and the three column        *)
(* normalizers over the one shared TTL cache (app/pipeline/                *)
(* bulk_normalizer.py, app/normalization/*_normalizer.py, cache.py).       *)
(*                                                                         *)
(* Several batches run concurrently and meet in the cache.  A cache        *)
(* operation never suspends, so the code between two NIM calls is one      *)
(* step.  A value is abstracted to its text's class and to the cleaned raw *)
(* it was produced for (of), which is what a mix-up would get wrong:       *)
(*   canon     in the column's vocabulary                                  *)
(*   unknown   the extra choice of the steps                               *)
(*   junk      any other text of the LLM                                   *)
(*   blank     the empty string                                            *)
(*   fallback  the caller's own raw value, cleaned: blank when that is ""  *)
(* NIM replies keep the order of the items they answer.                    *)
(***************************************************************************)
EXTENDS Integers, Sequences, FiniteSets

CONSTANTS Batches,  \* concurrent calls of bulk_normalize
          Columns,  \* the columns in use, among material, step and category
          Raws,     \* raw values
          Keys,     \* cleaned raw values: cache keys without their prefix
          Clean,    \* strip and lower-case: several raws may share a key
          Static,   \* keys the static maps resolve
          MaxInput  \* bound: distinct raws of one column of one batch

ASSUME ColumnsAssumption == Columns \subseteq {"material", "step", "category"}
ASSUME CleanAssumption == Clean \in [Raws -> Keys]
ASSUME StaticAssumption == Static \subseteq Keys
ASSUME MaxInputAssumption == MaxInput \in Nat \ {0}

VARIABLES cache,     \* _cache, per column prefix and key
          stage,     \* where a batch is
          task,      \* where the normalize_bulk of a column is
          input,     \* the distinct raws of the batch's products
          unknowns,  \* raws to resolve: collected, then filtered
          item,      \* position of the per-item fallback in unknowns
          lookup,    \* result_map
          output,    \* what _patch_product puts in the place of a raw
          calls,     \* history: calls made to the NIM client
          hit        \* history: what the cache held at collection

vars == <<cache, stage, task, input, unknowns, item, lookup, output, calls, hit>>

Texts == {"canon", "unknown", "junk", "blank", "fallback"}
Values == [text : Texts, of : Keys]
Absent == [text |-> "absent"]
Dropped == [text |-> "dropped"]

Value(text, r) == [text |-> text, of |-> Clean[r]]
Nothing == [r \in Raws |-> Absent]
IsStatic(r) == Clean[r] \in Static
IsBlank(v) == v.text = "blank" \/ (v.text = "fallback" /\ v.of = "")
Elements(s) == {s[i] : i \in DOMAIN s}

\* Lists of at most MaxInput different raws, in the order products name them.
Inputs == {s \in UNION {[1 .. n -> Raws] : n \in 0 .. MaxInput} :
              \A i, j \in DOMAIN s : s[i] = s[j] => i = j}

\* The list of the raws of s that are in T, in the order of s.
Selections(s, T) ==
    {u \in Inputs :
        /\ Elements(u) = Elements(s) \cap T
        /\ \A i, j \in DOMAIN u : i < j =>
              \E p, q \in DOMAIN s : p < q /\ s[p] = u[i] /\ s[q] = u[j]}

\* Mutant: forgets the static map.
Unresolved_NoStatic(k, s) == Selections(s, {r \in Raws : cache[k][Clean[r]] = Absent})

\* The raws of s that neither the static map nor the cache resolves.
Unresolved(k, s) ==
    Selections(s, {r \in Raws : ~IsStatic(r) /\ cache[k][Clean[r]] = Absent})

Init ==
    /\ cache = [k \in Columns |-> [x \in Keys |-> Absent]]
    /\ stage = [b \in Batches |-> "idle"]
    /\ task = [b \in Batches |-> [k \in Columns |-> "none"]]
    /\ input = [b \in Batches |-> [k \in Columns |-> <<>>]]
    /\ unknowns = input
    /\ item = [b \in Batches |-> [k \in Columns |-> 0]]
    /\ lookup = [b \in Batches |-> [k \in Columns |-> Nothing]]
    /\ output = lookup
    /\ calls = [b \in Batches |-> 0]
    /\ hit = lookup

-----------------------------------------------------------------------------
\* Stage 1, _collect_unknowns.  A value found in the cache is not collected.
Collect(b) ==
    /\ stage[b] = "idle"
    /\ \E in, asked \in [Columns -> Inputs] :
          /\ \A k \in Columns : asked[k] \in Unresolved(k, in[k])
          /\ input' = [input EXCEPT ![b] = in]
          /\ unknowns' = [unknowns EXCEPT ![b] = asked]
          /\ hit' = [hit EXCEPT ![b] = [k \in Columns |-> [r \in Raws |->
                       IF r \in Elements(in[k]) /\ ~IsStatic(r) THEN cache[k][Clean[r]] ELSE Absent]]]
    /\ stage' = [stage EXCEPT ![b] = "gather"]
    /\ task' = [task EXCEPT ![b] = [k \in Columns |-> "filter"]]
    /\ UNCHANGED <<cache, item, lookup, output, calls>>

\* normalize_bulk up to its NIM call: what another batch has cached since the
\* collection is taken from the cache, the rest is sent in one bulk call.
Filter(b, k) ==
    /\ task[b][k] = "filter"
    /\ \E asked \in Unresolved(k, unknowns[b][k]) :
          /\ lookup' = [lookup EXCEPT ![b][k] = [r \in Raws |->
                IF r \in Elements(unknowns[b][k]) THEN cache[k][Clean[r]] ELSE Absent]]
          /\ unknowns' = [unknowns EXCEPT ![b][k] = asked]
          /\ task' = [task EXCEPT ![b][k] = IF asked = <<>> THEN "done" ELSE "bulk"]
          /\ calls' = [calls EXCEPT ![b] = IF asked = <<>> THEN @ ELSE @ + 1]
    /\ UNCHANGED <<cache, stage, input, item, output, hit>>

\* Mutant: a blank line is kept.
BulkText_KeepsBlank(k, text) == text

\* What a normalizer makes of one line of a bulk reply.
BulkText(k, text) ==
    IF text # "blank" THEN text ELSE IF k = "step" THEN "unknown" ELSE "fallback"

\* Mutant: the items are listed in another order than they were sent in.
Zipped_Reversed(k, asked, reply) ==
    [i \in DOMAIN asked |->
        Value(BulkText(k, reply[i]), asked[Len(asked) + 1 - i])]

\* Each item with its line of the reply.
Zipped(k, asked, reply) ==
    [i \in DOMAIN asked |-> Value(BulkText(k, reply[i]), asked[i])]

\* The bulk call returned one line per item: every result is cached, so of two
\* raws with one key the later wins.
BulkAnswer(b, k) ==
    /\ task[b][k] = "bulk"
    /\ LET asked == unknowns[b][k]
           texts == {"canon", "junk", "blank"} \cup (IF k = "step" THEN {"unknown"} ELSE {})
       IN  \E reply \in [DOMAIN asked -> texts] :
             LET answer == Zipped(k, asked, reply)
                 Last(x) == CHOOSE i \in DOMAIN asked :
                               /\ Clean[asked[i]] = x
                               /\ \A j \in DOMAIN asked : Clean[asked[j]] = x => j <= i
             IN  /\ lookup' = [lookup EXCEPT ![b][k] = [r \in Raws |->
                       IF r \in Elements(asked)
                       THEN answer[CHOOSE i \in DOMAIN asked : asked[i] = r] ELSE @[r]]]
                 /\ cache' = [cache EXCEPT ![k] = [x \in Keys |->
                       IF \E r \in Elements(asked) : Clean[r] = x THEN answer[Last(x)] ELSE @[x]]]
    /\ task' = [task EXCEPT ![b][k] = "done"]
    /\ UNCHANGED <<stage, input, unknowns, item, output, calls, hit>>

\* The bulk call raised: resolve one by one.
BulkFailure(b, k) ==
    /\ task[b][k] = "bulk"
    /\ task' = [task EXCEPT ![b][k] = "item"]
    /\ item' = [item EXCEPT ![b][k] = 1]
    /\ UNCHANGED <<cache, stage, input, unknowns, lookup, output, calls, hit>>

-----------------------------------------------------------------------------
(* The per-item fallback.  Materials and steps consult the cache again,    *)
(* categories neither read nor fill it.                                    *)

Current(b, k) == unknowns[b][k][item[b][k]]

\* Mutant: stops before the last item.
Advance_StopsShort(b, k, v) ==
    /\ lookup' = [lookup EXCEPT ![b][k][Current(b, k)] = v]
    /\ item' = [item EXCEPT ![b][k] = @ + 1]
    /\ task' = [task EXCEPT ![b][k] =
                   IF item[b][k] + 1 >= Len(unknowns[b][k]) THEN "done" ELSE "item"]
    /\ UNCHANGED <<stage, input, unknowns, output, hit>>

\* The item's value is v; go on with the next one.
Advance(b, k, v) ==
    /\ lookup' = [lookup EXCEPT ![b][k][Current(b, k)] = v]
    /\ item' = [item EXCEPT ![b][k] = @ + 1]
    /\ task' = [task EXCEPT ![b][k] =
                   IF item[b][k] = Len(unknowns[b][k]) THEN "done" ELSE "item"]
    /\ UNCHANGED <<stage, input, unknowns, output, hit>>

\* The first lines of MaterialNormalizer.normalize: "" is its own result.
ItemEmpty(b, k) ==
    /\ task[b][k] = "item"
    /\ k = "material" /\ Current(b, k) = ""
    /\ Advance(b, k, Value("fallback", Current(b, k)))
    /\ UNCHANGED <<cache, calls>>

ItemCached(b, k) ==
    /\ task[b][k] = "item"
    /\ k # "category" /\ ~(k = "material" /\ Current(b, k) = "")
    /\ LET v == cache[k][Clean[Current(b, k)]]
       IN  v # Absent /\ Advance(b, k, v)
    /\ UNCHANGED <<cache, calls>>

ItemCall(b, k) ==
    /\ task[b][k] = "item"
    /\ \/ k = "category"
       \/ /\ cache[k][Clean[Current(b, k)]] = Absent
          /\ ~(k = "material" /\ Current(b, k) = "")
    /\ task' = [task EXCEPT ![b][k] = "call"]
    /\ calls' = [calls EXCEPT ![b] = @ + 1]
    /\ UNCHANGED <<cache, stage, input, unknowns, item, lookup, output, hit>>

Store(k, r, v) == cache' = [cache EXCEPT ![k][Clean[r]] = v]

\* complete_with_choices returned a choice, or "" after a third 429.
ItemAnswer(b, k) ==
    /\ task[b][k] = "call"
    /\ LET r == Current(b, k)
       IN  \/ /\ Advance(b, k, Value("canon", r))
              /\ IF k = "category" THEN UNCHANGED cache ELSE Store(k, r, Value("canon", r))
           \/ /\ k = "step"
              /\ \E text \in {"unknown", "blank"} :
                    Advance(b, k, Value(text, r)) /\ Store(k, r, Value(text, r))
           \/ /\ k = "material"
              /\ Advance(b, k, Value("fallback", r))
              /\ UNCHANGED cache
           \/ /\ k = "category"
              /\ Advance(b, k, Value("blank", r))
              /\ UNCHANGED cache
    /\ UNCHANGED calls

\* complete_with_choices raised: the caller's own value, not cached.
ItemFailure(b, k) ==
    /\ task[b][k] = "call"
    /\ Advance(b, k, Value("fallback", Current(b, k)))
    /\ UNCHANGED <<cache, calls>>

-----------------------------------------------------------------------------

\* _patch_product for one raw: static map, lookup, the raw itself; steps that
\* are blank or unknown are dropped.
Patched(b, k, r) ==
    LET found == lookup[b][k][r]
        v == IF IsStatic(r) THEN Value("canon", r)
             ELSE IF found # Absent THEN found ELSE Value("fallback", r)
    IN  IF k = "step" /\ (IsBlank(v) \/ v.text = "unknown") THEN Dropped ELSE v

\* Mutant: waits for a column that had nothing to resolve.
Gathered_NeedsWork(b) ==
    \A k \in Columns : task[b][k] = "done" /\ unknowns[b][k] # <<>>

Gathered(b) == \A k \in Columns : task[b][k] = "done"

\* Stage 3, when gather has all three lookups.
Patch(b) ==
    /\ stage[b] = "gather"
    /\ Gathered(b)
    /\ stage' = [stage EXCEPT ![b] = "done"]
    /\ output' = [output EXCEPT ![b] = [k \in Columns |-> [r \in Raws |->
                     IF r \in Elements(input[b][k]) THEN Patched(b, k, r) ELSE Absent]]]
    /\ UNCHANGED <<cache, task, input, unknowns, item, lookup, calls, hit>>

\* TTLCache: an entry's time is up, or it is the least recently used one.
Expire(k, x) ==
    /\ cache[k][x] # Absent
    /\ cache' = [cache EXCEPT ![k][x] = Absent]
    /\ UNCHANGED <<stage, task, input, unknowns, item, lookup, output, calls, hit>>

-----------------------------------------------------------------------------
TaskStep(b, k) ==
    \/ Filter(b, k) \/ BulkAnswer(b, k) \/ BulkFailure(b, k)
    \/ ItemEmpty(b, k) \/ ItemCached(b, k) \/ ItemCall(b, k) \/ ItemAnswer(b, k) \/ ItemFailure(b, k)

Next ==
    \/ \E b \in Batches : Collect(b) \/ Patch(b)
    \/ \E b \in Batches, k \in Columns :
          \/ Filter(b, k) \/ BulkAnswer(b, k) \/ BulkFailure(b, k)
          \/ ItemEmpty(b, k) \/ ItemCached(b, k) \/ ItemCall(b, k) \/ ItemAnswer(b, k) \/ ItemFailure(b, k)
    \/ \E k \in Columns, x \in Keys : Expire(k, x)

\* Tasks are scheduled and every NIM call returns or raises (NIMClient!CallsReturn).
Fairness == \A b \in Batches :
               /\ WF_vars(Patch(b))
               /\ \A k \in Columns : WF_vars(TaskStep(b, k))

Spec == Init /\ [][Next]_vars /\ Fairness

-----------------------------------------------------------------------------
TypeOK ==
    /\ cache \in [Columns -> [Keys -> Values \cup {Absent}]]
    /\ stage \in [Batches -> {"idle", "gather", "done"}]
    /\ task \in [Batches -> [Columns -> {"none", "filter", "bulk", "item", "call", "done"}]]
    /\ input \in [Batches -> [Columns -> Seq(Raws)]]
    /\ unknowns \in [Batches -> [Columns -> Seq(Raws)]]
    /\ item \in [Batches -> [Columns -> 0 .. MaxInput + 1]]
    /\ lookup \in [Batches -> [Columns -> [Raws -> Values \cup {Absent}]]]
    /\ output \in [Batches -> [Columns -> [Raws -> Values \cup {Absent, Dropped}]]]
    /\ calls \in [Batches -> Nat]
    /\ hit \in [Batches -> [Columns -> [Raws -> Values \cup {Absent}]]]

\* Every raw of a product is replaced by a value made for that raw (or for one
\* that differs in case only), although positions of the reply, the filtered
\* list, the lookup and a cache filled by other batches all intervene.
OwnValue ==
    /\ \A k \in Columns, x \in Keys : cache[k][x] # Absent => cache[k][x].of = x
    /\ \A b \in Batches, k \in Columns, r \in Raws :
          output[b][k][r] \notin {Absent, Dropped} => output[b][k][r].of = Clean[r]

\* What the models see of the blanks that empty lines, give-ups after 429s,
\* single calls and blank names bring in: no blank or "unknown" step; a blank
\* material only where the product's own name is blank; a blank category only
\* there, or where the bulk call of this very batch failed and a single call
\* was given up.  No blank answer spreads to another batch by the cache.
BlankIsExplained ==
    \A b \in Batches, k \in Columns, r \in Raws :
       /\ output[b][k][r].text # "unknown"
       /\ IsBlank(output[b][k][r]) =>
             \/ k # "step" /\ Clean[r] = ""
             \/ k = "category" /\ item[b][k] # 0

\* A batch costs at most one call per column with an unknown value, plus one
\* per unknown value of each column whose bulk call failed, and none when
\* nothing is unknown.  A call is one of a method of the NIM client, whose
\* posts, re-queries included, NIMClient!PostsBounded limits.
CallBudget ==
    \A b \in Batches :
       LET Unknown(k) == {r \in Elements(input[b][k]) : ~IsStatic(r) /\ hit[b][k][r] = Absent}
       IN  calls[b] <= Cardinality({k \in Columns : Unknown(k) # {}})
                       + Cardinality({x \in Columns \X Raws :
                                         x[2] \in Unknown(x[1]) /\ item[b][x[1]] # 0})

\* Whatever was unknown at collection has a resolution when its task ends: the
\* raw fallback of _patch_product is never taken for lack of one.
EveryUnknownResolved ==
    \A b \in Batches, k \in Columns : task[b][k] = "done" =>
       \A r \in Elements(input[b][k]) :
          ~IsStatic(r) /\ hit[b][k][r] = Absent => lookup[b][k][r] # Absent

\* Every batch is patched in the end, whatever fails.
BatchesPatched == \A b \in Batches : stage[b] = "gather" ~> stage[b] = "done"

\* README.md:170: a cache hit resolves the value (CACHE -->|hit| RESOLVED).
CacheHitIsUsed ==
    \A b \in Batches, k \in Columns, r \in Raws :
       stage[b] = "done" /\ hit[b][k][r] # Absent => output[b][k][r] \in {hit[b][k][r], Dropped}
=============================================================================
