--------------------------- MODULE ProductAssembly ---------------------------
(***************************************************************************)
(* One call of fetch_products_for_prediction                               *)
(* (app/supabase/product_fetcher.py) and the mapping of its products to    *)
(* model records (app/pipeline/data_mapper.py).  The products are read in  *)
(* up to six selects, and Avelero edits the database between any two.      *)
(*                                                                         *)
(* Products are numbered in the order of created_at; a table is the        *)
(* sequence of its rows in the order the select asks for.  A weight counts *)
(* its unit, a total grams, a mass of a record 1/100 gram.                 *)
(***************************************************************************)
EXTENDS Integers, FiniteSets, SequencesExt

CONSTANTS Products,    \* products of the brand, numbered
          Categories,  \* ids of taxonomy_categories, which stand for the names too
          Canonical,   \* what the normalizer makes of each material name
          StartRows, StartCategory, StartParent, \* the database at first
          NewRows,     \* rows that may be written, per table
          MaxEdits     \* bound: edits during the fetch

Tables == {"materials", "weights", "steps", "packaging"}
None == "none"  \* NULL where a name is expected
Null == -1      \* NULL where a number is expected

ASSUME ProductsAssumption == Products \subseteq Nat /\ IsFiniteSet(Products)
ASSUME EditsAssumption == MaxEdits \in Nat
ASSUME RowsAssumption ==
    DOMAIN StartRows = Tables /\ \A t \in Tables : StartRows[t] \in Seq(Range(StartRows[t]))
ASSUME CategoryAssumption ==
    /\ IsFiniteSet(Categories)
    /\ StartCategory \in [Products -> Categories \cup {None}]
    /\ StartParent \in [Categories -> Categories \cup {None}]

VARIABLES rows,      \* product_materials, product_weight, journey steps, packaging
          category,  \* category_id of each product there is
          parent,    \* parent_id of each category there is
          migrated,  \* 002 is applied: steps have a distance, packaging a table
          pc,        \* the select that comes next, or how the call ended
          asked,     \* product_ids
          found,     \* products_map: the category_id of each product found
          got,       \* what the selects of the tables returned
          paths,     \* category_paths
          inputs,    \* the ProductInputs
          records,   \* the record of each input, with its warnings
          edits,
          seen       \* history: the states of the database during the call

database == <<rows, category, parent, migrated>>
answers == <<found, got, paths>>
vars == <<database, pc, asked, answers, inputs, records, edits, seen>>

\* Without migration 002.
Unmigrated(r) ==
    [r EXCEPT !["packaging"] = <<>>,
              !["steps"] = [i \in DOMAIN @ |-> [@[i] EXCEPT !.km = Null]]]

State(r, c, t) == [rows |-> r, category |-> c, parent |-> t]

Init ==
    /\ migrated \in BOOLEAN
    /\ rows = IF migrated THEN StartRows ELSE Unmigrated(StartRows)
    /\ category = StartCategory
    /\ parent = StartParent
    /\ pc = "products"
    /\ asked \in SUBSET Products \ {{}}
    /\ found = <<>>
    /\ got = [t \in Tables |-> <<>>]
    /\ paths = <<>>
    /\ inputs = <<>>
    /\ records = <<>>
    /\ edits = 0
    /\ seen = {State(rows, category, parent)}

\* The elements of s at the positions in S, in their order.
Keep(s, S) ==
    LET kept[n \in 0 .. Len(s)] ==
          IF n = 0 THEN <<>>
          ELSE IF n \in S THEN Append(kept[n - 1], s[n]) ELSE kept[n - 1]
    IN  kept[Len(s)]

\* The rows of the products in P.
RowsOf(s, P) == Keep(s, {i \in DOMAIN s : s[i].of \in P})

Own(s, p) == RowsOf(s, {p})

-----------------------------------------------------------------------------
(* The assembly, which follows the last answer without an await. *)

\* Mutant: the rows are indexed instead of grouped, so the last one stays.
Grouped_Indexed(s, p) ==
    LET own == Own(s, p) IN IF own = <<>> THEN own ELSE <<Last(own)>>

\* _group_by_pid and the lookups in its result.
Grouped(s, p) == Own(s, p)

\* _extract_materials: a row that has lost its brand material is skipped.
ExtractMaterials(s) ==
    LET Material(r) == [name |-> r.name, origin |-> r.origin,
                        percentage |-> IF r.percentage = Null THEN 0 ELSE r.percentage]
        kept == Keep(s, {i \in DOMAIN s : s[i].name # None})
    IN  [i \in DOMAIN kept |-> Material(kept[i])]

\* _index_by_pid: one row of product_weight for a product, the last if more.
WeightOf(s) == IF s = <<>> THEN Null ELSE Last(s).weight
UnitOf(s) == IF s = <<>> \/ Last(s).unit = None THEN "g" ELSE Last(s).unit

\* The distances that are not NULL added up, NULL if there are none.
Transport(s) ==
    LET known == Keep(s, {i \in DOMAIN s : s[i].km # Null})
    IN  IF known = <<>> THEN Null ELSE FoldLeft(LAMBDA sum, r : sum + r.km, 0, known)

Steps(s) == [i \in DOMAIN s |-> s[i].step]

\* The ProductInput of p from the rows g[t] of the tables.
ProductInput(p, path, g) ==
    LET own(t) == Grouped(g[t], p)
    IN  [product |-> p, path |-> path,
         materials |-> ExtractMaterials(own("materials")),
         weight |-> WeightOf(own("weights")), unit |-> UnitOf(own("weights")),
         steps |-> Steps(own("steps")),
         transport |-> Transport(own("steps")),
         packaging |-> own("packaging")]

\* The bounds of the numbers of an input; nothing in the repository says that
\* the tables keep them.
Valid(input) ==
    /\ \A m \in Range(input.materials) : m.percentage \in 0 .. 100
    /\ input.weight = Null \/ input.weight >= 0
    /\ input.transport = Null \/ input.transport >= 0

\* The products of S in the order of created_at.
InOrder(S) ==
    CHOOSE ids \in [1 .. Cardinality(S) -> S] : \A i, j \in DOMAIN ids : i < j => ids[i] < ids[j]

\* Mutant: a product without materials is left out.
Assembled_WithMaterials(g) ==
    LET ids == InOrder({p \in DOMAIN found : Own(g["materials"], p) # <<>>})
    IN  [i \in DOMAIN ids |->
           ProductInput(ids[i], IF found[ids[i]] = None THEN <<>> ELSE paths[found[ids[i]]], g)]

\* One input per product of products_map, in its order.
Assembled(g) ==
    LET ids == InOrder(DOMAIN found)
    IN  [i \in DOMAIN ids |->
           ProductInput(ids[i], IF found[ids[i]] = None THEN <<>> ELSE paths[found[ids[i]]], g)]

Assemble ==
    IF \A input \in Range(Assembled(got')) : Valid(input)
    THEN inputs' = Assembled(got') /\ pc' = "map"
    ELSE pc' = "invalid" /\ UNCHANGED inputs

-----------------------------------------------------------------------------
(* The selects. *)

\* Mutant: the filter on id is missing.
Selected_Brand == category

Selected == [p \in asked \cap DOMAIN category |-> category[p]]

SelectProducts ==
    /\ pc = "products"
    /\ found' = Selected
    /\ pc' = IF DOMAIN found' = {} THEN "empty" ELSE "materials"
    /\ UNCHANGED <<database, asked, got, paths, inputs, records, edits, seen>>

CategoryIds == Range(found) \ {None}

Following(t) ==
    CASE t = "materials" -> "weights"
      [] t = "weights" -> "steps"
      [] t = "steps" -> IF CategoryIds = {} THEN "head" ELSE "taxonomy"

\* PostgREST knows the columns and tables of migration 002 once it is applied.
Known(t) == t \in {"steps", "packaging"} => migrated

\* The rows of table t of the products found.
Answer(t) == RowsOf(rows[t], DOMAIN found)

SelectRelated(t) ==
    /\ pc = t
    /\ Known(t)
    /\ got' = [got EXCEPT ![t] = Answer(t)]
    /\ pc' = Following(t)
    /\ UNCHANGED <<database, asked, found, paths, inputs, records, edits, seen>>

\* Mutant: no node counts as visited.
Visited_None(path, n) == FALSE

\* visited holds the nodes of the path.
Visited(path, n) == Contains(path, n)

\* _build_category_paths: from the leaf up, until there is no parent, its row
\* is missing, or it was visited.
Path(tree, c) ==
    LET last == Cardinality(DOMAIN tree) + 1
        walk[n \in 0 .. last] ==
          IF n = 0 THEN <<>>
          ELSE LET path == walk[n - 1]
                   next == IF path = <<>> THEN c ELSE tree[Head(path)]
               IN  IF next \notin DOMAIN tree \/ Visited(path, next) THEN path
                   ELSE <<next>> \o path
    IN  walk[last]

\* One select of the whole table.
SelectTaxonomy ==
    /\ pc = "taxonomy"
    /\ paths' = [c \in CategoryIds |-> Path(parent, c)]
    /\ pc' = "head"
    /\ UNCHANGED <<database, asked, found, got, inputs, records, edits, seen>>

PackagingFound ==
    /\ pc = "head"
    /\ Known("packaging")
    /\ pc' = "packaging"
    /\ UNCHANGED <<database, asked, answers, inputs, records, edits, seen>>

\* There is no such table, or the HEAD request failed.
PackagingSkipped ==
    /\ pc = "head"
    /\ UNCHANGED got
    /\ Assemble
    /\ UNCHANGED <<database, asked, found, paths, records, edits, seen>>

SelectPackaging ==
    /\ pc = "packaging"
    /\ Known("packaging")
    /\ got' = [got EXCEPT !["packaging"] = Answer("packaging")]
    /\ Assemble
    /\ UNCHANGED <<database, asked, found, paths, records, edits, seen>>

Reading == Tables \cup {"products", "taxonomy", "head"}

\* A status of 400 or 404 raises.
SelectRejected ==
    /\ pc \in Tables /\ ~Known(pc)
    /\ pc' = "rejected"
    /\ UNCHANGED <<database, asked, answers, inputs, records, edits, seen>>

\* A select raises; the HEAD request does not.
SelectFails ==
    /\ pc \in Reading \ {"head"}
    /\ pc' = "unavailable"
    /\ UNCHANGED <<database, asked, answers, inputs, records, edits, seen>>

-----------------------------------------------------------------------------
(* data_mapper.py. *)

\* Grams in a unit; a unit that is not listed counts as kg.
Factor(unit) == IF unit = "g" THEN 1 ELSE 1000

TotalWeight(input) ==
    IF input.weight = Null THEN 1000 ELSE input.weight * Factor(input.unit)

\* Mutant: materials with one canonical name are merged.
Names_Merged(materials) ==
    FoldLeft(LAMBDA names, m : IF Contains(names, Canonical[m.name]) THEN names
                               ELSE Append(names, Canonical[m.name]), <<>>, materials)

\* The normalized materials, one per material of the product.
Names(materials) == [i \in DOMAIN materials |-> Canonical[materials[i].name]]

Warnings(input) ==
    {w \in {"weight", "materials", "transport", "packaging"} :
       \/ w = "weight" /\ input.weight = Null
       \/ w = "materials" /\ input.materials = <<>>
       \/ w = "transport" /\ input.transport = Null
       \/ w = "packaging" /\ input.packaging = <<>>}

\* map_to_record.
Record(input) ==
    [product |-> input.product,
     names |-> Names(input.materials),
     masses |-> [i \in DOMAIN input.materials |->
                   TotalWeight(input) * input.materials[i].percentage],
     total |-> TotalWeight(input),
     transport |-> input.transport,
     origin |-> IF input.materials = <<>> THEN None ELSE input.materials[1].origin,
     packaging |-> input.packaging,
     warnings |-> Warnings(input)]

MapRecords ==
    /\ pc = "map"
    /\ records' = [i \in DOMAIN inputs |-> Record(inputs[i])]
    /\ pc' = "done"
    /\ UNCHANGED <<database, asked, answers, inputs, edits, seen>>

-----------------------------------------------------------------------------
(* Avelero's edits, external, and the migration: the next database. *)

Edited(r, c, t) ==
    /\ pc \in Reading
    /\ edits < MaxEdits
    /\ edits' = edits + 1
    /\ rows' = r /\ category' = c /\ parent' = t
    /\ seen' = seen \cup {State(r, c, t)}
    /\ UNCHANGED <<pc, asked, answers, inputs, records>>

Migrate ==
    /\ migrated' = ~migrated
    /\ Edited(Unmigrated(rows), category, parent)

\* Steps have a sort_index of their own; there is one weight for a product.
WriteRow(t, r) ==
    /\ Known(t) /\ r.of \in DOMAIN category
    /\ t = "weights" => Own(rows[t], r.of) = <<>>
    /\ \E i \in (IF t = "steps" THEN 1 ELSE Len(rows[t]) + 1) .. Len(rows[t]) + 1 :
          Edited([rows EXCEPT ![t] = InsertAt(@, i, r)], category, parent)

RemoveRow(t) ==
    \E i \in DOMAIN rows[t] : Edited([rows EXCEPT ![t] = RemoveAt(@, i)], category, parent)

\* The related rows cascade.
DeleteProduct(p) ==
    /\ p \in DOMAIN category
    /\ Edited([t \in Tables |-> RowsOf(rows[t], Products \ {p})],
              [q \in DOMAIN category \ {p} |-> category[q]], parent)

MoveProduct(p) ==
    /\ p \in DOMAIN category
    /\ \E c \in DOMAIN parent \cup {None} : Edited(rows, [category EXCEPT ![p] = c], parent)

\* Nothing keeps a category from becoming its own ancestor.
Reparent(c) ==
    /\ c \in DOMAIN parent
    /\ \E d \in DOMAIN parent \cup {None} : Edited(rows, category, [parent EXCEPT ![c] = d])

RemoveCategory(c) ==
    /\ c \in DOMAIN parent \ (Range(category) \cup Range(parent))
    /\ Edited(rows, category, [d \in DOMAIN parent \ {c} |-> parent[d]])

Edit ==
    \/ /\ UNCHANGED migrated
       /\ \/ \E t \in Tables : RemoveRow(t) \/ \E r \in NewRows[t] : WriteRow(t, r)
          \/ \E p \in Products : DeleteProduct(p) \/ MoveProduct(p)
          \/ \E c \in Categories : Reparent(c) \/ RemoveCategory(c)
    \/ Migrate

Next ==
    \/ SelectProducts
    \/ \E t \in Tables \ {"packaging"} : SelectRelated(t)
    \/ SelectTaxonomy
    \/ PackagingFound \/ PackagingSkipped \/ SelectPackaging
    \/ SelectRejected \/ SelectFails
    \/ MapRecords
    \/ Edit

Spec == Init /\ [][Next]_vars

-----------------------------------------------------------------------------
NoneOr(S) == S \cup {None}

\* What the models are handed is complete: a record for each input once they
\* are mapped, its total and every mass a number, whatever was NULL.
TypeOK ==
    /\ pc \in Reading \cup {"empty", "rejected", "unavailable", "invalid", "map", "done"}
    /\ asked \subseteq Products
    /\ DOMAIN found \subseteq asked /\ Range(found) \subseteq NoneOr(Categories)
    /\ DOMAIN paths \subseteq Categories
    /\ edits \in 0 .. MaxEdits
    /\ pc = "done" => Len(records) = Len(inputs)
    /\ \A record \in Range(records) :
          /\ record.total \in Nat
          /\ Range(record.masses) \subseteq Nat
          /\ record.transport \in Nat \cup {Null}

\* The inputs are not a snapshot, but no part of one is made up: the rows of
\* each table are all those the product had at one moment of the call, and
\* its path leads to a category it had, in a taxonomy there was later.
EveryPartWasTrue ==
    \A input \in Range(inputs) :
       LET Had(Part(_)) == \E state \in seen : Part(state)
           own(state, t) == Own(state.rows[t], input.product)
       IN  /\ Had(LAMBDA s : input.materials = ExtractMaterials(own(s, "materials")))
           /\ Had(LAMBDA s : /\ input.weight = WeightOf(own(s, "weights"))
                             /\ input.unit = UnitOf(own(s, "weights")))
           /\ Had(LAMBDA s : /\ input.transport = Transport(own(s, "steps"))
                             /\ input.steps = Steps(own(s, "steps")))
           /\ input.packaging = <<>> \/ Had(LAMBDA s : input.packaging = own(s, "packaging"))
           /\ Had(LAMBDA s : /\ input.product \in DOMAIN s.category
                             /\ s.category[input.product] = found[input.product])

\* The lists of names and masses are matched by position, three modules apart
\* (normalizer, mapper, model).  The k-th of both come from one row of the
\* product and from a weight it had, and an assumed weight is announced.
MassesMatchNames ==
    \A record \in Range(records) :
       LET p == record.product
           weights == {Own(state.rows["weights"], p) : state \in seen}
           shares == UNION {Range(ExtractMaterials(Own(state.rows["materials"], p))) : state \in seen}
       IN  /\ Len(record.names) = Len(record.masses)
           /\ \/ "weight" \in record.warnings /\ record.total = 1000
              \/ \E w \in weights : /\ WeightOf(w) # Null
                                    /\ record.total = WeightOf(w) * Factor(UnitOf(w))
           /\ \A k \in DOMAIN record.names :
                 \E m \in shares : /\ record.names[k] = Canonical[m.name]
                                   /\ record.masses[k] = record.total * m.percentage

\* However the taxonomy is rearranged, cycles included, a path has no
\* category twice, each followed by a child of it, and nothing is missing at
\* its head: the first has no parent that could be added.
PathIsAncestry ==
    \A c \in DOMAIN paths :
       LET path == paths[c]
       IN  \E state \in seen :
              IF path = <<>> THEN c \notin DOMAIN state.parent
              ELSE /\ Last(path) = c
                   /\ IsInjective(path) /\ Range(path) \subseteq DOMAIN state.parent
                   /\ \A i \in 1 .. Len(path) - 1 : state.parent[path[i + 1]] = path[i]
                   /\ state.parent[Head(path)] \notin DOMAIN state.parent \ Range(path)

\* Each product that was there at the first select is in the batch exactly
\* once, in the order of created_at, even if it is deleted meanwhile.
OneInputEach ==
    pc \in {"map", "done"} =>
       LET ids == [i \in DOMAIN inputs |-> inputs[i].product]
       IN  /\ Range(ids) = DOMAIN found
           /\ \A i, j \in DOMAIN ids : i < j => ids[i] < ids[j]

\* One bad row refuses the whole batch, but only a row of a product that was
\* asked for, and one that was really there during the call.
RefusedForOwnRow ==
    pc = "invalid" =>
       \E state \in seen, p \in asked :
          ~Valid(ProductInput(p, <<>>, state.rows))

\* 002_add_packaging_transport.up.sql:6, "this migration is optional for
\* initial rollout", and "gracefully skipped if missing" in the docstring: no
\* call is refused because of it.
MigrationIsOptional == pc # "rejected"
=============================================================================
