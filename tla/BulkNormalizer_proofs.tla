----------------------- MODULE BulkNormalizer_proofs -----------------------
(***************************************************************************)
(* The safety of BulkNormalizer for any batches, raws, keys and cleaning.  *)
(* Two things are inductive: what is made of a raw carries its key, in the *)
(* cache as in every lookup; and a task still has before it whatever was   *)
(* unknown at collection and is not resolved.  The budget of calls counts  *)
(* against the columns that have asked and the items that were asked for.  *)
(* A blank category needs an invariant more: the cache never holds one.    *)
(***************************************************************************)
EXTENDS BulkNormalizer, FiniteSetTheorems, WellFoundedInduction, TLAPS

-----------------------------------------------------------------------------
(* Lists of raws.                                                          *)

LEMMA InputFacts ==
  ASSUME NEW u \in Inputs
  PROVE  /\ u \in Seq(Raws)
         /\ Len(u) \in Nat /\ Len(u) <= MaxInput /\ DOMAIN u = 1 .. Len(u)
         /\ \A i \in DOMAIN u : u[i] \in Raws
         /\ \A i, j \in DOMAIN u : u[i] = u[j] => i = j
         /\ Elements(u) \subseteq Raws
         /\ u = <<>> <=> Elements(u) = {}
<1>1. PICK n \in 0 .. MaxInput : u \in [1 .. n -> Raws]
  BY DEF Inputs
<1>2. n \in Nat /\ n <= MaxInput
  BY <1>1, MaxInputAssumption
<1>3. u \in Seq(Raws) /\ Len(u) = n /\ DOMAIN u = 1 .. n
  BY <1>1, <1>2
<1>4. \A i \in DOMAIN u : u[i] \in Raws
  BY <1>1
<1>5. \A i, j \in DOMAIN u : u[i] = u[j] => i = j
  BY DEF Inputs
<1>6. u = <<>> <=> n = 0
  BY <1>2, <1>3
<1>7. Elements(u) = {} <=> n = 0
  <2>1. CASE n = 0
    BY <1>3, <2>1 DEF Elements
  <2>2. CASE n # 0
    <3>1. 1 \in DOMAIN u
      BY <1>2, <1>3, <2>2
    <3> QED
      BY <2>2, <3>1 DEF Elements
  <2> QED
    BY <2>1, <2>2
<1>8. Elements(u) \subseteq Raws
  BY <1>4 DEF Elements
<1> QED
  BY <1>2, <1>3, <1>4, <1>5, <1>6, <1>7, <1>8

LEMMA SelectionFacts ==
  ASSUME NEW s, NEW T, NEW u \in Selections(s, T)
  PROVE  u \in Inputs /\ Elements(u) = Elements(s) \cap T
  BY DEF Selections

\* The empty list is one of them.
LEMMA EmptyInput == <<>> \in Inputs /\ Elements(<<>>) = {}
<1>1. 0 \in 0 .. MaxInput
  BY MaxInputAssumption
<1>2. <<>> \in [1 .. 0 -> Raws]
  OBVIOUS
<1>3. <<>> \in UNION {[1 .. n -> Raws] : n \in 0 .. MaxInput}
  BY <1>1, <1>2
<1> QED
  BY <1>3 DEF Inputs, Elements

\* A nonempty set of positions has a last.
LEMMA LastPosition ==
  ASSUME NEW n \in Nat, NEW S \in SUBSET (1 .. n), S # {}
  PROVE  \E m \in S : \A j \in S : j <= m
<1> DEFINE Above == {n - i : i \in S}
           R == OpToRel(<, Nat)
<1>1. IsWellFoundedOn(R, Nat)
  BY NatLessThanWellFounded
<1>2. \A x, y \in Nat : <<y, x>> \in R <=> y < x
  BY DEF OpToRel
<1>3. Above \subseteq Nat /\ Above # {}
  <2>1. \A i \in S : n - i \in Nat
    OBVIOUS
  <2> QED
    BY <2>1
<1> HIDE DEF R
<1>4. PICK d \in Above : \A e \in Above : ~ (<<e, d>> \in R)
  <2> HIDE DEF Above
  <2> QED
    BY <1>1, <1>3, WFMin
<1>5. PICK m \in S : d = n - m
  BY <1>4
<1>6. ASSUME NEW j \in S PROVE j <= m
  <2>1. n - j \in Above /\ n - j \in Nat /\ d \in Nat
    BY <1>3, <1>4
  <2>2. ~ (n - j < d)
    BY <1>2, <1>4, <2>1
  <2> QED
    BY <1>5, <2>2
<1> QED
  BY <1>6

\* u lists the members of T among the first n of s, in their order.
Lists(u, s, T, n) ==
    /\ u \in Seq(Raws) /\ Len(u) <= n
    /\ \A i \in 1 .. Len(u) : \E p \in 1 .. n : s[p] = u[i] /\ u[i] \in T
    /\ \A p \in 1 .. n : s[p] \in T => \E i \in 1 .. Len(u) : u[i] = s[p]
    /\ \A i, j \in 1 .. Len(u) : i < j => \E p, q \in 1 .. n : p < q /\ s[p] = u[i] /\ s[q] = u[j]

LEMMA OneMoreListed ==
  ASSUME NEW s \in Inputs, NEW T, NEW n \in Nat, n < Len(s), NEW u, Lists(u, s, T, n)
  PROVE  \E v : Lists(v, s, T, n + 1)
<1>1. n + 1 \in 1 .. Len(s) /\ n + 1 \in 1 .. n + 1 /\ s[n + 1] \in Raws
  <2>1. Len(s) \in Nat /\ DOMAIN s = 1 .. Len(s) /\ \A i \in DOMAIN s : s[i] \in Raws
    BY InputFacts
  <2> QED
    BY <2>1
<1>2. \A p \in 1 .. n + 1 : p \in 1 .. n \/ p = n + 1
  OBVIOUS
<1>3. 1 .. n \subseteq 1 .. n + 1
  OBVIOUS
<1>4. u \in Seq(Raws) /\ Len(u) \in Nat /\ Len(u) <= n
  BY DEF Lists
<1>5. CASE s[n + 1] \notin T
  <2>1. Lists(u, s, T, n + 1)
    BY <1>2, <1>3, <1>4, <1>5 DEF Lists
  <2> QED
    BY <2>1
<1>6. CASE s[n + 1] \in T
  <2> DEFINE m == Len(u)
             v == Append(u, s[n + 1])
  <2>1. /\ v \in Seq(Raws) /\ Len(v) = m + 1 /\ v[m + 1] = s[n + 1]
        /\ \A i \in 1 .. m : v[i] = u[i]
    BY <1>1, <1>4
  <2>2. \A i \in 1 .. m + 1 : i \in 1 .. m \/ i = m + 1
    BY <1>4
  <2>3. 1 .. m \subseteq 1 .. m + 1 /\ m + 1 \in 1 .. m + 1 /\ m <= n
    BY <1>4
  <2>4. /\ \A i \in 1 .. m : \E p \in 1 .. n : s[p] = u[i] /\ u[i] \in T
        /\ \A p \in 1 .. n : s[p] \in T => \E i \in 1 .. m : u[i] = s[p]
        /\ \A i, j \in 1 .. m : i < j => \E p, q \in 1 .. n : p < q /\ s[p] = u[i] /\ s[q] = u[j]
    BY DEF Lists
  <2> HIDE DEF v, m
  <2>5. \A i \in 1 .. m + 1 : \E p \in 1 .. n + 1 : s[p] = v[i] /\ v[i] \in T
    <3> SUFFICES ASSUME NEW i \in 1 .. m + 1
                 PROVE  \E p \in 1 .. n + 1 : s[p] = v[i] /\ v[i] \in T
      OBVIOUS
    <3>1. CASE i = m + 1
      BY <1>1, <1>6, <2>1, <3>1
    <3>2. CASE i \in 1 .. m
      <4>1. PICK p \in 1 .. n : s[p] = u[i] /\ u[i] \in T
        BY <2>4, <3>2
      <4> QED
        BY <1>3, <2>1, <3>2, <4>1
    <3> QED
      BY <2>2, <3>1, <3>2
  <2>6. \A p \in 1 .. n + 1 : s[p] \in T => \E i \in 1 .. m + 1 : v[i] = s[p]
    <3> SUFFICES ASSUME NEW p \in 1 .. n + 1, s[p] \in T
                 PROVE  \E i \in 1 .. m + 1 : v[i] = s[p]
      OBVIOUS
    <3>1. CASE p = n + 1
      BY <2>1, <2>3, <3>1
    <3>2. CASE p \in 1 .. n
      <4>1. PICK i \in 1 .. m : u[i] = s[p]
        BY <2>4, <3>2
      <4> QED
        BY <2>1, <2>3, <4>1
    <3> QED
      BY <1>2, <3>1, <3>2
  <2>7. ASSUME NEW i \in 1 .. m + 1, NEW j \in 1 .. m + 1, i < j
        PROVE  \E p, q \in 1 .. n + 1 : p < q /\ s[p] = v[i] /\ s[q] = v[j]
    <3>1. i \in 1 .. m
      BY <1>4, <2>7 DEF m
    <3>2. CASE j \in 1 .. m
      BY <1>3, <2>1, <2>4, <2>7, <3>1, <3>2
    <3>3. CASE j = m + 1
      <4>1. PICK p \in 1 .. n : s[p] = v[i]
        BY <2>1, <2>4, <3>1
      <4>2. p < n + 1 /\ p \in 1 .. n + 1
        OBVIOUS
      <4> QED
        BY <1>1, <2>1, <3>3, <4>1, <4>2
    <3> QED
      BY <2>2, <3>2, <3>3
  <2>8. Len(v) <= n + 1
    BY <1>4, <2>1, <2>3 DEF m
  <2>9. Lists(v, s, T, n + 1)
    BY <2>1, <2>5, <2>6, <2>7, <2>8 DEF Lists
  <2> QED
    BY <2>9
<1> QED
  BY <1>5, <1>6

\* There always is a selection: no step waits for one.
LEMMA SelectionExists ==
  ASSUME NEW s \in Inputs, NEW T
  PROVE  Selections(s, T) # {}
<1> DEFINE N == Len(s)
           Reached == {n \in 1 .. N + 1 : \E u : Lists(u, s, T, n - 1)}
<1>1. N \in Nat /\ N <= MaxInput /\ DOMAIN s = 1 .. N /\ \A i, j \in 1 .. N : s[i] = s[j] => i = j
  BY InputFacts
<1>2. 1 \in Reached
  <2>1. Lists(<<>>, s, T, 0)
    BY DEF Lists
  <2> QED
    BY <1>1, <2>1
<1> HIDE DEF N
<1>3. PICK m \in Reached : \A j \in Reached : j <= m
  <2>1. Reached \subseteq 1 .. N + 1
    OBVIOUS
  <2>2. Reached # {}
    BY <1>2
  <2>3. N + 1 \in Nat
    BY <1>1
  <2> HIDE DEF Reached
  <2> QED
    BY <2>1, <2>2, <2>3, LastPosition
<1>4. m = N + 1
  <2> SUFFICES ASSUME m # N + 1 PROVE FALSE
    OBVIOUS
  <2>1. m - 1 \in Nat /\ m - 1 < N /\ (m - 1) + 1 = m /\ m + 1 \in 1 .. N + 1 /\ (m + 1) - 1 = m
    BY <1>1, <1>3
  <2>2. PICK u : Lists(u, s, T, m - 1)
    BY <1>3
  <2>3. \E v : Lists(v, s, T, (m - 1) + 1)
    BY <2>1, <2>2, OneMoreListed DEF N
  <2>4. m + 1 \in Reached
    BY <2>1, <2>3
  <2> QED
    BY <1>3, <2>1, <2>4
<1>5. PICK u : Lists(u, s, T, N)
  <2>1. (N + 1) - 1 = N
    BY <1>1
  <2> QED
    BY <1>3, <1>4, <2>1
<1>6. /\ u \in Seq(Raws) /\ Len(u) \in Nat /\ Len(u) <= MaxInput /\ DOMAIN u = 1 .. Len(u)
      /\ u \in [1 .. Len(u) -> Raws]
  BY <1>1, <1>5, MaxInputAssumption DEF Lists
<1>7. ASSUME NEW i \in DOMAIN u, NEW j \in DOMAIN u, u[i] = u[j] PROVE i = j
  <2>1. \A a, b \in DOMAIN u : a < b => u[a] # u[b]
    BY <1>1, <1>5, <1>6 DEF Lists
  <2>2. i \in Int /\ j \in Int /\ ~ (i < j) /\ ~ (j < i)
    BY <1>6, <1>7, <2>1
  <2> QED
    BY <2>2
<1>8. u \in Inputs
  <2>1. Len(u) \in 0 .. MaxInput
    BY <1>6, MaxInputAssumption
  <2> QED
    BY <1>6, <1>7, <2>1 DEF Inputs
<1>9. Elements(u) = Elements(s) \cap T
  <2>1. ASSUME NEW x \in Elements(u) PROVE x \in Elements(s) \cap T
    <3>1. PICK i \in 1 .. Len(u) : u[i] = x
      BY <1>6, <2>1 DEF Elements
    <3>2. PICK p \in 1 .. N : s[p] = u[i] /\ u[i] \in T
      BY <1>5 DEF Lists
    <3> QED
      BY <1>1, <3>1, <3>2 DEF Elements
  <2>2. ASSUME NEW x \in Elements(s) \cap T PROVE x \in Elements(u)
    <3>1. PICK p \in 1 .. N : s[p] = x
      BY <1>1, <2>2 DEF Elements
    <3>2. PICK i \in 1 .. Len(u) : u[i] = s[p]
      BY <1>5, <2>2, <3>1 DEF Lists
    <3> QED
      BY <1>6, <3>1, <3>2 DEF Elements
  <2> QED
    BY <2>1, <2>2
<1>10. \A i, j \in DOMAIN u : i < j => \E p, q \in DOMAIN s : p < q /\ s[p] = u[i] /\ s[q] = u[j]
  <2>1. \A i, j \in 1 .. Len(u) : i < j => \E p, q \in 1 .. N : p < q /\ s[p] = u[i] /\ s[q] = u[j]
    BY <1>5 DEF Lists
  <2>2. DOMAIN u = 1 .. Len(u) /\ DOMAIN s = 1 .. N
    BY <1>1, <1>6
  <2> HIDE DEF N
  <2>3. ASSUME NEW i \in DOMAIN u, NEW j \in DOMAIN u, i < j
        PROVE  \E p, q \in DOMAIN s : p < q /\ s[p] = u[i] /\ s[q] = u[j]
    <3>1. i \in 1 .. Len(u) /\ j \in 1 .. Len(u)
      BY <2>2, <2>3
    <3>2. PICK p \in 1 .. N, q \in 1 .. N : p < q /\ s[p] = u[i] /\ s[q] = u[j]
      BY <2>1, <2>3, <3>1
    <3>3. p \in DOMAIN s /\ q \in DOMAIN s
      BY <2>2
    <3> QED
      BY <3>2, <3>3
  <2> QED
    BY <2>3
<1> QED
  BY <1>8, <1>9, <1>10 DEF Selections

-----------------------------------------------------------------------------
(* Values.                                                                 *)

\* A value made for the key x: only steps have an "unknown", and a material
\* is blank only as its own name.
Own(k, x) ==
    {v \in Values : /\ v.of = x
                    /\ k # "step" => v.text # "unknown"
                    /\ k = "material" => v.text # "blank"}

LEMMA NoValue ==
  /\ Absent \notin Values /\ Dropped \notin Values
  /\ \A k, x : Absent \notin Own(k, x) /\ Own(k, x) \subseteq Values
<1>1. Absent.text = "absent" /\ Dropped.text = "dropped"
  BY DEF Absent, Dropped
<1>2. \A v \in Values : v.text \in Texts
  BY DEF Values
<1>3. "absent" \notin Texts /\ "dropped" \notin Texts
  BY DEF Texts
<1> QED
  BY <1>1, <1>2, <1>3 DEF Own

\* What stands for no value is not a blank one.
LEMMA NothingToSee ==
  /\ ~IsBlank(Absent) /\ Absent.text \notin {"blank", "unknown"}
  /\ ~IsBlank(Dropped) /\ Dropped.text \notin {"blank", "unknown"}
  BY DEF IsBlank, Absent, Dropped

LEMMA ValueIsOwn ==
  ASSUME NEW r \in Raws, NEW text \in Texts, NEW k,
         k # "step" => text # "unknown", k = "material" => text # "blank"
  PROVE  Value(text, r) \in Own(k, Clean[r])
<1>1. Clean[r] \in Keys
  BY CleanAssumption
<1> QED
  BY <1>1 DEF Value, Own, Values

-----------------------------------------------------------------------------
(* The inductive invariant.                                                *)

ValueInv ==
    /\ \A k \in Columns, x \in Keys : cache[k][x] \in Own(k, x) \cup {Absent}
    /\ \A b \in Batches, k \in Columns, r \in Raws :
          lookup[b][k][r] \in Own(k, Clean[r]) \cup {Absent}

OutputInv ==
    \A b \in Batches, k \in Columns, r \in Raws :
       /\ output[b][k][r] \in Own(k, Clean[r]) \cup {Absent, Dropped}
       /\ k = "step" => ~IsBlank(output[b][k][r]) /\ output[b][k][r].text # "unknown"

\* The raws a column had to resolve when its batch collected them.
Unknown(b, k) == {r \in Elements(input[b][k]) : ~IsStatic(r) /\ hit[b][k][r] = Absent}

Resolved(b, k, r) == lookup[b][k][r] # Absent

TaskInv(b, k) ==
    /\ input[b][k] \in Inputs /\ unknowns[b][k] \in Inputs
    /\ Elements(unknowns[b][k]) \subseteq Unknown(b, k)
    /\ task[b][k] = "filter" => Unknown(b, k) \subseteq Elements(unknowns[b][k])
    /\ task[b][k] = "bulk" =>
          /\ unknowns[b][k] # <<>>
          /\ \A r \in Unknown(b, k) : Resolved(b, k, r) \/ r \in Elements(unknowns[b][k])
    /\ task[b][k] \in {"item", "call"} =>
          /\ item[b][k] \in DOMAIN unknowns[b][k]
          /\ \A r \in Unknown(b, k) :
                \/ Resolved(b, k, r)
                \/ \E i \in DOMAIN unknowns[b][k] : item[b][k] <= i /\ unknowns[b][k][i] = r
    /\ task[b][k] = "done" => \A r \in Unknown(b, k) : Resolved(b, k, r)
    /\ task[b][k] \in {"none", "filter", "bulk"} => item[b][k] = 0
    /\ stage[b] = "idle" => task[b][k] = "none" /\ unknowns[b][k] = <<>>

\* The columns that made a bulk call, and the items a column asked for.
AskedColumns(b) ==
    {k \in Columns : task[b][k] \notin {"none", "filter"} /\ unknowns[b][k] # <<>>}

AskedRaws(b, k) ==
    {r \in Raws : \E i \in DOMAIN unknowns[b][k] :
        /\ unknowns[b][k][i] = r
        /\ i < item[b][k] \/ (i = item[b][k] /\ task[b][k] = "call")}

AskedItems(b) == {x \in Columns \X Raws : x[2] \in AskedRaws(b, x[1])}

CountInv(b) == calls[b] <= Cardinality(AskedColumns(b)) + Cardinality(AskedItems(b))

IndInv ==
    /\ TypeOK
    /\ ValueInv
    /\ OutputInv
    /\ \A b \in Batches, k \in Columns : TaskInv(b, k)
    /\ \A b \in Batches : CountInv(b)

-----------------------------------------------------------------------------
(* The steps of one task leave the others alone.                           *)

Frame(b, k) ==
    \A c \in Batches, l \in Columns : (c # b \/ l # k) =>
       /\ task'[c][l] = task[c][l] /\ unknowns'[c][l] = unknowns[c][l]
       /\ item'[c][l] = item[c][l] /\ lookup'[c][l] = lookup[c][l]

LEMMA OthersKeepTaskInv ==
  ASSUME IndInv, NEW b \in Batches, NEW k \in Columns, Frame(b, k),
         UNCHANGED <<stage, input, hit>>, TaskInv(b, k)'
  PROVE  \A c \in Batches, l \in Columns : TaskInv(c, l)'
<1> SUFFICES ASSUME NEW c \in Batches, NEW l \in Columns, c # b \/ l # k
             PROVE  TaskInv(c, l)'
  OBVIOUS
<1>1. /\ task'[c][l] = task[c][l] /\ unknowns'[c][l] = unknowns[c][l]
      /\ item'[c][l] = item[c][l] /\ lookup'[c][l] = lookup[c][l]
      /\ stage' = stage /\ input' = input /\ hit' = hit
  BY DEF Frame
<1>2. TaskInv(c, l)
  BY DEF IndInv
<1>3. Unknown(c, l)' = Unknown(c, l)
  BY <1>1 DEF Unknown
<1> QED
  BY <1>1, <1>2, <1>3 DEF TaskInv, Resolved

-----------------------------------------------------------------------------
(* Counting.                                                               *)

LEMMA FiniteColumns == IsFiniteSet(Columns)
<1>1. IsFiniteSet({}) /\ IsFiniteSet({} \cup {"material"})
  BY FS_EmptySet, FS_AddElement
<1>2. IsFiniteSet(({} \cup {"material"}) \cup {"step"})
  BY <1>1, FS_AddElement
<1>3. IsFiniteSet((({} \cup {"material"}) \cup {"step"}) \cup {"category"})
  BY <1>2, FS_AddElement
<1>4. Columns \in SUBSET ((({} \cup {"material"}) \cup {"step"}) \cup {"category"})
  BY ColumnsAssumption
<1> QED
  BY <1>3, <1>4, FS_Subset

\* Whatever the number of raw values, a batch has finitely many.
LEMMA FiniteElements == ASSUME NEW u \in Inputs PROVE IsFiniteSet(Elements(u))
<1>1. Len(u) \in Nat /\ DOMAIN u = 1 .. Len(u)
  BY InputFacts
<1>2. IsFiniteSet(1 .. Len(u))
  BY <1>1, FS_Interval
<1>3. u \in Surjection(1 .. Len(u), Elements(u))
  <2>1. u \in [1 .. Len(u) -> Elements(u)]
    <3>1. u = [i \in 1 .. Len(u) |-> u[i]]
      BY <1>1, InputFacts
    <3>2. \A i \in 1 .. Len(u) : u[i] \in Elements(u)
      BY <1>1 DEF Elements
    <3> QED
      BY <3>1, <3>2
  <2>2. \A e \in Elements(u) : \E i \in 1 .. Len(u) : u[i] = e
    BY <1>1 DEF Elements
  <2> QED
    BY <2>1, <2>2 DEF Surjection
<1> QED
  BY <1>2, <1>3, FS_Surjection

LEMMA FiniteItems ==
  ASSUME NEW f, \A k \in Columns : f[k] \in Inputs,
         NEW D \in SUBSET (Columns \X Raws), \A x \in D : x[2] \in Elements(f[x[1]])
  PROVE  IsFiniteSet(D)
<1> DEFINE Sets == {Elements(f[k]) : k \in Columns}
           h == [k \in Columns |-> Elements(f[k])]
<1>1. h \in Surjection(Columns, Sets)
  BY DEF Surjection
<1>2. IsFiniteSet(Sets)
  BY <1>1, FiniteColumns, FS_Surjection
<1>3. \A T \in Sets : IsFiniteSet(T)
  BY FiniteElements
<1> HIDE DEF Sets
<1>4. IsFiniteSet(UNION Sets)
  BY <1>2, <1>3, FS_UNION
<1>5. IsFiniteSet(Columns \X UNION Sets)
  BY <1>4, FiniteColumns, FS_Product
<1>6. D \in SUBSET (Columns \X UNION Sets)
  BY DEF Sets
<1> QED
  BY <1>5, <1>6, FS_Subset

LEMMA FiniteAsked ==
  ASSUME NEW c \in Batches, \A l \in Columns : unknowns[c][l] \in Inputs
  PROVE  /\ IsFiniteSet(AskedColumns(c)) /\ IsFiniteSet(AskedItems(c))
         /\ Cardinality(AskedColumns(c)) \in Nat /\ Cardinality(AskedItems(c)) \in Nat
<1>1. AskedColumns(c) \in SUBSET Columns
  BY DEF AskedColumns
<1>2. IsFiniteSet(AskedColumns(c))
  BY <1>1, FiniteColumns, FS_Subset
<1>3. \A x \in AskedItems(c) : x[2] \in Elements(unknowns[c][x[1]])
  BY DEF AskedItems, AskedRaws, Elements
<1>4. AskedItems(c) \in SUBSET (Columns \X Raws)
  BY DEF AskedItems
<1>5. IsFiniteSet(AskedItems(c))
  BY <1>3, <1>4, FiniteItems
<1> QED
  BY <1>2, <1>5, FS_CardinalityType

\* The same of the state after a step.
LEMMA FiniteAskedNext ==
  ASSUME NEW c \in Batches, \A l \in Columns : unknowns'[c][l] \in Inputs
  PROVE  /\ IsFiniteSet(AskedColumns(c)') /\ IsFiniteSet(AskedItems(c)')
         /\ Cardinality(AskedColumns(c)') \in Nat /\ Cardinality(AskedItems(c)') \in Nat
<1>1. AskedColumns(c)' \in SUBSET Columns
  BY DEF AskedColumns
<1>2. IsFiniteSet(AskedColumns(c)')
  BY <1>1, FiniteColumns, FS_Subset
<1>3. \A x \in AskedItems(c)' : x[2] \in Elements(unknowns'[c][x[1]])
  BY DEF AskedItems, AskedRaws, Elements
<1>4. AskedItems(c)' \in SUBSET (Columns \X Raws)
  BY DEF AskedItems
<1>5. IsFiniteSet(AskedItems(c)')
  BY <1>3, <1>4, FiniteItems
<1> QED
  BY <1>2, <1>5, FS_CardinalityType

\* A step that calls nobody and forgets nothing that was asked.
LEMMA CountKept ==
  ASSUME IndInv, \A c \in Batches, l \in Columns : TaskInv(c, l)',
         calls' = calls, NEW c \in Batches,
         \A l \in Columns : l \in AskedColumns(c) => l \in AskedColumns(c)',
         \A l \in Columns : AskedRaws(c, l) \subseteq AskedRaws(c, l)'
  PROVE  CountInv(c)'
<1>1. /\ \A l \in Columns : unknowns[c][l] \in Inputs
      /\ \A l \in Columns : unknowns'[c][l] \in Inputs
  BY DEF IndInv, TaskInv
<1>2. AskedColumns(c) \in SUBSET (AskedColumns(c)')
  BY DEF AskedColumns
<1>3. AskedItems(c) \in SUBSET (AskedItems(c)')
  BY DEF AskedItems
<1>4. Cardinality(AskedColumns(c)) <= Cardinality(AskedColumns(c)')
  BY <1>1, <1>2, FiniteAskedNext, FS_Subset
<1>5. Cardinality(AskedItems(c)) <= Cardinality(AskedItems(c)')
  BY <1>1, <1>3, FiniteAskedNext, FS_Subset
<1>6. CountInv(c) /\ calls[c] \in Nat
  BY DEF IndInv, TypeOK
<1>7. CountInv(c)' <=> calls[c] <= Cardinality(AskedColumns(c)') + Cardinality(AskedItems(c)')
  BY DEF CountInv
<1>8. /\ Cardinality(AskedColumns(c)) \in Nat /\ Cardinality(AskedItems(c)) \in Nat
      /\ Cardinality(AskedColumns(c)') \in Nat /\ Cardinality(AskedItems(c)') \in Nat
  BY <1>1, FiniteAsked, FiniteAskedNext
<1> QED
  BY <1>4, <1>5, <1>6, <1>7, <1>8 DEF CountInv

\* A bulk call is paid for by the column that asks for the first time.
LEMMA CountColumn ==
  ASSUME IndInv, NEW c \in Batches, NEW k \in Columns,
         calls'[c] = calls[c] + 1,
         k \notin AskedColumns(c), AskedColumns(c)' = AskedColumns(c) \cup {k},
         \A l \in Columns : AskedRaws(c, l) = AskedRaws(c, l)'
  PROVE  CountInv(c)'
<1>1. \A l \in Columns : unknowns[c][l] \in Inputs
  BY DEF IndInv, TaskInv
<1>2. AskedItems(c) = AskedItems(c)'
  BY DEF AskedItems
<1>3. Cardinality(AskedColumns(c)') = Cardinality(AskedColumns(c)) + 1
  BY <1>1, FiniteAsked, FS_AddElement
<1>4. CountInv(c) /\ calls[c] \in Nat
  BY DEF IndInv, TypeOK
<1>5. CountInv(c)' <=> calls[c] + 1 <= Cardinality(AskedColumns(c)') + Cardinality(AskedItems(c)')
  BY DEF CountInv
<1>6. Cardinality(AskedColumns(c)) \in Nat /\ Cardinality(AskedItems(c)) \in Nat
  BY <1>1, FiniteAsked
<1> QED
  BY <1>2, <1>3, <1>4, <1>5, <1>6 DEF CountInv

\* The call for an item is paid for by that item.
LEMMA CountItem ==
  ASSUME IndInv, NEW c \in Batches, NEW k \in Columns, NEW r \in Raws,
         calls'[c] = calls[c] + 1,
         AskedColumns(c)' = AskedColumns(c),
         r \notin AskedRaws(c, k), AskedRaws(c, k)' = AskedRaws(c, k) \cup {r},
         \A l \in Columns \ {k} : AskedRaws(c, l)' = AskedRaws(c, l)
  PROVE  CountInv(c)'
<1>1. \A l \in Columns : unknowns[c][l] \in Inputs
  BY DEF IndInv, TaskInv
<1>2. <<k, r>> \notin AskedItems(c) /\ AskedItems(c)' = AskedItems(c) \cup {<<k, r>>}
  BY DEF AskedItems
<1>3. Cardinality(AskedItems(c)') = Cardinality(AskedItems(c)) + 1
  BY <1>1, <1>2, FiniteAsked, FS_AddElement
<1>4. CountInv(c) /\ calls[c] \in Nat
  BY DEF IndInv, TypeOK
<1>5. CountInv(c)' <=> calls[c] + 1 <= Cardinality(AskedColumns(c)') + Cardinality(AskedItems(c)')
  BY DEF CountInv
<1>6. Cardinality(AskedColumns(c)) \in Nat /\ Cardinality(AskedItems(c)) \in Nat
  BY <1>1, FiniteAsked
<1> QED
  BY <1>3, <1>4, <1>5, <1>6 DEF CountInv

-----------------------------------------------------------------------------
(* Initial states and the steps of a batch.                                *)

LEMMA Initially == ASSUME Init PROVE IndInv
<1>1. Nothing \in [Raws -> {Absent}]
  BY DEF Nothing
<1>2. <<>> \in Seq(Raws) /\ 0 \in 0 .. MaxInput + 1
  BY MaxInputAssumption
<1>3. TypeOK
  BY <1>1, <1>2 DEF Init, TypeOK
<1>4. \A b \in Batches, k \in Columns :
         /\ stage[b] = "idle" /\ task[b][k] = "none" /\ item[b][k] = 0
         /\ input[b][k] = <<>> /\ unknowns[b][k] = <<>>
         /\ \A r \in Raws : lookup[b][k][r] = Absent /\ output[b][k][r] = Absent
  BY <1>1 DEF Init
<1>5. ValueInv
  <2>1. \A k \in Columns, x \in Keys : cache[k][x] = Absent
    BY DEF Init
  <2> QED
    BY <1>4, <2>1 DEF ValueInv
<1>6. OutputInv
  BY <1>4, NothingToSee DEF OutputInv
<1>7. ASSUME NEW b \in Batches, NEW k \in Columns PROVE TaskInv(b, k)
  <2>1. Elements(unknowns[b][k]) = {} /\ Unknown(b, k) = {}
    BY <1>4, EmptyInput DEF Unknown
  <2> QED
    BY <1>4, <2>1, EmptyInput DEF TaskInv
<1>8. ASSUME NEW b \in Batches PROVE CountInv(b)
  <2>1. \A k \in Columns : unknowns[b][k] \in Inputs
    BY <1>4, EmptyInput
  <2>2. calls[b] = 0
    BY DEF Init
  <2> QED
    BY <2>1, <2>2, FiniteAsked DEF CountInv
<1> QED
  BY <1>3, <1>5, <1>6, <1>7, <1>8 DEF IndInv

LEMMA CollectStep ==
  ASSUME IndInv, NEW b \in Batches, Collect(b)
  PROVE  IndInv'
<1>1. PICK in, asked \in [Columns -> Inputs] :
         /\ \A k \in Columns : asked[k] \in Unresolved(k, in[k])
         /\ input' = [input EXCEPT ![b] = in]
         /\ unknowns' = [unknowns EXCEPT ![b] = asked]
         /\ hit' = [hit EXCEPT ![b] = [k \in Columns |-> [r \in Raws |->
               IF r \in Elements(in[k]) /\ ~IsStatic(r) THEN cache[k][Clean[r]] ELSE Absent]]]
  BY DEF Collect
<1>2. TypeOK
  BY DEF IndInv
<1>3. in \in [Columns -> Seq(Raws)] /\ asked \in [Columns -> Seq(Raws)]
  BY InputFacts
<1>4. TypeOK'
  <2>1. \A k \in Columns, r \in Raws : cache[k][Clean[r]] \in Values \cup {Absent}
    BY <1>2, CleanAssumption DEF TypeOK
  <2>2. hit' \in [Batches -> [Columns -> [Raws -> Values \cup {Absent}]]]
    BY <1>1, <1>2, <2>1 DEF TypeOK
  <2>3. /\ input' \in [Batches -> [Columns -> Seq(Raws)]]
        /\ unknowns' \in [Batches -> [Columns -> Seq(Raws)]]
    BY <1>1, <1>2, <1>3 DEF TypeOK
  <2>4. /\ stage' \in [Batches -> {"idle", "gather", "done"}]
        /\ task' \in [Batches -> [Columns -> {"none", "filter", "bulk", "item", "call", "done"}]]
    BY <1>2 DEF TypeOK, Collect
  <2> QED
    BY <1>2, <2>2, <2>3, <2>4 DEF TypeOK, Collect
<1>5. ValueInv' /\ OutputInv'
  BY DEF IndInv, ValueInv, OutputInv, Collect
<1>6. \A c \in Batches \ {b}, l \in Columns :
         /\ stage'[c] = stage[c] /\ task'[c][l] = task[c][l] /\ item'[c][l] = item[c][l]
         /\ input'[c][l] = input[c][l] /\ unknowns'[c][l] = unknowns[c][l]
         /\ lookup'[c][l] = lookup[c][l] /\ hit'[c][l] = hit[c][l]
  BY <1>1, <1>2 DEF Collect, TypeOK
<1>7. /\ stage[b] = "idle" /\ stage'[b] = "gather"
      /\ \A k \in Columns :
            /\ task'[b][k] = "filter" /\ item'[b][k] = item[b][k]
            /\ input'[b][k] = in[k] /\ unknowns'[b][k] = asked[k]
            /\ \A r \in Raws : hit'[b][k][r] =
                  IF r \in Elements(in[k]) /\ ~IsStatic(r) THEN cache[k][Clean[r]] ELSE Absent
  BY <1>1, <1>2 DEF Collect, TypeOK
<1>8. \A k \in Columns : task[b][k] = "none" /\ unknowns[b][k] = <<>> /\ item[b][k] = 0
  BY <1>7 DEF IndInv, TaskInv
<1>9. ASSUME NEW c \in Batches, NEW l \in Columns PROVE TaskInv(c, l)'
  <2>1. CASE c # b
    <3>1. Unknown(c, l)' = Unknown(c, l)
      BY <1>6, <2>1 DEF Unknown
    <3>2. TaskInv(c, l)
      BY DEF IndInv
    <3> QED
      BY <1>6, <2>1, <3>1, <3>2 DEF TaskInv, Resolved
  <2>2. CASE c = b
    <3>1. /\ in[l] \in Inputs /\ asked[l] \in Inputs
          /\ Elements(asked[l]) =
                Elements(in[l]) \cap {r \in Raws : ~IsStatic(r) /\ cache[l][Clean[r]] = Absent}
      BY <1>1, SelectionFacts DEF Unresolved
    <3>2. Elements(in[l]) \subseteq Raws
      BY <3>1, InputFacts
    <3>3. Unknown(b, l)' = Elements(asked[l])
      BY <1>7, <3>1, <3>2 DEF Unknown
    <3> QED
      BY <1>7, <1>8, <2>2, <3>1, <3>3 DEF TaskInv
  <2> QED
    BY <2>1, <2>2
<1>10. ASSUME NEW c \in Batches PROVE CountInv(c)'
  <2>1. \A l \in Columns : l \in AskedColumns(c) => l \in AskedColumns(c)'
    BY <1>6, <1>8 DEF AskedColumns
  <2>2. \A l \in Columns : AskedRaws(c, l) \subseteq AskedRaws(c, l)'
    <3>1. CASE c # b
      BY <1>6, <3>1 DEF AskedRaws
    <3>2. CASE c = b
      <4>1. \A l \in Columns : DOMAIN unknowns[b][l] = {}
        BY <1>8
      <4> QED
        BY <3>2, <4>1 DEF AskedRaws
    <3> QED
      BY <3>1, <3>2
  <2>3. calls' = calls
    BY DEF Collect
  <2> QED
    BY <1>9, <2>1, <2>2, <2>3, CountKept
<1> QED
  BY <1>4, <1>5, <1>9, <1>10 DEF IndInv

\* A resolved raw is replaced by a value of its own.
LEMMA PatchedIsOwn ==
  ASSUME IndInv, NEW b \in Batches, NEW k \in Columns, NEW r \in Raws
  PROVE  /\ Patched(b, k, r) \in Own(k, Clean[r]) \cup {Dropped}
         /\ k = "step" => ~IsBlank(Patched(b, k, r)) /\ Patched(b, k, r).text # "unknown"
<1> DEFINE v == IF IsStatic(r) THEN Value("canon", r)
                ELSE IF lookup[b][k][r] # Absent THEN lookup[b][k][r] ELSE Value("fallback", r)
<1>1. v \in Own(k, Clean[r])
  <2>1. Value("canon", r) \in Own(k, Clean[r]) /\ Value("fallback", r) \in Own(k, Clean[r])
    BY ValueIsOwn DEF Texts
  <2>2. lookup[b][k][r] \in Own(k, Clean[r]) \cup {Absent}
    BY DEF IndInv, ValueInv
  <2> QED
    BY <2>1, <2>2
<1> DEFINE Drops == k = "step" /\ (IsBlank(v) \/ v.text = "unknown")
<1>2. Patched(b, k, r) = IF Drops THEN Dropped ELSE v
  BY DEF Patched
<1>3. CASE Drops
  BY <1>2, <1>3, NothingToSee
<1>4. CASE ~Drops
  <2> HIDE DEF v
  <2> QED
    BY <1>1, <1>2, <1>4
<1> QED
  BY <1>3, <1>4

LEMMA PatchStep ==
  ASSUME IndInv, NEW b \in Batches, Patch(b)
  PROVE  IndInv'
<1>1. /\ stage[b] = "gather" /\ stage' = [stage EXCEPT ![b] = "done"]
      /\ UNCHANGED <<cache, task, input, unknowns, item, lookup, calls, hit>>
  BY DEF Patch
<1>2. TypeOK
  BY DEF IndInv
<1> DEFINE new == [k \in Columns |-> [r \in Raws |->
                     IF r \in Elements(input[b][k]) THEN Patched(b, k, r) ELSE Absent]]
<1>3. output' = [output EXCEPT ![b] = new]
  BY DEF Patch
<1>4. \A k \in Columns, r \in Raws :
         /\ new[k][r] \in Own(k, Clean[r]) \cup {Absent, Dropped}
         /\ k = "step" => ~IsBlank(new[k][r]) /\ new[k][r].text # "unknown"
  BY PatchedIsOwn, NothingToSee
<1>5. new \in [Columns -> [Raws -> Values \cup {Absent, Dropped}]]
  BY <1>4, NoValue
<1> HIDE DEF new
<1>6. TypeOK'
  BY <1>1, <1>2, <1>3, <1>5 DEF TypeOK
<1>7. ValueInv'
  BY <1>1 DEF IndInv, ValueInv
<1>8. OutputInv'
  <2> SUFFICES ASSUME NEW c \in Batches, NEW k \in Columns, NEW r \in Raws
               PROVE  /\ output'[c][k][r] \in Own(k, Clean[r]) \cup {Absent, Dropped}
                      /\ k = "step" =>
                            ~IsBlank(output'[c][k][r]) /\ output'[c][k][r].text # "unknown"
    BY DEF OutputInv
  <2>1. CASE c = b
    <3>1. output'[c][k][r] = new[k][r]
      BY <1>2, <1>3, <2>1 DEF TypeOK
    <3> QED
      BY <1>4, <3>1
  <2>2. CASE c # b
    <3>1. output'[c][k][r] = output[c][k][r]
      BY <1>2, <1>3, <2>2 DEF TypeOK
    <3> QED
      BY <3>1 DEF IndInv, OutputInv
  <2> QED
    BY <2>1, <2>2
<1>9. ASSUME NEW c \in Batches, NEW l \in Columns PROVE TaskInv(c, l)'
  <2>1. Unknown(c, l)' = Unknown(c, l)
    BY <1>1 DEF Unknown
  <2>2. stage'[c] = "idle" => stage[c] = "idle"
    BY <1>1, <1>2 DEF TypeOK
  <2>3. TaskInv(c, l)
    BY DEF IndInv
  <2> QED
    BY <1>1, <2>1, <2>2, <2>3 DEF TaskInv, Resolved
<1>10. ASSUME NEW c \in Batches PROVE CountInv(c)'
  <2>1. AskedColumns(c)' = AskedColumns(c) /\ AskedItems(c)' = AskedItems(c)
    BY <1>1 DEF AskedColumns, AskedItems, AskedRaws
  <2> QED
    BY <1>1, <2>1 DEF IndInv, CountInv
<1> QED
  BY <1>6, <1>7, <1>8, <1>9, <1>10 DEF IndInv

LEMMA ExpireStep ==
  ASSUME IndInv, NEW k \in Columns, NEW x \in Keys, Expire(k, x)
  PROVE  IndInv'
<1>1. /\ cache' = [cache EXCEPT ![k][x] = Absent]
      /\ UNCHANGED <<stage, task, input, unknowns, item, lookup, output, calls, hit>>
  BY DEF Expire
<1>2. TypeOK
  BY DEF IndInv
<1>3. TypeOK'
  BY <1>1, <1>2 DEF TypeOK
<1>4. ValueInv'
  <2>1. \A l \in Columns, y \in Keys : cache'[l][y] \in {cache[l][y], Absent}
    BY <1>1, <1>2 DEF TypeOK
  <2> QED
    BY <1>1, <2>1 DEF IndInv, ValueInv
<1>5. OutputInv' /\ \A c \in Batches : CountInv(c)'
  <2>1. OutputInv'
    BY <1>1 DEF IndInv, OutputInv
  <2>2. ASSUME NEW c \in Batches PROVE CountInv(c)'
    <3>1. AskedColumns(c)' = AskedColumns(c)
      BY <1>1 DEF AskedColumns
    <3>2. AskedItems(c)' = AskedItems(c)
      BY <1>1 DEF AskedItems, AskedRaws
    <3>3. CountInv(c) /\ calls' = calls
      BY <1>1 DEF IndInv
    <3> QED
      BY <3>1, <3>2, <3>3 DEF CountInv
  <2> QED
    BY <2>1, <2>2
<1>6. \A c \in Batches, l \in Columns : TaskInv(c, l)'
  BY <1>1 DEF IndInv, TaskInv, Unknown, Resolved
<1> QED
  BY <1>3, <1>4, <1>5, <1>6 DEF IndInv

-----------------------------------------------------------------------------
(* The steps of a task.                                                    *)

LEMMA FilterStep ==
  ASSUME IndInv, NEW b \in Batches, NEW k \in Columns, Filter(b, k)
  PROVE  IndInv'
<1> DEFINE old == unknowns[b][k]
           found == [r \in Raws |-> IF r \in Elements(old) THEN cache[k][Clean[r]] ELSE Absent]
<1>1. PICK asked \in Unresolved(k, old) :
         /\ lookup' = [lookup EXCEPT ![b][k] = found]
         /\ unknowns' = [unknowns EXCEPT ![b][k] = asked]
         /\ task' = [task EXCEPT ![b][k] = IF asked = <<>> THEN "done" ELSE "bulk"]
         /\ calls' = [calls EXCEPT ![b] = IF asked = <<>> THEN @ ELSE @ + 1]
  BY DEF Filter
<1>2. TypeOK /\ ValueInv /\ TaskInv(b, k)
  BY DEF IndInv
<1>3. task[b][k] = "filter" /\ UNCHANGED <<cache, stage, input, item, output, hit>>
  BY DEF Filter
<1>4. /\ asked \in Inputs
      /\ Elements(asked) = Elements(old) \cap {r \in Raws : ~IsStatic(r) /\ cache[k][Clean[r]] = Absent}
  BY SelectionFacts DEF Unresolved
<1>5. asked \in Seq(Raws) /\ (asked = <<>> <=> Elements(asked) = {})
  BY <1>4, InputFacts
<1>6. \A r \in Raws : found[r] \in Own(k, Clean[r]) \cup {Absent}
  BY <1>2, CleanAssumption DEF ValueInv
<1>7. found \in [Raws -> Values \cup {Absent}]
  BY <1>6, NoValue
<1>8. \A r \in Elements(old) \cap Raws : found[r] = cache[k][Clean[r]]
  OBVIOUS
<1> HIDE DEF found, old
<1>9. TypeOK'
  BY <1>1, <1>2, <1>3, <1>5, <1>7 DEF TypeOK
<1>10. /\ lookup'[b][k] = found /\ unknowns'[b][k] = asked
       /\ task'[b][k] = IF asked = <<>> THEN "done" ELSE "bulk"
       /\ calls'[b] = IF asked = <<>> THEN calls[b] ELSE calls[b] + 1
       /\ \A c \in Batches \ {b} : calls'[c] = calls[c]
  BY <1>1, <1>2 DEF TypeOK
<1>11. Frame(b, k)
  BY <1>1, <1>2, <1>3 DEF TypeOK, Frame
<1>12. ValueInv' /\ OutputInv'
  <2>1. ASSUME NEW c \in Batches, NEW l \in Columns, NEW r \in Raws
        PROVE  lookup'[c][l][r] \in Own(l, Clean[r]) \cup {Absent}
    BY <1>2, <1>6, <1>10, <1>11 DEF ValueInv, Frame
  <2> QED
    BY <1>3, <2>1 DEF IndInv, ValueInv, OutputInv
<1>13. TaskInv(b, k)'
  <2>1. Unknown(b, k)' = Unknown(b, k)
    BY <1>3 DEF Unknown
  <2>2. Unknown(b, k) = Elements(old) /\ item[b][k] = 0 /\ input[b][k] \in Inputs
    BY <1>2, <1>3 DEF TaskInv, old
  <2>3. Unknown(b, k) \subseteq Raws /\ \A r \in Unknown(b, k) : ~IsStatic(r)
    BY <2>2, InputFacts DEF Unknown
  <2>4. \A r \in Unknown(b, k) : Resolved(b, k, r)' \/ r \in Elements(asked)
    BY <1>4, <1>8, <1>10, <2>2, <2>3 DEF Resolved
  <2>5. Elements(asked) \subseteq Unknown(b, k)
    BY <1>4, <2>2
  <2>6. stage'[b] # "idle"
    BY <1>2, <1>3 DEF TaskInv
  <2> QED
    BY <1>3, <1>4, <1>5, <1>10, <2>1, <2>2, <2>4, <2>5, <2>6 DEF TaskInv
<1>14. \A c \in Batches, l \in Columns : TaskInv(c, l)'
  BY <1>3, <1>11, <1>13, OthersKeepTaskInv
<1>15. ASSUME NEW c \in Batches PROVE CountInv(c)'
  <2>1. \A l \in Columns : l # k \/ c # b =>
           /\ AskedRaws(c, l)' = AskedRaws(c, l)
           /\ l \in AskedColumns(c)' <=> l \in AskedColumns(c)
    BY <1>11 DEF AskedRaws, AskedColumns, Frame
  <2>2. AskedRaws(b, k)' = AskedRaws(b, k)
    <3>1. item[b][k] = 0 /\ item' = item
      BY <1>2, <1>3 DEF TaskInv
    <3>2. \A i \in DOMAIN asked : ~ (i < 0) /\ i # 0
      BY <1>4, InputFacts
    <3>3. \A i \in DOMAIN old : ~ (i < 0) /\ i # 0
      BY <1>2, InputFacts DEF TaskInv, old
    <3> QED
      BY <1>10, <3>1, <3>2, <3>3 DEF AskedRaws, old
  <2>3. k \notin AskedColumns(b)
    BY <1>3 DEF AskedColumns
  <2>4. CASE asked = <<>>
    <3>1. calls' = calls
      BY <1>1, <1>2, <2>4 DEF TypeOK
    <3> QED
      BY <1>14, <2>1, <2>2, <2>3, <3>1, CountKept
  <2>5. CASE asked # <<>> /\ c = b
    <3>1. k \in AskedColumns(b)'
      BY <1>10, <2>5 DEF AskedColumns
    <3>2. AskedColumns(b)' = AskedColumns(b) \cup {k}
      <4>1. AskedColumns(b) \subseteq Columns /\ AskedColumns(b)' \subseteq Columns
        BY DEF AskedColumns
      <4>2. \A l \in Columns : l \in AskedColumns(b)' <=> l \in AskedColumns(b) \cup {k}
        BY <2>1, <2>5, <3>1
      <4> QED
        BY <4>1, <4>2
    <3>3. calls'[b] = calls[b] + 1
      BY <1>10, <2>5
    <3> QED
      BY <2>1, <2>2, <2>3, <2>5, <3>2, <3>3, CountColumn
  <2>6. CASE c # b
    <3>1. AskedColumns(c)' = AskedColumns(c) /\ AskedItems(c)' = AskedItems(c)
      BY <1>11, <2>6 DEF AskedColumns, AskedItems, AskedRaws, Frame
    <3> QED
      BY <1>10, <2>6, <3>1 DEF IndInv, CountInv
  <2> QED
    BY <2>4, <2>5, <2>6
<1> QED
  BY <1>9, <1>12, <1>14, <1>15 DEF IndInv

LEMMA BulkFailureStep ==
  ASSUME IndInv, NEW b \in Batches, NEW k \in Columns, BulkFailure(b, k)
  PROVE  IndInv'
<1>1. /\ task[b][k] = "bulk" /\ task' = [task EXCEPT ![b][k] = "item"]
      /\ item' = [item EXCEPT ![b][k] = 1]
      /\ UNCHANGED <<cache, stage, input, unknowns, lookup, output, calls, hit>>
  BY DEF BulkFailure
<1>2. TypeOK /\ TaskInv(b, k)
  BY DEF IndInv
<1>3. 1 \in 0 .. MaxInput + 1
  BY MaxInputAssumption
<1>4. TypeOK'
  BY <1>1, <1>2, <1>3 DEF TypeOK
<1>5. task'[b][k] = "item" /\ item'[b][k] = 1 /\ Frame(b, k)
  BY <1>1, <1>2 DEF TypeOK, Frame
<1>6. ValueInv' /\ OutputInv'
  BY <1>1 DEF IndInv, ValueInv, OutputInv
<1>7. TaskInv(b, k)'
  <2>1. Unknown(b, k)' = Unknown(b, k)
    BY <1>1 DEF Unknown
  <2>2. /\ Len(unknowns[b][k]) \in Nat /\ DOMAIN unknowns[b][k] = 1 .. Len(unknowns[b][k])
        /\ Elements(unknowns[b][k]) # {}
    BY <1>1, <1>2, InputFacts DEF TaskInv
  <2>3. 1 \in DOMAIN unknowns[b][k]
    BY <2>2 DEF Elements
  <2>4. \A r \in Elements(unknowns[b][k]) :
           \E i \in DOMAIN unknowns[b][k] : 1 <= i /\ unknowns[b][k][i] = r
    BY <2>2 DEF Elements
  <2> QED
    BY <1>1, <1>2, <1>5, <2>1, <2>3, <2>4 DEF TaskInv, Resolved
<1>8. \A c \in Batches, l \in Columns : TaskInv(c, l)'
  BY <1>1, <1>5, <1>7, OthersKeepTaskInv
<1>9. ASSUME NEW c \in Batches PROVE CountInv(c)'
  <2>1. \A l \in Columns : l \in AskedColumns(c) => l \in AskedColumns(c)'
    BY <1>1, <1>2 DEF AskedColumns, TypeOK
  <2>2. ASSUME NEW l \in Columns PROVE AskedRaws(c, l) \subseteq AskedRaws(c, l)'
    <3>1. CASE c # b \/ l # k
      BY <1>5, <3>1 DEF AskedRaws, Frame
    <3>2. CASE c = b /\ l = k
      <4>1. item[b][k] = 0 /\ \A i \in DOMAIN unknowns[b][k] : ~ (i < 0) /\ i # 0
        BY <1>1, <1>2, InputFacts DEF TaskInv
      <4> QED
        BY <3>2, <4>1 DEF AskedRaws
    <3> QED
      BY <3>1, <3>2
  <2> QED
    BY <1>1, <1>8, <2>1, <2>2, CountKept
<1> QED
  BY <1>4, <1>6, <1>8, <1>9 DEF IndInv

LEMMA CurrentFacts ==
  ASSUME IndInv, NEW b \in Batches, NEW k \in Columns, task[b][k] \in {"item", "call"}
  PROVE  /\ Current(b, k) \in Raws /\ Clean[Current(b, k)] \in Keys
         /\ Current(b, k) \in Elements(unknowns[b][k])
         /\ item[b][k] \in 1 .. Len(unknowns[b][k])
         /\ Len(unknowns[b][k]) \in Nat /\ Len(unknowns[b][k]) <= MaxInput
         /\ DOMAIN unknowns[b][k] = 1 .. Len(unknowns[b][k])
         /\ \A i \in DOMAIN unknowns[b][k] :
               unknowns[b][k][i] = Current(b, k) => i = item[b][k]
<1>1. unknowns[b][k] \in Inputs /\ item[b][k] \in DOMAIN unknowns[b][k]
  BY DEF IndInv, TaskInv
<1> QED
  BY <1>1, InputFacts, CleanAssumption DEF Current, Elements

\* The item's value is its own, whatever it is, and the next item is taken up.
LEMMA AdvanceStep ==
  ASSUME IndInv, NEW b \in Batches, NEW k \in Columns, task[b][k] \in {"item", "call"},
         NEW v \in Own(k, Clean[Current(b, k)]), Advance(b, k, v), calls' = calls,
         cache' \in [Columns -> [Keys -> Values \cup {Absent}]],
         \A l \in Columns, x \in Keys : cache'[l][x] \in Own(l, x) \cup {Absent}
  PROVE  IndInv'
<1> DEFINE asked == unknowns[b][k]
           r0 == Current(b, k)
           n == item[b][k]
<1>1. /\ lookup' = [lookup EXCEPT ![b][k][r0] = v]
      /\ item' = [item EXCEPT ![b][k] = n + 1]
      /\ task' = [task EXCEPT ![b][k] = IF n = Len(asked) THEN "done" ELSE "item"]
      /\ UNCHANGED <<stage, input, unknowns, output, hit>>
  <2>1. TypeOK
    BY DEF IndInv
  <2> QED
    BY <2>1 DEF Advance, TypeOK
<1>2. TypeOK /\ ValueInv /\ TaskInv(b, k)
  BY DEF IndInv
<1>3. /\ r0 \in Raws /\ n \in 1 .. Len(asked) /\ Len(asked) \in Nat /\ Len(asked) <= MaxInput
      /\ DOMAIN asked = 1 .. Len(asked) /\ asked[n] = r0
  BY CurrentFacts DEF Current
<1>4. v \in Values /\ v # Absent
  BY NoValue
<1>5. n \in Nat /\ n + 1 \in 0 .. MaxInput + 1 /\ MaxInput \in Nat
  BY <1>3, MaxInputAssumption
<1>6. asked = unknowns[b][k] /\ n = item[b][k]
  OBVIOUS
<1> HIDE DEF asked, r0, n
<1> DEFINE new == [lookup[b][k] EXCEPT ![r0] = v]
<1>61. /\ new \in [Raws -> Values \cup {Absent}]
      /\ new[r0] = v /\ \A r \in Raws \ {r0} : new[r] = lookup[b][k][r]
  <2>1. lookup[b][k] \in [Raws -> Values \cup {Absent}]
    BY <1>2 DEF TypeOK
  <2> QED
    BY <1>3, <1>4, <2>1
<1>62. lookup' = [lookup EXCEPT ![b][k] = new]
  BY <1>1
<1> HIDE DEF new
<1>7. TypeOK'
  <2>1. lookup' \in [Batches -> [Columns -> [Raws -> Values \cup {Absent}]]]
    BY <1>2, <1>61, <1>62 DEF TypeOK
  <2>2. item' \in [Batches -> [Columns -> 0 .. MaxInput + 1]]
    BY <1>1, <1>2, <1>5 DEF TypeOK
  <2>3. task' \in [Batches -> [Columns -> {"none", "filter", "bulk", "item", "call", "done"}]]
    BY <1>1, <1>2 DEF TypeOK
  <2> QED
    BY <1>1, <1>2, <2>1, <2>2, <2>3 DEF TypeOK
<1>8. /\ item'[b][k] = n + 1
      /\ task'[b][k] = IF n = Len(asked) THEN "done" ELSE "item"
      /\ lookup'[b][k][r0] = v
      /\ \A r \in Raws \ {r0} : lookup'[b][k][r] = lookup[b][k][r]
  <2>1. lookup'[b][k] = new
    BY <1>2, <1>62 DEF TypeOK
  <2>2. item'[b][k] = n + 1 /\ task'[b][k] = IF n = Len(asked) THEN "done" ELSE "item"
    BY <1>1, <1>2 DEF TypeOK
  <2> QED
    BY <1>61, <2>1, <2>2
<1>9. Frame(b, k)
  BY <1>1, <1>2 DEF TypeOK, Frame
<1>10. ValueInv' /\ OutputInv'
  <2>1. \A r \in Raws : lookup'[b][k][r] \in Own(k, Clean[r]) \cup {Absent}
    BY <1>2, <1>8 DEF ValueInv, r0
  <2>2. ASSUME NEW c \in Batches, NEW l \in Columns, NEW r \in Raws
        PROVE  lookup'[c][l][r] \in Own(l, Clean[r]) \cup {Absent}
    BY <1>2, <1>9, <2>1 DEF ValueInv, Frame
  <2> QED
    BY <1>1, <2>2 DEF IndInv, ValueInv, OutputInv
<1>11. TaskInv(b, k)'
  <2>1. Unknown(b, k)' = Unknown(b, k)
    BY <1>1 DEF Unknown
  <2>2. input[b][k] \in Inputs /\ Unknown(b, k) \subseteq Raws
    BY <1>2, InputFacts DEF TaskInv, Unknown
  <2>3. ASSUME NEW r \in Unknown(b, k)
        PROVE  \/ Resolved(b, k, r)'
               \/ \E i \in DOMAIN asked : n + 1 <= i /\ asked[i] = r
    <3>1. CASE r = r0
      BY <1>4, <1>8, <3>1 DEF Resolved
    <3>2. CASE r # r0 /\ Resolved(b, k, r)
      BY <1>8, <2>2, <3>2 DEF Resolved
    <3>3. CASE r # r0 /\ ~Resolved(b, k, r)
      <4>1. PICK i \in DOMAIN asked : n <= i /\ asked[i] = r
        BY <1>2, <1>6, <3>3 DEF TaskInv
      <4>2. n + 1 <= i
        BY <1>3, <1>5, <3>3, <4>1
      <4> QED
        BY <4>1, <4>2
    <3> QED
      BY <3>1, <3>2, <3>3
  <2>4. CASE n = Len(asked)
    <3>1. \A i \in DOMAIN asked : ~ (n + 1 <= i)
      BY <1>3, <2>4
    <3>2. task'[b][k] = "done" /\ \A r \in Unknown(b, k) : Resolved(b, k, r)'
      BY <1>8, <2>3, <2>4, <3>1
    <3> QED
      BY <1>1, <1>2, <2>1, <3>2 DEF TaskInv
  <2>5. CASE n # Len(asked)
    <3>1. n + 1 \in DOMAIN asked
      BY <1>3, <2>5
    <3>2. task'[b][k] = "item" /\ item'[b][k] = n + 1
      BY <1>8, <2>5
    <3> QED
      BY <1>1, <1>2, <1>6, <2>1, <2>3, <3>1, <3>2 DEF TaskInv
  <2> QED
    BY <2>4, <2>5
<1>12. \A c \in Batches, l \in Columns : TaskInv(c, l)'
  BY <1>1, <1>9, <1>11, OthersKeepTaskInv
<1>13. ASSUME NEW c \in Batches PROVE CountInv(c)'
  <2>1. \A l \in Columns : l \in AskedColumns(c) => l \in AskedColumns(c)'
    BY <1>1, <1>2 DEF AskedColumns, TypeOK
  <2>2. ASSUME NEW l \in Columns PROVE AskedRaws(c, l) \subseteq AskedRaws(c, l)'
    <3>1. CASE c # b \/ l # k
      BY <1>1, <1>9, <3>1 DEF AskedRaws, Frame
    <3>2. CASE c = b /\ l = k
      <4>1. \A i \in DOMAIN asked : i < n \/ i = n => i < n + 1
        BY <1>3, <1>5
      <4> QED
        BY <1>1, <1>6, <1>8, <3>2, <4>1 DEF AskedRaws
    <3> QED
      BY <3>1, <3>2
  <2> QED
    BY <1>12, <2>1, <2>2, CountKept
<1> QED
  BY <1>7, <1>10, <1>12, <1>13 DEF IndInv

LEMMA CacheFacts ==
  ASSUME IndInv
  PROVE  /\ cache \in [Columns -> [Keys -> Values \cup {Absent}]]
         /\ \A l \in Columns, x \in Keys : cache[l][x] \in Own(l, x) \cup {Absent}
  BY DEF IndInv, TypeOK, ValueInv

LEMMA StoreKeepsOwn ==
  ASSUME IndInv, NEW k \in Columns, NEW r \in Raws, NEW v \in Own(k, Clean[r]), Store(k, r, v)
  PROVE  /\ cache' \in [Columns -> [Keys -> Values \cup {Absent}]]
         /\ \A l \in Columns, x \in Keys : cache'[l][x] \in Own(l, x) \cup {Absent}
<1>1. Clean[r] \in Keys /\ v \in Values
  BY CleanAssumption, NoValue
<1>2. cache' = [cache EXCEPT ![k][Clean[r]] = v]
  BY DEF Store
<1>3. cache \in [Columns -> [Keys -> Values \cup {Absent}]]
  BY CacheFacts
<1>4. cache' \in [Columns -> [Keys -> Values \cup {Absent}]]
  BY <1>1, <1>2, <1>3
<1>5. \A l \in Columns, x \in Keys :
         cache'[l][x] = IF l = k /\ x = Clean[r] THEN v ELSE cache[l][x]
  BY <1>1, <1>2, <1>3
<1>6. \A l \in Columns, x \in Keys : cache'[l][x] \in Own(l, x) \cup {Absent}
  BY <1>5, CacheFacts
<1> QED
  BY <1>4, <1>6

LEMMA ItemEmptyStep ==
  ASSUME IndInv, NEW b \in Batches, NEW k \in Columns, ItemEmpty(b, k)
  PROVE  IndInv'
<1> DEFINE v == Value("fallback", Current(b, k))
<1>1. task[b][k] = "item" /\ Advance(b, k, v) /\ UNCHANGED <<cache, calls>>
  BY DEF ItemEmpty
<1>2. v \in Own(k, Clean[Current(b, k)])
  BY <1>1, CurrentFacts, ValueIsOwn DEF Texts
<1>3. /\ cache' \in [Columns -> [Keys -> Values \cup {Absent}]]
      /\ \A l \in Columns, x \in Keys : cache'[l][x] \in Own(l, x) \cup {Absent}
  BY <1>1, CacheFacts
<1> HIDE DEF v
<1> QED
  BY <1>1, <1>2, <1>3, AdvanceStep

LEMMA ItemCachedStep ==
  ASSUME IndInv, NEW b \in Batches, NEW k \in Columns, ItemCached(b, k)
  PROVE  IndInv'
<1> DEFINE v == cache[k][Clean[Current(b, k)]]
<1>1. task[b][k] = "item" /\ v # Absent /\ Advance(b, k, v) /\ UNCHANGED <<cache, calls>>
  BY DEF ItemCached
<1>2. Current(b, k) \in Raws /\ Clean[Current(b, k)] \in Keys
  BY <1>1, CurrentFacts
<1>3. v \in Own(k, Clean[Current(b, k)])
  BY <1>1, <1>2, CacheFacts
<1>4. /\ cache' \in [Columns -> [Keys -> Values \cup {Absent}]]
      /\ \A l \in Columns, x \in Keys : cache'[l][x] \in Own(l, x) \cup {Absent}
  BY <1>1, CacheFacts
<1> HIDE DEF v
<1> QED
  BY <1>1, <1>3, <1>4, AdvanceStep

LEMMA ItemFailureStep ==
  ASSUME IndInv, NEW b \in Batches, NEW k \in Columns, ItemFailure(b, k)
  PROVE  IndInv'
<1> DEFINE v == Value("fallback", Current(b, k))
<1>1. task[b][k] = "call" /\ Advance(b, k, v) /\ UNCHANGED <<cache, calls>>
  BY DEF ItemFailure
<1>2. v \in Own(k, Clean[Current(b, k)])
  BY <1>1, CurrentFacts, ValueIsOwn DEF Texts
<1>3. /\ cache' \in [Columns -> [Keys -> Values \cup {Absent}]]
      /\ \A l \in Columns, x \in Keys : cache'[l][x] \in Own(l, x) \cup {Absent}
  BY <1>1, CacheFacts
<1> HIDE DEF v
<1> QED
  BY <1>1, <1>2, <1>3, AdvanceStep

LEMMA ItemAnswerStep ==
  ASSUME IndInv, NEW b \in Batches, NEW k \in Columns, ItemAnswer(b, k)
  PROVE  IndInv'
<1> DEFINE r == Current(b, k)
<1>1. PICK text \in Texts :
         /\ Advance(b, k, Value(text, r))
         /\ UNCHANGED cache \/ Store(k, r, Value(text, r))
         /\ k # "step" => text # "unknown"
         /\ k = "material" => text # "blank"
  BY DEF ItemAnswer, Texts
<1>2. task[b][k] = "call" /\ calls' = calls
  BY DEF ItemAnswer
<1>3. r \in Raws
  BY <1>2, CurrentFacts
<1>4. Value(text, r) \in Own(k, Clean[r])
  BY <1>1, <1>3, ValueIsOwn
<1>5. /\ cache' \in [Columns -> [Keys -> Values \cup {Absent}]]
      /\ \A l \in Columns, x \in Keys : cache'[l][x] \in Own(l, x) \cup {Absent}
  <2>1. CASE UNCHANGED cache
    BY <2>1, CacheFacts
  <2>2. CASE Store(k, r, Value(text, r))
    <3> HIDE DEF r
    <3> QED
      BY <1>3, <1>4, <2>2, StoreKeepsOwn
  <2> QED
    BY <1>1, <2>1, <2>2
<1> QED
  BY <1>1, <1>2, <1>4, <1>5, AdvanceStep

LEMMA ItemCallStep ==
  ASSUME IndInv, NEW b \in Batches, NEW k \in Columns, ItemCall(b, k)
  PROVE  IndInv'
<1>1. /\ task[b][k] = "item" /\ task' = [task EXCEPT ![b][k] = "call"]
      /\ calls' = [calls EXCEPT ![b] = @ + 1]
      /\ UNCHANGED <<cache, stage, input, unknowns, item, lookup, output, hit>>
  BY DEF ItemCall
<1>2. TypeOK /\ TaskInv(b, k)
  BY DEF IndInv
<1>3. TypeOK'
  BY <1>1, <1>2 DEF TypeOK
<1>4. /\ task'[b][k] = "call" /\ calls'[b] = calls[b] + 1
      /\ \A c \in Batches \ {b} : calls'[c] = calls[c]
      /\ Frame(b, k)
  BY <1>1, <1>2 DEF TypeOK, Frame
<1>5. ValueInv' /\ OutputInv'
  BY <1>1 DEF IndInv, ValueInv, OutputInv
<1>6. TaskInv(b, k)'
  <2>1. Unknown(b, k)' = Unknown(b, k)
    BY <1>1 DEF Unknown
  <2> QED
    BY <1>1, <1>2, <1>4, <2>1 DEF TaskInv, Resolved
<1>7. \A c \in Batches, l \in Columns : TaskInv(c, l)'
  BY <1>1, <1>4, <1>6, OthersKeepTaskInv
<1>8. CountInv(b)'
  <2> DEFINE r == Current(b, k)
             n == item[b][k]
  <2>1. /\ r \in Raws /\ n \in DOMAIN unknowns[b][k] /\ n \in Nat /\ unknowns[b][k][n] = r
        /\ \A i \in DOMAIN unknowns[b][k] : i \in Nat /\ (unknowns[b][k][i] = r => i = n)
    BY <1>1, CurrentFacts DEF Current
  <2>2. n = item[b][k]
    OBVIOUS
  <2> HIDE DEF r, n
  <2>3. r \notin AskedRaws(b, k)
    BY <1>1, <2>1, <2>2 DEF AskedRaws
  <2>4. AskedRaws(b, k)' = AskedRaws(b, k) \cup {r}
    <3>1. AskedRaws(b, k) =
             {q \in Raws : \E i \in DOMAIN unknowns[b][k] : unknowns[b][k][i] = q /\ i < n}
      BY <1>1, <2>2 DEF AskedRaws
    <3>2. AskedRaws(b, k)' =
             {q \in Raws : \E i \in DOMAIN unknowns[b][k] :
                              unknowns[b][k][i] = q /\ (i < n \/ i = n)}
      BY <1>1, <1>4, <2>2 DEF AskedRaws
    <3> QED
      BY <2>1, <3>1, <3>2
  <2>5. \A l \in Columns \ {k} : AskedRaws(b, l)' = AskedRaws(b, l)
    BY <1>4 DEF AskedRaws, Frame
  <2>6. AskedColumns(b)' = AskedColumns(b)
    <3>1. \A l \in Columns : l \in AskedColumns(b)' <=> l \in AskedColumns(b)
      BY <1>1, <1>2 DEF AskedColumns, TypeOK
    <3>2. AskedColumns(b) \subseteq Columns /\ AskedColumns(b)' \subseteq Columns
      BY DEF AskedColumns
    <3> QED
      BY <3>1, <3>2
  <2> QED
    BY <1>4, <2>1, <2>3, <2>4, <2>5, <2>6, CountItem
<1>9. ASSUME NEW c \in Batches \ {b} PROVE CountInv(c)'
  <2>1. AskedColumns(c)' = AskedColumns(c) /\ AskedItems(c)' = AskedItems(c)
    BY <1>4 DEF AskedColumns, AskedItems, AskedRaws, Frame
  <2> QED
    BY <1>4, <2>1 DEF IndInv, CountInv
<1>10. \A c \in Batches : CountInv(c)'
  BY <1>8, <1>9
<1> QED
  BY <1>3, <1>5, <1>7, <1>10 DEF IndInv

\* What bulk replies may say of a column.
Replies(k) == {"canon", "junk", "blank"} \cup (IF k = "step" THEN {"unknown"} ELSE {})

\* Each line becomes a value of the raw at its own position.
LEMMA ZippedIsOwn ==
  ASSUME NEW k \in Columns, NEW asked \in Inputs, NEW reply \in [DOMAIN asked -> Replies(k)],
         NEW i \in DOMAIN asked
  PROVE  Zipped(k, asked, reply)[i] \in Own(k, Clean[asked[i]])
<1>1. asked[i] \in Raws
  BY InputFacts
<1>2. reply[i] \in Replies(k)
  OBVIOUS
<1>3. /\ BulkText(k, reply[i]) \in Texts
      /\ k # "step" => BulkText(k, reply[i]) # "unknown"
      /\ k = "material" => BulkText(k, reply[i]) # "blank"
  BY <1>2 DEF Replies, BulkText, Texts
<1>4. Zipped(k, asked, reply)[i] = Value(BulkText(k, reply[i]), asked[i])
  BY DEF Zipped
<1> QED
  BY <1>1, <1>3, <1>4, ValueIsOwn

LEMMA BulkAnswerStep ==
  ASSUME IndInv, NEW b \in Batches, NEW k \in Columns, BulkAnswer(b, k)
  PROVE  IndInv'
<1> DEFINE asked == unknowns[b][k]
           Last(x) == CHOOSE i \in DOMAIN asked :
                         /\ Clean[asked[i]] = x
                         /\ \A j \in DOMAIN asked : Clean[asked[j]] = x => j <= i
           Place(r) == CHOOSE i \in DOMAIN asked : asked[i] = r
<1>1. PICK reply \in [DOMAIN asked -> Replies(k)] :
         LET answer == Zipped(k, asked, reply)
         IN  /\ lookup' = [lookup EXCEPT ![b][k] = [r \in Raws |->
                   IF r \in Elements(asked) THEN answer[Place(r)] ELSE @[r]]]
             /\ cache' = [cache EXCEPT ![k] = [x \in Keys |->
                   IF \E r \in Elements(asked) : Clean[r] = x THEN answer[Last(x)] ELSE @[x]]]
  BY DEF BulkAnswer, Replies
<1> DEFINE answer == Zipped(k, asked, reply)
           newLookup == [r \in Raws |->
                   IF r \in Elements(asked) THEN answer[Place(r)] ELSE lookup[b][k][r]]
           newCache == [x \in Keys |->
                   IF \E r \in Elements(asked) : Clean[r] = x THEN answer[Last(x)] ELSE cache[k][x]]
<1>2. TypeOK /\ ValueInv /\ TaskInv(b, k)
  BY DEF IndInv
<1>3. /\ task[b][k] = "bulk" /\ task' = [task EXCEPT ![b][k] = "done"]
      /\ UNCHANGED <<stage, input, unknowns, item, output, calls, hit>>
  BY DEF BulkAnswer
<1>4. lookup' = [lookup EXCEPT ![b][k] = newLookup] /\ cache' = [cache EXCEPT ![k] = newCache]
  BY <1>1, <1>2 DEF TypeOK
<1>5. /\ asked \in Inputs /\ Len(asked) \in Nat /\ DOMAIN asked = 1 .. Len(asked)
  BY <1>2, InputFacts DEF TaskInv
<1>6. \A i \in DOMAIN asked : answer[i] \in Own(k, Clean[asked[i]])
  BY <1>5, ZippedIsOwn
<1> HIDE DEF answer
<1>7. \A r \in Elements(asked) : Place(r) \in DOMAIN asked /\ asked[Place(r)] = r
  BY DEF Elements
<1>8. ASSUME NEW x \in Keys, \E r \in Elements(asked) : Clean[r] = x
      PROVE  Last(x) \in DOMAIN asked /\ Clean[asked[Last(x)]] = x
  <2> DEFINE S == {i \in DOMAIN asked : Clean[asked[i]] = x}
  <2>1. S # {}
    BY <1>8 DEF Elements
  <2>2. S \in SUBSET (1 .. Len(asked))
    BY <1>5
  <2>3. \E m \in S : \A j \in S : j <= m
    BY <1>5, <2>1, <2>2, LastPosition
  <2>4. \E i \in DOMAIN asked :
           /\ Clean[asked[i]] = x
           /\ \A j \in DOMAIN asked : Clean[asked[j]] = x => j <= i
    BY <2>3
  <2> QED
    BY <2>4
<1> HIDE DEF Place, Last, asked
<1>9. \A r \in Raws : newLookup[r] \in Own(k, Clean[r]) \cup {Absent}
  BY <1>2, <1>6, <1>7 DEF ValueInv
<1>10. \A r \in Elements(asked) \cap Raws : newLookup[r] # Absent
  BY <1>6, <1>7, NoValue
<1>11. \A r \in Raws : lookup[b][k][r] # Absent => newLookup[r] # Absent
  BY <1>10
<1>12. \A x \in Keys : newCache[x] \in Own(k, x) \cup {Absent}
  BY <1>2, <1>6, <1>8 DEF ValueInv
<1>13. newLookup \in [Raws -> Values \cup {Absent}] /\ newCache \in [Keys -> Values \cup {Absent}]
  BY <1>9, <1>12, NoValue
<1>14. asked = unknowns[b][k]
  BY DEF asked
<1> HIDE DEF newLookup, newCache
<1>15. TypeOK'
  <2>1. lookup' \in [Batches -> [Columns -> [Raws -> Values \cup {Absent}]]]
    BY <1>2, <1>4, <1>13 DEF TypeOK
  <2>2. cache' \in [Columns -> [Keys -> Values \cup {Absent}]]
    BY <1>2, <1>4, <1>13 DEF TypeOK
  <2>3. task' \in [Batches -> [Columns -> {"none", "filter", "bulk", "item", "call", "done"}]]
    BY <1>2, <1>3 DEF TypeOK
  <2> QED
    BY <1>2, <1>3, <2>1, <2>2, <2>3 DEF TypeOK
<1>16. lookup'[b][k] = newLookup /\ task'[b][k] = "done" /\ Frame(b, k)
  BY <1>2, <1>3, <1>4 DEF TypeOK, Frame
<1>17. ValueInv' /\ OutputInv'
  <2>1. ASSUME NEW c \in Batches, NEW l \in Columns, NEW r \in Raws
        PROVE  lookup'[c][l][r] \in Own(l, Clean[r]) \cup {Absent}
    BY <1>2, <1>9, <1>16 DEF ValueInv, Frame
  <2>2. ASSUME NEW l \in Columns, NEW x \in Keys
        PROVE  cache'[l][x] \in Own(l, x) \cup {Absent}
    <3>1. cache'[k] = newCache /\ \A j \in Columns \ {k} : cache'[j] = cache[j]
      BY <1>2, <1>4 DEF TypeOK
    <3> QED
      BY <1>2, <1>12, <3>1 DEF ValueInv
  <2> QED
    BY <1>3, <2>1, <2>2 DEF IndInv, ValueInv, OutputInv
<1>18. TaskInv(b, k)'
  <2>1. Unknown(b, k)' = Unknown(b, k)
    BY <1>3 DEF Unknown
  <2>2. Unknown(b, k) \subseteq Raws
    BY <1>2, InputFacts DEF TaskInv, Unknown
  <2>3. \A r \in Unknown(b, k) : lookup[b][k][r] # Absent \/ r \in Elements(asked)
    BY <1>2, <1>3, <1>14 DEF TaskInv, Resolved
  <2>4. \A r \in Unknown(b, k) : Resolved(b, k, r)'
    BY <1>10, <1>11, <1>16, <2>2, <2>3 DEF Resolved
  <2> QED
    BY <1>2, <1>3, <1>16, <2>1, <2>4 DEF TaskInv
<1>19. \A c \in Batches, l \in Columns : TaskInv(c, l)'
  BY <1>3, <1>16, <1>18, OthersKeepTaskInv
<1>20. ASSUME NEW c \in Batches PROVE CountInv(c)'
  <2>1. \A l \in Columns : l \in AskedColumns(c) => l \in AskedColumns(c)'
    BY <1>2, <1>3 DEF AskedColumns, TypeOK
  <2>2. ASSUME NEW l \in Columns PROVE AskedRaws(c, l) \subseteq AskedRaws(c, l)'
    <3>1. CASE c # b \/ l # k
      BY <1>16, <3>1 DEF AskedRaws, Frame
    <3>2. CASE c = b /\ l = k
      BY <1>3, <1>16, <3>2 DEF AskedRaws
    <3> QED
      BY <3>1, <3>2
  <2> QED
    BY <1>3, <1>19, <2>1, <2>2, CountKept
<1> QED
  BY <1>15, <1>17, <1>19, <1>20 DEF IndInv

-----------------------------------------------------------------------------
(* Blank categories: the cache holds none, so one in a lookup was given up *)
(* in a single call of the same batch, which has taken up its items.       *)

GivenUp ==
    /\ \A k \in Columns \cap {"category"}, x \in Keys : cache[k][x].text # "blank"
    /\ \A b \in Batches, k \in Columns \cap {"category"}, r \in Raws :
          "blank" \in {lookup[b][k][r].text, output[b][k][r].text} => item[b][k] # 0

\* A step that leaves the category cache and adds no blank category.
LEMMA GivenUpKept ==
  ASSUME GivenUp,
         \A k \in Columns \cap {"category"}, x \in Keys : cache'[k][x].text # "blank",
         \A b \in Batches, k \in Columns \cap {"category"} : item[b][k] # 0 => item'[b][k] # 0,
         \A b \in Batches, k \in Columns \cap {"category"}, r \in Raws :
            /\ lookup'[b][k][r].text = "blank" =>
                  lookup[b][k][r].text = "blank" \/ item'[b][k] # 0
            /\ output'[b][k][r].text = "blank" =>
                  "blank" \in {lookup[b][k][r].text, output[b][k][r].text} \/ item'[b][k] # 0
  PROVE  GivenUp'
  BY DEF GivenUp

\* The fallback of an item has taken up an item.
LEMMA AdvanceGivesUp ==
  ASSUME IndInv, GivenUp, NEW b \in Batches, NEW k \in Columns, NEW v,
         task[b][k] \in {"item", "call"}, Advance(b, k, v),
         k = "category" => cache' = cache,
         \A l \in Columns \ {k}, x \in Keys : cache'[l][x] = cache[l][x]
  PROVE  GivenUp'
<1>1. TypeOK
  BY DEF IndInv
<1>2. /\ item' = [item EXCEPT ![b][k] = item[b][k] + 1]
      /\ lookup' = [lookup EXCEPT ![b][k][Current(b, k)] = v]
      /\ output' = output
  BY <1>1 DEF Advance, TypeOK
<1>3. item[b][k] \in Nat /\ Current(b, k) \in Raws /\ item[b][k] + 1 # 0
  BY <1>1, CurrentFacts
<1>4. /\ item'[b][k] # 0
      /\ \A c \in Batches, l \in Columns : item[c][l] # 0 => item'[c][l] # 0
  BY <1>1, <1>2, <1>3 DEF TypeOK
<1>5. \A c \in Batches, l \in Columns, r \in Raws :
         c # b \/ l # k => lookup'[c][l][r] = lookup[c][l][r]
  BY <1>1, <1>2 DEF TypeOK
<1>6. \A l \in Columns \cap {"category"}, x \in Keys : cache'[l][x].text # "blank"
  BY DEF GivenUp
<1> QED
  BY <1>2, <1>4, <1>5, <1>6, GivenUpKept

\* The cache keeps no blank category of a bulk answer, nor the lookup.
LEMMA BulkAnswerKeepsGivenUp ==
  ASSUME IndInv, GivenUp, NEW b \in Batches, NEW k \in Columns, BulkAnswer(b, k)
  PROVE  GivenUp'
<1> DEFINE asked == unknowns[b][k]
           Last(x) == CHOOSE i \in DOMAIN asked :
                         /\ Clean[asked[i]] = x
                         /\ \A j \in DOMAIN asked : Clean[asked[j]] = x => j <= i
           Place(r) == CHOOSE i \in DOMAIN asked : asked[i] = r
<1>1. PICK reply \in [DOMAIN asked -> Replies(k)] :
         LET answer == Zipped(k, asked, reply)
         IN  /\ lookup' = [lookup EXCEPT ![b][k] = [r \in Raws |->
                   IF r \in Elements(asked) THEN answer[Place(r)] ELSE @[r]]]
             /\ cache' = [cache EXCEPT ![k] = [x \in Keys |->
                   IF \E r \in Elements(asked) : Clean[r] = x THEN answer[Last(x)] ELSE @[x]]]
  BY DEF BulkAnswer, Replies
<1> DEFINE answer == Zipped(k, asked, reply)
<1>2. TypeOK /\ UNCHANGED <<item, output>>
  BY DEF IndInv, BulkAnswer
<1>3. asked \in Inputs /\ DOMAIN asked = 1 .. Len(asked) /\ Len(asked) \in Nat
  BY InputFacts DEF IndInv, TaskInv
<1>4. k = "category" => \A i \in DOMAIN asked : answer[i].text # "blank"
  BY DEF Zipped, BulkText, Value
<1>5. \A r \in Elements(asked) : Place(r) \in DOMAIN asked
  BY DEF Elements
<1>6. ASSUME NEW x \in Keys, \E r \in Elements(asked) : Clean[r] = x
      PROVE  Last(x) \in DOMAIN asked
  <2> DEFINE S == {i \in DOMAIN asked : Clean[asked[i]] = x}
  <2>1. S # {} /\ S \in SUBSET (1 .. Len(asked))
    BY <1>3, <1>6 DEF Elements
  <2>2. \E m \in S : \A j \in S : j <= m
    BY <1>3, <2>1, LastPosition
  <2>3. \E i \in DOMAIN asked :
           /\ Clean[asked[i]] = x
           /\ \A j \in DOMAIN asked : Clean[asked[j]] = x => j <= i
    BY <2>2
  <2> QED
    BY <2>3
<1> HIDE DEF answer, Place, Last
<1>7. ASSUME NEW c \in Batches, NEW l \in Columns \cap {"category"}, NEW r \in Raws
      PROVE  lookup'[c][l][r].text = "blank" => lookup[c][l][r].text = "blank"
  <2>1. CASE c = b /\ l = k
    <3>1. lookup'[b][k][r] = IF r \in Elements(asked) THEN answer[Place(r)] ELSE lookup[b][k][r]
      BY <1>1, <1>2 DEF TypeOK, answer
    <3> QED
      BY <1>4, <1>5, <2>1, <3>1
  <2>2. CASE c # b \/ l # k
    <3>1. lookup'[c][l] = lookup[c][l]
      BY <1>1, <1>2, <2>2 DEF TypeOK
    <3> QED
      BY <3>1
  <2> QED
    BY <2>1, <2>2
<1>8. ASSUME NEW l \in Columns \cap {"category"}, NEW x \in Keys
      PROVE  cache'[l][x].text # "blank"
  <2>1. cache[l][x].text # "blank"
    BY DEF GivenUp
  <2>2. CASE l = k
    <3>1. cache'[k][x] = IF \E r \in Elements(asked) : Clean[r] = x
                         THEN answer[Last(x)] ELSE cache[k][x]
      BY <1>1, <1>2 DEF TypeOK, answer
    <3> QED
      BY <1>4, <1>6, <2>1, <2>2, <3>1
  <2>3. CASE l # k
    <3>1. cache'[l] = cache[l]
      BY <1>1, <1>2, <2>3 DEF TypeOK
    <3> QED
      BY <2>1, <3>1
  <2> QED
    BY <2>2, <2>3
<1> QED
  BY <1>2, <1>7, <1>8, GivenUpKept

\* The other steps of a task.
LEMMA TaskKeepsGivenUp ==
  ASSUME IndInv, GivenUp, NEW b \in Batches, NEW k \in Columns, TaskStep(b, k)
  PROVE  GivenUp'
<1>1. TypeOK
  BY DEF IndInv
<1>2. \A l \in Columns \cap {"category"}, x \in Keys : cache[l][x].text # "blank"
  BY DEF GivenUp
<1>3. CASE Filter(b, k)
  <2>1. UNCHANGED <<cache, item, output>>
    BY <1>3 DEF Filter
  <2>2. ASSUME NEW c \in Batches, NEW l \in Columns \cap {"category"}, NEW r \in Raws
        PROVE  lookup'[c][l][r].text = "blank" => lookup[c][l][r].text = "blank"
    <3>1. lookup'[c][l][r] \in {lookup[c][l][r], cache[l][Clean[r]], Absent}
      BY <1>1, <1>3 DEF Filter, TypeOK
    <3>2. Clean[r] \in Keys
      BY CleanAssumption
    <3> QED
      BY <1>2, <3>1, <3>2, NothingToSee
  <2> QED
    BY <1>2, <2>1, <2>2, GivenUpKept
<1>4. CASE BulkAnswer(b, k)
  BY <1>4, BulkAnswerKeepsGivenUp
<1>5. CASE BulkFailure(b, k)
  <2>1. UNCHANGED <<cache, lookup, output>> /\ item' = [item EXCEPT ![b][k] = 1]
    BY <1>5 DEF BulkFailure
  <2>2. \A c \in Batches, l \in Columns : item[c][l] # 0 => item'[c][l] # 0
    BY <1>1, <2>1 DEF TypeOK
  <2> QED
    BY <1>2, <2>1, <2>2, GivenUpKept
<1>6. CASE ItemEmpty(b, k)
  <2>1. task[b][k] = "item" /\ UNCHANGED cache /\ Advance(b, k, Value("fallback", Current(b, k)))
    BY <1>6 DEF ItemEmpty
  <2> QED
    BY <2>1, AdvanceGivesUp
<1>7. CASE ItemCached(b, k)
  <2>1. task[b][k] = "item" /\ UNCHANGED cache /\ Advance(b, k, cache[k][Clean[Current(b, k)]])
    BY <1>7 DEF ItemCached
  <2> QED
    BY <2>1, AdvanceGivesUp
<1>8. CASE ItemCall(b, k)
  <2>1. UNCHANGED <<cache, lookup, output, item>>
    BY <1>8 DEF ItemCall
  <2> QED
    BY <1>2, <2>1, GivenUpKept
<1>9. CASE ItemAnswer(b, k)
  <2>1. PICK v : /\ Advance(b, k, v)
                 /\ \/ UNCHANGED cache
                    \/ k # "category" /\ Store(k, Current(b, k), v)
    BY <1>9 DEF ItemAnswer
  <2>2. task[b][k] = "call"
    BY <1>9 DEF ItemAnswer
  <2>3. \A l \in Columns \ {k}, x \in Keys : cache'[l][x] = cache[l][x]
    BY <1>1, <2>1 DEF Store, TypeOK
  <2> QED
    BY <2>1, <2>2, <2>3, AdvanceGivesUp
<1>10. CASE ItemFailure(b, k)
  <2>1. task[b][k] = "call" /\ UNCHANGED cache /\ Advance(b, k, Value("fallback", Current(b, k)))
    BY <1>10 DEF ItemFailure
  <2> QED
    BY <2>1, AdvanceGivesUp
<1> QED
  BY <1>3, <1>4, <1>5, <1>6, <1>7, <1>8, <1>9, <1>10 DEF TaskStep

\* A blank category is patched in from the lookup.
LEMMA PatchKeepsGivenUp ==
  ASSUME IndInv, GivenUp, NEW b \in Batches, Patch(b)
  PROVE  GivenUp'
<1>1. TypeOK /\ UNCHANGED <<cache, item, lookup>>
  BY DEF IndInv, Patch
<1>2. \A k \in Columns, r \in Raws :
         Patched(b, k, r).text = "blank" => lookup[b][k][r].text = "blank"
  BY NothingToSee DEF Patched, Value
<1>3. ASSUME NEW c \in Batches, NEW l \in Columns \cap {"category"}, NEW r \in Raws
      PROVE  output'[c][l][r].text = "blank" =>
                "blank" \in {lookup[c][l][r].text, output[c][l][r].text}
  <2>1. output'[c][l][r] \in {output[c][l][r], Absent} \/ (c = b /\ output'[c][l][r] = Patched(b, l, r))
    BY <1>1 DEF Patch, TypeOK
  <2> QED
    BY <1>2, <2>1, NothingToSee
<1>4. \A k \in Columns \cap {"category"}, x \in Keys : cache'[k][x].text # "blank"
  BY <1>1 DEF GivenUp
<1> QED
  BY <1>1, <1>3, <1>4, GivenUpKept

-----------------------------------------------------------------------------
(* The theorems.                                                           *)

\* The invariant holds of every state the program reaches.
THEOREM Invariance == Spec => []IndInv
<1>1. Init => IndInv
  BY Initially
<1>2. IndInv /\ [Next]_vars => IndInv'
  <2> SUFFICES ASSUME IndInv, [Next]_vars PROVE IndInv'
    OBVIOUS
  <2>1. ASSUME NEW b \in Batches, Collect(b) \/ Patch(b) PROVE IndInv'
    BY <2>1, CollectStep, PatchStep
  <2>2. ASSUME NEW b \in Batches, NEW k \in Columns,
               \/ Filter(b, k) \/ BulkAnswer(b, k) \/ BulkFailure(b, k)
               \/ ItemEmpty(b, k) \/ ItemCached(b, k) \/ ItemCall(b, k)
               \/ ItemAnswer(b, k) \/ ItemFailure(b, k)
        PROVE  IndInv'
    BY <2>2, FilterStep, BulkAnswerStep, BulkFailureStep,
       ItemEmptyStep, ItemCachedStep, ItemCallStep, ItemAnswerStep, ItemFailureStep
  <2>3. ASSUME NEW k \in Columns, NEW x \in Keys, Expire(k, x) PROVE IndInv'
    BY <2>3, ExpireStep
  <2>4. CASE UNCHANGED vars
    <3>1. TypeOK'
      BY <2>4 DEF vars, IndInv, TypeOK
    <3>2. ValueInv' /\ OutputInv'
      BY <2>4 DEF vars, IndInv, ValueInv, OutputInv
    <3>3. \A c \in Batches, l \in Columns : TaskInv(c, l)'
      BY <2>4 DEF vars, IndInv, TaskInv, Unknown, Resolved
    <3>4. ASSUME NEW c \in Batches PROVE CountInv(c)'
      <4>1. AskedColumns(c)' = AskedColumns(c) /\ AskedItems(c)' = AskedItems(c)
        BY <2>4 DEF vars, AskedColumns, AskedItems, AskedRaws
      <4> QED
        BY <2>4, <4>1 DEF vars, IndInv, CountInv
    <3> QED
      BY <3>1, <3>2, <3>3, <3>4 DEF IndInv
  <2> QED
    BY <2>1, <2>2, <2>3, <2>4 DEF Next
<1> QED
  BY <1>1, <1>2, PTL DEF Spec

\* Only a batch that resolves its items one by one holds a blank category.
THEOREM GivenUpInvariance == Spec => []GivenUp
<1>1. Init => GivenUp
  BY NothingToSee DEF Init, GivenUp, Nothing
<1>2. IndInv /\ GivenUp /\ [Next]_vars => GivenUp'
  <2> SUFFICES ASSUME IndInv, GivenUp, [Next]_vars PROVE GivenUp'
    OBVIOUS
  <2>1. ASSUME NEW b \in Batches, Collect(b) PROVE GivenUp'
    BY <2>1 DEF Collect, GivenUp
  <2>2. ASSUME NEW b \in Batches, Patch(b) PROVE GivenUp'
    BY <2>2, PatchKeepsGivenUp
  <2>3. ASSUME NEW b \in Batches, NEW k \in Columns, TaskStep(b, k) PROVE GivenUp'
    BY <2>3, TaskKeepsGivenUp
  <2>4. ASSUME NEW k \in Columns, NEW x \in Keys, Expire(k, x) PROVE GivenUp'
    <3>1. TypeOK /\ UNCHANGED <<item, lookup, output>>
      BY <2>4 DEF IndInv, Expire
    <3>2. \A l \in Columns, y \in Keys : cache'[l][y] \in {cache[l][y], Absent}
      BY <2>4, <3>1 DEF Expire, TypeOK
    <3>3. \A l \in Columns \cap {"category"}, y \in Keys : cache'[l][y].text # "blank"
      BY <3>2, NothingToSee DEF GivenUp
    <3> QED
      BY <3>1, <3>3, GivenUpKept
  <2>5. CASE UNCHANGED vars
    BY <2>5 DEF vars, GivenUp
  <2> QED
    BY <2>1, <2>2, <2>3, <2>4, <2>5 DEF Next, TaskStep
<1> QED
  BY <1>1, <1>2, Invariance, PTL DEF Spec

\* The state is typed: in particular no item is read past the end of its list.
THEOREM TypeCorrect == Spec => []TypeOK
<1>1. IndInv => TypeOK
  BY DEF IndInv
<1> QED
  BY <1>1, Invariance, PTL

\* Whatever batches share the cache, a raw is replaced by a value that was made
\* for it or for a raw with its key.
THEOREM OwnValueHolds == Spec => []OwnValue
<1>1. IndInv => OwnValue
  <2> SUFFICES ASSUME IndInv PROVE OwnValue
    OBVIOUS
  <2>1. \A k \in Columns, x \in Keys : cache[k][x] # Absent => cache[k][x].of = x
    BY CacheFacts DEF Own
  <2>2. \A b \in Batches, k \in Columns, r \in Raws :
           output[b][k][r] \notin {Absent, Dropped} => output[b][k][r].of = Clean[r]
    BY DEF IndInv, OutputInv, Own
  <2> QED
    BY <2>1, <2>2 DEF OwnValue
<1> QED
  BY <1>1, Invariance, PTL

\* No "unknown" and no blank step or material is left for a model but a
\* material whose own name is blank; a blank category is explained by its name
\* or by a single call of the batch it is in, never by the cache.
THEOREM BlankIsExplainedHolds == Spec => []BlankIsExplained
<1>1. IndInv /\ GivenUp => BlankIsExplained
  <2> SUFFICES ASSUME IndInv, GivenUp, NEW b \in Batches, NEW k \in Columns, NEW r \in Raws
               PROVE  /\ output[b][k][r].text # "unknown"
                      /\ IsBlank(output[b][k][r]) =>
                            \/ k # "step" /\ Clean[r] = ""
                            \/ k = "category" /\ item[b][k] # 0
    BY DEF BlankIsExplained
  <2> DEFINE v == output[b][k][r]
  <2>1. v \in Own(k, Clean[r]) \/ v \in {Absent, Dropped}
    BY DEF IndInv, OutputInv
  <2>2. k = "step" => ~IsBlank(v) /\ v.text # "unknown"
    BY DEF IndInv, OutputInv
  <2>3. k = "category" /\ v.text = "blank" => item[b][k] # 0
    BY DEF GivenUp
  <2> HIDE DEF v
  <2>4. CASE v \in {Absent, Dropped}
    BY <2>4, NothingToSee DEF v
  <2>5. CASE v \in Own(k, Clean[r])
    <3>1. v.of = Clean[r] /\ (k # "step" => v.text # "unknown") /\ (k = "material" => v.text # "blank")
      BY <2>5 DEF Own
    <3>2. k \in {"material", "step", "category"}
      BY ColumnsAssumption
    <3> QED
      BY <2>2, <2>3, <3>1, <3>2 DEF IsBlank, v
  <2> QED
    BY <2>1, <2>4, <2>5
<1> QED
  BY <1>1, Invariance, GivenUpInvariance, PTL

\* A task does not end before each raw that was unknown at collection is in
\* the result map, whether the bulk call answered or the items were asked for.
THEOREM EveryUnknownResolvedHolds == Spec => []EveryUnknownResolved
<1>1. IndInv => EveryUnknownResolved
  BY DEF IndInv, TaskInv, Unknown, Resolved, EveryUnknownResolved
<1> QED
  BY <1>1, Invariance, PTL

\* A batch never costs more than a call per column with unknowns and one per
\* unknown of a column whose bulk call failed: the calls are counted against what asked, and only unknowns ask.
THEOREM CallBudgetHolds == Spec => []CallBudget
<1>1. IndInv => CallBudget
  <2> SUFFICES ASSUME IndInv, NEW b \in Batches
               PROVE  LET U(k) == {r \in Elements(input[b][k]) :
                                       ~IsStatic(r) /\ hit[b][k][r] = Absent}
                      IN  calls[b] <= Cardinality({k \in Columns : U(k) # {}})
                                      + Cardinality({x \in Columns \X Raws :
                                                        x[2] \in U(x[1]) /\ item[b][x[1]] # 0})
    BY DEF CallBudget
  <2> DEFINE UnknownColumns == {k \in Columns : Unknown(b, k) # {}}
             UnknownItems == {x \in Columns \X Raws :
                                 x[2] \in Unknown(b, x[1]) /\ item[b][x[1]] # 0}
  <2>1. \A k \in Columns : TaskInv(b, k)
    BY DEF IndInv
  <2>2. /\ \A k \in Columns : unknowns[b][k] \in Inputs /\ input[b][k] \in Inputs
        /\ \A k \in Columns : Elements(unknowns[b][k]) \subseteq Unknown(b, k)
    BY <2>1 DEF TaskInv
  <2>3. AskedColumns(b) \in SUBSET UnknownColumns
    BY <2>2, InputFacts DEF AskedColumns
  <2>4. AskedItems(b) \in SUBSET UnknownItems
    <3>1. \A k \in Columns : AskedRaws(b, k) \subseteq Unknown(b, k)
      BY <2>2 DEF AskedRaws, Elements
    <3>2. \A k \in Columns : AskedRaws(b, k) # {} => item[b][k] # 0
      <4>1. \A k \in Columns : \A i \in DOMAIN unknowns[b][k] : ~ (i < 0) /\ i # 0
        BY <2>2, InputFacts
      <4> QED
        BY <4>1 DEF AskedRaws
    <3> QED
      BY <3>1, <3>2 DEF AskedItems
  <2>5. IsFiniteSet(UnknownColumns)
    <3>1. UnknownColumns \in SUBSET Columns
      OBVIOUS
    <3> QED
      BY <3>1, FiniteColumns, FS_Subset
  <2>6. IsFiniteSet(UnknownItems)
    <3>1. UnknownItems \in SUBSET (Columns \X Raws)
      OBVIOUS
    <3>2. \A x \in UnknownItems : x[2] \in Elements(input[b][x[1]])
      BY DEF Unknown
    <3> HIDE DEF UnknownItems
    <3> QED
      BY <2>2, <3>1, <3>2, FiniteItems
  <2> HIDE DEF UnknownColumns, UnknownItems
  <2>7. /\ Cardinality(AskedColumns(b)) <= Cardinality(UnknownColumns)
        /\ Cardinality(AskedItems(b)) <= Cardinality(UnknownItems)
    BY <2>3, <2>4, <2>5, <2>6, FS_Subset
  <2>8. /\ Cardinality(AskedColumns(b)) \in Nat /\ Cardinality(AskedItems(b)) \in Nat
        /\ Cardinality(UnknownColumns) \in Nat /\ Cardinality(UnknownItems) \in Nat
    BY <2>2, <2>5, <2>6, FiniteAsked, FS_CardinalityType
  <2>9. calls[b] \in Nat /\ calls[b] <= Cardinality(AskedColumns(b)) + Cardinality(AskedItems(b))
    BY DEF IndInv, TypeOK, CountInv
  <2>10. calls[b] <= Cardinality(UnknownColumns) + Cardinality(UnknownItems)
    BY <2>7, <2>8, <2>9
  <2> QED
    BY <2>10 DEF Unknown, UnknownColumns, UnknownItems
<1> QED
  BY <1>1, Invariance, PTL

=============================================================================
