------------------------ MODULE ProductAssembly_proofs ------------------------
(***************************************************************************)
(* Proofs about ProductAssembly.                                           *)
(*                                                                         *)
(* The inductive invariant says of all that the call holds (found, got,    *)
(* paths, inputs) which state in seen it was read from.  What the loops of *)
(* the code compute is proved by induction over 0 .. N: Counting takes the *)
(* least counterexample, Recursion builds the function that a definition   *)
(* by a step from each number to the next chooses.                         *)
(***************************************************************************)
EXTENDS ProductAssembly, SequenceTheorems, FiniteSetTheorems, WellFoundedInduction, TLAPS

-----------------------------------------------------------------------------
(* Induction over the numbers up to N, and rows that are kept.             *)

\* Induction over the numbers up to N.
LEMMA Counting ==
  ASSUME NEW N \in Nat, NEW S, 0 \in S, \A n \in 0 .. N : n \in S /\ n < N => n + 1 \in S
  PROVE  0 .. N \subseteq S
<1> DEFINE Bad == (0 .. N) \ S
           R == OpToRel(<, Nat)
<1>1. IsWellFoundedOn(R, Nat)
  BY NatLessThanWellFounded
<1>2. \A x, y \in Nat : <<y, x>> \in R <=> y < x
  BY DEF OpToRel
<1> HIDE DEF R
<1>3. SUFFICES ASSUME Bad # {} PROVE FALSE
  OBVIOUS
<1>4. Bad \subseteq Nat
  OBVIOUS
<1>5. PICK m \in Bad : \A n \in Bad : ~ (<<n, m>> \in R)
  <2> HIDE DEF Bad
  <2> QED
    BY <1>1, <1>3, <1>4, WFMin
<1>6. m \in Nat /\ m # 0 /\ m <= N /\ m \notin S
  OBVIOUS
<1>7. m - 1 \in 0 .. N /\ m - 1 < N /\ m - 1 < m
  BY <1>6
<1>8. m - 1 \in S
  BY <1>2, <1>4, <1>5, <1>7
<1>9. (m - 1) + 1 \in S
  BY <1>7, <1>8
<1> QED
  BY <1>6, <1>9

\* A step from each number to the next, and what follows it from a.
Steppers(N, A) == [1 .. N -> [A -> A]]
Follows(h, g, N, a) == h[0] = a /\ \A n \in 1 .. N : h[n] = g[n][h[n - 1]]

\* A function defined by a step from each number to the next exists.
LEMMA Recursion ==
  ASSUME NEW N \in Nat, NEW A, NEW a \in A, NEW g \in Steppers(N, A)
  PROVE  \E h \in [0 .. N -> A] : Follows(h, g, N, a)
<1> USE DEF Steppers, Follows
<1> DEFINE Upto(m) == {h \in [0 .. m -> A] :
                         h[0] = a /\ \A n \in 1 .. m : h[n] = g[n][h[n - 1]]}
           S == {m \in 0 .. N : Upto(m) # {}}
<1>1. 0 \in S
  <2>1. [n \in 0 .. 0 |-> a] \in Upto(0)
    OBVIOUS
  <2> QED
    BY <2>1
<1>2. ASSUME NEW m \in 0 .. N, m \in S, m < N PROVE m + 1 \in S
  <2>1. PICK h \in Upto(m) : TRUE
    BY <1>2
  <2>2. m \in Nat /\ m + 1 \in 1 .. N /\ h \in [0 .. m -> A] /\ h[m] \in A
    BY <1>2, <2>1
  <2> DEFINE k == [n \in 0 .. m + 1 |-> IF n = m + 1 THEN g[m + 1][h[m]] ELSE h[n]]
  <2>3. g[m + 1][h[m]] \in A
    BY <2>2
  <2>4. k \in [0 .. m + 1 -> A]
    BY <2>2, <2>3
  <2>5. k[0] = a
    BY <2>1, <2>2
  <2>6. ASSUME NEW n \in 1 .. m + 1 PROVE k[n] = g[n][k[n - 1]]
    <3>1. CASE n = m + 1
      BY <2>2, <3>1
    <3>2. CASE n # m + 1
      <4>1. n \in 1 .. m /\ n - 1 \in 0 .. m
        BY <2>2, <3>2
      <4>2. h[n] = g[n][h[n - 1]]
        BY <2>1, <4>1
      <4> QED
        BY <2>2, <4>1, <4>2
    <3> QED
      BY <3>1, <3>2
  <2> HIDE DEF k
  <2>7. k \in Upto(m + 1)
    BY <2>4, <2>5, <2>6
  <2> QED
    BY <2>2, <2>7
<1> HIDE DEF S
<1>3. 0 .. N \subseteq S
  BY <1>1, <1>2, Counting
<1>4. N \in S
  BY <1>3
<1> QED
  BY <1>4 DEF S

\* Keep is what its definition says.
Kept(s, S) ==
    CHOOSE kept : kept = [n \in 0 .. Len(s) |->
       IF n = 0 THEN <<>> ELSE IF n \in S THEN Append(kept[n - 1], s[n]) ELSE kept[n - 1]]

LEMMA KeepKept == ASSUME NEW s, NEW S PROVE Keep(s, S) = Kept(s, S)[Len(s)]
  BY DEF Keep, Kept

LEMMA KeptSteps ==
  ASSUME NEW R, NEW s \in Seq(R), NEW S
  PROVE  /\ Kept(s, S) \in [0 .. Len(s) -> Seq(R)]
         /\ Kept(s, S)[0] = <<>>
         /\ \A n \in 1 .. Len(s) :
               Kept(s, S)[n] = IF n \in S THEN Append(Kept(s, S)[n - 1], s[n]) ELSE Kept(s, S)[n - 1]
<1> DEFINE N == Len(s)
           step(n, u) == IF n \in S THEN Append(u, s[n]) ELSE u
           g == [n \in 1 .. N |-> [u \in Seq(R) |-> step(n, u)]]
<1>1. N \in Nat /\ \A n \in 1 .. N : s[n] \in R
  OBVIOUS
<1>2. <<>> \in Seq(R) /\ g \in [1 .. N -> [Seq(R) -> Seq(R)]]
  <2>1. \A n \in 1 .. N, u \in Seq(R) : step(n, u) \in Seq(R)
    BY <1>1
  <2> QED
    BY <2>1
<1>3. \A n \in 1 .. N, u \in Seq(R) : g[n][u] = step(n, u)
  OBVIOUS
<1> HIDE DEF g
<1>4. PICK h \in [0 .. N -> Seq(R)] : h[0] = <<>> /\ \A n \in 1 .. N : h[n] = g[n][h[n - 1]]
  <2> HIDE DEF N
  <2> DEFINE A == Seq(R)
             a == <<>>
  <2>1. a \in A /\ g \in Steppers(N, A) /\ N \in Nat
    BY <1>1, <1>2 DEF Steppers
  <2> HIDE DEF N, A, a
  <2>2. \E h \in [0 .. N -> A] : Follows(h, g, N, a)
    BY <2>1, Recursion
  <2> QED
    BY <2>2 DEF A, a, Follows
<1>5. \A n \in 1 .. N : h[n] = step(n, h[n - 1])
  <2>1. \A n \in 1 .. N : n - 1 \in 0 .. N
    BY <1>1
  <2> QED
    BY <1>3, <1>4, <2>1
<1>6. h = [n \in 0 .. N |-> IF n = 0 THEN <<>> ELSE step(n, h[n - 1])]
  <2> DEFINE k == [n \in 0 .. N |-> IF n = 0 THEN <<>> ELSE step(n, h[n - 1])]
  <2>1. \A n \in 0 .. N : n = 0 \/ n \in 1 .. N
    BY <1>1
  <2> HIDE DEF step
  <2>2. \A n \in 0 .. N : h[n] = IF n = 0 THEN <<>> ELSE step(n, h[n - 1])
    BY <1>4, <1>5, <2>1
  <2>3. h = [n \in 0 .. N |-> h[n]]
    BY <1>4
  <2> HIDE DEF N
  <2> QED
    BY <2>2, <2>3, Zenon
<1>7. Kept(s, S) = [n \in 0 .. N |-> IF n = 0 THEN <<>> ELSE step(n, Kept(s, S)[n - 1])]
  BY <1>6 DEF Kept
<1> HIDE DEF step
<1>8. /\ Kept(s, S)[0] = <<>>
      /\ \A n \in 1 .. N : Kept(s, S)[n] = step(n, Kept(s, S)[n - 1])
  BY <1>1, <1>7
<1> DEFINE T == {n \in 0 .. N : Kept(s, S)[n] \in Seq(R)}
<1>9. 0 .. N \subseteq T
  <2>1. 0 \in T
    <3>1. 0 \in 0 .. N
      BY <1>1
    <3>2. Kept(s, S)[0] \in Seq(R)
      BY <1>2, <1>8, Zenon
    <3> QED
      BY <3>1, <3>2
  <2>2. ASSUME NEW n \in 0 .. N, n \in T, n < N PROVE n + 1 \in T
    <3>1. n + 1 \in 1 .. N /\ (n + 1) - 1 = n
      BY <1>1, <2>2
    <3>2. step(n + 1, Kept(s, S)[n]) \in Seq(R)
      BY <1>1, <2>2, <3>1 DEF step
    <3> QED
      BY <1>8, <3>1, <3>2
  <2> HIDE DEF T, N
  <2> QED
    BY <1>1, <2>1, <2>2, Counting
<1>10. \A n \in 0 .. N : Kept(s, S)[n] \in Seq(R)
  BY <1>9
<1>11. Kept(s, S) \in [0 .. N -> Seq(R)]
  BY <1>7, <1>10
<1> QED
  BY <1>8, <1>11 DEF step

LEMMA KeepType ==
  ASSUME NEW R, NEW s \in Seq(R), NEW S
  PROVE  Keep(s, S) \in Seq(R)
<1>1. Len(s) \in 0 .. Len(s)
  OBVIOUS
<1> QED
  BY <1>1, KeepKept, KeptSteps

LEMMA KeepEmpty == ASSUME NEW S PROVE Keep(<<>>, S) = <<>>
<1> DEFINE e == <<>>
<1>1. e \in Seq({}) /\ Len(e) = 0 /\ e = <<>>
  OBVIOUS
<1> HIDE DEF e
<1>2. Kept(e, S)[0] = <<>>
  <2>1. \A s \in Seq({}) : Kept(s, S)[0] = <<>>
    BY KeptSteps
  <2> QED
    BY <1>1, <2>1
<1>3. Keep(e, S) = Kept(e, S)[Len(e)]
  BY KeepKept
<1> QED
  BY <1>1, <1>2, <1>3

\* What is kept of a prefix depends on the prefix alone.
LEMMA KeptOfPrefix ==
  ASSUME NEW R, NEW s \in Seq(R), NEW t \in Seq(R), NEW S, NEW T,
         NEW N \in Nat, N <= Len(s), N <= Len(t),
         \A i \in 1 .. N : s[i] = t[i] /\ (i \in S <=> i \in T)
  PROVE  Kept(s, S)[N] = Kept(t, T)[N]
<1> DEFINE E == {n \in 0 .. N : Kept(s, S)[n] = Kept(t, T)[n]}
<1>1. 0 \in E
  <2>1. Kept(s, S)[0] = <<>> /\ Kept(t, T)[0] = <<>>
    BY KeptSteps
  <2> QED
    BY <2>1
<1>2. ASSUME NEW n \in 0 .. N, n \in E, n < N PROVE n + 1 \in E
  <2>1. /\ n + 1 \in 1 .. N /\ n + 1 \in 1 .. Len(s) /\ n + 1 \in 1 .. Len(t)
        /\ (n + 1) - 1 = n
    BY <1>2
  <2>2. Kept(s, S)[n + 1] = IF n + 1 \in S THEN Append(Kept(s, S)[n], s[n + 1]) ELSE Kept(s, S)[n]
    BY <2>1, KeptSteps
  <2>3. Kept(t, T)[n + 1] = IF n + 1 \in T THEN Append(Kept(t, T)[n], t[n + 1]) ELSE Kept(t, T)[n]
    BY <2>1, KeptSteps
  <2>4. Kept(s, S)[n + 1] = Kept(t, T)[n + 1]
    BY <1>2, <2>1, <2>2, <2>3
  <2> QED
    BY <2>1, <2>4
<1> HIDE DEF E
<1>3. 0 .. N \subseteq E
  BY <1>1, <1>2, Counting
<1>4. N \in E
  BY <1>3
<1> QED
  BY <1>4 DEF E

LEMMA RowsOfAppend ==
  ASSUME NEW R, NEW s \in Seq(R), NEW x \in R, NEW P
  PROVE  RowsOf(Append(s, x), P) = IF x.of \in P THEN Append(RowsOf(s, P), x) ELSE RowsOf(s, P)
<1> DEFINE N == Len(s)
           t == Append(s, x)
           S == {i \in DOMAIN s : s[i].of \in P}
           T == {i \in DOMAIN t : t[i].of \in P}
<1>1. /\ N \in Nat /\ t \in Seq(R) /\ Len(t) = N + 1 /\ t[N + 1] = x
      /\ DOMAIN s = 1 .. N /\ DOMAIN t = 1 .. N + 1
      /\ \A i \in 1 .. N : t[i] = s[i]
  OBVIOUS
<1>2. \A i \in 1 .. N : i \in S <=> i \in T
  BY <1>1
<1>3. N + 1 \in T <=> x.of \in P
  BY <1>1
<1>4. RowsOf(s, P) = Kept(s, S)[N] /\ RowsOf(t, P) = Kept(t, T)[N + 1]
  BY <1>1, KeepKept DEF RowsOf
<1>5. N = Len(s)
  OBVIOUS
<1> HIDE DEF N, t, S, T
<1>6. Kept(t, T)[N] = Kept(s, S)[N]
  <2>1. /\ N <= Len(t) /\ N <= Len(s)
        /\ \A i \in 1 .. N : t[i] = s[i] /\ (i \in T <=> i \in S)
    BY <1>1, <1>2, <1>5
  <2>2. s \in Seq(R) /\ t \in Seq(R) /\ N \in Nat
    BY <1>1
  <2>3. \A U, V : \A a, b \in Seq(R) :
           /\ N <= Len(a) /\ N <= Len(b)
           /\ \A i \in 1 .. N : a[i] = b[i] /\ (i \in U <=> i \in V)
           => Kept(a, U)[N] = Kept(b, V)[N]
    BY <2>2, KeptOfPrefix
  <2> QED
    BY <2>1, <2>2, <2>3
<1>7. N + 1 \in 1 .. Len(t) /\ (N + 1) - 1 = N
  BY <1>1
<1>8. Kept(t, T)[N + 1] = IF N + 1 \in T THEN Append(Kept(t, T)[N], t[N + 1]) ELSE Kept(t, T)[N]
  BY <1>1, <1>7, KeptSteps
<1> QED
  BY <1>1, <1>3, <1>4, <1>6, <1>8 DEF t

\* The rows of one product among the rows of several are all its rows.
LEMMA RowsOfSome ==
  ASSUME NEW R, NEW s \in Seq(R), NEW P, NEW Q, Q \subseteq P
  PROVE  RowsOf(RowsOf(s, P), Q) = RowsOf(s, Q)
<1> DEFINE N == Len(s)
           S == {i \in DOMAIN s : s[i].of \in P}
           T == {i \in DOMAIN s : s[i].of \in Q}
           u == Kept(s, S)
           v == Kept(s, T)
           E == {n \in 0 .. N : RowsOf(u[n], Q) = v[n]}
<1>1. /\ N \in Nat /\ DOMAIN s = 1 .. N
      /\ \A i \in 1 .. N : s[i] \in R /\ (i \in S <=> s[i].of \in P) /\ (i \in T <=> s[i].of \in Q)
  OBVIOUS
<1>2. /\ u \in [0 .. N -> Seq(R)] /\ u[0] = <<>> /\ v[0] = <<>>
      /\ \A n \in 1 .. N : u[n] = IF n \in S THEN Append(u[n - 1], s[n]) ELSE u[n - 1]
      /\ \A n \in 1 .. N : v[n] = IF n \in T THEN Append(v[n - 1], s[n]) ELSE v[n - 1]
  BY KeptSteps
<1>3. RowsOf(s, P) = u[N] /\ RowsOf(s, Q) = v[N]
  BY KeepKept DEF RowsOf
<1> HIDE DEF N, S, T, u, v
<1>4. 0 \in E
  <2>1. RowsOf(<<>>, Q) = <<>>
    BY KeepEmpty DEF RowsOf
  <2> QED
    BY <1>1, <1>2, <2>1
<1>5. ASSUME NEW n \in 0 .. N, n \in E, n < N PROVE n + 1 \in E
  <2>1. n + 1 \in 1 .. N /\ (n + 1) - 1 = n /\ u[n] \in Seq(R) /\ s[n + 1] \in R
    BY <1>1, <1>2, <1>5
  <2>2. RowsOf(u[n], Q) = v[n]
    BY <1>5
  <2>3. /\ u[n + 1] = IF n + 1 \in S THEN Append(u[n], s[n + 1]) ELSE u[n]
        /\ v[n + 1] = IF n + 1 \in T THEN Append(v[n], s[n + 1]) ELSE v[n]
    BY <1>2, <2>1
  <2>4. RowsOf(Append(u[n], s[n + 1]), Q) =
           IF s[n + 1].of \in Q THEN Append(v[n], s[n + 1]) ELSE v[n]
    <3>1. \A w \in Seq(R), x \in R :
             RowsOf(Append(w, x), Q) = IF x.of \in Q THEN Append(RowsOf(w, Q), x) ELSE RowsOf(w, Q)
      BY RowsOfAppend
    <3> QED
      BY <2>1, <2>2, <3>1
  <2>5. (n + 1 \in S <=> s[n + 1].of \in P) /\ (n + 1 \in T <=> s[n + 1].of \in Q)
    BY <1>1, <2>1
  <2>6. RowsOf(u[n + 1], Q) = v[n + 1]
    BY <2>2, <2>3, <2>4, <2>5
  <2> QED
    BY <2>1, <2>6
<1> HIDE DEF E
<1>6. 0 .. N \subseteq E
  BY <1>1, <1>4, <1>5, Counting
<1>7. N \in E
  BY <1>1, <1>6
<1> QED
  BY <1>3, <1>7 DEF E

-----------------------------------------------------------------------------
(* Products in order.                                                      *)

LEMMA LeastOf ==
  ASSUME NEW S \in SUBSET Nat, S # {}
  PROVE  \E m \in S : \A n \in S : m <= n
<1> DEFINE R == OpToRel(<, Nat)
<1>1. IsWellFoundedOn(R, Nat)
  BY NatLessThanWellFounded
<1>2. \A x, y \in Nat : <<y, x>> \in R <=> y < x
  BY DEF OpToRel
<1> HIDE DEF R
<1>3. PICK m \in S : \A n \in S : ~ (<<n, m>> \in R)
  BY <1>1, WFMin
<1>4. \A n \in S : ~ (n < m)
  BY <1>2, <1>3
<1> QED
  BY <1>4

Ordered(ids, n) == \A i, j \in 1 .. n : i < j => ids[i] < ids[j]

LEMMA OrderExists ==
  ASSUME NEW S \in SUBSET Nat, IsFiniteSet(S)
  PROVE  \E ids \in [1 .. Cardinality(S) -> S] : Ordered(ids, Cardinality(S))
<1> DEFINE N == Cardinality(S)
           E == {n \in 0 .. N : \A T \in SUBSET Nat :
                   IsFiniteSet(T) /\ Cardinality(T) = n =>
                      \E ids \in [1 .. n -> T] : Ordered(ids, n)}
<1>1. N \in Nat
  BY FS_CardinalityType
<1>2. 0 \in E
  <2>1. ASSUME NEW T \in SUBSET Nat PROVE \E ids \in [1 .. 0 -> T] : Ordered(ids, 0)
    <3>1. <<>> \in [1 .. 0 -> T] /\ Ordered(<<>>, 0)
      BY DEF Ordered
    <3> QED
      BY <3>1
  <2>2. 0 \in 0 .. N
    BY <1>1
  <2> QED
    BY <2>1, <2>2
<1>3. ASSUME NEW n \in 0 .. N, n \in E, n < N PROVE n + 1 \in E
  <2>1. n \in Nat /\ n + 1 \in 0 .. N
    BY <1>1, <1>3
  <2>2. ASSUME NEW T \in SUBSET Nat, IsFiniteSet(T), Cardinality(T) = n + 1
        PROVE  \E ids \in [1 .. n + 1 -> T] : Ordered(ids, n + 1)
    <3>1. T # {}
      BY <2>1, <2>2, FS_EmptySet
    <3>2. PICK m \in T : \A k \in T : m <= k
      BY <3>1, LeastOf
    <3>3. IsFiniteSet(T \ {m}) /\ Cardinality(T \ {m}) = n
      <4>1. IsFiniteSet(T \ {m}) /\ Cardinality(T \ {m}) = Cardinality(T) - 1
        BY <2>2, <3>2, FS_RemoveElement
      <4> QED
        BY <2>1, <2>2, <4>1
    <3>4. PICK ids \in [1 .. n -> T \ {m}] : Ordered(ids, n)
      BY <1>3, <3>3
    <3> DEFINE new == [i \in 1 .. n + 1 |-> IF i = 1 THEN m ELSE ids[i - 1]]
    <3>5. \A i \in 1 .. n + 1 : i # 1 => i - 1 \in 1 .. n /\ ids[i - 1] \in T \ {m}
      BY <2>1, <3>4
    <3>6. new \in [1 .. n + 1 -> T]
      BY <3>5
    <3>7. ASSUME NEW i \in 1 .. n + 1, NEW j \in 1 .. n + 1, i < j PROVE new[i] < new[j]
      <4>1. j # 1 /\ j - 1 \in 1 .. n /\ new[j] = ids[j - 1] /\ new[j] \in T \ {m}
        BY <2>1, <3>5, <3>7
      <4>2. CASE i = 1
        <5>1. new[i] = m /\ m \in Nat /\ new[j] \in Nat /\ m <= new[j] /\ new[j] # m
          BY <3>2, <4>1, <4>2
        <5> QED
          BY <5>1
      <4>3. CASE i # 1
        <5>1. new[i] = ids[i - 1] /\ i - 1 \in 1 .. n /\ i - 1 < j - 1
          BY <2>1, <3>5, <3>7, <4>3
        <5> QED
          BY <3>4, <4>1, <5>1 DEF Ordered
      <4> QED
        BY <4>2, <4>3
    <3> HIDE DEF new
    <3> QED
      BY <3>6, <3>7 DEF Ordered
  <2> QED
    BY <2>1, <2>2
<1> HIDE DEF E
<1>4. 0 .. N \subseteq E
  <2> HIDE DEF N
  <2> QED
    BY <1>1, <1>2, <1>3, Counting
<1>5. N \in E
  BY <1>1, <1>4
<1> QED
  BY <1>5 DEF E

\* InOrder lists each product once.
LEMMA InOrderFacts ==
  ASSUME NEW S \in SUBSET Nat, IsFiniteSet(S)
  PROVE  /\ Cardinality(S) \in Nat
         /\ InOrder(S) \in [1 .. Cardinality(S) -> S]
         /\ \A i, j \in 1 .. Cardinality(S) : i < j => InOrder(S)[i] < InOrder(S)[j]
         /\ \A p \in S : \E i \in 1 .. Cardinality(S) : InOrder(S)[i] = p
<1> DEFINE N == Cardinality(S)
           ids == InOrder(S)
<1>1. N \in Nat
  BY FS_CardinalityType
<1>2. \E f \in [1 .. N -> S] : \A i, j \in DOMAIN f : i < j => f[i] < f[j]
  <2>1. PICK f \in [1 .. N -> S] : Ordered(f, N)
    BY OrderExists
  <2>2. DOMAIN f = 1 .. N
    OBVIOUS
  <2> QED
    BY <2>1, <2>2 DEF Ordered
<1>3. ids \in [1 .. N -> S] /\ \A i, j \in DOMAIN ids : i < j => ids[i] < ids[j]
  BY <1>2 DEF InOrder
<1> HIDE DEF ids, N
<1>4. DOMAIN ids = 1 .. N
  BY <1>3
<1>5. ids \in Injection(1 .. N, S)
  <2>1. ASSUME NEW i \in 1 .. N, NEW j \in 1 .. N, ids[i] = ids[j] PROVE i = j
    <3>1. ids[i] \in S /\ ids[j] \in S /\ i \in Int /\ j \in Int
      BY <1>1, <1>3
    <3>2. ids[i] \in Nat /\ ids[j] \in Nat
      BY <3>1
    <3>3. ~ (i < j) /\ ~ (j < i)
      BY <1>3, <1>4, <2>1, <3>2
    <3> QED
      BY <3>1, <3>3
  <2> QED
    BY <1>3, <1>4, <2>1 DEF Injection, IsInjective
<1>6. Cardinality(1 .. N) = N
  BY <1>1, FS_Interval
<1>7. ids \in Surjection(1 .. N, S)
  BY <1>5, <1>6, FS_Injection DEF N
<1>8. \A p \in S : \E i \in 1 .. N : ids[i] = p
  BY <1>7 DEF Surjection
<1> QED
  BY <1>1, <1>3, <1>4, <1>8 DEF ids, N

-----------------------------------------------------------------------------
(* Category paths.                                                         *)

\* The category that would be added to the path u of c, and the path after it.
Above(tree, c, u) == IF u = <<>> THEN c ELSE tree[Head(u)]

Longer(tree, c, u) ==
    LET next == Above(tree, c, u)
    IN  IF next \notin DOMAIN tree \/ Visited(u, next) THEN u ELSE <<next>> \o u

Walk(tree, c) ==
    CHOOSE walk : walk = [n \in 0 .. Cardinality(DOMAIN tree) + 1 |->
       IF n = 0 THEN <<>>
       ELSE LET path == walk[n - 1]
                next == IF path = <<>> THEN c ELSE tree[Head(path)]
            IN  IF next \notin DOMAIN tree \/ Visited(path, next) THEN path
                ELSE <<next>> \o path]

LEMMA PathWalk ==
  ASSUME NEW tree, NEW c
  PROVE  Path(tree, c) = Walk(tree, c)[Cardinality(DOMAIN tree) + 1]
  BY DEF Path, Walk

LEMMA LongerType ==
  ASSUME NEW tree, NEW c, NEW u \in Seq(DOMAIN tree)
  PROVE  Longer(tree, c, u) \in Seq(DOMAIN tree)
<1>1. CASE Above(tree, c, u) \in DOMAIN tree
  <2>1. <<Above(tree, c, u)>> \o u \in Seq(DOMAIN tree)
    BY <1>1
  <2> QED
    BY <2>1 DEF Longer
<1>2. CASE Above(tree, c, u) \notin DOMAIN tree
  BY <1>2 DEF Longer
<1> QED
  BY <1>1, <1>2

LEMMA WalkSteps ==
  ASSUME NEW tree, NEW c, IsFiniteSet(DOMAIN tree)
  PROVE  /\ Walk(tree, c)[0] = <<>>
         /\ \A n \in 1 .. Cardinality(DOMAIN tree) + 1 :
               Walk(tree, c)[n] = Longer(tree, c, Walk(tree, c)[n - 1])
<1> DEFINE N == Cardinality(DOMAIN tree) + 1
           A == Seq(DOMAIN tree)
           a == <<>>
           g == [n \in 1 .. N |-> [u \in A |-> Longer(tree, c, u)]]
           W == Walk(tree, c)
<1>1. N \in Nat
  BY FS_CardinalityType
<1>2. a \in A /\ g \in Steppers(N, A)
  BY LongerType DEF Steppers
<1>3. \A n \in 1 .. N, u \in A : g[n][u] = Longer(tree, c, u)
  OBVIOUS
<1> HIDE DEF A, g, N
<1>4. PICK h \in [0 .. N -> A] : Follows(h, g, N, a)
  <2> HIDE DEF a
  <2> QED
    BY <1>1, <1>2, Recursion
<1>5. \A n \in 1 .. N : h[n] = Longer(tree, c, h[n - 1])
  <2>1. \A n \in 1 .. N : n - 1 \in 0 .. N
    BY <1>1
  <2> QED
    BY <1>3, <1>4, <2>1 DEF Follows
<1>6. \A n \in 0 .. N : h[n] = IF n = 0 THEN <<>> ELSE Longer(tree, c, h[n - 1])
  <2>1. \A n \in 0 .. N : n = 0 \/ n \in 1 .. N
    BY <1>1
  <2> QED
    BY <1>4, <1>5, <2>1 DEF Follows
<1>7. h = [n \in 0 .. N |-> IF n = 0 THEN <<>> ELSE Longer(tree, c, h[n - 1])]
  <2>1. h = [n \in 0 .. N |-> h[n]]
    BY <1>4
  <2> QED
    BY <1>6, <2>1, Zenon
<1>8. W = [n \in 0 .. N |-> IF n = 0 THEN <<>> ELSE Longer(tree, c, W[n - 1])]
  BY <1>7 DEF Walk, Longer, Above, N
<1> HIDE DEF W
<1>9. W[0] = <<>> /\ \A n \in 1 .. N : W[n] = Longer(tree, c, W[n - 1])
  <2>1. 0 \in 0 .. N /\ \A n \in 1 .. N : n \in 0 .. N /\ n # 0
    BY <1>1
  <2> QED
    BY <1>8, <2>1
<1> QED
  BY <1>9 DEF W, N

\* A path in the making: up from c, nothing twice.
Upward(tree, c, u) ==
    /\ u \in Seq(DOMAIN tree)
    /\ \A i, j \in 1 .. Len(u) : u[i] = u[j] => i = j
    /\ \A i \in 1 .. Len(u) - 1 : tree[u[i + 1]] = u[i]
    /\ u # <<>> => u[Len(u)] = c

\* A path that nothing can be added to.
Ended(tree, c, u) ==
    Above(tree, c, u) \notin DOMAIN tree \/ Visited(u, Above(tree, c, u))

LEMMA LongerUpward ==
  ASSUME NEW tree, NEW c, NEW u, Upward(tree, c, u), ~Ended(tree, c, u)
  PROVE  /\ Upward(tree, c, Longer(tree, c, u))
         /\ Len(Longer(tree, c, u)) = Len(u) + 1
<1> DEFINE next == Above(tree, c, u)
           v == <<next>> \o u
<1>1. next \in DOMAIN tree /\ Longer(tree, c, u) = v
  BY DEF Ended, Longer
<1>2. u \in Seq(DOMAIN tree) /\ Len(u) \in Nat
  BY DEF Upward
<1>3. \A i \in 1 .. Len(u) : u[i] # next
  BY <1>2 DEF Ended, Visited, Contains
<1> HIDE DEF next
<1>4. /\ v \in Seq(DOMAIN tree) /\ Len(v) = Len(u) + 1 /\ v[1] = next
      /\ \A i \in 1 .. Len(u) : v[i + 1] = u[i]
  BY <1>1, <1>2
<1> HIDE DEF v
<1>5. \A i \in 1 .. Len(u) + 1 : i = 1 \/ (i - 1 \in 1 .. Len(u) /\ v[i] = u[i - 1])
  <2>1. ASSUME NEW i \in 1 .. Len(u) + 1, i # 1 PROVE i - 1 \in 1 .. Len(u) /\ v[i] = u[i - 1]
    <3>1. i - 1 \in 1 .. Len(u) /\ (i - 1) + 1 = i
      BY <1>2, <2>1
    <3> QED
      BY <1>4, <3>1
  <2> QED
    BY <2>1
<1>6. ASSUME NEW i \in 1 .. Len(v), NEW j \in 1 .. Len(v), v[i] = v[j] PROVE i = j
  <2>1. i \in 1 .. Len(u) + 1 /\ j \in 1 .. Len(u) + 1 /\ i \in Int /\ j \in Int
    BY <1>2, <1>4
  <2>2. CASE i = 1 /\ j # 1
    BY <1>3, <1>4, <1>5, <1>6, <2>1, <2>2
  <2>3. CASE i # 1 /\ j = 1
    BY <1>3, <1>4, <1>5, <1>6, <2>1, <2>3
  <2>4. CASE i # 1 /\ j # 1
    <3>1. u[i - 1] = u[j - 1] /\ i - 1 \in 1 .. Len(u) /\ j - 1 \in 1 .. Len(u)
      BY <1>5, <1>6, <2>1, <2>4
    <3>2. i - 1 = j - 1
      BY <3>1 DEF Upward
    <3> QED
      BY <2>1, <3>2
  <2> QED
    BY <2>2, <2>3, <2>4
<1>7. ASSUME NEW i \in 1 .. Len(v) - 1 PROVE tree[v[i + 1]] = v[i]
  <2>1. i \in 1 .. Len(u) /\ v[i + 1] = u[i]
    BY <1>2, <1>4
  <2>2. CASE i = 1
    <3>1. u # <<>> /\ Head(u) = u[1]
      BY <1>2, <2>1, <2>2
    <3> QED
      BY <1>4, <2>1, <2>2, <3>1 DEF next, Above
  <2>3. CASE i # 1
    <3>1. i - 1 \in 1 .. Len(u) - 1 /\ (i - 1) + 1 = i /\ v[i] = u[i - 1]
      BY <1>2, <1>4, <1>5, <2>1, <2>3
    <3>2. tree[u[(i - 1) + 1]] = u[i - 1]
      BY <3>1 DEF Upward
    <3> QED
      BY <2>1, <3>1, <3>2
  <2> QED
    BY <2>2, <2>3
<1>8. v[Len(v)] = c
  <2>1. CASE u = <<>>
    BY <1>4, <2>1 DEF next, Above
  <2>2. CASE u # <<>>
    <3>1. Len(u) \in 1 .. Len(u) /\ u[Len(u)] = c
      BY <1>2, <2>2 DEF Upward
    <3> QED
      BY <1>4, <3>1
  <2> QED
    BY <2>1, <2>2
<1> QED
  BY <1>1, <1>4, <1>6, <1>7, <1>8 DEF Upward

\* However the tree looks, its walk ends within its number of categories.
LEMMA PathEnds ==
  ASSUME NEW tree, NEW c, IsFiniteSet(DOMAIN tree)
  PROVE  Upward(tree, c, Path(tree, c)) /\ Ended(tree, c, Path(tree, c))
<1> DEFINE N == Cardinality(DOMAIN tree) + 1
           W == Walk(tree, c)
           E == {n \in 0 .. N : /\ Upward(tree, c, W[n])
                                /\ Len(W[n]) = n \/ Ended(tree, c, W[n])}
<1>1. N \in Nat /\ Cardinality(DOMAIN tree) \in Nat
  BY FS_CardinalityType
<1>2. W[0] = <<>> /\ \A n \in 1 .. N : W[n] = Longer(tree, c, W[n - 1])
  BY WalkSteps
<1>3. Path(tree, c) = W[N]
  BY PathWalk
<1> HIDE DEF W
<1>4. 0 \in E
  <2>1. Upward(tree, c, <<>>) /\ Len(<<>>) = 0
    BY DEF Upward
  <2> QED
    BY <1>1, <1>2, <2>1
<1>5. ASSUME NEW n \in 0 .. N, n \in E, n < N PROVE n + 1 \in E
  <2>1. n + 1 \in 0 .. N /\ n + 1 \in 1 .. N /\ (n + 1) - 1 = n
    BY <1>1, <1>5
  <2>2. W[n + 1] = Longer(tree, c, W[n])
    BY <1>2, <2>1
  <2>3. CASE Ended(tree, c, W[n])
    <3>1. W[n + 1] = W[n]
      BY <2>2, <2>3 DEF Longer, Ended
    <3> QED
      BY <1>5, <2>1, <2>3, <3>1
  <2>4. CASE ~Ended(tree, c, W[n])
    <3>1. Upward(tree, c, W[n]) /\ Len(W[n]) = n
      BY <1>5, <2>4
    <3>2. Upward(tree, c, W[n + 1]) /\ Len(W[n + 1]) = n + 1
      BY <2>2, <2>4, <3>1, LongerUpward
    <3> QED
      BY <2>1, <3>2
  <2> QED
    BY <2>3, <2>4
<1> HIDE DEF E
<1>6. 0 .. N \subseteq E
  <2> HIDE DEF N
  <2> QED
    BY <1>1, <1>4, <1>5, Counting
<1>7. N \in E
  BY <1>1, <1>6
<1>8. Upward(tree, c, W[N]) /\ (Len(W[N]) = N \/ Ended(tree, c, W[N]))
  BY <1>7 DEF E
<1>9. ASSUME Len(W[N]) = N PROVE FALSE
  <2> DEFINE u == W[N]
  <2>1. u \in [1 .. N -> DOMAIN tree] /\ \A i, j \in 1 .. N : u[i] = u[j] => i = j
    BY <1>8, <1>9 DEF Upward
  <2> HIDE DEF u
  <2>2. IsFiniteSet(1 .. N) /\ Cardinality(1 .. N) = N
    BY <1>1, FS_Interval
  <2>3. Cardinality(DOMAIN tree) < Cardinality(1 .. N)
    BY <1>1, <2>2
  <2> HIDE DEF N
  <2>4. \E x, y \in 1 .. N : x # y /\ u[x] = u[y]
    BY <2>1, <2>2, <2>3, FS_PigeonHole
  <2> QED
    BY <2>1, <2>4
<1> QED
  BY <1>3, <1>8, <1>9

-----------------------------------------------------------------------------
(* The inductive invariant.                                                *)

IsList(s) == s \in Seq(Range(s))

DatabaseInv ==
    /\ DOMAIN rows = Tables
    /\ State(rows, category, parent) \in seen
    /\ \A state \in seen :
          /\ \A t \in Tables : IsList(state.rows[t])
          /\ DOMAIN state.category \subseteq Products
          /\ DOMAIN state.parent \subseteq Categories

\* Some state of the call had what was read.
FoundInv ==
    /\ DOMAIN found \subseteq asked /\ asked \subseteq Products
    /\ \A p \in DOMAIN found : \E state \in seen :
          p \in DOMAIN state.category /\ state.category[p] = found[p]

WasRead(t) == \E state \in seen : got[t] = RowsOf(state.rows[t], DOMAIN found)

GotInv ==
    /\ DOMAIN got = Tables
    /\ pc \in {"weights", "steps", "taxonomy", "head", "packaging"} => WasRead("materials")
    /\ pc \in {"steps", "taxonomy", "head", "packaging"} => WasRead("weights")
    /\ pc \in {"taxonomy", "head", "packaging"} => WasRead("steps")
    /\ pc \in Reading => got["packaging"] = <<>>

PathsInv ==
    \A c \in DOMAIN paths : \E state \in seen : paths[c] = Path(state.parent, c)

\* What EveryPartWasTrue says of one input.
PartsTrue(input) ==
    LET own(state, t) == Own(state.rows[t], input.product)
    IN  /\ \E s \in seen : input.materials = ExtractMaterials(own(s, "materials"))
        /\ \E s \in seen : /\ input.weight = WeightOf(own(s, "weights"))
                           /\ input.unit = UnitOf(own(s, "weights"))
        /\ \E s \in seen : /\ input.transport = Transport(own(s, "steps"))
                           /\ input.steps = Steps(own(s, "steps"))
        /\ input.packaging = <<>> \/ \E s \in seen : input.packaging = own(s, "packaging")
        /\ \E s \in seen : /\ input.product \in DOMAIN s.category
                           /\ s.category[input.product] = found[input.product]

CompleteInv ==
    /\ IsList(inputs)
    /\ \A i \in DOMAIN inputs : PartsTrue(inputs[i]) /\ inputs[i].product \in DOMAIN found
    /\ \A p \in DOMAIN found : \E i \in DOMAIN inputs : inputs[i].product = p
    /\ \A i, j \in DOMAIN inputs : i < j => inputs[i].product < inputs[j].product

InputsInv == IF pc \in {"map", "done"} THEN CompleteInv ELSE inputs = <<>>

RecordsInv ==
    records = IF pc = "done" THEN [i \in DOMAIN inputs |-> Record(inputs[i])] ELSE <<>>

IndInv ==
    /\ DatabaseInv /\ FoundInv /\ GotInv /\ PathsInv
    /\ InputsInv /\ RecordsInv /\ RefusedForOwnRow

LEMMA PartsAreTrue == (\A input \in Range(inputs) : PartsTrue(input)) <=> EveryPartWasTrue
  BY DEF PartsTrue, EveryPartWasTrue

LEMMA ListFacts ==
  ASSUME NEW R, NEW s \in Seq(R)
  PROVE  IsList(s)
<1>1. Len(s) \in Nat /\ DOMAIN s = 1 .. Len(s) /\ s = [i \in 1 .. Len(s) |-> s[i]]
  OBVIOUS
<1>2. s \in [1 .. Len(s) -> Range(s)]
  BY <1>1 DEF Range
<1> QED
  BY <1>1, <1>2 DEF IsList

LEMMA RowsOfList ==
  ASSUME NEW s, IsList(s), NEW P
  PROVE  IsList(RowsOf(s, P))
  BY KeepType, ListFacts DEF IsList, RowsOf

\* The rows that were read of one product are those it had.
LEMMA OwnOfRead ==
  ASSUME NEW s, IsList(s), NEW P, NEW p \in P
  PROVE  Own(RowsOf(s, P), p) = Own(s, p)
<1>1. {p} \subseteq P
  OBVIOUS
<1> QED
  BY <1>1, RowsOfSome DEF IsList, Own

LEMMA ProductsFinite ==
  ASSUME DatabaseInv
  PROVE  /\ IsFiniteSet(DOMAIN category) /\ DOMAIN category \subseteq Nat
         /\ IsFiniteSet(DOMAIN parent)
<1>1. DOMAIN category \subseteq Products /\ DOMAIN parent \subseteq Categories
  <2>1. State(rows, category, parent) \in seen
    BY DEF DatabaseInv
  <2>2. /\ State(rows, category, parent).category = category
        /\ State(rows, category, parent).parent = parent
    BY DEF State
  <2> QED
    BY <2>1, <2>2 DEF DatabaseInv
<1> QED
  BY <1>1, ProductsAssumption, CategoryAssumption, FS_Subset

LEMMA ListEdits ==
  ASSUME NEW s, IsList(s)
  PROVE  /\ Len(s) \in Nat /\ DOMAIN s = 1 .. Len(s)
         /\ \A r : \A i \in 1 .. Len(s) + 1 : IsList(InsertAt(s, i, r))
         /\ \A i \in DOMAIN s : IsList(RemoveAt(s, i))
<1>1. s \in Seq(Range(s)) /\ Len(s) \in Nat /\ DOMAIN s = 1 .. Len(s)
  BY DEF IsList
<1>2. ASSUME NEW r, NEW i \in 1 .. Len(s) + 1 PROVE IsList(InsertAt(s, i, r))
  <2> DEFINE R == Range(s) \cup {r}
  <2>1. s \in Seq(R) /\ <<r>> \in Seq(R)
    BY <1>1
  <2> HIDE DEF R
  <2>2. SubSeq(s, 1, i - 1) \in Seq(R) /\ SubSeq(s, i, Len(s)) \in Seq(R)
    BY <1>1, <2>1, SubSeqProperties
  <2>3. InsertAt(s, i, r) \in Seq(R)
    BY <2>1, <2>2 DEF InsertAt
  <2> QED
    BY <2>3, ListFacts
<1>3. ASSUME NEW i \in DOMAIN s PROVE IsList(RemoveAt(s, i))
  <2>1. SubSeq(s, 1, i - 1) \in Seq(Range(s)) /\ SubSeq(s, i + 1, Len(s)) \in Seq(Range(s))
    BY <1>1, SubSeqProperties
  <2>2. RemoveAt(s, i) \in Seq(Range(s))
    BY <2>1 DEF RemoveAt
  <2> QED
    BY <2>2, ListFacts
<1> QED
  BY <1>1, <1>2, <1>3

LEMMA UnmigratedLists ==
  ASSUME NEW r, DOMAIN r = Tables, \A t \in Tables : IsList(r[t])
  PROVE  DOMAIN Unmigrated(r) = Tables /\ \A t \in Tables : IsList(Unmigrated(r)[t])
<1> DEFINE s == r["steps"]
           u == [i \in DOMAIN s |-> [s[i] EXCEPT !.km = Null]]
<1>1. IsList(<<>>)
  <2>1. <<>> \in Seq({})
    OBVIOUS
  <2> QED
    BY <2>1, ListFacts
<1>2. IsList(u)
  <2>1. Len(s) \in Nat /\ DOMAIN s = 1 .. Len(s)
    BY ListEdits DEF Tables
  <2>2. u \in Seq({[s[i] EXCEPT !.km = Null] : i \in DOMAIN s})
    BY <2>1
  <2> HIDE DEF u
  <2> QED
    BY <2>2, ListFacts
<1> HIDE DEF u
<1>3. Unmigrated(r) = [r EXCEPT !["packaging"] = <<>>, !["steps"] = u]
  BY DEF Unmigrated, u, Tables
<1> QED
  BY <1>1, <1>2, <1>3 DEF Tables

-----------------------------------------------------------------------------
(* Initial states and edits.                                               *)

LEMMA Initially == ASSUME Init PROVE IndInv
<1>1. DOMAIN rows = Tables /\ \A t \in Tables : IsList(rows[t])
  <2>1. DOMAIN StartRows = Tables /\ \A t \in Tables : IsList(StartRows[t])
    BY RowsAssumption DEF IsList
  <2> QED
    BY <2>1, UnmigratedLists DEF Init
<1>2. DatabaseInv
  <2>1. seen = {State(rows, category, parent)}
    BY DEF Init
  <2>2. DOMAIN category = Products /\ DOMAIN parent = Categories
    BY CategoryAssumption DEF Init
  <2>3. /\ State(rows, category, parent).rows = rows
        /\ State(rows, category, parent).category = category
        /\ State(rows, category, parent).parent = parent
    BY DEF State
  <2> QED
    BY <1>1, <2>1, <2>2, <2>3 DEF DatabaseInv
<1>3. FoundInv
  BY DEF Init, FoundInv
<1>4. GotInv
  BY DEF Init, GotInv, Tables
<1>5. PathsInv /\ InputsInv /\ RecordsInv /\ RefusedForOwnRow
  BY DEF Init, PathsInv, InputsInv, RecordsInv, RefusedForOwnRow
<1> QED
  BY <1>2, <1>3, <1>4, <1>5 DEF IndInv

\* An edit adds a state to those of the call and undoes nothing that was read.
LEMMA EditedStep ==
  ASSUME IndInv, NEW r, NEW c, NEW t, Edited(r, c, t),
         DOMAIN r = Tables, \A k \in Tables : IsList(r[k]),
         DOMAIN c \subseteq Products, DOMAIN t \subseteq Categories
  PROVE  IndInv'
<1>1. /\ pc \in Reading /\ pc' = pc /\ rows' = r /\ category' = c /\ parent' = t
      /\ seen' = seen \cup {State(r, c, t)}
      /\ UNCHANGED <<asked, found, got, paths, inputs, records>>
  BY DEF Edited, answers
<1>2. DatabaseInv'
  <2>1. State(r, c, t).rows = r /\ State(r, c, t).category = c /\ State(r, c, t).parent = t
    BY DEF State
  <2>2. State(rows, category, parent)' = State(r, c, t)
    BY <1>1 DEF State
  <2> HIDE DEF State
  <2> QED
    BY <1>1, <2>1, <2>2 DEF IndInv, DatabaseInv
<1>3. FoundInv'
  BY <1>1 DEF IndInv, FoundInv
<1>4. GotInv'
  <2>1. \A k \in Tables : WasRead(k) => WasRead(k)'
    BY <1>1 DEF WasRead
  <2> QED
    BY <1>1, <2>1 DEF IndInv, GotInv, Tables
<1>5. PathsInv'
  BY <1>1 DEF IndInv, PathsInv
<1>6. pc \notin {"map", "done", "invalid"}
  BY <1>1 DEF Reading, Tables
<1>7. InputsInv' /\ RecordsInv' /\ RefusedForOwnRow'
  BY <1>1, <1>6 DEF IndInv, InputsInv, RecordsInv, RefusedForOwnRow
<1> QED
  BY <1>2, <1>3, <1>4, <1>5, <1>7 DEF IndInv

LEMMA EditStep ==
  ASSUME IndInv, Edit
  PROVE  IndInv'
<1>1. /\ DOMAIN rows = Tables /\ \A t \in Tables : IsList(rows[t])
      /\ DOMAIN category \subseteq Products /\ DOMAIN parent \subseteq Categories
  <2>1. State(rows, category, parent) \in seen
    BY DEF IndInv, DatabaseInv
  <2>2. /\ State(rows, category, parent).rows = rows
        /\ State(rows, category, parent).category = category
        /\ State(rows, category, parent).parent = parent
    BY DEF State
  <2> QED
    BY <2>1, <2>2 DEF IndInv, DatabaseInv
<1>2. ASSUME NEW k \in Tables, NEW s, IsList(s), Edited([rows EXCEPT ![k] = s], category, parent)
      PROVE  IndInv'
  <2>1. /\ DOMAIN [rows EXCEPT ![k] = s] = Tables
        /\ \A t \in Tables : IsList([rows EXCEPT ![k] = s][t])
    BY <1>1, <1>2
  <2> QED
    BY <1>1, <1>2, <2>1, EditedStep
<1>3. ASSUME NEW k \in Tables, RemoveRow(k) PROVE IndInv'
  <2>1. PICK i \in DOMAIN rows[k] : Edited([rows EXCEPT ![k] = RemoveAt(@, i)], category, parent)
    BY <1>3 DEF RemoveRow
  <2>2. [rows EXCEPT ![k] = RemoveAt(@, i)] = [rows EXCEPT ![k] = RemoveAt(rows[k], i)]
    BY <1>1
  <2>3. IsList(RemoveAt(rows[k], i))
    BY <1>1, ListEdits
  <2> QED
    BY <1>2, <2>1, <2>2, <2>3
<1>4. ASSUME NEW k \in Tables, NEW r, WriteRow(k, r) PROVE IndInv'
  <2>1. Len(rows[k]) \in Nat
    BY <1>1, ListEdits
  <2>2. PICK i \in 1 .. Len(rows[k]) + 1 :
           Edited([rows EXCEPT ![k] = InsertAt(@, i, r)], category, parent)
    BY <1>4, <2>1 DEF WriteRow
  <2>3. [rows EXCEPT ![k] = InsertAt(@, i, r)] = [rows EXCEPT ![k] = InsertAt(rows[k], i, r)]
    BY <1>1
  <2>4. IsList(InsertAt(rows[k], i, r))
    BY <1>1, ListEdits
  <2> QED
    BY <1>2, <2>2, <2>3, <2>4
<1>5. ASSUME NEW p \in Products, DeleteProduct(p) PROVE IndInv'
  <2> DEFINE r == [t \in Tables |-> RowsOf(rows[t], Products \ {p})]
             c == [q \in DOMAIN category \ {p} |-> category[q]]
  <2>1. DOMAIN r = Tables /\ \A t \in Tables : IsList(r[t])
    BY <1>1, RowsOfList
  <2>2. DOMAIN c \subseteq Products
    BY <1>1
  <2>3. Edited(r, c, parent)
    BY <1>5 DEF DeleteProduct
  <2> HIDE DEF r, c
  <2> QED
    BY <1>1, <2>1, <2>2, <2>3, EditedStep
<1>6. ASSUME NEW p \in Products, MoveProduct(p) PROVE IndInv'
  <2>1. PICK d : Edited(rows, [category EXCEPT ![p] = d], parent)
    BY <1>6 DEF MoveProduct
  <2>2. DOMAIN [category EXCEPT ![p] = d] \subseteq Products
    BY <1>1
  <2> QED
    BY <1>1, <2>1, <2>2, EditedStep
<1>7. ASSUME NEW c \in Categories, Reparent(c) PROVE IndInv'
  <2>1. PICK d : Edited(rows, category, [parent EXCEPT ![c] = d])
    BY <1>7 DEF Reparent
  <2>2. DOMAIN [parent EXCEPT ![c] = d] \subseteq Categories
    BY <1>1
  <2> QED
    BY <1>1, <2>1, <2>2, EditedStep
<1>8. ASSUME NEW c \in Categories, RemoveCategory(c) PROVE IndInv'
  <2> DEFINE t == [d \in DOMAIN parent \ {c} |-> parent[d]]
  <2>1. Edited(rows, category, t)
    BY <1>8 DEF RemoveCategory
  <2>2. DOMAIN t \subseteq Categories
    BY <1>1
  <2> HIDE DEF t
  <2> QED
    BY <1>1, <2>1, <2>2, EditedStep
<1>9. CASE Migrate
  <2>1. Edited(Unmigrated(rows), category, parent)
    BY <1>9 DEF Migrate
  <2> QED
    BY <1>1, <2>1, UnmigratedLists, EditedStep
<1> QED
  BY <1>3, <1>4, <1>5, <1>6, <1>7, <1>8, <1>9 DEF Edit

-----------------------------------------------------------------------------
(* The assembly.                                                           *)

\* What the selects returned was there, the optional packaging apart.
Ready(g) ==
    /\ \A t \in {"materials", "weights", "steps"} : \E state \in seen :
          g[t] = RowsOf(state.rows[t], DOMAIN found)
    /\ \/ g["packaging"] = <<>>
       \/ \E state \in seen : g["packaging"] = RowsOf(state.rows["packaging"], DOMAIN found)

LEMMA OwnParts ==
  ASSUME DatabaseInv, NEW g, Ready(g), NEW p \in DOMAIN found
  PROVE  /\ \A t \in {"materials", "weights", "steps"} : \E state \in seen :
               Own(g[t], p) = Own(state.rows[t], p)
         /\ \/ Own(g["packaging"], p) = <<>>
            \/ \E state \in seen : Own(g["packaging"], p) = Own(state.rows["packaging"], p)
<1>1. \A state \in seen, t \in Tables :
         Own(RowsOf(state.rows[t], DOMAIN found), p) = Own(state.rows[t], p)
  <2>1. ASSUME NEW state \in seen, NEW t \in Tables
        PROVE  Own(RowsOf(state.rows[t], DOMAIN found), p) = Own(state.rows[t], p)
    <3>1. IsList(state.rows[t])
      BY DEF DatabaseInv
    <3> QED
      BY <3>1, OwnOfRead
  <2> QED
    BY <2>1
<1>2. Own(<<>>, p) = <<>>
  BY KeepEmpty DEF Own, RowsOf
<1> QED
  BY <1>1, <1>2 DEF Ready, Tables

\* No part of an input is made up.
LEMMA InputParts ==
  ASSUME DatabaseInv, FoundInv, NEW g, Ready(g), NEW p \in DOMAIN found, NEW path
  PROVE  PartsTrue(ProductInput(p, path, g))
<1> DEFINE input == ProductInput(p, path, g)
<1>1. /\ input.product = p
      /\ input.materials = ExtractMaterials(Own(g["materials"], p))
      /\ input.weight = WeightOf(Own(g["weights"], p))
      /\ input.unit = UnitOf(Own(g["weights"], p))
      /\ input.steps = Steps(Own(g["steps"], p))
      /\ input.transport = Transport(Own(g["steps"], p))
      /\ input.packaging = Own(g["packaging"], p)
  BY DEF ProductInput, Grouped
<1> HIDE DEF input
<1>2. PICK s \in seen : Own(g["materials"], p) = Own(s.rows["materials"], p)
  BY OwnParts
<1>3. PICK u \in seen : Own(g["weights"], p) = Own(u.rows["weights"], p)
  BY OwnParts
<1>4. PICK v \in seen : Own(g["steps"], p) = Own(v.rows["steps"], p)
  BY OwnParts
<1>5. \/ Own(g["packaging"], p) = <<>>
      \/ \E w \in seen : Own(g["packaging"], p) = Own(w.rows["packaging"], p)
  BY OwnParts
<1>6. \E w \in seen : p \in DOMAIN w.category /\ w.category[p] = found[p]
  BY DEF FoundInv
<1>7. input.materials = ExtractMaterials(Own(s.rows["materials"], input.product))
  BY <1>1, <1>2
<1>8. /\ input.weight = WeightOf(Own(u.rows["weights"], input.product))
      /\ input.unit = UnitOf(Own(u.rows["weights"], input.product))
  BY <1>1, <1>3
<1>9. /\ input.transport = Transport(Own(v.rows["steps"], input.product))
      /\ input.steps = Steps(Own(v.rows["steps"], input.product))
  BY <1>1, <1>4
<1>10. \/ input.packaging = <<>>
       \/ \E w \in seen : input.packaging = Own(w.rows["packaging"], input.product)
  BY <1>1, <1>5
<1>11. \E w \in seen : /\ input.product \in DOMAIN w.category
                       /\ w.category[input.product] = found[input.product]
  BY <1>1, <1>6
<1>12. PartsTrue(input)
  BY <1>7, <1>8, <1>9, <1>10, <1>11, Zenon DEF PartsTrue
<1> QED
  BY <1>12 DEF input

\* An input is refused for a number that a row of the product had.
LEMMA InputRefused ==
  ASSUME DatabaseInv, NEW g, Ready(g), NEW p \in DOMAIN found, NEW path,
         ~Valid(ProductInput(p, path, g))
  PROVE  \E state \in seen : ~Valid(ProductInput(p, <<>>, state.rows))
<1> DEFINE input == ProductInput(p, path, g)
           had(state) == ProductInput(p, <<>>, state.rows)
<1>1. /\ input.materials = ExtractMaterials(Own(g["materials"], p))
      /\ input.weight = WeightOf(Own(g["weights"], p))
      /\ input.transport = Transport(Own(g["steps"], p))
  BY DEF ProductInput, Grouped
<1>2. \A state \in seen :
         /\ had(state).materials = ExtractMaterials(Own(state.rows["materials"], p))
         /\ had(state).weight = WeightOf(Own(state.rows["weights"], p))
         /\ had(state).transport = Transport(Own(state.rows["steps"], p))
  BY DEF ProductInput, Grouped
<1>3. ~Valid(input)
  OBVIOUS
<1> HIDE DEF input, had
<1>4. PICK s \in seen : input.materials = had(s).materials
  BY <1>1, <1>2, OwnParts
<1>5. PICK u \in seen : input.weight = had(u).weight
  BY <1>1, <1>2, OwnParts
<1>6. PICK v \in seen : input.transport = had(v).transport
  BY <1>1, <1>2, OwnParts
<1>7. ~Valid(had(s)) \/ ~Valid(had(u)) \/ ~Valid(had(v))
  <2>1. CASE ~ (\A m \in Range(input.materials) : m.percentage \in 0 .. 100)
    BY <1>4, <2>1, Zenon DEF Valid
  <2>2. CASE ~ (input.weight = Null \/ input.weight >= 0)
    BY <1>5, <2>2, Zenon DEF Valid
  <2>3. CASE ~ (input.transport = Null \/ input.transport >= 0)
    BY <1>6, <2>3, Zenon DEF Valid
  <2> QED
    BY <1>3, <2>1, <2>2, <2>3, Zenon DEF Valid
<1> QED
  BY <1>4, <1>5, <1>6, <1>7 DEF had

\* One input for each product found, in their order.
LEMMA AssembledParts ==
  ASSUME DatabaseInv, FoundInv, NEW g
  PROVE  /\ \A i \in DOMAIN Assembled(g) : \E p \in DOMAIN found : \E path :
               Assembled(g)[i] = ProductInput(p, path, g) /\ Assembled(g)[i].product = p
         /\ IsList(Assembled(g))
         /\ \A p \in DOMAIN found : \E i \in DOMAIN Assembled(g) : Assembled(g)[i].product = p
         /\ \A i, j \in DOMAIN Assembled(g) :
               i < j => Assembled(g)[i].product < Assembled(g)[j].product
<1> DEFINE N == Cardinality(DOMAIN found)
           ids == InOrder(DOMAIN found)
           path(p) == IF found[p] = None THEN <<>> ELSE paths[found[p]]
           all == Assembled(g)
<1>1. IsFiniteSet(DOMAIN found) /\ DOMAIN found \in SUBSET Nat
  BY ProductsAssumption, FS_Subset DEF FoundInv
<1>2. /\ N \in Nat /\ ids \in [1 .. N -> DOMAIN found]
      /\ \A i, j \in 1 .. N : i < j => ids[i] < ids[j]
      /\ \A p \in DOMAIN found : \E i \in 1 .. N : ids[i] = p
  BY <1>1, InOrderFacts
<1>3. all = [i \in DOMAIN ids |-> ProductInput(ids[i], path(ids[i]), g)]
  BY DEF Assembled
<1> HIDE DEF N, ids, all, path
<1>4. DOMAIN ids = 1 .. N
  BY <1>2
<1>5. DOMAIN all = 1 .. N /\ \A i \in 1 .. N : all[i] = ProductInput(ids[i], path(ids[i]), g)
  BY <1>3, <1>4
<1>6. \A p, q : ProductInput(p, q, g).product = p
  BY DEF ProductInput
<1>7. \A i \in 1 .. N : ids[i] \in DOMAIN found /\ all[i].product = ids[i]
  BY <1>2, <1>5, <1>6
<1>8. IsList(all)
  <2> DEFINE R == {ProductInput(ids[i], path(ids[i]), g) : i \in 1 .. N}
  <2>1. all \in [1 .. N -> R]
    BY <1>3, <1>4
  <2> HIDE DEF R
  <2>2. all \in Seq(R)
    BY <1>2, <2>1
  <2> QED
    BY <2>2, ListFacts
<1> QED
  BY <1>2, <1>5, <1>7, <1>8 DEF all

LEMMA AssembleStep ==
  ASSUME IndInv, Assemble, UNCHANGED <<database, asked, found, paths, records, edits, seen>>,
         pc \notin {"map", "done", "invalid"}, DOMAIN got' = Tables, Ready(got')
  PROVE  IndInv'
<1> DEFINE all == Assembled(got')
<1>1. /\ DatabaseInv /\ FoundInv /\ PathsInv /\ inputs = <<>> /\ records = <<>>
      /\ UNCHANGED <<rows, category, parent, asked, found, paths, records, seen>>
  BY DEF IndInv, InputsInv, RecordsInv, database
<1>2. DatabaseInv' /\ FoundInv' /\ PathsInv'
  BY <1>1 DEF DatabaseInv, FoundInv, PathsInv, State
<1>3. /\ \A i \in DOMAIN all : \E p \in DOMAIN found : \E path :
            all[i] = ProductInput(p, path, got') /\ all[i].product = p
      /\ IsList(all)
      /\ \A p \in DOMAIN found : \E i \in DOMAIN all : all[i].product = p
      /\ \A i, j \in DOMAIN all : i < j => all[i].product < all[j].product
  <2> DEFINE g == got'
  <2> HIDE DEF g
  <2>1. /\ \A i \in DOMAIN Assembled(g) : \E p \in DOMAIN found : \E path :
              Assembled(g)[i] = ProductInput(p, path, g) /\ Assembled(g)[i].product = p
        /\ IsList(Assembled(g))
        /\ \A p \in DOMAIN found : \E i \in DOMAIN Assembled(g) : Assembled(g)[i].product = p
        /\ \A i, j \in DOMAIN Assembled(g) :
              i < j => Assembled(g)[i].product < Assembled(g)[j].product
    BY <1>1, AssembledParts
  <2> QED
    BY <2>1 DEF g
<1>4. \A p \in DOMAIN found : \A path : PartsTrue(ProductInput(p, path, got'))
  BY <1>1, InputParts
<1> HIDE DEF all
<1>5. CASE inputs' = all /\ pc' = "map"
  <2>1. CompleteInv'
    <3>1. \A i \in DOMAIN all : PartsTrue(all[i]) /\ all[i].product \in DOMAIN found
      BY <1>3, <1>4
    <3>2. \A i \in DOMAIN inputs' : PartsTrue(inputs[i])'
      BY <1>1, <1>5, <3>1 DEF PartsTrue
    <3> QED
      BY <1>1, <1>3, <1>5, <3>1, <3>2 DEF CompleteInv, IsList
  <2> QED
    BY <1>1, <1>2, <1>5, <2>1 DEF IndInv, GotInv, InputsInv, RecordsInv, RefusedForOwnRow, Reading, Tables
<1>6. CASE pc' = "invalid" /\ inputs' = inputs /\ ~ (\A input \in Range(all) : Valid(input))
  <2>1. PICK i \in DOMAIN all : ~Valid(all[i])
    BY <1>6 DEF Range
  <2>2. PICK p \in DOMAIN found : \E path : all[i] = ProductInput(p, path, got')
    BY <1>3, <2>1
  <2>3. \E state \in seen : ~Valid(ProductInput(p, <<>>, state.rows))
    BY <1>1, <2>1, <2>2, InputRefused
  <2>4. RefusedForOwnRow'
    BY <1>1, <2>3 DEF RefusedForOwnRow, FoundInv
  <2> QED
    BY <1>1, <1>2, <1>6, <2>4 DEF IndInv, GotInv, InputsInv, RecordsInv, Reading, Tables
<1> QED
  BY <1>5, <1>6 DEF Assemble, all

-----------------------------------------------------------------------------
(* The selects and the mapping.                                            *)

LEMMA SelectProductsStep == ASSUME IndInv, SelectProducts PROVE IndInv'
<1>1. /\ pc = "products" /\ pc' \in {"empty", "materials"}
      /\ found' = Selected
      /\ UNCHANGED <<rows, category, parent, asked, got, paths, inputs, records, seen>>
  BY DEF SelectProducts, database
<1>2. DatabaseInv'
  BY <1>1 DEF IndInv, DatabaseInv, State
<1>3. FoundInv'
  <2>1. State(rows, category, parent) \in seen /\ State(rows, category, parent).category = category
    BY DEF IndInv, DatabaseInv, State
  <2>2. DOMAIN found' = asked \cap DOMAIN category /\ \A p \in DOMAIN found' : found'[p] = category[p]
    BY <1>1 DEF Selected
  <2> QED
    BY <1>1, <2>1, <2>2 DEF IndInv, FoundInv
<1>4. GotInv'
  BY <1>1 DEF IndInv, GotInv, Reading
<1> QED
  BY <1>1, <1>2, <1>3, <1>4 DEF IndInv, PathsInv, InputsInv, RecordsInv, RefusedForOwnRow

LEMMA SelectRelatedStep ==
  ASSUME IndInv, NEW t \in Tables \ {"packaging"}, SelectRelated(t)
  PROVE  IndInv'
<1>1. /\ pc = t /\ pc' = Following(t) /\ got' = [got EXCEPT ![t] = RowsOf(rows[t], DOMAIN found)]
      /\ t \in {"materials", "weights", "steps"} /\ pc' \in {"weights", "steps", "taxonomy", "head"}
      /\ UNCHANGED <<rows, category, parent, asked, found, paths, inputs, records, seen>>
  BY DEF SelectRelated, database, Answer, Following, Tables
<1>2. DatabaseInv' /\ FoundInv'
  BY <1>1 DEF IndInv, DatabaseInv, FoundInv, State
<1>3. GotInv'
  <2>1. DOMAIN got = Tables /\ t \in Tables
    BY DEF IndInv, GotInv
  <2>2. WasRead(t)'
    <3>1. State(rows, category, parent) \in seen /\ State(rows, category, parent).rows = rows
      BY DEF IndInv, DatabaseInv, State
    <3> QED
      BY <1>1, <2>1, <3>1 DEF WasRead
  <2>3. \A k \in Tables : k # t /\ WasRead(k) => WasRead(k)'
    BY <1>1, <2>1 DEF WasRead
  <2>4. DOMAIN got' = Tables /\ got'["packaging"] = got["packaging"]
    BY <1>1, <2>1 DEF Tables
  <2>5. CASE t = "materials"
    BY <1>1, <2>2, <2>4, <2>5 DEF IndInv, GotInv, Following, Reading, Tables
  <2>6. CASE t = "weights"
    BY <1>1, <2>2, <2>3, <2>4, <2>6 DEF IndInv, GotInv, Following, Reading, Tables
  <2>7. CASE t = "steps"
    BY <1>1, <2>2, <2>3, <2>4, <2>7 DEF IndInv, GotInv, Following, Reading, Tables
  <2> QED
    BY <1>1, <2>5, <2>6, <2>7
<1>4. pc \notin {"map", "done", "invalid"} /\ pc' \notin {"map", "done", "invalid"}
  BY <1>1
<1> QED
  BY <1>1, <1>2, <1>3, <1>4 DEF IndInv, PathsInv, InputsInv, RecordsInv, RefusedForOwnRow

LEMMA SelectTaxonomyStep == ASSUME IndInv, SelectTaxonomy PROVE IndInv'
<1>1. /\ pc = "taxonomy" /\ pc' = "head" /\ paths' = [c \in CategoryIds |-> Path(parent, c)]
      /\ UNCHANGED <<rows, category, parent, asked, found, got, inputs, records, seen>>
  BY DEF SelectTaxonomy, database
<1>2. DatabaseInv' /\ FoundInv'
  BY <1>1 DEF IndInv, DatabaseInv, FoundInv, State
<1>3. GotInv'
  BY <1>1 DEF IndInv, GotInv, WasRead, Reading
<1>4. PathsInv'
  <2>1. State(rows, category, parent) \in seen /\ State(rows, category, parent).parent = parent
    BY DEF IndInv, DatabaseInv, State
  <2> QED
    BY <1>1, <2>1 DEF PathsInv
<1> QED
  BY <1>1, <1>2, <1>3, <1>4 DEF IndInv, InputsInv, RecordsInv, RefusedForOwnRow

LEMMA PackagingSteps ==
  ASSUME IndInv, PackagingSkipped \/ SelectPackaging
  PROVE  IndInv'
<1>1. /\ pc \in {"head", "packaging"} /\ DOMAIN got = Tables /\ got["packaging"] = <<>>
      /\ \A t \in {"materials", "weights", "steps"} : WasRead(t)
  BY DEF PackagingSkipped, SelectPackaging, IndInv, GotInv, Reading, Tables
<1>2. Assemble /\ UNCHANGED <<database, asked, found, paths, records, edits, seen>>
  BY DEF PackagingSkipped, SelectPackaging
<1>3. DOMAIN got' = Tables /\ Ready(got')
  <2>1. CASE PackagingSkipped
    BY <1>1, <2>1 DEF PackagingSkipped, Ready, WasRead
  <2>2. CASE SelectPackaging
    <3>1. got' = [got EXCEPT !["packaging"] = RowsOf(rows["packaging"], DOMAIN found)]
      BY <2>2 DEF SelectPackaging, Answer
    <3>2. State(rows, category, parent) \in seen /\ State(rows, category, parent).rows = rows
      BY DEF IndInv, DatabaseInv, State
    <3>3. DOMAIN got' = Tables /\ got'["packaging"] = RowsOf(rows["packaging"], DOMAIN found)
      BY <1>1, <3>1 DEF Tables
    <3>4. \A t \in {"materials", "weights", "steps"} : got'[t] = got[t]
      BY <1>1, <3>1 DEF Tables
    <3> QED
      BY <1>1, <3>2, <3>3, <3>4 DEF Ready, WasRead
  <2> QED
    BY <2>1, <2>2
<1> QED
  BY <1>1, <1>2, <1>3, AssembleStep

LEMMA MapRecordsStep == ASSUME IndInv, MapRecords PROVE IndInv'
<1>1. /\ pc = "map" /\ pc' = "done" /\ records' = [i \in DOMAIN inputs |-> Record(inputs[i])]
      /\ UNCHANGED <<rows, category, parent, asked, found, got, paths, inputs, seen>>
  BY DEF MapRecords, database, answers
<1>2. DatabaseInv' /\ FoundInv' /\ PathsInv'
  BY <1>1 DEF IndInv, DatabaseInv, FoundInv, PathsInv, State
<1>3. GotInv'
  BY <1>1 DEF IndInv, GotInv, Reading, Tables
<1>4. InputsInv'
  BY <1>1 DEF IndInv, InputsInv, CompleteInv, PartsTrue
<1> QED
  BY <1>1, <1>2, <1>3, <1>4 DEF IndInv, RecordsInv, RefusedForOwnRow

\* A step that takes nothing from the database and ends nothing but the call.
LEMMA StopStep ==
  ASSUME IndInv, pc \in Reading,
         pc' \in {"rejected", "unavailable"} \/ (pc = "head" /\ pc' = "packaging"),
         UNCHANGED <<database, asked, answers, inputs, records, seen>>
  PROVE  IndInv'
<1>1. /\ pc \notin {"map", "done", "invalid"} /\ pc' \notin {"map", "done", "invalid"}
      /\ UNCHANGED <<rows, category, parent, asked, found, got, paths, inputs, records, seen>>
  BY DEF database, answers, Reading, Tables
<1>2. DatabaseInv' /\ FoundInv' /\ PathsInv'
  BY <1>1 DEF IndInv, DatabaseInv, FoundInv, PathsInv, State
<1>3. GotInv'
  BY <1>1 DEF IndInv, GotInv, WasRead, Reading, Tables
<1> QED
  BY <1>1, <1>2, <1>3 DEF IndInv, InputsInv, RecordsInv, RefusedForOwnRow

LEMMA Stuttering == ASSUME IndInv, UNCHANGED vars PROVE IndInv'
<1>1. UNCHANGED <<rows, category, parent, pc, asked, found, got, paths, inputs, records, seen>>
  BY DEF vars, database, answers
<1>2. DatabaseInv' /\ FoundInv' /\ PathsInv'
  BY <1>1 DEF IndInv, DatabaseInv, FoundInv, PathsInv, State
<1>3. GotInv' /\ RecordsInv' /\ RefusedForOwnRow'
  BY <1>1 DEF IndInv, GotInv, WasRead, RecordsInv, RefusedForOwnRow
<1>4. InputsInv'
  BY <1>1 DEF IndInv, InputsInv, CompleteInv, PartsTrue
<1> QED
  BY <1>2, <1>3, <1>4 DEF IndInv

-----------------------------------------------------------------------------
(* The theorems.                                                           *)

\* The inductive invariant: whatever the call holds was in the database at
\* some moment of it, through every edit between the selects.
THEOREM Invariance == Spec => []IndInv
<1>1. Init => IndInv
  BY Initially
<1>2. IndInv /\ [Next]_vars => IndInv'
  <2> SUFFICES ASSUME IndInv, [Next]_vars PROVE IndInv'
    OBVIOUS
  <2>1. CASE SelectProducts
    BY <2>1, SelectProductsStep
  <2>2. CASE \E t \in Tables \ {"packaging"} : SelectRelated(t)
    BY <2>2, SelectRelatedStep
  <2>3. CASE SelectTaxonomy
    BY <2>3, SelectTaxonomyStep
  <2>4. CASE PackagingFound
    BY <2>4, StopStep DEF PackagingFound, Reading
  <2>5. CASE PackagingSkipped \/ SelectPackaging
    BY <2>5, PackagingSteps
  <2>6. CASE SelectRejected
    <3>1. pc \in Reading /\ pc' = "rejected"
      BY <2>6 DEF SelectRejected, Reading
    <3>2. UNCHANGED <<database, asked, answers, inputs, records, seen>>
      BY <2>6 DEF SelectRejected
    <3> QED
      BY <3>1, <3>2, StopStep
  <2>7. CASE SelectFails
    <3>1. pc \in Reading /\ pc' = "unavailable"
      BY <2>7 DEF SelectFails
    <3>2. UNCHANGED <<database, asked, answers, inputs, records, seen>>
      BY <2>7 DEF SelectFails
    <3> QED
      BY <3>1, <3>2, StopStep
  <2>8. CASE MapRecords
    BY <2>8, MapRecordsStep
  <2>9. CASE Edit
    BY <2>9, EditStep
  <2>10. CASE UNCHANGED vars
    BY <2>10, Stuttering
  <2> QED
    BY <2>1, <2>2, <2>3, <2>4, <2>5, <2>6, <2>7, <2>8, <2>9, <2>10 DEF Next
<1> QED
  BY <1>1, <1>2, PTL DEF Spec

LEMMA InputsTrue ==
  ASSUME IndInv
  PROVE  \A i \in DOMAIN inputs : PartsTrue(inputs[i])
<1>1. CASE pc \in {"map", "done"}
  BY <1>1 DEF IndInv, InputsInv, CompleteInv
<1>2. CASE pc \notin {"map", "done"}
  BY <1>2 DEF IndInv, InputsInv
<1> QED
  BY <1>1, <1>2

\* No part of an input is made up: each is what one moment of the call had.
THEOREM EveryPartWasTrueHolds == Spec => []EveryPartWasTrue
<1>1. IndInv => EveryPartWasTrue
  BY InputsTrue, PartsAreTrue DEF Range
<1> QED
  BY <1>1, Invariance, PTL

\* Each product found is in the batch exactly once, in order, whatever is
\* edited or deleted meanwhile.
THEOREM OneInputEachHolds == Spec => []OneInputEach
<1>1. IndInv => OneInputEach
  <2> SUFFICES ASSUME IndInv, pc \in {"map", "done"}
               PROVE  LET ids == [i \in DOMAIN inputs |-> inputs[i].product]
                      IN  /\ Range(ids) = DOMAIN found
                          /\ \A i, j \in DOMAIN ids : i < j => ids[i] < ids[j]
    BY DEF OneInputEach
  <2> DEFINE ids == [i \in DOMAIN inputs |-> inputs[i].product]
  <2>1. CompleteInv
    BY DEF IndInv, InputsInv
  <2>2. Range(ids) = {inputs[i].product : i \in DOMAIN inputs}
    BY DEF Range
  <2>3. Range(ids) = DOMAIN found
    BY <2>1, <2>2 DEF CompleteInv
  <2> QED
    BY <2>1, <2>3 DEF CompleteInv
<1> QED
  BY <1>1, Invariance, PTL

\* A batch is refused for a row that a product asked for really had.
THEOREM RefusedForOwnRowHolds == Spec => []RefusedForOwnRow
<1>1. IndInv => RefusedForOwnRow
  BY DEF IndInv
<1> QED
  BY <1>1, Invariance, PTL

\* The walk from a category up ends at its root or where a cycle closes, for
\* every taxonomy there may have been.
THEOREM PathIsAncestryHolds == Spec => []PathIsAncestry
<1>1. IndInv => PathIsAncestry
  <2> SUFFICES ASSUME IndInv, NEW c \in DOMAIN paths
               PROVE  LET path == paths[c]
                      IN  \E state \in seen :
                             IF path = <<>> THEN c \notin DOMAIN state.parent
                             ELSE /\ Last(path) = c
                                  /\ IsInjective(path) /\ Range(path) \subseteq DOMAIN state.parent
                                  /\ \A i \in 1 .. Len(path) - 1 : state.parent[path[i + 1]] = path[i]
                                  /\ state.parent[Head(path)] \notin DOMAIN state.parent \ Range(path)
    BY DEF PathIsAncestry
  <2>1. PICK state \in seen : paths[c] = Path(state.parent, c)
    BY DEF IndInv, PathsInv
  <2> DEFINE tree == state.parent
             path == paths[c]
  <2>2. IsFiniteSet(DOMAIN tree)
    BY CategoryAssumption, FS_Subset DEF IndInv, DatabaseInv
  <2> HIDE DEF tree
  <2>3. Upward(tree, c, path) /\ Ended(tree, c, path)
    BY <2>1, <2>2, PathEnds DEF tree
  <2> HIDE DEF path
  <2>4. path \in Seq(DOMAIN tree) /\ Len(path) \in Nat /\ DOMAIN path = 1 .. Len(path)
    BY <2>3 DEF Upward
  <2>5. CASE path = <<>>
    <3>1. c \notin DOMAIN tree
      BY <2>3, <2>5 DEF Ended, Above, Visited, Contains
    <3> QED
      BY <2>5, <3>1 DEF path, tree
  <2>6. CASE path # <<>>
    <3>1. Last(path) = c
      BY <2>3, <2>6 DEF Upward, Last
    <3>2. IsInjective(path)
      BY <2>3, <2>4 DEF Upward, IsInjective
    <3>3. Range(path) \subseteq DOMAIN tree
      BY <2>4 DEF Range
    <3>4. tree[Head(path)] \notin DOMAIN tree \ Range(path)
      BY <2>3, <2>4, <2>6 DEF Ended, Above, Visited, Contains, Range
    <3>5. \A i \in 1 .. Len(path) - 1 : tree[path[i + 1]] = path[i]
      BY <2>3 DEF Upward
    <3> QED
      BY <2>6, <3>1, <3>2, <3>3, <3>4, <3>5 DEF path, tree
  <2> QED
    BY <2>5, <2>6
<1> QED
  BY <1>1, Invariance, PTL

\* The materials of a product are a sequence.
LEMMA MaterialsAreList ==
  ASSUME NEW s, IsList(s)
  PROVE  \E n \in Nat : DOMAIN ExtractMaterials(s) = 1 .. n
<1> DEFINE kept == Keep(s, {i \in DOMAIN s : s[i].name # None})
<1>1. kept \in Seq(Range(s))
  BY KeepType DEF IsList
<1>2. DOMAIN ExtractMaterials(s) = DOMAIN kept
  BY DEF ExtractMaterials
<1> HIDE DEF kept
<1>3. Len(kept) \in Nat /\ DOMAIN kept = 1 .. Len(kept)
  BY <1>1
<1> QED
  BY <1>2, <1>3

\* Names and masses match by position: the k-th of both come from one row of
\* the product, and the total from a weight it had or is announced as assumed.
THEOREM MassesMatchNamesHolds == Spec => []MassesMatchNames
<1>1. IndInv => MassesMatchNames
  <2> SUFFICES ASSUME IndInv, NEW record \in Range(records)
               PROVE  LET p == record.product
                          weights == {Own(state.rows["weights"], p) : state \in seen}
                          shares == UNION {Range(ExtractMaterials(Own(state.rows["materials"], p))) : state \in seen}
                      IN  /\ Len(record.names) = Len(record.masses)
                          /\ \/ "weight" \in record.warnings /\ record.total = 1000
                             \/ \E w \in weights : /\ WeightOf(w) # Null
                                                   /\ record.total = WeightOf(w) * Factor(UnitOf(w))
                          /\ \A k \in DOMAIN record.names :
                                \E m \in shares : /\ record.names[k] = Canonical[m.name]
                                                  /\ record.masses[k] = record.total * m.percentage
    BY DEF MassesMatchNames
  <2> DEFINE p == record.product
             weights == {Own(state.rows["weights"], p) : state \in seen}
             shares == UNION {Range(ExtractMaterials(Own(state.rows["materials"], p))) : state \in seen}
  <2>1. PICK i \in DOMAIN inputs : record = Record(inputs[i])
    <3>1. pc = "done"
      <4>1. Range(<<>>) = {}
        BY DEF Range
      <4> QED
        BY <4>1, Zenon DEF IndInv, RecordsInv
    <3> QED
      BY <3>1 DEF IndInv, RecordsInv, Range
  <2> DEFINE input == inputs[i]
  <2>2. /\ p = input.product /\ record.names = Names(input.materials)
        /\ record.masses = [k \in DOMAIN input.materials |->
                              TotalWeight(input) * input.materials[k].percentage]
        /\ record.total = TotalWeight(input) /\ record.warnings = Warnings(input)
    BY <2>1 DEF Record
  <2>3. PartsTrue(input)
    BY InputsTrue
  <2> HIDE DEF input, p
  <2>4. PICK s \in seen : input.materials = ExtractMaterials(Own(s.rows["materials"], p))
    BY <2>2, <2>3 DEF PartsTrue
  <2>5. PICK u \in seen : /\ input.weight = WeightOf(Own(u.rows["weights"], p))
                          /\ input.unit = UnitOf(Own(u.rows["weights"], p))
    BY <2>2, <2>3 DEF PartsTrue
  <2>6. Len(record.names) = Len(record.masses)
    <3>1. IsList(Own(s.rows["materials"], p))
      BY RowsOfList DEF IndInv, DatabaseInv, Tables, Own
    <3>2. PICK n \in Nat : DOMAIN input.materials = 1 .. n
      BY <2>4, <3>1, MaterialsAreList
    <3>3. DOMAIN record.names = 1 .. n /\ DOMAIN record.masses = 1 .. n
      BY <2>2, <3>2 DEF Names
    <3>4. Len(record.names) = n /\ Len(record.masses) = n
      BY <3>3
    <3> QED
      BY <3>4
  <2>7. \/ "weight" \in record.warnings /\ record.total = 1000
        \/ \E w \in weights : WeightOf(w) # Null /\ record.total = WeightOf(w) * Factor(UnitOf(w))
    <3>1. CASE input.weight = Null
      BY <2>2, <3>1 DEF Warnings, TotalWeight
    <3>2. CASE input.weight # Null
      <4>1. record.total = input.weight * Factor(input.unit)
        BY <2>2, <3>2 DEF TotalWeight
      <4>2. Own(u.rows["weights"], p) \in weights
        OBVIOUS
      <4> QED
        BY <2>5, <3>2, <4>1, <4>2
    <3> QED
      BY <3>1, <3>2
  <2>8. ASSUME NEW k \in DOMAIN record.names
        PROVE  \E m \in shares : /\ record.names[k] = Canonical[m.name]
                                 /\ record.masses[k] = record.total * m.percentage
    <3>1. k \in DOMAIN input.materials
      BY <2>2, <2>8 DEF Names
    <3>2. input.materials[k] \in shares
      BY <2>4, <3>1 DEF Range
    <3>3. /\ record.names[k] = Canonical[input.materials[k].name]
          /\ record.masses[k] = record.total * input.materials[k].percentage
      BY <2>2, <3>1 DEF Names
    <3> QED
      BY <3>2, <3>3
  <2> QED
    BY <2>6, <2>7, <2>8 DEF p
<1> QED
  BY <1>1, Invariance, PTL
=============================================================================
