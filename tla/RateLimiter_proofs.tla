------------------------- MODULE RateLimiter_proofs -------------------------
(***************************************************************************)
(* The limit of RateLimiter holds for every number of clients, quota,      *)
(* window and tick, and however often the clock is set back.  What makes   *)
(* it inductive is that the list of a client is a suffix of all its        *)
(* admissions, and that whatever was cut off it is out of the window for   *)
(* good: a stamp plus the lag of now is not before its admission.          *)
(***************************************************************************)
EXTENDS RateLimiter, TLAPS

\* The list S of a client, beside all its admissions L.
IsSuffix(L, S) ==
    /\ Len(S) <= Len(L)
    /\ \A i \in 1 .. Len(S) : S[i] = Stamp(L[Len(L) - Len(S) + i])

ForgottenExpired(L, S, t) ==
    \A i \in 1 .. Len(L) - Len(S) : L[i].at < t - Window

\* The clock was never further behind than it is.
LagGrew(L, g) == \A i \in 1 .. Len(L) : L[i].lag <= g

ClientInv(L, S, t, g) == IsSuffix(L, S) /\ ForgottenExpired(L, S, t) /\ LagGrew(L, g)

Bounded(L) ==
    \A i \in 1 .. Len(L) : i + MaxRequests <= Len(L) => L[i + MaxRequests].at - L[i].at > Window

\* T is what cleaning keeps of S while the clock shows w.
IsCleaned(T, S, w) ==
    /\ Len(T) <= Len(S)
    /\ \A i \in 1 .. Len(T) : T[i] = S[Len(S) - Len(T) + i]
    /\ \A i \in 1 .. Len(S) - Len(T) : S[i] < w - Window
    /\ Len(T) > 0 => T[1] >= w - Window

\* The last 429 named a time after the expiry of an admission that nothing
\* in the list is older than.
AdviceLate(L, S, a) ==
    a # NoAdvice =>
       /\ a.waits \in 1 .. Len(L)
       /\ a.waits <= Len(L) - Len(S) + 1
       /\ a.due > Stamp(L[a.waits]) + Window

IndInv ==
    /\ TypeOK
    /\ \A c \in Clients :
          /\ ClientInv(log[c], stamps[c], now, lag)
          /\ Len(stamps[c]) <= MaxRequests
          /\ Bounded(log[c])
          /\ AdviceLate(log[c], stamps[c], advice[c])

\* Window is a natural number.
LEMMA WindowNat == Window \in Nat
  BY WindowAssumption, SMT DEF Window

\* Rounding down and adding one second is later than the exact waiting time.
LEMMA SecondsCover ==
  ASSUME NEW x \in Nat, NEW t \in Nat \ {0}
  PROVE  (x \div t + 1) * t > x /\ (x \div t + 1) \in Nat
  BY SMT

\* A stamp older than the window by the clock is of an admission older than
\* the window, if the clock was no further behind then than it is now ...
LEMMA StampExpired ==
  ASSUME NEW at \in Nat, NEW l \in Nat, NEW t \in Nat, NEW g \in Nat, NEW w \in Nat,
         l <= g, at - l < (t - g) - w
  PROVE  at < t - w
  BY SMT

\* ... and a younger one of an admission that the set-backs since made younger.
LEMMA StampRecent ==
  ASSUME NEW at \in Nat, NEW l \in Nat, NEW t \in Nat, NEW g \in Nat, NEW w \in Nat,
         at - l >= (t - g) - w
  PROVE  t - at <= w + (g - l)
  BY SMT

\* The clock and the stamps are integers.
LEMMA StampInt ==
  ASSUME NEW L \in Seq(Admission), NEW i \in 1 .. Len(L)
  PROVE  /\ L[i] \in Admission /\ L[i].at \in Nat /\ L[i].lag \in Nat
         /\ Stamp(L[i]) = L[i].at - L[i].lag /\ Stamp(L[i]) \in Int
<1>1. L[i] \in Admission
  OBVIOUS
<1> QED
  BY <1>1, SMT DEF Admission, Stamp

LEMMA WallInt == now \in Nat /\ lag \in Nat => Wall \in Int /\ Wall = now - lag
  BY SMT DEF Wall

\* What cleaning keeps of a list, and what it drops.
LEMMA CleaningFacts ==
  ASSUME NEW s \in Seq(Int), NEW t \in Cleanings(s), Wall \in Int
  PROVE  t \in Seq(Int) /\ IsCleaned(t, s, Wall)
<1>1. PICK k \in 0 .. Len(s) : IsExpiredPrefix(s, k) /\ t = SubSeq(s, k + 1, Len(s))
  BY DEF Cleanings
<1>2. Len(s) \in Nat /\ k \in Nat /\ k <= Len(s)
  BY SMT
<1>3. t \in Seq(Int) /\ Len(t) = Len(s) - k /\ \A i \in 1 .. Len(t) : t[i] = s[k + i]
  <2>1. t = SubSeq(s, k + 1, Len(s))
    BY <1>1
  <2>2. \A i \in k + 1 .. Len(s) : s[i] \in Int
    <3>1. \A i \in 1 .. Len(s) : s[i] \in Int
      OBVIOUS
    <3>2. \A i \in k + 1 .. Len(s) : i \in 1 .. Len(s)
      BY <1>2, SMT
    <3> QED
      BY <3>1, <3>2
  <2>3. t \in Seq(Int)
    BY <1>2, <2>1, <2>2
  <2>4. Len(t) = Len(s) - k
    BY <1>2, <2>1, SMT
  <2>5. \A i \in 1 .. Len(t) : t[i] = s[k + i]
    BY <1>2, <2>1, <2>4, SMT
  <2> QED
    BY <2>3, <2>4, <2>5
<1>4. Len(s) - Len(t) = k /\ Len(t) <= Len(s)
  BY <1>2, <1>3, SMT
<1>5. Len(t) > 0 => t[1] >= Wall - Window
  <2>1. SUFFICES ASSUME Len(t) > 0 PROVE t[1] >= Wall - Window
    OBVIOUS
  <2>2. k < Len(s) /\ 1 \in 1 .. Len(t)
    BY <2>1, <1>2, <1>3, SMT
  <2>3. t[1] = s[k + 1]
    BY <1>3, <2>2
  <2> QED
    BY <1>1, <2>2, <2>3 DEF IsExpiredPrefix
<1>6. \A i \in 1 .. k : s[i] < Wall - Window
  BY <1>1 DEF IsExpiredPrefix
<1> QED
  BY <1>3, <1>4, <1>5, <1>6 DEF IsCleaned

\* Cutting the list keeps it a suffix whose missing part has expired: a stamp
\* is behind its admission by no more than the clock is now.
LEMMA CleanKeeps ==
  ASSUME NEW L \in Seq(Admission), NEW S \in Seq(Int), NEW T \in Seq(Int),
         NEW t \in Nat, NEW g \in Nat,
         ClientInv(L, S, t, g), IsCleaned(T, S, t - g)
  PROVE  ClientInv(L, T, t, g)
<1>1. Len(L) \in Nat /\ Len(S) \in Nat /\ Len(T) \in Nat /\ Len(T) <= Len(S) /\ Len(S) <= Len(L)
  BY SMT DEF ClientInv, IsCleaned, IsSuffix
<1>2. IsSuffix(L, T)
  <2>1. SUFFICES ASSUME NEW i \in 1 .. Len(T) PROVE T[i] = Stamp(L[Len(L) - Len(T) + i])
    BY <1>1, SMT DEF IsSuffix
  <2> DEFINE j == Len(S) - Len(T) + i
  <2>2. j \in 1 .. Len(S) /\ Len(L) - Len(S) + j = Len(L) - Len(T) + i
    BY <1>1, SMT
  <2>3. T[i] = S[j]
    BY DEF IsCleaned
  <2> HIDE DEF j
  <2>4. S[j] = Stamp(L[Len(L) - Len(S) + j])
    BY <2>2 DEF ClientInv, IsSuffix
  <2> QED
    BY <2>2, <2>3, <2>4
<1>3. ForgottenExpired(L, T, t)
  <2>1. SUFFICES ASSUME NEW i \in 1 .. Len(L) - Len(T) PROVE L[i].at < t - Window
    BY DEF ForgottenExpired
  <2>2. CASE i \in 1 .. Len(L) - Len(S)
    BY <2>2 DEF ClientInv, ForgottenExpired
  <2>3. CASE i > Len(L) - Len(S)
    <3> DEFINE j == i - (Len(L) - Len(S))
    <3>1. j \in 1 .. Len(S) - Len(T) /\ j \in 1 .. Len(S) /\ Len(L) - Len(S) + j = i
          /\ i \in 1 .. Len(L)
      BY <1>1, <2>3, SMT
    <3> HIDE DEF j
    <3>2. S[j] < (t - g) - Window
      BY <3>1 DEF IsCleaned
    <3>3. S[j] = Stamp(L[i])
      BY <3>1 DEF ClientInv, IsSuffix
    <3>4. L[i].lag <= g
      BY <3>1 DEF ClientInv, LagGrew
    <3>5. L[i].at \in Nat /\ L[i].lag \in Nat /\ Stamp(L[i]) = L[i].at - L[i].lag
      BY <3>1, StampInt
    <3>6. L[i].at - L[i].lag < (t - g) - Window
      BY <3>2, <3>3, <3>5
    <3> QED
      BY <3>4, <3>5, <3>6, WindowNat, StampExpired
  <2> QED
    BY <1>1, <2>2, <2>3, SMT
<1> QED
  BY <1>2, <1>3 DEF ClientInv

\* An admission extends both lists alike.
LEMMA AppendKeeps ==
  ASSUME NEW L \in Seq(Admission), NEW S \in Seq(Int), NEW t \in Nat, NEW g \in Nat,
         ClientInv(L, S, t, g)
  PROVE  ClientInv(Append(L, [at |-> t, lag |-> g]), Append(S, t - g), t, g)
<1> DEFINE a == [at |-> t, lag |-> g]
           M == Append(L, a)
           T == Append(S, t - g)
<1>0. a \in Admission /\ a.lag = g /\ Stamp(a) = t - g
  BY DEF Admission, Stamp
<1> HIDE DEF a
<1>1. /\ Len(L) \in Nat /\ Len(S) \in Nat /\ Len(S) <= Len(L)
      /\ Len(M) = Len(L) + 1 /\ Len(T) = Len(S) + 1
      /\ \A i \in 1 .. Len(L) : M[i] = L[i]
      /\ \A i \in 1 .. Len(S) : T[i] = S[i]
      /\ M[Len(L) + 1] = a /\ T[Len(S) + 1] = t - g
  <2>1. Len(M) = Len(L) + 1 /\ M[Len(L) + 1] = a /\ \A i \in 1 .. Len(L) : M[i] = L[i]
    BY <1>0
  <2>2. t - g \in Int
    OBVIOUS
  <2>3. Len(T) = Len(S) + 1 /\ T[Len(S) + 1] = t - g /\ \A i \in 1 .. Len(S) : T[i] = S[i]
    <3> DEFINE w == t - g
    <3>1. w \in Int
      BY <2>2
    <3> HIDE DEF w
    <3>2. /\ Len(Append(S, w)) = Len(S) + 1 /\ Append(S, w)[Len(S) + 1] = w
          /\ \A i \in 1 .. Len(S) : Append(S, w)[i] = S[i]
      BY <3>1
    <3> QED
      BY <3>2 DEF w
  <2> QED
    BY <2>1, <2>3 DEF ClientInv, IsSuffix
<1> HIDE DEF M, T
<1>2. IsSuffix(M, T)
  <2>0. Len(T) <= Len(M)
    BY <1>1, SMT
  <2>1. SUFFICES ASSUME NEW i \in 1 .. Len(T) PROVE T[i] = Stamp(M[Len(M) - Len(T) + i])
    BY <2>0 DEF IsSuffix
  <2>2. CASE i \in 1 .. Len(S)
    <3>1. S[i] = Stamp(L[Len(L) - Len(S) + i]) /\ T[i] = S[i]
      BY <1>1, <2>2 DEF ClientInv, IsSuffix
    <3>2. /\ Len(L) - Len(S) + i \in 1 .. Len(L)
          /\ Len(M) - Len(T) + i = Len(L) - Len(S) + i
      BY <1>1, <2>2, SMT
    <3> QED
      BY <1>1, <3>1, <3>2
  <2>3. CASE i = Len(S) + 1
    <3>1. Len(M) - Len(T) + i = Len(L) + 1
      BY <1>1, <2>3, SMT
    <3> QED
      BY <1>0, <1>1, <2>3, <3>1
  <2> QED
    BY <1>1, <2>1, <2>2, <2>3, SMT
<1>3. ForgottenExpired(M, T, t)
  <2>1. SUFFICES ASSUME NEW i \in 1 .. Len(M) - Len(T) PROVE M[i].at < t - Window
    BY DEF ForgottenExpired
  <2>2. i \in 1 .. Len(L) - Len(S) /\ i \in 1 .. Len(L)
    BY <1>1, SMT
  <2> QED
    BY <1>1, <2>2 DEF ClientInv, ForgottenExpired
<1>4. LagGrew(M, g)
  <2>1. SUFFICES ASSUME NEW i \in 1 .. Len(M) PROVE M[i].lag <= g
    BY DEF LagGrew
  <2>2. CASE i \in 1 .. Len(L)
    BY <1>1, <2>2 DEF ClientInv, LagGrew
  <2>3. CASE i = Len(L) + 1
    BY <1>0, <1>1, <2>3, SMT
  <2> QED
    BY <1>1, <2>2, <2>3, SMT
<1> QED
  BY <1>2, <1>3, <1>4 DEF ClientInv, M, T, a

\* With less than the quota in the list, the admission MaxRequests back is
\* among the forgotten ones.
LEMMA BoundKeeps ==
  ASSUME NEW L \in Seq(Admission), NEW S \in Seq(Int), NEW t \in Nat, NEW g \in Nat,
         ClientInv(L, S, t, g), Bounded(L), Len(S) < MaxRequests
  PROVE  Bounded(Append(L, [at |-> t, lag |-> g]))
<1> DEFINE a == [at |-> t, lag |-> g]
           M == Append(L, a)
<1>0. a \in Admission /\ a.at = t
  BY DEF Admission
<1> HIDE DEF a
<1>1. /\ Len(L) \in Nat /\ Len(S) \in Nat /\ Len(S) <= Len(L)
      /\ Len(M) = Len(L) + 1 /\ M[Len(L) + 1] = a
      /\ \A i \in 1 .. Len(L) : M[i] = L[i]
  BY <1>0, SMT DEF ClientInv, IsSuffix
<1> HIDE DEF M
<1>2. MaxRequests \in Nat /\ MaxRequests > 0 /\ Window \in Nat
  BY RequestsAssumption, WindowNat, SMT
<1>3. SUFFICES ASSUME NEW i \in 1 .. Len(M), i + MaxRequests <= Len(M)
               PROVE  M[i + MaxRequests].at - M[i].at > Window
  BY DEF Bounded, M, a
<1>4. CASE i + MaxRequests <= Len(L)
  <2>1. i \in 1 .. Len(L) /\ i + MaxRequests \in 1 .. Len(L)
    BY <1>1, <1>2, <1>4, SMT
  <2> QED
    BY <1>1, <1>4, <2>1 DEF Bounded
<1>5. CASE i + MaxRequests = Len(L) + 1
  <2>1. i \in 1 .. Len(L) - Len(S) /\ i \in 1 .. Len(L)
    BY <1>1, <1>2, <1>5, SMT
  <2>2. L[i].at < t - Window
    BY <2>1 DEF ClientInv, ForgottenExpired
  <2>3. M[i] = L[i] /\ L[i].at \in Nat /\ M[i + MaxRequests].at = t
    BY <1>0, <1>1, <1>5, <2>1, StampInt
  <2> QED
    BY <1>2, <2>2, <2>3, SMT
<1>6. i + MaxRequests <= Len(L) \/ i + MaxRequests = Len(L) + 1
  <2> DEFINE n == Len(L)
             k == i + MaxRequests
  <2>1. n \in Nat /\ k \in Nat /\ k <= n + 1
    BY <1>1, <1>2, <1>3, SMT
  <2> HIDE DEF n, k
  <2>2. k <= n \/ k = n + 1
    BY <2>1, SMT
  <2> QED
    BY <2>2 DEF n, k
<1> QED
  BY <1>4, <1>5, <1>6

\* Neither time passing nor a set-back brings back what has expired.
LEMMA ClockKeeps ==
  ASSUME NEW L \in Seq(Admission), NEW S \in Seq(Int), NEW t \in Nat, NEW g \in Nat,
         NEW u \in Nat, NEW h \in Nat, ClientInv(L, S, t, g), t <= u, g <= h
  PROVE  ClientInv(L, S, u, h)
<1>1. Len(L) \in Nat /\ Len(S) \in Nat /\ Len(S) <= Len(L)
  BY SMT DEF ClientInv, IsSuffix
<1>2. ForgottenExpired(L, S, u)
  <2>1. SUFFICES ASSUME NEW i \in 1 .. Len(L) - Len(S) PROVE L[i].at < u - Window
    BY DEF ForgottenExpired
  <2>2. i \in 1 .. Len(L) /\ L[i].at < t - Window
    BY <1>1, SMT DEF ClientInv, ForgottenExpired
  <2>3. L[i].at \in Nat
    BY <2>2, StampInt
  <2> QED
    BY <2>2, <2>3, WindowNat, SMT
<1>3. LagGrew(L, h)
  <2>1. SUFFICES ASSUME NEW i \in 1 .. Len(L) PROVE L[i].lag <= h
    BY DEF LagGrew
  <2>2. L[i].lag \in Nat /\ L[i].lag <= g
    BY StampInt DEF ClientInv, LagGrew
  <2> QED
    BY <2>2, SMT
<1> QED
  BY <1>2, <1>3 DEF ClientInv

\* The time a 429 names is later than the moment its oldest entry expires.
LEMMA RetryAfterCovers ==
  ASSUME Wall \in Int, NEW s, s[1] \in Int, s[1] >= Wall - Window
  PROVE  /\ Wall + RetryAfter(s) * TicksPerSecond \in Int
         /\ Wall + RetryAfter(s) * TicksPerSecond > s[1] + Window
<1> DEFINE x == Window - (Wall - s[1])
           y == (x \div TicksPerSecond + 1) * TicksPerSecond
<1>1. x \in Nat
  BY WindowNat, SMT
<1>2. TicksPerSecond \in Nat \ {0}
  BY WindowAssumption
<1> HIDE DEF x
<1>3. y > x /\ x \div TicksPerSecond + 1 \in Nat
  BY <1>1, <1>2, SecondsCover
<1>4. y \in Nat
  BY <1>2, <1>3, SMT
<1> HIDE DEF y
<1>5. Wall + y \in Int /\ Wall + y > s[1] + Window
  BY <1>1, <1>3, <1>4, WindowNat, SMT DEF x
<1> QED
  BY <1>5 DEF RetryAfter, x, y

-----------------------------------------------------------------------------
\* The state between cleaning and deciding: the list s of client c is still
\* true to its admissions, no longer than it was, and its head is recent.
LEMMA CleanedInv ==
  ASSUME IndInv, NEW c \in Clients, NEW s \in Cleanings(stamps[c])
  PROVE  /\ s \in Seq(Int) /\ stamps[c] \in Seq(Int) /\ log[c] \in Seq(Admission)
         /\ now \in Nat /\ lag \in Nat /\ Wall \in Int /\ Wall = now - lag
         /\ ClientInv(log[c], s, now, lag) /\ Bounded(log[c])
         /\ Len(s) <= Len(stamps[c]) /\ Len(s) <= MaxRequests
         /\ AdviceLate(log[c], s, advice[c])
         /\ Len(s) > 0 => s[1] >= Wall - Window
<1>1. stamps[c] \in Seq(Int) /\ log[c] \in Seq(Admission) /\ now \in Nat /\ lag \in Nat
  BY DEF IndInv, TypeOK
<1>2. Wall \in Int /\ Wall = now - lag
  BY <1>1, WallInt
<1>3. s \in Seq(Int) /\ IsCleaned(s, stamps[c], Wall)
  BY <1>1, <1>2, CleaningFacts
<1>4. ClientInv(log[c], stamps[c], now, lag) /\ Bounded(log[c])
  BY DEF IndInv
<1>5. ClientInv(log[c], s, now, lag)
  BY <1>1, <1>2, <1>3, <1>4, CleanKeeps
<1>6. Len(s) <= Len(stamps[c]) /\ Len(s) <= MaxRequests
  <2>1. Len(s) \in Nat /\ Len(stamps[c]) \in Nat /\ MaxRequests \in Nat
    BY <1>1, <1>3, RequestsAssumption
  <2>2. Len(s) <= Len(stamps[c]) /\ Len(stamps[c]) <= MaxRequests
    BY <1>3 DEF IsCleaned, IndInv
  <2> QED
    BY <2>1, <2>2, SMT
<1>7. AdviceLate(log[c], s, advice[c])
  <2>1. AdviceLate(log[c], stamps[c], advice[c])
    BY DEF IndInv
  <2>2. Len(s) \in Nat /\ Len(stamps[c]) \in Nat /\ Len(log[c]) \in Nat
    BY <1>1, <1>3
  <2> DEFINE w == advice[c].waits
  <2>3. w \in Nat
    BY DEF IndInv, TypeOK
  <2>4. SUFFICES ASSUME advice[c] # NoAdvice PROVE w <= Len(log[c]) - Len(s) + 1
    BY <2>1 DEF AdviceLate
  <2>5. w <= Len(log[c]) - Len(stamps[c]) + 1
    BY <2>1, <2>4 DEF AdviceLate
  <2> HIDE DEF w
  <2> QED
    BY <1>6, <2>2, <2>3, <2>5, SMT
<1> QED
  BY <1>1, <1>2, <1>3, <1>4, <1>5, <1>6, <1>7 DEF IsCleaned

\* A new admission leaves the promise of an earlier 429 as it was.
LEMMA AdviceKeeps ==
  ASSUME NEW L \in Seq(Admission), NEW S \in Seq(Int), NEW b \in Admission, NEW x \in Int,
         NEW a \in [due : Int, waits : Nat], AdviceLate(L, S, a)
  PROVE  AdviceLate(Append(L, b), Append(S, x), a)
<1> DEFINE M == Append(L, b)
           T == Append(S, x)
<1>1. /\ Len(L) \in Nat /\ Len(S) \in Nat /\ Len(M) = Len(L) + 1 /\ Len(T) = Len(S) + 1
      /\ \A i \in 1 .. Len(L) : M[i] = L[i]
  BY SMT
<1> HIDE DEF M, T
<1>2. SUFFICES ASSUME a # NoAdvice
               PROVE  /\ a.waits \in 1 .. Len(M)
                      /\ a.waits <= Len(M) - Len(T) + 1
                      /\ a.due > Stamp(M[a.waits]) + Window
  BY DEF AdviceLate, M, T
<1>3. /\ a.waits \in 1 .. Len(L) /\ a.waits <= Len(L) - Len(S) + 1
      /\ a.due > Stamp(L[a.waits]) + Window
  BY <1>2 DEF AdviceLate
<1>4. M[a.waits] = L[a.waits]
  BY <1>1, <1>3
<1> QED
  BY <1>1, <1>3, <1>4, SMT

LEMMA AdmitKeeps ==
  ASSUME IndInv, NEW c \in Clients, Admit(c)
  PROVE  IndInv'
<1>1. PICK s \in Cleanings(stamps[c]) :
         /\ Len(s) < MaxRequests
         /\ stamps' = [stamps EXCEPT ![c] = Append(s, Wall)]
         /\ log' = [log EXCEPT ![c] = Append(@, [at |-> now, lag |-> lag])]
         /\ UNCHANGED <<now, lag, advice>>
  BY DEF Admit
<1>2. /\ s \in Seq(Int) /\ log[c] \in Seq(Admission) /\ now \in Nat /\ lag \in Nat
      /\ Wall \in Int /\ Wall = now - lag
      /\ ClientInv(log[c], s, now, lag) /\ Bounded(log[c])
      /\ AdviceLate(log[c], s, advice[c])
  BY CleanedInv
<1> DEFINE a == [at |-> now, lag |-> lag]
<1>3. a \in Admission
  BY <1>2 DEF Admission
<1>4. /\ Append(s, Wall) \in Seq(Int) /\ Append(log[c], a) \in Seq(Admission)
      /\ Len(Append(s, Wall)) = Len(s) + 1 /\ Len(s) \in Nat
  <2> HIDE DEF a
  <2> QED
    BY <1>2, <1>3, SMT
<1>5. TypeOK'
  BY <1>1, <1>4 DEF IndInv, TypeOK
<1>6. ASSUME NEW d \in Clients
      PROVE  /\ ClientInv(log'[d], stamps'[d], now', lag') /\ Len(stamps'[d]) <= MaxRequests
             /\ Bounded(log'[d]) /\ AdviceLate(log'[d], stamps'[d], advice'[d])
  <2>1. CASE d = c
    <3>1. log'[c] = Append(log[c], a) /\ stamps'[c] = Append(s, Wall)
      BY <1>1 DEF IndInv, TypeOK
    <3>2. ClientInv(log'[c], stamps'[c], now', lag') /\ Bounded(log'[c])
      BY <1>1, <1>2, <3>1, AppendKeeps, BoundKeeps
    <3>3. Len(stamps'[c]) <= MaxRequests
      BY <1>1, <1>4, <3>1, RequestsAssumption, SMT
    <3>4. advice[c] \in [due : Int, waits : Nat]
      BY DEF IndInv, TypeOK
    <3>5. AdviceLate(Append(log[c], a), Append(s, Wall), advice[c])
      <4> HIDE DEF a
      <4> QED
        BY <1>2, <1>3, <3>4, AdviceKeeps
    <3>6. AdviceLate(log'[c], stamps'[c], advice'[c])
      BY <1>1, <3>1, <3>5
    <3> QED
      BY <2>1, <3>2, <3>3, <3>6
  <2>2. CASE d # c
    BY <1>1, <2>2 DEF IndInv, TypeOK
  <2> QED
    BY <2>1, <2>2
<1> QED
  BY <1>5, <1>6 DEF IndInv, ClientInv, IsSuffix, ForgottenExpired, LagGrew, Bounded, AdviceLate,
     Window, Stamp, NoAdvice

LEMMA RejectKeeps ==
  ASSUME IndInv, NEW c \in Clients, Reject(c)
  PROVE  IndInv'
<1>1. PICK s \in Cleanings(stamps[c]) :
         /\ Len(s) >= MaxRequests
         /\ stamps' = [stamps EXCEPT ![c] = s]
         /\ advice' = [advice EXCEPT ![c] =
                         [due |-> Wall + RetryAfter(s) * TicksPerSecond,
                          waits |-> Len(log[c]) - Len(s) + 1]]
         /\ UNCHANGED <<now, lag, log>>
  BY DEF Reject
<1>2. /\ s \in Seq(Int) /\ log[c] \in Seq(Admission) /\ Wall \in Int
      /\ ClientInv(log[c], s, now, lag) /\ Len(s) <= MaxRequests
      /\ Len(s) > 0 => s[1] >= Wall - Window
  BY CleanedInv
<1>3. /\ Len(s) \in Nat /\ Len(s) > 0 /\ Len(log[c]) \in Nat /\ Len(s) <= Len(log[c])
      /\ s[1] \in Int
  BY <1>1, <1>2, RequestsAssumption, SMT DEF ClientInv, IsSuffix
<1> DEFINE due == Wall + RetryAfter(s) * TicksPerSecond
           waits == Len(log[c]) - Len(s) + 1
<1>4. due \in Int /\ due > s[1] + Window
  BY <1>2, <1>3, RetryAfterCovers
<1> HIDE DEF due
<1>5. waits \in 1 .. Len(log[c]) /\ waits \in Nat
  BY <1>3, SMT
<1>6. s[1] = Stamp(log[c][waits])
  BY <1>2, <1>3 DEF ClientInv, IsSuffix
<1> HIDE DEF waits
<1>7. advice' = [advice EXCEPT ![c] = [due |-> due, waits |-> waits]]
  BY <1>1 DEF due, waits
<1>8. TypeOK'
  <2>1. advice' \in [Clients -> [due : Int, waits : Nat]]
    BY <1>4, <1>5, <1>7 DEF IndInv, TypeOK
  <2> QED
    BY <1>1, <1>2, <2>1 DEF IndInv, TypeOK
<1>9. ASSUME NEW d \in Clients
      PROVE  /\ ClientInv(log'[d], stamps'[d], now', lag') /\ Len(stamps'[d]) <= MaxRequests
             /\ Bounded(log'[d]) /\ AdviceLate(log'[d], stamps'[d], advice'[d])
  <2>1. CASE d = c
    <3>1. stamps'[c] = s /\ advice'[c] = [due |-> due, waits |-> waits]
      BY <1>1, <1>7 DEF IndInv, TypeOK
    <3>2. waits <= Len(log[c]) - Len(s) + 1
      BY <1>3, SMT DEF waits
    <3>3. AdviceLate(log[c], s, advice'[c])
      BY <1>4, <1>5, <1>6, <3>1, <3>2 DEF AdviceLate
    <3> QED
      BY <1>1, <1>2, <2>1, <3>1, <3>3 DEF IndInv
  <2>2. CASE d # c
    BY <1>1, <2>2 DEF IndInv, TypeOK
  <2> QED
    BY <2>1, <2>2
<1> QED
  BY <1>8, <1>9 DEF IndInv, ClientInv, IsSuffix, ForgottenExpired, LagGrew, Bounded, AdviceLate,
     Window, Stamp, NoAdvice

\* Time passes, or the clock is set back.
LEMMA TimeKeeps ==
  ASSUME IndInv, Tick \/ SetBack
  PROVE  IndInv'
<1>1. now \in Nat /\ lag \in Nat /\ stamps' = stamps /\ log' = log /\ advice' = advice
  BY DEF Tick, SetBack, IndInv, TypeOK
<1>2. now' \in Nat /\ lag' \in Nat /\ now <= now' /\ lag <= lag'
  <2>1. CASE Tick
    BY <1>1, <2>1, SMT DEF Tick
  <2>2. CASE SetBack
    <3>1. PICK d \in 1 .. MaxLag - lag : lag' = lag + d
      BY <2>2 DEF SetBack
    <3>2. now' = now
      BY <2>2 DEF SetBack
    <3> QED
      BY <1>1, <3>1, <3>2, TimeAssumption, SMT
  <2> QED
    BY <2>1, <2>2
<1>3. TypeOK'
  BY <1>1, <1>2 DEF IndInv, TypeOK
<1>4. ASSUME NEW d \in Clients
      PROVE  ClientInv(log'[d], stamps'[d], now', lag')
  <2>1. log[d] \in Seq(Admission) /\ stamps[d] \in Seq(Int) /\ ClientInv(log[d], stamps[d], now, lag)
    BY DEF IndInv, TypeOK
  <2> QED
    BY <1>1, <1>2, <2>1, ClockKeeps
<1> QED
  BY <1>1, <1>3, <1>4 DEF IndInv, ClientInv, IsSuffix, ForgottenExpired, LagGrew, Bounded,
     AdviceLate, Window, Stamp, NoAdvice

LEMMA InitInv == Init => IndInv
<1>1. SUFFICES ASSUME Init PROVE IndInv
  OBVIOUS
<1>2. TypeOK
  BY <1>1, SMT DEF Init, TypeOK, NoAdvice
<1>3. ASSUME NEW c \in Clients
      PROVE  /\ ClientInv(log[c], stamps[c], now, lag) /\ Len(stamps[c]) <= MaxRequests
             /\ Bounded(log[c]) /\ AdviceLate(log[c], stamps[c], advice[c])
  <2>1. log[c] = <<>> /\ stamps[c] = <<>> /\ advice[c] = NoAdvice
    BY <1>1 DEF Init
  <2>2. Len(<<>>) = 0
    BY SMT
  <2> QED
    BY <2>1, <2>2, RequestsAssumption, SMT
       DEF ClientInv, IsSuffix, ForgottenExpired, LagGrew, Bounded, AdviceLate
<1> QED
  BY <1>2, <1>3 DEF IndInv

LEMMA NextInv == IndInv /\ [Next]_vars => IndInv'
<1>1. SUFFICES ASSUME IndInv, [Next]_vars PROVE IndInv'
  OBVIOUS
<1>2. CASE Tick \/ SetBack
  BY <1>1, <1>2, TimeKeeps
<1>3. CASE \E c \in Clients : Admit(c) \/ Reject(c)
  BY <1>1, <1>3, AdmitKeeps, RejectKeeps
<1>4. CASE UNCHANGED vars
  BY <1>1, <1>4 DEF vars, IndInv, TypeOK, ClientInv, IsSuffix, ForgottenExpired, LagGrew,
     Bounded, AdviceLate, Window, Stamp, NoAdvice
<1> QED
  BY <1>1, <1>2, <1>3, <1>4 DEF Next

THEOREM InductiveInvariant == Spec => []IndInv
  BY InitInv, NextInv, PTL DEF Spec

-----------------------------------------------------------------------------
\* The limit: of any MaxRequests + 1 admissions of one client in a row, the
\* first and the last are more than a window of real time apart.
THEOREM WindowBoundHolds == Spec => []WindowBound
<1>1. ASSUME IndInv PROVE WindowBound
  <2>1. SUFFICES ASSUME NEW c \in Clients, NEW i \in DOMAIN log[c],
                        i + MaxRequests \in DOMAIN log[c]
                 PROVE  log[c][i + MaxRequests].at - log[c][i].at > Window
    BY DEF WindowBound
  <2>2. log[c] \in Seq(Admission) /\ Bounded(log[c])
    BY <1>1 DEF IndInv, TypeOK
  <2>3. i \in 1 .. Len(log[c]) /\ i + MaxRequests <= Len(log[c])
    BY <2>1, <2>2, SMT
  <2> QED
    BY <2>2, <2>3 DEF Bounded
<1> QED
  BY <1>1, InductiveInvariant, PTL

\* Only a rejection changes what was last advised, after cleaning the list.
LEMMA AdviceChanges ==
  ASSUME IndInv, Next, NEW c \in Clients, advice'[c] # advice[c]
  PROVE  \E s \in Cleanings(stamps[c]) :
            /\ Len(s) >= MaxRequests
            /\ advice'[c].waits = Len(log[c]) - Len(s) + 1
<1>1. Reject(c)
  BY DEF Next, Tick, SetBack, Admit, Reject, IndInv, TypeOK
<1> QED
  BY <1>1 DEF Reject, IndInv, TypeOK

\* No request is refused without cause.
THEOREM RejectsOnlyFullWindowHolds == Spec => RejectsOnlyFullWindow
<1> DEFINE A == \A c \in Clients :
                   advice'[c] # advice[c] =>
                      /\ Len(log[c]) >= MaxRequests
                      /\ LET first == log[c][Len(log[c]) - MaxRequests + 1]
                         IN  now - first.at <= Window + (lag - first.lag)
<1>1. ASSUME IndInv, [Next]_vars PROVE [A]_vars
  <2>1. SUFFICES ASSUME Next, NEW c \in Clients, advice'[c] # advice[c]
                 PROVE  /\ Len(log[c]) >= MaxRequests
                        /\ LET first == log[c][Len(log[c]) - MaxRequests + 1]
                           IN  now - first.at <= Window + (lag - first.lag)
    BY <1>1 DEF A
  <2>2. PICK s \in Cleanings(stamps[c]) : Len(s) >= MaxRequests
    BY <1>1, <2>1, AdviceChanges
  <2>3. /\ s \in Seq(Int) /\ log[c] \in Seq(Admission) /\ now \in Nat /\ lag \in Nat
        /\ Wall = now - lag /\ ClientInv(log[c], s, now, lag) /\ Len(s) <= MaxRequests
        /\ Len(s) > 0 => s[1] >= Wall - Window
    BY <1>1, CleanedInv
  <2> DEFINE k == Len(log[c]) - MaxRequests + 1
  <2>4. /\ Len(s) = MaxRequests /\ Len(s) > 0 /\ Len(log[c]) \in Nat /\ Len(s) \in Nat
        /\ Len(s) <= Len(log[c]) /\ k \in 1 .. Len(log[c])
    BY <2>2, <2>3, RequestsAssumption, SMT DEF ClientInv, IsSuffix
  <2>5. s[1] = Stamp(log[c][k]) /\ s[1] >= Wall - Window
    BY <2>3, <2>4 DEF ClientInv, IsSuffix
  <2> HIDE DEF k
  <2>6. /\ log[c][k].at \in Nat /\ log[c][k].lag \in Nat
        /\ Stamp(log[c][k]) = log[c][k].at - log[c][k].lag
    BY <2>3, <2>4, StampInt
  <2>7. now - log[c][k].at <= Window + (lag - log[c][k].lag)
    <3>1. log[c][k].at - log[c][k].lag >= (now - lag) - Window
      BY <2>3, <2>5, <2>6
    <3> QED
      BY <2>3, <2>6, <3>1, WindowNat, StampRecent
  <2> QED
    BY <2>4, <2>7 DEF k
<1> QED
  BY <1>1, InductiveInvariant, PTL DEF Spec, RejectsOnlyFullWindow

\* Retry-After is enough: refused again when the time is over, a client
\* waits for a later admission than the one the first 429 was about.
THEOREM RetryAfterIsEnoughHolds == Spec => RetryAfterIsEnough
<1> DEFINE A == \A c \in Clients :
                   advice'[c] # advice[c] /\ advice[c] # NoAdvice /\ Wall >= advice[c].due
                      => advice'[c].waits > advice[c].waits
<1>1. ASSUME IndInv, [Next]_vars PROVE [A]_vars
  <2>1. SUFFICES ASSUME Next, NEW c \in Clients, advice'[c] # advice[c], advice[c] # NoAdvice,
                        Wall >= advice[c].due
                 PROVE  advice'[c].waits > advice[c].waits
    BY <1>1 DEF A
  <2>2. PICK s \in Cleanings(stamps[c]) :
           /\ Len(s) >= MaxRequests
           /\ advice'[c].waits = Len(log[c]) - Len(s) + 1
    BY <1>1, <2>1, AdviceChanges
  <2>3. /\ s \in Seq(Int) /\ log[c] \in Seq(Admission) /\ Wall \in Int
        /\ ClientInv(log[c], s, now, lag) /\ AdviceLate(log[c], s, advice[c])
        /\ Len(s) > 0 => s[1] >= Wall - Window
    BY <1>1, CleanedInv
  <2> DEFINE k == Len(log[c]) - Len(s) + 1
  <2>4. /\ Len(s) > 0 /\ Len(log[c]) \in Nat /\ Len(s) \in Nat /\ Len(s) <= Len(log[c])
        /\ k \in 1 .. Len(log[c])
    BY <2>2, <2>3, RequestsAssumption, SMT DEF ClientInv, IsSuffix
  <2>5. s[1] = Stamp(log[c][k]) /\ s[1] >= Wall - Window
    BY <2>3, <2>4 DEF ClientInv, IsSuffix
  <2>6. /\ advice[c].waits \in Nat /\ advice[c].waits <= k
        /\ advice[c].due > Stamp(log[c][advice[c].waits]) + Window
        /\ advice[c].due \in Int
    BY <1>1, <2>1, <2>3 DEF AdviceLate, IndInv, TypeOK
  <2> HIDE DEF k
  <2>7. Stamp(log[c][k]) \in Int
    BY <2>3, <2>4, StampInt
  <2>8. advice[c].waits # k
    <3>1. SUFFICES ASSUME advice[c].waits = k PROVE FALSE
      OBVIOUS
    <3>2. advice[c].due > Stamp(log[c][k]) + Window
      BY <2>6, <3>1
    <3> QED
      BY <2>1, <2>3, <2>5, <2>6, <2>7, <3>2, WindowNat, SMT
  <2>9. k \in Nat /\ advice'[c].waits = k
    BY <2>2, <2>4, SMT DEF k
  <2> QED
    BY <2>6, <2>8, <2>9, SMT
<1> QED
  BY <1>1, InductiveInvariant, PTL DEF Spec, RetryAfterIsEnough
=============================================================================
