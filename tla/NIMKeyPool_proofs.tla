-------------------------- MODULE NIMKeyPool_proofs --------------------------
(***************************************************************************)
(* Theorems about the key pool, for any number of keys and callers and any *)
(* cooldown.  The step lemmas are stated without Spec, so that the proofs  *)
(* about NIMClient, whose steps contain the pool's, can cite them.         *)
(***************************************************************************)
EXTENDS NIMKeyPool, TLAPS

\* The scan only ever looks at existing keys, although _next_index itself runs
\* one past the last of them.
LEMMA ProbeInKeys ==
    ASSUME PoolTypeOK, NEW i \in Nat
    PROVE  Probe(i) \in Keys /\ Probe(i) + 1 \in 0 .. NumKeys
  BY KeysAssumption DEF PoolTypeOK, Probe, Keys

LEMMA LessType ==
    ASSUME NEW n \in 0 .. Cooldown
    PROVE  Less(n) \in 0 .. Cooldown /\ Less(n) <= n
  BY CooldownAssumption DEF Less

LEMMA PoolInitType == PoolInit => PoolTypeOK
  BY KeysAssumption, CooldownAssumption DEF PoolInit, PoolTypeOK, Keys, Stages

LEMMA HandOutType ==
    ASSUME PoolTypeOK, NEW c \in Callers, NEW k \in Keys, HandOut(c, k)
    PROVE  /\ stage' \in [Callers -> Stages]
           /\ key' \in [Callers -> Keys]
           /\ nextIndex' \in 0 .. NumKeys
           /\ clients' \in SUBSET Keys
  BY KeysAssumption DEF PoolTypeOK, HandOut, Keys, Stages

LEMMA GetClientNowType ==
    ASSUME PoolTypeOK, NEW c \in Callers, GetClientNow(c)
    PROVE  PoolTypeOK'
  <1>1. PICK i \in Keys : HandOut(c, Probe(i))
    BY DEF GetClientNow
  <1>2. i \in Nat
    BY KeysAssumption DEF Keys
  <1>3. Probe(i) \in Keys
    BY <1>2, ProbeInKeys
  <1>4. UNCHANGED <<cooldowns, nap, late>>
    BY DEF GetClientNow
  <1> QED
    BY <1>1, <1>3, <1>4, HandOutType DEF PoolTypeOK

LEMMA GetClientWaitType ==
    ASSUME PoolTypeOK, NEW c \in Callers, GetClientWait(c)
    PROVE  PoolTypeOK'
  <1>1. PICK k \in Keys : /\ key' = [key EXCEPT ![c] = k]
                          /\ nap' = [nap EXCEPT ![c] = cooldowns[k]]
    BY DEF GetClientWait
  <1>2. NumKeys - 1 \in Nat
    BY KeysAssumption
  <1>3. nextIndex' \in 0 .. NumKeys
    BY <1>2, ProbeInKeys DEF GetClientWait
  <1> QED
    BY <1>1, <1>3 DEF GetClientWait, PoolTypeOK, Stages

LEMMA WakeType ==
    ASSUME PoolTypeOK, NEW c \in Callers, Wake(c)
    PROVE  PoolTypeOK'
  <1>1. key[c] \in Keys /\ HandOut(c, key[c])
    BY DEF PoolTypeOK, Wake
  <1>2. cooldowns' \in [Keys -> 0 .. Cooldown] /\ nap' = nap /\ late' \in [Callers -> BOOLEAN]
    BY CooldownAssumption DEF PoolTypeOK, Wake
  <1> QED
    BY <1>1, <1>2, HandOutType DEF PoolTypeOK

LEMMA ReleaseType ==
    ASSUME PoolTypeOK, NEW c \in Callers, Release(c)
    PROVE  PoolTypeOK'
  BY KeysAssumption DEF PoolTypeOK, Release, PutBack, Stages, Keys

LEMMA MarkRateLimitedType ==
    ASSUME PoolTypeOK, NEW c \in Callers, MarkRateLimited(c)
    PROVE  PoolTypeOK'
  <1>1. stage' \in [Callers -> Stages] /\ key' \in [Callers -> Keys]
    BY KeysAssumption DEF PoolTypeOK, MarkRateLimited, PutBack, Stages, Keys
  <1>2. cooldowns' \in [Keys -> 0 .. Cooldown]
    BY CooldownAssumption DEF PoolTypeOK, MarkRateLimited
  <1>3. late' \in [Callers -> BOOLEAN]
    BY DEF PoolTypeOK, MarkRateLimited
  <1> QED
    BY <1>1, <1>2, <1>3 DEF PoolTypeOK, MarkRateLimited

LEMMA CloseAllType ==
    ASSUME PoolTypeOK, CloseAll
    PROVE  PoolTypeOK'
  BY CooldownAssumption DEF PoolTypeOK, CloseAll

LEMMA ElapseType ==
    ASSUME PoolTypeOK, Elapse
    PROVE  PoolTypeOK'
  BY LessType DEF PoolTypeOK, Elapse

-----------------------------------------------------------------------------
\* The pool without its fairness, which NIMClient implements as well.
Safety == PoolInit /\ [][Next]_poolVars

LEMMA SafetyTyped == Safety => []PoolTypeOK
  <1>1. PoolInit => PoolTypeOK
    BY PoolInitType
  <1>2. PoolTypeOK /\ [Next]_poolVars => PoolTypeOK'
    <2> SUFFICES ASSUME PoolTypeOK, [Next]_poolVars PROVE PoolTypeOK'
      OBVIOUS
    <2>1. ASSUME NEW c \in Callers, GetClientNow(c) PROVE PoolTypeOK'
      BY <2>1, GetClientNowType
    <2>2. ASSUME NEW c \in Callers, GetClientWait(c) PROVE PoolTypeOK'
      BY <2>2, GetClientWaitType
    <2>3. ASSUME NEW c \in Callers, Wake(c) PROVE PoolTypeOK'
      BY <2>3, WakeType
    <2>4. ASSUME NEW c \in Callers, Release(c) PROVE PoolTypeOK'
      BY <2>4, ReleaseType
    <2>5. ASSUME NEW c \in Callers, MarkRateLimited(c) PROVE PoolTypeOK'
      BY <2>5, MarkRateLimitedType
    <2>6. CASE CloseAll
      BY <2>6, CloseAllType
    <2>7. CASE Tick
      BY <2>7, ElapseType DEF Tick
    <2>8. CASE UNCHANGED poolVars
      BY <2>8 DEF PoolTypeOK, poolVars
    <2> QED
      BY <2>1, <2>2, <2>3, <2>4, <2>5, <2>6, <2>7, <2>8 DEF Next
  <1> QED
    BY <1>1, <1>2, PTL DEF Safety

\* The type invariant of the pool, for every instance.
THEOREM PoolTypeCorrect == Spec => []PoolTypeOK
  BY SafetyTyped, PTL DEF Spec, Safety

-----------------------------------------------------------------------------
\* A sleeper that no new 429 has reached finds its key recovered: the sleep was
\* as long as the cooldown, both run down together, and everything else that
\* touches a cooldown either ends it or marks the sleeper late.
LEMMA SleepCoversInductive ==
    ASSUME PoolTypeOK, PoolTypeOK', SleepCoversCooldown, [Next]_poolVars
    PROVE  SleepCoversCooldown'
  <1> SUFFICES ASSUME NEW d \in Callers, stage'[d] = "asleep", ~late'[d]
               PROVE  cooldowns'[key'[d]] <= nap'[d]
    BY DEF SleepCoversCooldown
  <1>0. stage[d] = "asleep" /\ ~late[d] => cooldowns[key[d]] <= nap[d]
    BY DEF SleepCoversCooldown
  <1>1. ASSUME NEW c \in Callers, GetClientNow(c) PROVE cooldowns'[key'[d]] <= nap'[d]
    BY <1>0, <1>1 DEF GetClientNow, HandOut, PoolTypeOK
  <1>2. ASSUME NEW c \in Callers, GetClientWait(c) PROVE cooldowns'[key'[d]] <= nap'[d]
    <2>1. CASE d = c
      BY <1>2, <2>1 DEF GetClientWait, PoolTypeOK
    <2>2. CASE d # c
      BY <1>0, <1>2, <2>2 DEF GetClientWait, PoolTypeOK
    <2> QED
      BY <2>1, <2>2
  <1>3. ASSUME NEW c \in Callers, Wake(c) PROVE cooldowns'[key'[d]] <= nap'[d]
    <2>1. d # c /\ stage[d] = "asleep" /\ ~late[d] /\ key'[d] = key[d] /\ nap'[d] = nap[d]
      BY <1>3 DEF Wake, HandOut, PoolTypeOK
    <2>2. key[d] \in Keys /\ cooldowns[key[d]] \in 0 .. Cooldown /\ nap[d] \in 0 .. Cooldown
      BY DEF PoolTypeOK
    <2>3. cooldowns'[key[d]] \in {0, cooldowns[key[d]]}
      BY <1>3, <2>2 DEF Wake, PoolTypeOK
    <2> QED
      BY <1>0, <2>1, <2>2, <2>3
  <1>4. ASSUME NEW c \in Callers, Release(c) PROVE cooldowns'[key'[d]] <= nap'[d]
    BY <1>0, <1>4 DEF Release, PutBack, PoolTypeOK
  <1>5. ASSUME NEW c \in Callers, MarkRateLimited(c) PROVE cooldowns'[key'[d]] <= nap'[d]
    <2>1. d # c /\ stage[d] = "asleep" /\ key'[d] = key[d] /\ nap'[d] = nap[d]
      BY <1>5 DEF MarkRateLimited, PutBack, PoolTypeOK
    <2>2. ~late[d] /\ key[d] # key[c]
      BY <1>5, <2>1 DEF MarkRateLimited, PoolTypeOK
    <2> QED
      BY <1>0, <1>5, <2>1, <2>2 DEF MarkRateLimited, PoolTypeOK
  <1>6. CASE CloseAll
    BY <1>6 DEF CloseAll, PoolTypeOK
  <1>7. CASE Tick
    <2>1. /\ stage[d] = "asleep" /\ ~late[d] /\ key'[d] = key[d] /\ key[d] \in Keys
          /\ cooldowns'[key[d]] = Less(cooldowns[key[d]])
          /\ nap'[d] = Less(nap[d])
      BY <1>7 DEF Tick, Elapse, PoolTypeOK
    <2>2. cooldowns[key[d]] \in 0 .. Cooldown /\ nap[d] \in 0 .. Cooldown
      BY <2>1 DEF PoolTypeOK
    <2> QED
      BY <1>0, <2>1, <2>2, CooldownAssumption DEF Less
  <1>8. CASE UNCHANGED poolVars
    BY <1>0, <1>8 DEF poolVars
  <1> QED
    BY <1>1, <1>2, <1>3, <1>4, <1>5, <1>6, <1>7, <1>8 DEF Next

LEMMA SafetySleeps == Safety => []SleepCoversCooldown
  <1>1. PoolInit => SleepCoversCooldown
    BY DEF PoolInit, SleepCoversCooldown
  <1>2. PoolTypeOK /\ PoolTypeOK' /\ SleepCoversCooldown /\ [Next]_poolVars => SleepCoversCooldown'
    BY SleepCoversInductive
  <1> QED
    BY <1>1, <1>2, SafetyTyped, PTL DEF Safety

\* Who sleeps without a new 429 on its key sleeps as long as the key cools.
THEOREM SleepCoversCooldownHolds == Spec => []SleepCoversCooldown
  BY SafetySleeps, PTL DEF Spec, Safety

LEMMA SafetyCuts == Safety => CooldownCutOnlyByLate429
  <1> DEFINE Cut == \A k \in Keys :
                       cooldowns'[k] < Less(cooldowns[k]) =>
                          \/ \E c \in Callers : Wake(c) /\ key[c] = k /\ late[c]
                          \/ CloseAll
  <1>1. PoolTypeOK /\ PoolTypeOK' /\ SleepCoversCooldown /\ [Next]_poolVars => [Cut]_poolVars
    <2> SUFFICES ASSUME PoolTypeOK, PoolTypeOK', SleepCoversCooldown, Next,
                        NEW k \in Keys, cooldowns'[k] < Less(cooldowns[k])
                 PROVE  \/ \E c \in Callers : Wake(c) /\ key[c] = k /\ late[c]
                        \/ CloseAll
      OBVIOUS
    <2>0. cooldowns[k] \in 0 .. Cooldown /\ cooldowns'[k] \in 0 .. Cooldown /\ Cooldown \in Nat
      BY CooldownAssumption DEF PoolTypeOK
    <2>1. cooldowns'[k] # cooldowns[k] /\ cooldowns[k] # 0
      BY <2>0 DEF Less
    <2>2. ASSUME NEW c \in Callers, Wake(c) PROVE key[c] = k /\ late[c]
      <3>1. key[c] = k
        BY <2>1, <2>2 DEF Wake, PoolTypeOK
      <3>2. nap[c] = 0 /\ stage[c] = "asleep"
        BY <2>2 DEF Wake
      <3>3. late[c]
        BY <2>0, <2>1, <3>1, <3>2 DEF SleepCoversCooldown, PoolTypeOK
      <3> QED
        BY <3>1, <3>3
    <2>3. ASSUME NEW c \in Callers, MarkRateLimited(c) PROVE FALSE
      BY <2>0, <2>1, <2>3 DEF MarkRateLimited, PoolTypeOK, Less
    <2>4. CASE Tick
      BY <2>0, <2>4 DEF Tick, Elapse, PoolTypeOK, Less
    <2>5. ASSUME NEW c \in Callers, GetClientNow(c) \/ GetClientWait(c) \/ Release(c) PROVE FALSE
      BY <2>1, <2>5 DEF GetClientNow, GetClientWait, Release
    <2> QED
      BY <2>2, <2>3, <2>4, <2>5 DEF Next
  <1> QED
    BY <1>1, SafetyTyped, SafetySleeps, PTL DEF Safety, CooldownCutOnlyByLate429

\* The only way a key leaves its cooldown early is a caller that slept through
\* a newer 429 of that key: get_client's defect has exactly this one shape.
THEOREM CooldownCutOnlyByLate429Holds == Spec => CooldownCutOnlyByLate429
  BY SafetyCuts, PTL DEF Spec, Safety
=============================================================================
