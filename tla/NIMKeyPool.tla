----------------------------- MODULE NIMKeyPool -----------------------------
(***************************************************************************)
(* The pool of NVIDIA NIM API keys (app/normalization/nim_key_pool.py).    *)
(*                                                                         *)
(* Callers are the coroutines inside NIMClient._request.  Each block under *)
(* the asyncio lock contains no await, so it is one atomic step; the only  *)
(* suspension of get_client is the sleep between its two blocks, and 429s  *)
(* arrive at any moment.  Absolute monotonic deadlines are kept as the     *)
(* time that is left: cooldowns[k] = 0 stands for an entry that is absent  *)
(* or has expired (both are free, and the scan deletes the expired one).   *)
(***************************************************************************)
EXTENDS Integers, FiniteSets

CONSTANTS NumKeys,   \* len(api_keys)
          Cooldown,  \* _COOLDOWN_SECONDS, in ticks
          Callers    \* coroutines that may be inside get_client or a request

ASSUME KeysAssumption == NumKeys \in Nat \ {0}
ASSUME CooldownAssumption == Cooldown \in Nat \ {0}

VARIABLES cooldowns,  \* _cooldowns: ticks left until the key recovers
          nextIndex,  \* _next_index, which reaches len(keys) before the modulo
          clients,    \* indexes with an open httpx client (_clients)
          stage,      \* where a caller is with respect to the pool
          key,        \* the caller's key_idx or soonest_idx, 0 when it has none
          nap,        \* ticks left of the caller's wait_time
          late        \* history: a 429 hit the awaited key during the sleep

poolVars == <<cooldowns, nextIndex, clients, stage, key, nap, late>>

Keys == 0 .. NumKeys - 1
Stages == {"out", "asleep", "using"}

PoolTypeOK ==
    /\ cooldowns \in [Keys -> 0 .. Cooldown]
    /\ nextIndex \in 0 .. NumKeys
    /\ clients \in SUBSET Keys
    /\ stage \in [Callers -> Stages]
    /\ key \in [Callers -> Keys]
    /\ nap \in [Callers -> 0 .. Cooldown]
    /\ late \in [Callers -> BOOLEAN]

PoolInit ==
    /\ cooldowns = [k \in Keys |-> 0]
    /\ nextIndex = 0
    /\ clients = {}
    /\ stage = [c \in Callers |-> "out"]
    /\ key = [c \in Callers |-> 0]
    /\ nap = [c \in Callers |-> 0]
    /\ late = [c \in Callers |-> FALSE]

-----------------------------------------------------------------------------
Free(k) == cooldowns[k] = 0

\* The i-th key, counted from 0, that the scan of get_client looks at.
Probe(i) == (nextIndex + i) % NumKeys

\* return idx, self._get_or_create_client(idx), with _next_index moved past idx.
HandOut(c, k) ==
    /\ stage' = [stage EXCEPT ![c] = "using"]
    /\ key' = [key EXCEPT ![c] = k]
    /\ nextIndex' = k + 1
    /\ clients' = clients \cup {k}

\* The scan meets a key that is not cooling.
GetClientNow(c) ==
    /\ stage[c] = "out"
    /\ \E i \in Keys :
          /\ Free(Probe(i))
          /\ \A j \in 0 .. i - 1 : ~Free(Probe(j))
          /\ HandOut(c, Probe(i))
    /\ UNCHANGED <<cooldowns, nap, late>>

\* Mutant: sleeps for the shortest cooldown, but on any key.
GetClientWait_AnyKey(c) ==
    /\ stage[c] = "out"
    /\ \A k \in Keys : ~Free(k)
    /\ \E k, s \in Keys :
          /\ \A j \in Keys : cooldowns[s] <= cooldowns[j]
          /\ key' = [key EXCEPT ![c] = k]
          /\ nap' = [nap EXCEPT ![c] = cooldowns[s]]
    /\ nextIndex' = Probe(NumKeys - 1) + 1
    /\ stage' = [stage EXCEPT ![c] = "asleep"]
    /\ late' = [late EXCEPT ![c] = FALSE]
    /\ UNCHANGED <<cooldowns, clients>>

\* Every key is cooling: fall asleep on the one that recovers first.  Which of
\* several equal deadlines min() takes depends on the dict's insertion order.
GetClientWait(c) ==
    /\ stage[c] = "out"
    /\ \A k \in Keys : ~Free(k)
    /\ \E k \in Keys :
          /\ \A j \in Keys : cooldowns[k] <= cooldowns[j]
          /\ key' = [key EXCEPT ![c] = k]
          /\ nap' = [nap EXCEPT ![c] = cooldowns[k]]
    /\ nextIndex' = Probe(NumKeys - 1) + 1
    /\ stage' = [stage EXCEPT ![c] = "asleep"]
    /\ late' = [late EXCEPT ![c] = FALSE]
    /\ UNCHANGED <<cooldowns, clients>>

\* Mutant: takes the key without having slept.
Wake_TooEarly(c) ==
    /\ stage[c] = "asleep"
    /\ cooldowns' = [cooldowns EXCEPT ![key[c]] = 0]
    /\ HandOut(c, key[c])
    /\ late' = [late EXCEPT ![c] = FALSE]
    /\ UNCHANGED nap

\* Mutant: goes back to sleep when the key is cooling again.
Wake_Rechecks(c) ==
    /\ stage[c] = "asleep"
    /\ nap[c] = 0
    /\ \/ Free(key[c]) /\ HandOut(c, key[c]) /\ UNCHANGED nap
       \/ /\ ~Free(key[c])
          /\ nap' = [nap EXCEPT ![c] = cooldowns[key[c]]]
          /\ UNCHANGED <<stage, key, nextIndex, clients>>
    /\ late' = [late EXCEPT ![c] = FALSE]
    /\ UNCHANGED cooldowns

\* The second locked block: whatever happened during the sleep, the cooldown
\* of the awaited key is popped and the key is handed out.
Wake(c) ==
    /\ stage[c] = "asleep"
    /\ nap[c] = 0
    /\ cooldowns' = [cooldowns EXCEPT ![key[c]] = 0]
    /\ HandOut(c, key[c])
    /\ late' = [late EXCEPT ![c] = FALSE]
    /\ UNCHANGED nap

\* The caller is done with the client it was handed.
PutBack(c) ==
    /\ stage[c] = "using"
    /\ stage' = [stage EXCEPT ![c] = "out"]
    /\ key' = [key EXCEPT ![c] = 0]

Release(c) ==
    /\ PutBack(c)
    /\ UNCHANGED <<cooldowns, nextIndex, clients, nap, late>>

\* Mutant: a second 429 adds a cooldown to the first.
MarkRateLimited_Adds(c) ==
    /\ PutBack(c)
    /\ cooldowns' = [cooldowns EXCEPT ![key[c]] = @ + Cooldown]
    /\ late' = [d \in Callers |->
                   late[d] \/ (stage[d] = "asleep" /\ key[d] = key[c])]
    /\ UNCHANGED <<nextIndex, clients, nap>>

\* The request came back with a 429.
MarkRateLimited(c) ==
    /\ PutBack(c)
    /\ cooldowns' = [cooldowns EXCEPT ![key[c]] = Cooldown]
    /\ late' = [d \in Callers |->
                   late[d] \/ (stage[d] = "asleep" /\ key[d] = key[c])]
    /\ UNCHANGED <<nextIndex, clients, nap>>

\* Shutdown, once the server has drained its requests.
CloseAll ==
    /\ \A c \in Callers : stage[c] = "out"
    /\ clients' = {}
    /\ cooldowns' = [k \in Keys |-> 0]
    /\ UNCHANGED <<nextIndex, stage, key, nap, late>>

Less(n) == IF n = 0 THEN 0 ELSE n - 1

\* One tick of the monotonic clock.
Elapse ==
    /\ cooldowns' = [k \in Keys |-> Less(cooldowns[k])]
    /\ nap' = [c \in Callers |-> Less(nap[c])]
    /\ UNCHANGED <<nextIndex, clients, stage, key, late>>

Tick ==
    /\ (\E k \in Keys : cooldowns[k] > 0) \/ (\E c \in Callers : nap[c] > 0)
    /\ Elapse

-----------------------------------------------------------------------------
Next ==
    \/ \E c \in Callers :
          GetClientNow(c) \/ GetClientWait(c) \/ Wake(c) \/ Release(c) \/ MarkRateLimited(c)
    \/ CloseAll
    \/ Tick

\* The event loop runs every ready coroutine and the clock advances.
Fairness ==
    /\ WF_poolVars(Tick)
    /\ \A c \in Callers : WF_poolVars(Wake(c))

Spec == PoolInit /\ [][Next]_poolVars /\ Fairness

-----------------------------------------------------------------------------
\* A caller that goes to sleep is woken: get_client never hangs.
SleepersWake == \A c \in Callers : stage[c] = "asleep" ~> stage[c] = "using"

\* A sleep covers the cooldown it waits out: as long as no new 429 hits the
\* awaited key, the key is free by the time the sleeper takes it.
SleepCoversCooldown ==
    \A c \in Callers :
       stage[c] = "asleep" /\ ~late[c] => cooldowns[key[c]] <= nap[c]

\* Only a caller that slept through a fresh 429 ever ends a cooldown early.
CooldownCutOnlyByLate429 ==
    [][\A k \in Keys :
          cooldowns'[k] < Less(cooldowns[k]) =>
             \/ \E c \in Callers : Wake(c) /\ key[c] = k /\ late[c]
             \/ CloseAll]_poolVars
=============================================================================
