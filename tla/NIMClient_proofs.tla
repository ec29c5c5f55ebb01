-------------------------- MODULE NIMClient_proofs --------------------------
(***************************************************************************)
(* Theorems about the NIM client for any finite set of callers, any number *)
(* of keys, permits and attempts.  The argument has three layers: typing;  *)
(* the semaphore (permits, queue and pc), whose three ways to change       *)
(* hands, Acquire, Leave and Reenter, are treated once each; and what one  *)
(* call has asked and got so far, its lines and its posts.                 *)
(***************************************************************************)
EXTENDS NIMClient, NIMKeyPool_proofs, FiniteSetTheorems

-----------------------------------------------------------------------------
(* Typing. *)

\* The semaphore's own variables keep their types.
SemType ==
    /\ pc \in [Callers -> {"idle", "queued", "request", "backoff"}]
    /\ permits \in Nat
    /\ queue \in Seq(Callers)

LEMMA HeadTail ==
    ASSUME NEW S, NEW s \in Seq(S), s # <<>>
    PROVE  /\ Head(s) \in S
           /\ Head(s) = s[1]
           /\ Tail(s) \in Seq(S)
           /\ Len(s) \in Nat \ {0}
           /\ Len(Tail(s)) = Len(s) - 1
           /\ \A i \in 1 .. Len(s) - 1 : Tail(s)[i] = s[i + 1]
  OBVIOUS

LEMMA AcquireType ==
    ASSUME SemType, NEW c \in Callers, Acquire(c)
    PROVE  SemType'
  BY DEF SemType, Acquire

LEMMA LeaveType ==
    ASSUME SemType, NEW c \in Callers, Leave(c)
    PROVE  SemType'
  <1>1. CASE queue = <<>>
    BY <1>1 DEF SemType, Leave
  <1>2. CASE queue # <<>>
    <2>1. Head(queue) \in Callers /\ Tail(queue) \in Seq(Callers)
      BY <1>2, HeadTail DEF SemType
    <2> QED
      BY <1>2, <2>1 DEF SemType, Leave
  <1> QED
    BY <1>1, <1>2

LEMMA ReenterType ==
    ASSUME SemType, NEW c \in Callers, Reenter(c)
    PROVE  SemType'
  <1>1. CASE queue = <<>>
    BY <1>1 DEF SemType, Reenter
  <1>2. CASE queue # <<>>
    <2>1. Head(queue) \in Callers /\ Tail(queue) \in Seq(Callers)
      BY <1>2, HeadTail DEF SemType
    <2>2. queue' \in Seq(Callers) /\ permits' = permits
      BY <1>2, <2>1 DEF Reenter
    <2>3. pc' \in [Callers -> {"idle", "queued", "request", "backoff"}]
      BY <1>2, <2>1 DEF SemType, Reenter
    <2> QED
      BY <2>2, <2>3 DEF SemType
  <1> QED
    BY <1>1, <1>2

LEMMA ReturnType ==
    ASSUME ClientTypeOK, NEW c \in Callers, NEW r \in Results, Return(c, r),
           lines' \in [Callers -> Seq(Lines)]
    PROVE  ClientTypeOK'
  <1>1. SemType'
    BY LeaveType DEF ClientTypeOK, SemType, Return
  <1>2. result' \in [Callers -> Results] /\ UNCHANGED <<delay, items>>
    BY DEF ClientTypeOK, Return
  <1>3. job' \in [Callers -> {"none", "complete", "choices", "bulk", "health", "requery"}]
    BY DEF ClientTypeOK, Return
  <1>4. /\ attempt' \in [Callers -> 0 .. MaxAttempts - 1]
        /\ cursor' \in [Callers -> 0 .. MaxItems]
        /\ posts' \in [Callers -> Nat]
    BY AttemptsAssumption, ItemsAssumption DEF ClientTypeOK, Return
  <1> QED
    BY <1>1, <1>2, <1>3, <1>4 DEF ClientTypeOK, SemType

LEMMA PostedType ==
    ASSUME ClientTypeOK, NEW c \in Callers, Posted(c)
    PROVE  posts' \in [Callers -> Nat]
  BY DEF ClientTypeOK, Posted

LEMMA ValidateType ==
    ASSUME ClientTypeOK, NEW c \in Callers, NEW ls \in Seq(Lines), NEW i \in Nat,
           Validate(c, ls, i)
    PROVE  ClientTypeOK'
  <1>1. lines' \in [Callers -> Seq(Lines)]
    BY DEF ClientTypeOK, Validate
  <1>2. CASE Return(c, "lines")
    BY <1>1, <1>2, ReturnType DEF Results
  <1>3. ASSUME NEW j \in i + 1 .. items[c],
               cursor' = [cursor EXCEPT ![c] = j],
               job' = [job EXCEPT ![c] = "requery"],
               attempt' = [attempt EXCEPT ![c] = 0],
               Posted(c),
               Reenter(c),
               UNCHANGED <<delay, items, result>>
        PROVE  ClientTypeOK'
    <2>1. SemType'
      BY <1>3, ReenterType DEF ClientTypeOK, SemType
    <2>2. j \in 0 .. MaxItems
      BY ItemsAssumption DEF ClientTypeOK
    <2>3. cursor' \in [Callers -> 0 .. MaxItems]
      BY <1>3, <2>2 DEF ClientTypeOK
    <2>4. attempt' \in [Callers -> 0 .. MaxAttempts - 1]
      BY <1>3, AttemptsAssumption DEF ClientTypeOK
    <2>5. posts' \in [Callers -> Nat]
      BY <1>3, PostedType
    <2> QED
      BY <1>1, <1>3, <2>1, <2>3, <2>4, <2>5 DEF ClientTypeOK, SemType
  <1> QED
    BY <1>2, <1>3 DEF Validate

LEMMA FitType ==
    ASSUME NEW n \in Nat, NEW m \in Nat, NEW reply \in [1 .. m -> Lines]
    PROVE  Fit(reply, n) \in Seq(Lines) /\ Len(Fit(reply, n)) = n
  <1>1. reply \in Seq(Lines) /\ Len(reply) = m
    OBVIOUS
  <1>2. Fit(reply, n) \in [1 .. n -> Lines]
    BY <1>1 DEF Fit, Lines
  <1> QED
    BY <1>2

LEMMA ExceptLine ==
    ASSUME NEW s \in Seq(Lines), NEW i, NEW x \in Lines
    PROVE  /\ [s EXCEPT ![i] = x] \in Seq(Lines)
           /\ Len([s EXCEPT ![i] = x]) = Len(s)
  <1>1. Len(s) \in Nat /\ s \in [1 .. Len(s) -> Lines]
    OBVIOUS
  <1>2. [s EXCEPT ![i] = x] \in [1 .. Len(s) -> Lines]
    BY <1>1
  <1> QED
    BY <1>1, <1>2

LEMMA AnswerType ==
    ASSUME ClientTypeOK, NEW c \in Callers, NEW r \in Lines, Answer(c, r)
    PROVE  ClientTypeOK'
  <1>1. CASE Return(c, Outcome(c, r)) /\ UNCHANGED lines
    <2>1. Outcome(c, r) \in Results
      BY DEF Outcome, Lines, Results
    <2> QED
      BY <1>1, <2>1, ReturnType DEF ClientTypeOK
  <1>2. CASE Validate(c, [lines[c] EXCEPT ![cursor[c]] = r], cursor[c])
    <2>1. lines[c] \in Seq(Lines) /\ cursor[c] \in Nat
      BY ItemsAssumption DEF ClientTypeOK
    <2>2. [lines[c] EXCEPT ![cursor[c]] = r] \in Seq(Lines)
      BY <2>1, ExceptLine
    <2> QED
      BY <1>2, <2>1, <2>2, ValidateType
  <1> QED
    BY <1>1, <1>2 DEF Answer

LEMMA BulkAnswerType ==
    ASSUME ClientTypeOK, NEW c \in Callers, NEW m \in Nat, NEW reply \in [1 .. m -> Lines],
           BulkAnswer(c, reply)
    PROVE  ClientTypeOK'
  <1>1. items[c] \in Nat
    BY ItemsAssumption DEF ClientTypeOK
  <1>2. Fit(reply, items[c]) \in Seq(Lines)
    BY <1>1, FitType
  <1> QED
    BY <1>2, ValidateType DEF BulkAnswer

LEMMA RaiseType ==
    ASSUME ClientTypeOK, NEW c \in Callers, Raise(c)
    PROVE  ClientTypeOK'
  <1>1. CASE /\ Return(c, IF job[c] = "health" THEN "unreachable" ELSE "raised")
             /\ UNCHANGED lines
    <2>1. (IF job[c] = "health" THEN "unreachable" ELSE "raised") \in Results
      BY DEF Results
    <2> QED
      BY <1>1, <2>1, ReturnType DEF ClientTypeOK
  <1>2. CASE Validate(c, lines[c], cursor[c])
    <2>1. lines[c] \in Seq(Lines) /\ cursor[c] \in Nat
      BY ItemsAssumption DEF ClientTypeOK
    <2> QED
      BY <1>2, <2>1, ValidateType
  <1> QED
    BY <1>1, <1>2 DEF Raise

LEMMA CallType ==
    ASSUME TypeOK, NEW c \in Callers, NEW j \in {"complete", "choices", "bulk", "health"},
           NEW n \in 0 .. MaxItems, Call(c, j, n)
    PROVE  TypeOK'
  <1>1. SemType'
    BY AcquireType DEF TypeOK, ClientTypeOK, SemType, Call
  <1>2. PoolTypeOK'
    BY DEF TypeOK, PoolTypeOK, Call, poolVars
  <1>3. /\ job' \in [Callers -> {"none", "complete", "choices", "bulk", "health", "requery"}]
        /\ items' \in [Callers -> 0 .. MaxItems]
        /\ result' \in [Callers -> Results]
    BY DEF TypeOK, ClientTypeOK, Call, Results
  <1>4. lines' \in [Callers -> Seq(Lines)]
    <2>1. <<>> \in Seq(Lines)
      OBVIOUS
    <2> QED
      BY <2>1 DEF TypeOK, ClientTypeOK, Call
  <1> QED
    BY <1>1, <1>2, <1>3, <1>4 DEF TypeOK, ClientTypeOK, SemType, Call

LEMMA NextAttemptType ==
    ASSUME ClientTypeOK, NEW c \in Callers, ~LastAttempt(c), NextAttempt(c)
    PROVE  /\ attempt' \in [Callers -> 0 .. MaxAttempts - 1]
           /\ posts' \in [Callers -> Nat]
  <1>0. attempt[c] \in 0 .. MaxAttempts - 1 /\ attempt[c] # MaxAttempts - 1
    BY DEF ClientTypeOK, LastAttempt
  <1>1. attempt[c] + 1 \in 0 .. MaxAttempts - 1
    BY <1>0, AttemptsAssumption
  <1> QED
    BY <1>1, PostedType DEF ClientTypeOK, NextAttempt

LEMMA ReplyType ==
    ASSUME TypeOK, NEW c \in Callers, Reply(c)
    PROVE  TypeOK'
  <1> USE DEF TypeOK
  <1>1. CASE Succeed(c)
    <2>1. PoolTypeOK'
      BY <1>1, ReleaseType DEF Succeed
    <2>2. ASSUME NEW r \in Lines, Answer(c, r) PROVE ClientTypeOK'
      BY <2>2, AnswerType
    <2>3. ASSUME NEW n \in 0 .. MaxItems + 1, NEW reply \in [1 .. n -> Lines], BulkAnswer(c, reply)
          PROVE  ClientTypeOK'
      BY <2>3, BulkAnswerType, ItemsAssumption
    <2> QED
      BY <1>1, <2>1, <2>2, <2>3 DEF Succeed, Lines
  <1>2. CASE TooMany(c)
    <2>1. PoolTypeOK'
      BY <1>2, MarkRateLimitedType DEF TooMany
    <2>2. CASE ~LastAttempt(c)
      <3>1. attempt' \in [Callers -> 0 .. MaxAttempts - 1] /\ posts' \in [Callers -> Nat]
        BY <1>2, <2>2, NextAttemptType DEF TooMany
      <3> QED
        BY <1>2, <2>1, <2>2, <3>1 DEF TooMany, ClientTypeOK
    <2>3. CASE Answer(c, "empty")
      BY <2>1, <2>3, AnswerType DEF Lines
    <2>4. CASE BulkAnswer(c, <<>>)
      <3>1. <<>> \in [1 .. 0 -> Lines]
        OBVIOUS
      <3> QED
        BY <2>1, <2>4, <3>1, BulkAnswerType
    <2> QED
      BY <1>2, <2>2, <2>3, <2>4 DEF TooMany
  <1>3. CASE Fail(c)
    <2>1. PoolTypeOK'
      BY <1>3, ReleaseType DEF Fail
    <2>2. CASE ~LastAttempt(c)
      <3>1. attempt' \in [Callers -> 0 .. MaxAttempts - 1] /\ posts' \in [Callers -> Nat]
        BY <1>3, <2>2, NextAttemptType DEF Fail
      <3>2. pc' = [pc EXCEPT ![c] = "backoff"] /\ delay' = [delay EXCEPT ![c] = RetryDelay]
        BY <1>3, <2>2 DEF Fail, Raise, LastAttempt
      <3>3. pc' \in [Callers -> {"idle", "queued", "request", "backoff"}]
        BY <3>2 DEF ClientTypeOK
      <3>4. RetryDelay \in 0 .. RetryDelay
        BY DelayAssumption
      <3>5. delay' \in [Callers -> 0 .. RetryDelay]
        BY <3>2, <3>4 DEF ClientTypeOK
      <3> QED
        BY <1>3, <2>1, <2>2, <3>1, <3>3, <3>5 DEF Fail, ClientTypeOK
    <2>3. CASE Raise(c)
      BY <2>1, <2>3, RaiseType
    <2> QED
      BY <1>3, <2>2, <2>3 DEF Fail
  <1>4. CASE Crash(c)
    BY <1>4, ReleaseType, RaiseType DEF Crash
  <1> QED
    BY <1>1, <1>2, <1>3, <1>4 DEF Reply

LEMMA InitType == Init => TypeOK
  <1> SUFFICES ASSUME Init PROVE TypeOK
    OBVIOUS
  <1>1. PoolTypeOK
    BY PoolInitType DEF Init
  <1>2. <<>> \in Seq(Callers) /\ <<>> \in Seq(Lines)
    OBVIOUS
  <1> QED
    BY <1>1, <1>2, LimitAssumption, AttemptsAssumption, DelayAssumption, ItemsAssumption
    DEF Init, TypeOK, ClientTypeOK, Results

LEMMA LessDelay ==
    ASSUME NEW n \in 0 .. RetryDelay
    PROVE  Less(n) \in 0 .. RetryDelay
  BY DelayAssumption DEF Less

LEMMA StepType == TypeOK /\ [ClientNext]_vars => TypeOK'
  <1> SUFFICES ASSUME TypeOK, [ClientNext]_vars PROVE TypeOK'
    OBVIOUS
  <1>1. ASSUME NEW c \in Callers, Complete(c) PROVE TypeOK'
    BY <1>1, CallType, ItemsAssumption DEF Complete
  <1>2. ASSUME NEW c \in Callers, CompleteWithChoices(c) PROVE TypeOK'
    BY <1>2, CallType, ItemsAssumption DEF CompleteWithChoices
  <1>3. ASSUME NEW c \in Callers, CompleteBulk(c) PROVE TypeOK'
    BY <1>3, CallType, ItemsAssumption DEF CompleteBulk
  <1>11. ASSUME NEW c \in Callers, HealthCheck(c) PROVE TypeOK'
    BY <1>11, CallType, ItemsAssumption DEF HealthCheck
  <1>4. ASSUME NEW c \in Callers, PickKey(c) PROVE TypeOK'
    BY <1>4, GetClientNowType, GetClientWaitType DEF PickKey, TypeOK, ClientTypeOK, clientVars
  <1>5. ASSUME NEW c \in Callers, WakeUp(c) PROVE TypeOK'
    BY <1>5, WakeType DEF WakeUp, TypeOK, ClientTypeOK, clientVars
  <1>6. ASSUME NEW c \in Callers, EndBackoff(c) PROVE TypeOK'
    BY <1>6 DEF EndBackoff, TypeOK, PoolTypeOK, ClientTypeOK, poolVars
  <1>7. ASSUME NEW c \in Callers, Reply(c) PROVE TypeOK'
    BY <1>7, ReplyType
  <1>8. CASE Close
    BY <1>8, CloseAllType DEF Close, TypeOK, ClientTypeOK, clientVars
  <1>9. CASE ClientTick
    <2>1. delay' \in [Callers -> 0 .. RetryDelay]
      BY <1>9, LessDelay DEF ClientTick, TypeOK, ClientTypeOK
    <2> QED
      BY <1>9, <2>1, ElapseType DEF ClientTick, TypeOK, ClientTypeOK
  <1>10. CASE UNCHANGED vars
    BY <1>10 DEF vars, poolVars, clientVars, TypeOK, PoolTypeOK, ClientTypeOK
  <1> QED
    BY <1>1, <1>2, <1>3, <1>4, <1>5, <1>6, <1>7, <1>8, <1>9, <1>10, <1>11 DEF ClientNext, Reply

\* The type invariant of the client and its pool, for every instance.
THEOREM TypeCorrect == ClientSpec => []TypeOK
  BY InitType, StepType, PTL DEF ClientSpec

-----------------------------------------------------------------------------
(* The semaphore.  SemInv is preserved by each way a permit changes hands  *)
(* and by every step that leaves holders and waiters what they are.        *)

\* No permit stays free while somebody waits, and the queue holds exactly the
\* callers suspended on it, each once.
QueueShape ==
    /\ permits > 0 => queue = <<>>
    /\ \A c \in Callers : pc[c] = "queued" <=> \E i \in 1 .. Len(queue) : queue[i] = c
    /\ \A i, j \in 1 .. Len(queue) : queue[i] = queue[j] => i = j

SemInv == SemType /\ PermitsBalanced /\ QueueShape

\* The holders are a finite set, so their number is a natural number.
LEMMA HoldersFinite == IsFiniteSet(Holders) /\ Cardinality(Holders) \in Nat
  <1>1. Holders \subseteq Callers
    BY DEF Holders
  <1> QED
    BY <1>1, CallersAssumption, FS_Subset, FS_CardinalityType

LEMMA AddHolder ==
    ASSUME NEW c, c \notin Holders, Holders' = Holders \cup {c}
    PROVE  Cardinality(Holders') = Cardinality(Holders) + 1
  BY HoldersFinite, FS_AddElement

LEMMA DropHolder ==
    ASSUME NEW c, c \in Holders, Holders' = Holders \ {c}
    PROVE  Cardinality(Holders') = Cardinality(Holders) - 1
  BY HoldersFinite, FS_RemoveElement

LEMMA SwapHolder ==
    ASSUME NEW c, NEW d, c \in Holders, d \notin Holders, Holders' = (Holders \ {c}) \cup {d}
    PROVE  Cardinality(Holders') = Cardinality(Holders)
  <1>1. IsFiniteSet(Holders \ {c}) /\ Cardinality(Holders \ {c}) = Cardinality(Holders) - 1
    BY HoldersFinite, FS_RemoveElement
  <1>2. Cardinality((Holders \ {c}) \cup {d}) = Cardinality(Holders \ {c}) + 1
    BY <1>1, FS_AddElement
  <1> QED
    BY <1>1, <1>2, HoldersFinite

\* acquire, by a caller that is not yet inside.
LEMMA AcquireSem ==
    ASSUME SemInv, NEW c \in Callers, pc[c] = "idle", Acquire(c)
    PROVE  SemInv'
  <1> USE DEF SemInv
  <1>1. SemType'
    BY AcquireType
  <1>2. CASE permits > 0 /\ queue = <<>>
    <2>1. /\ permits' = permits - 1 /\ queue' = queue
          /\ pc' = [pc EXCEPT ![c] = "request"]
      BY <1>2 DEF Acquire, SemType
    <2>2. c \notin Holders /\ Holders' = Holders \cup {c}
      BY <2>1 DEF Holders, SemType
    <2>0. Cardinality(Holders') = Cardinality(Holders) + 1
      BY <2>2, AddHolder
    <2>3. PermitsBalanced'
      BY <2>0, <2>1, HoldersFinite, LimitAssumption DEF PermitsBalanced, SemType
    <2>4. QueueShape'
      BY <1>2, <2>1 DEF QueueShape, SemType
    <2> QED
      BY <1>1, <2>3, <2>4
  <1>3. CASE permits = 0 \/ queue # <<>>
    <2>1. /\ permits' = permits /\ permits = 0
          /\ queue' = Append(queue, c)
          /\ pc' = [pc EXCEPT ![c] = "queued"]
      BY <1>3 DEF Acquire, SemType, QueueShape
    <2>2. Holders' = Holders
      BY <2>1 DEF Holders, SemType
    <2>3. PermitsBalanced'
      BY <2>1, <2>2 DEF PermitsBalanced
    <2>4. /\ Len(queue') = Len(queue) + 1
          /\ Len(queue) \in Nat
          /\ queue'[Len(queue) + 1] = c
          /\ \A i \in 1 .. Len(queue) : queue'[i] = queue[i] /\ queue[i] \in Callers
      BY <2>1 DEF SemType
    <2>5. \A i \in 1 .. Len(queue) : queue[i] # c
      BY <2>4 DEF QueueShape
    <2>6. \A d \in Callers : pc'[d] = "queued" <=> \E i \in 1 .. Len(queue') : queue'[i] = d
      BY <2>1, <2>4 DEF QueueShape, SemType
    <2>7. \A i, j \in 1 .. Len(queue') : queue'[i] = queue'[j] => i = j
      BY <2>4, <2>5 DEF QueueShape
    <2> QED
      BY <1>1, <2>1, <2>3, <2>6, <2>7 DEF QueueShape
  <1> QED
    BY <1>2, <1>3 DEF SemType

\* What is known of the waiter at the head of the queue.
LEMMA HeadWaits ==
    ASSUME SemInv, queue # <<>>
    PROVE  /\ Head(queue) \in Callers
           /\ pc[Head(queue)] = "queued"
           /\ permits = 0
           /\ \A d \in Callers \ {Head(queue)} :
                 pc[d] = "queued" <=> \E i \in 1 .. Len(Tail(queue)) : Tail(queue)[i] = d
           /\ \A i \in 1 .. Len(Tail(queue)) : Tail(queue)[i] # Head(queue)
           /\ \A i, j \in 1 .. Len(Tail(queue)) : Tail(queue)[i] = Tail(queue)[j] => i = j
  <1> USE DEF SemInv, SemType
  <1>1. /\ Head(queue) \in Callers /\ Head(queue) = queue[1]
        /\ Len(queue) \in Nat \ {0} /\ Len(Tail(queue)) = Len(queue) - 1
        /\ \A i \in 1 .. Len(queue) - 1 : Tail(queue)[i] = queue[i + 1]
    BY HeadTail
  <1>2. pc[Head(queue)] = "queued" /\ permits = 0
    BY <1>1 DEF QueueShape
  <1>3. \A i \in 1 .. Len(Tail(queue)) : Tail(queue)[i] # Head(queue)
    BY <1>1 DEF QueueShape
  <1>4. \A i, j \in 1 .. Len(Tail(queue)) : Tail(queue)[i] = Tail(queue)[j] => i = j
    BY <1>1 DEF QueueShape
  <1>5. ASSUME NEW d \in Callers \ {Head(queue)}
        PROVE  pc[d] = "queued" <=> \E i \in 1 .. Len(Tail(queue)) : Tail(queue)[i] = d
    <2>1. ASSUME NEW i \in 1 .. Len(queue), queue[i] = d
          PROVE  \E j \in 1 .. Len(Tail(queue)) : Tail(queue)[j] = d
      <3>1. i # 1 /\ i - 1 \in 1 .. Len(queue) - 1 /\ (i - 1) + 1 = i
        BY <1>1, <2>1
      <3> QED
        BY <1>1, <2>1, <3>1
    <2>2. ASSUME NEW j \in 1 .. Len(Tail(queue)), Tail(queue)[j] = d
          PROVE  \E i \in 1 .. Len(queue) : queue[i] = d
      BY <1>1, <2>2
    <2> QED
      BY <2>1, <2>2 DEF QueueShape
  <1> QED
    BY <1>1, <1>2, <1>3, <1>4, <1>5

\* release, by a holder that goes home.
LEMMA LeaveSem ==
    ASSUME SemInv, NEW c \in Callers, c \in Holders, Leave(c)
    PROVE  SemInv'
  <1> USE DEF SemInv
  <1>1. SemType'
    BY LeaveType
  <1>2. CASE queue = <<>>
    <2>1. /\ permits' = permits + 1 /\ queue' = queue
          /\ pc' = [pc EXCEPT ![c] = "idle"]
      BY <1>2 DEF Leave
    <2>2. Holders' = Holders \ {c}
      BY <2>1 DEF Holders, SemType
    <2>0. Cardinality(Holders') = Cardinality(Holders) - 1
      BY <2>2, DropHolder
    <2>3. PermitsBalanced'
      BY <2>0, <2>1, HoldersFinite, LimitAssumption DEF PermitsBalanced, SemType
    <2>4. QueueShape'
      BY <1>2, <2>1 DEF QueueShape, SemType
    <2> QED
      BY <1>1, <2>3, <2>4
  <1>3. CASE queue # <<>>
    <2> DEFINE h == Head(queue)
    <2>1. /\ permits' = permits /\ queue' = Tail(queue)
          /\ pc' = [pc EXCEPT ![c] = "idle", ![h] = "request"]
      BY <1>3 DEF Leave
    <2>2. h \in Callers /\ pc[h] = "queued" /\ permits = 0 /\ h # c /\ h \notin Holders
      BY <1>3, HeadWaits DEF Holders
    <2>3. pc'[h] = "request" /\ pc'[c] = "idle" /\ \A d \in Callers \ {c, h} : pc'[d] = pc[d]
      BY <2>1, <2>2 DEF SemType
    <2>4. Holders' = (Holders \ {c}) \cup {h}
      BY <2>2, <2>3 DEF Holders
    <2>5. PermitsBalanced'
      BY <2>1, <2>2, <2>4, SwapHolder DEF PermitsBalanced
    <2>6. pc[c] # "queued"
      BY DEF Holders
    <2>7. \A d \in Callers : pc'[d] = "queued" <=> \E i \in 1 .. Len(queue') : queue'[i] = d
      <3>1. \A d \in Callers \ {c, h} :
               pc'[d] = "queued" <=> \E i \in 1 .. Len(queue') : queue'[i] = d
        BY <1>3, <2>1, <2>3, HeadWaits
      <3>2. ~\E i \in 1 .. Len(queue') : queue'[i] = h
        BY <1>3, <2>1, HeadWaits
      <3>3. ~\E i \in 1 .. Len(queue') : queue'[i] = c
        BY <1>3, <2>1, <2>2, <2>6, HeadWaits
      <3> QED
        BY <2>3, <3>1, <3>2, <3>3
    <2>8. \A i, j \in 1 .. Len(queue') : queue'[i] = queue'[j] => i = j
      BY <1>3, <2>1, HeadWaits
    <2>9. ~(permits' > 0)
      BY <2>1, <2>2
    <2>10. QueueShape'
      BY ZenonT(30), <2>7, <2>8, <2>9 DEF QueueShape
    <2> QED
      BY <1>1, <2>5, <2>10
  <1> QED
    BY <1>2, <1>3

\* release and at once acquire again, between two calls of complete_bulk.
LEMMA ReenterSem ==
    ASSUME SemInv, NEW c \in Callers, c \in Holders, Reenter(c)
    PROVE  SemInv'
  <1> USE DEF SemInv
  <1>1. SemType'
    BY ReenterType
  <1>2. CASE queue = <<>>
    <2>1. UNCHANGED <<permits, queue>> /\ pc' = [pc EXCEPT ![c] = "request"]
      BY <1>2 DEF Reenter
    <2>2. Holders' = Holders
      BY <2>1 DEF Holders, SemType
    <2>3. PermitsBalanced' /\ QueueShape'
      BY <1>2, <2>1, <2>2 DEF PermitsBalanced, QueueShape, SemType
    <2> QED
      BY <1>1, <2>3
  <1>3. CASE queue # <<>>
    <2> DEFINE h == Head(queue)
               t == Tail(queue)
    <2>1. /\ permits' = permits /\ queue' = Append(t, c)
          /\ pc' = [pc EXCEPT ![c] = "queued", ![h] = "request"]
      BY <1>3 DEF Reenter
    <2>2. h \in Callers /\ pc[h] = "queued" /\ permits = 0 /\ h # c /\ h \notin Holders
      BY <1>3, HeadWaits DEF Holders
    <2>3. pc'[h] = "request" /\ pc'[c] = "queued" /\ \A d \in Callers \ {c, h} : pc'[d] = pc[d]
      BY <2>1, <2>2 DEF SemType
    <2>4. Holders' = (Holders \ {c}) \cup {h}
      BY <2>2, <2>3 DEF Holders
    <2>5. PermitsBalanced'
      BY <2>1, <2>2, <2>4, SwapHolder DEF PermitsBalanced
    <2>6. pc[c] # "queued"
      BY DEF Holders
    <2>7. t \in Seq(Callers) /\ Len(t) \in Nat
      BY <1>3, HeadTail DEF SemType
    <2>8. /\ Len(queue') = Len(t) + 1
          /\ queue'[Len(t) + 1] = c
          /\ \A i \in 1 .. Len(t) : queue'[i] = t[i] /\ t[i] \in Callers
          /\ \A i \in 1 .. Len(queue') : i \in 1 .. Len(t) \/ i = Len(t) + 1
          /\ \A i \in 1 .. Len(t) : i \in 1 .. Len(queue')
      BY <2>1, <2>7
    <2>9. \A i \in 1 .. Len(t) : t[i] # c /\ t[i] # h
      BY <1>3, <2>2, <2>6, HeadWaits
    <2>10. \A d \in Callers : pc'[d] = "queued" <=> \E i \in 1 .. Len(queue') : queue'[i] = d
      <3>1. \A d \in Callers \ {c, h} :
               pc'[d] = "queued" <=> \E i \in 1 .. Len(t) : t[i] = d
        BY <1>3, <2>3, HeadWaits
      <3>2. \A d \in Callers \ {c, h} : 
               (\E i \in 1 .. Len(t) : t[i] = d) <=> \E i \in 1 .. Len(queue') : queue'[i] = d
        BY <2>8
      <3>3. Len(t) + 1 \in 1 .. Len(queue')
        BY <2>7, <2>8
      <3>4. ~\E i \in 1 .. Len(queue') : queue'[i] = h
        BY <2>2, <2>8, <2>9
      <3> QED
        BY <2>3, <2>8, <3>1, <3>2, <3>3, <3>4
    <2>11. \A i, j \in 1 .. Len(queue') : queue'[i] = queue'[j] => i = j
      <3>1. \A i, j \in 1 .. Len(t) : t[i] = t[j] => i = j
        BY <1>3, HeadWaits
      <3> QED
        BY <2>8, <2>9, <3>1
    <2>12. ~(permits' > 0)
      BY <2>1, <2>2
    <2>13. QueueShape'
      BY ZenonT(30), <2>10, <2>11, <2>12 DEF QueueShape
    <2> QED
      BY <1>1, <2>5, <2>13
  <1> QED
    BY <1>2, <1>3

\* A step that moves nobody in or out of the semaphore.
LEMMA QuietSem ==
    ASSUME SemInv, SemType', UNCHANGED <<permits, queue>>,
           \A d \in Callers : d \in Holders' <=> d \in Holders,
           \A d \in Callers : pc'[d] = "queued" <=> pc[d] = "queued"
    PROVE  SemInv'
  <1>1. Holders' = Holders
    BY DEF Holders
  <1>2. PermitsBalanced'
    BY <1>1 DEF SemInv, PermitsBalanced
  <1>3. QueueShape'
    BY DEF SemInv, QueueShape
  <1> QED
    BY <1>2, <1>3 DEF SemInv

\* However a request ends, its caller leaves the semaphore or goes through it
\* once more.
LEMMA ValidateMoves ==
    ASSUME NEW c, NEW ls, NEW i, Validate(c, ls, i)
    PROVE  Leave(c) \/ Reenter(c)
  BY DEF Validate, Return

LEMMA AnswerMoves ==
    ASSUME NEW c, NEW r, Answer(c, r)
    PROVE  Leave(c) \/ Reenter(c)
  BY ValidateMoves DEF Answer, Return

LEMMA BulkAnswerMoves ==
    ASSUME NEW c, NEW reply, BulkAnswer(c, reply)
    PROVE  Leave(c) \/ Reenter(c)
  BY ValidateMoves DEF BulkAnswer

LEMMA RaiseMoves ==
    ASSUME NEW c, Raise(c)
    PROVE  Leave(c) \/ Reenter(c)
  BY ValidateMoves DEF Raise, Return

LEMMA ReplyMoves ==
    ASSUME NEW c \in Callers, Reply(c)
    PROVE  /\ PutBack(c)
           /\ \/ Leave(c)
              \/ Reenter(c)
              \/ /\ UNCHANGED <<permits, queue>>
                 /\ pc' \in {pc, [pc EXCEPT ![c] = "backoff"]}
  <1>1. CASE Succeed(c)
    BY <1>1, AnswerMoves, BulkAnswerMoves DEF Succeed, Release
  <1>2. CASE TooMany(c)
    BY <1>2, AnswerMoves, BulkAnswerMoves DEF TooMany, MarkRateLimited
  <1>3. CASE Fail(c)
    BY <1>3, RaiseMoves DEF Fail, Release
  <1>4. CASE Crash(c)
    BY <1>4, RaiseMoves DEF Crash, Release
  <1> QED
    BY <1>1, <1>2, <1>3, <1>4 DEF Reply

\* Only callers inside the request loop deal with the pool.
Engaged == \A c \in Callers : stage[c] # "out" => pc[c] = "request"

IndInv == TypeOK /\ SemInv /\ Engaged

LEMMA IndInit == Init => IndInv
  <1> SUFFICES ASSUME Init PROVE IndInv
    OBVIOUS
  <1>1. TypeOK /\ SemType
    BY InitType DEF TypeOK, ClientTypeOK, SemType
  <1>2. Holders = {}
    BY DEF Init, Holders
  <1>3. PermitsBalanced
    BY <1>2, FS_EmptySet, LimitAssumption DEF Init, PermitsBalanced
  <1>4. QueueShape
    BY DEF Init, QueueShape
  <1>5. Engaged
    BY DEF Init, PoolInit, Engaged
  <1> QED
    BY <1>1, <1>3, <1>4, <1>5 DEF IndInv, SemInv

LEMMA ReplyInv ==
    ASSUME IndInv, NEW c \in Callers, Reply(c)
    PROVE  SemInv' /\ Engaged'
  <1> USE DEF IndInv
  <1>1. /\ stage[c] = "using"
        /\ stage' = [stage EXCEPT ![c] = "out"]
        /\ pc[c] = "request"
        /\ c \in Holders
    BY ReplyMoves DEF PutBack, Engaged, Holders
  <1>2. stage \in [Callers -> Stages] /\ pc \in [Callers -> {"idle", "queued", "request", "backoff"}]
    BY DEF TypeOK, PoolTypeOK, ClientTypeOK
  <1>3. SemType'
    BY ReplyType DEF TypeOK, ClientTypeOK, SemType
  <1>4. SUFFICES SemInv' /\ \A d \in Callers \ {c} : pc[d] = "request" => pc'[d] = "request"
    BY <1>1, <1>2, <1>4 DEF Engaged
  <1>5. CASE Leave(c)
    <2>1. \A d \in Callers \ {c} : pc[d] = "request" => pc'[d] = "request"
      BY <1>2, <1>5 DEF Leave
    <2> QED
      BY <1>1, <1>5, <2>1, LeaveSem
  <1>6. CASE Reenter(c)
    <2>1. \A d \in Callers \ {c} : pc[d] = "request" => pc'[d] = "request"
      BY <1>2, <1>6 DEF Reenter
    <2> QED
      BY <1>1, <1>6, <2>1, ReenterSem
  <1>7. CASE UNCHANGED <<permits, queue>> /\ pc' \in {pc, [pc EXCEPT ![c] = "backoff"]}
    <2>1. /\ \A d \in Callers \ {c} : pc'[d] = pc[d]
          /\ pc'[c] \in {"request", "backoff"}
      BY <1>1, <1>2, <1>7
    <2>2. /\ \A d \in Callers : d \in Holders' <=> d \in Holders
          /\ \A d \in Callers : pc'[d] = "queued" <=> pc[d] = "queued"
      BY <1>1, <2>1 DEF Holders
    <2> QED
      BY <1>3, <1>7, <2>1, <2>2, QuietSem
  <1> QED
    BY <1>5, <1>6, <1>7, ReplyMoves

LEMMA IndStep == IndInv /\ [ClientNext]_vars => IndInv'
  <1> SUFFICES ASSUME IndInv, [ClientNext]_vars PROVE IndInv'
    OBVIOUS
  <1> USE DEF IndInv
  <1>0. TypeOK' /\ SemType'
    BY StepType DEF TypeOK, ClientTypeOK, SemType
  <1>00. stage \in [Callers -> Stages] /\ pc \in [Callers -> {"idle", "queued", "request", "backoff"}]
    BY DEF TypeOK, PoolTypeOK, ClientTypeOK
  <1>1. ASSUME NEW c \in Callers, NEW j, NEW n, Call(c, j, n) PROVE IndInv'
    <2>1. SemInv'
      BY <1>1, AcquireSem DEF Call
    <2>2. stage' = stage /\ pc[c] = "idle" /\ stage[c] = "out"
      BY <1>1 DEF Call, poolVars, Engaged
    <2>3. Engaged'
      BY <1>00, <1>1, <2>2 DEF Engaged, Call, Acquire
    <2> QED
      BY <1>0, <2>1, <2>3
  <1>2. ASSUME NEW c \in Callers, PickKey(c) PROVE IndInv'
    <2>1. UNCHANGED <<pc, permits, queue>> /\ pc[c] = "request"
      BY <1>2 DEF PickKey, clientVars
    <2>2. SemInv'
      BY <1>0, <2>1, QuietSem DEF Holders
    <2>3. \A d \in Callers \ {c} : stage'[d] = stage[d]
      BY <1>00, <1>2 DEF PickKey, GetClientNow, GetClientWait, HandOut
    <2>4. Engaged'
      BY <2>1, <2>3 DEF Engaged
    <2> QED
      BY <1>0, <2>2, <2>4
  <1>3. ASSUME NEW c \in Callers, WakeUp(c) PROVE IndInv'
    <2>1. UNCHANGED <<pc, permits, queue>> /\ stage[c] = "asleep"
      BY <1>3 DEF WakeUp, Wake, clientVars
    <2>2. SemInv'
      BY <1>0, <2>1, QuietSem DEF Holders
    <2>3. \A d \in Callers \ {c} : stage'[d] = stage[d]
      BY <1>00, <1>3 DEF WakeUp, Wake, HandOut
    <2>4. Engaged'
      BY <2>1, <2>3 DEF Engaged
    <2> QED
      BY <1>0, <2>2, <2>4
  <1>4. ASSUME NEW c \in Callers, EndBackoff(c) PROVE IndInv'
    <2>1. /\ UNCHANGED <<permits, queue>> /\ stage' = stage
          /\ pc[c] = "backoff" /\ pc' = [pc EXCEPT ![c] = "request"]
      BY <1>4 DEF EndBackoff, poolVars
    <2>2. /\ \A d \in Callers : d \in Holders' <=> d \in Holders
          /\ \A d \in Callers : pc'[d] = "queued" <=> pc[d] = "queued"
      BY <1>00, <2>1 DEF Holders
    <2>3. SemInv' /\ Engaged'
      BY <1>0, <1>00, <2>1, <2>2, QuietSem DEF Engaged
    <2> QED
      BY <1>0, <2>3
  <1>5. ASSUME NEW c \in Callers, Reply(c) PROVE IndInv'
    BY <1>0, <1>5, ReplyInv
  <1>6. CASE Close \/ ClientTick \/ UNCHANGED vars
    <2>1. UNCHANGED <<pc, permits, queue, stage>>
      BY <1>6 DEF Close, CloseAll, ClientTick, Elapse, vars, poolVars, clientVars
    <2>2. SemInv' /\ Engaged'
      BY <1>0, <2>1, QuietSem DEF Holders, Engaged
    <2> QED
      BY <1>0, <2>2
  <1> QED
    BY <1>1, <1>2, <1>3, <1>4, <1>5, <1>6
    DEF ClientNext, Reply, Complete, HealthCheck, CompleteWithChoices, CompleteBulk

LEMMA Inductive == ClientSpec => []IndInv
  BY IndInit, IndStep, PTL DEF ClientSpec

-----------------------------------------------------------------------------
\* No path through the client loses a permit or makes one up.
THEOREM PermitsBalancedHolds == ClientSpec => []PermitsBalanced
  <1>1. IndInv => PermitsBalanced
    BY DEF IndInv, SemInv
  <1> QED
    BY <1>1, Inductive, PTL

\* NIM never sees more than NIM_CONCURRENCY_LIMIT requests at a time.
THEOREM InFlightBoundedHolds == ClientSpec => []InFlightBounded
  <1>1. IndInv => InFlightBounded
    <2> SUFFICES ASSUME IndInv PROVE InFlightBounded
      OBVIOUS
    <2> DEFINE Using == {c \in Callers : stage[c] = "using"}
    <2>1. Using \subseteq Holders
      BY DEF IndInv, Engaged, Holders
    <2>2. Cardinality(Using) <= Cardinality(Holders) /\ Cardinality(Using) \in Nat
      BY <2>1, HoldersFinite, FS_Subset, FS_CardinalityType
    <2>3. Cardinality(Using) <= Limit
      BY <2>2, HoldersFinite, LimitAssumption DEF IndInv, SemInv, SemType, PermitsBalanced
    <2> QED
      BY <2>3 DEF IndInv, Engaged, InFlightBounded
  <1> QED
    BY <1>1, Inductive, PTL

-----------------------------------------------------------------------------
(* The validation pass of complete_bulk: what holds of one caller's lines, *)
(* whoever moves.                                                          *)

Shaped(c) ==
    /\ job[c] = "requery" => /\ Len(lines[c]) = items[c]
                             /\ cursor[c] \in 1 .. items[c]
                             /\ lines[c][cursor[c]] # "valid"
    /\ result[c] = "lines" => Len(lines[c]) = items[c]
    /\ pc[c] = "idle" => job[c] = "none"

ShapeInv == \A c \in Callers : Shaped(c)

\* A step of c touches no other caller's call.
Aside(c) ==
    \A d \in Callers \ {c} :
       /\ job'[d] = job[d] /\ items'[d] = items[d] /\ lines'[d] = lines[d]
       /\ cursor'[d] = cursor[d] /\ result'[d] = result[d]
       /\ pc'[d] = "idle" => pc[d] = "idle"

\* A choice among the lines of a re-queried list stays what it is.
ChoicesStay(c) ==
    job[c] = "requery" =>
       \A i \in 1 .. Len(lines[c]) : lines[c][i] = "valid" => lines'[c][i] = "valid"

LEMMA LeaveAside ==
    ASSUME TypeOK, NEW c \in Callers, Leave(c) \/ Reenter(c)
    PROVE  \A d \in Callers \ {c} : pc'[d] = "idle" => pc[d] = "idle"
  BY DEF TypeOK, ClientTypeOK, Leave, Reenter

LEMMA ReturnShape ==
    ASSUME TypeOK, NEW c \in Callers, NEW r, Return(c, r), lines' \in [Callers -> Seq(Lines)],
           \A d \in Callers \ {c} : lines'[d] = lines[d],
           r = "lines" => Len(lines'[c]) = items[c]
    PROVE  Shaped(c)' /\ Aside(c)
  <1>1. job'[c] = "none" /\ result'[c] = r /\ items' = items
    BY DEF Return, TypeOK, ClientTypeOK
  <1>2. \A d \in Callers \ {c} :
           /\ job'[d] = job[d] /\ items'[d] = items[d]
           /\ cursor'[d] = cursor[d] /\ result'[d] = result[d]
    BY DEF Return, TypeOK, ClientTypeOK
  <1>3. \A d \in Callers \ {c} : pc'[d] = "idle" => pc[d] = "idle"
    BY LeaveAside DEF Return
  <1> QED
    BY <1>1, <1>2, <1>3 DEF Shaped, Aside

\* Whatever the pass does next, the list keeps its length.
LEMMA ValidateShape ==
    ASSUME TypeOK, NEW c \in Callers, NEW ls \in Seq(Lines), Len(ls) = items[c],
           NEW i \in Nat, Validate(c, ls, i)
    PROVE  Shaped(c)' /\ Aside(c) /\ lines'[c] = ls
  <1>1. /\ lines' \in [Callers -> Seq(Lines)] /\ lines'[c] = ls
        /\ \A d \in Callers \ {c} : lines'[d] = lines[d]
    BY DEF Validate, TypeOK, ClientTypeOK
  <1>2. CASE Return(c, "lines")
    BY <1>1, <1>2, ReturnShape
  <1>3. ASSUME NEW j \in i + 1 .. items[c], ls[j] # "valid",
               cursor' = [cursor EXCEPT ![c] = j],
               job' = [job EXCEPT ![c] = "requery"],
               Reenter(c),
               UNCHANGED <<delay, items, result>>
        PROVE  Shaped(c)' /\ Aside(c)
    <2>1. items[c] \in Nat
      BY ItemsAssumption DEF TypeOK, ClientTypeOK
    <2>2. cursor'[c] = j /\ j \in 1 .. items[c]
      BY <1>3, <2>1 DEF TypeOK, ClientTypeOK
    <2>3. pc'[c] # "idle"
      BY <1>3 DEF Reenter, TypeOK, ClientTypeOK
    <2>4. Shaped(c)'
      BY <1>1, <1>3, <2>2, <2>3 DEF Shaped
    <2>5. \A d \in Callers \ {c} :
             /\ job'[d] = job[d] /\ items'[d] = items[d]
             /\ cursor'[d] = cursor[d] /\ result'[d] = result[d]
      BY <1>3 DEF TypeOK, ClientTypeOK
    <2> QED
      BY <1>1, <1>3, <2>4, <2>5, LeaveAside DEF Aside
  <1> QED
    BY <1>1, <1>2, <1>3 DEF Validate

LEMMA AnswerShape ==
    ASSUME TypeOK, NEW c \in Callers, Shaped(c), NEW r \in Lines, Answer(c, r)
    PROVE  Shaped(c)' /\ Aside(c) /\ ChoicesStay(c)
  <1>1. CASE Return(c, Outcome(c, r)) /\ UNCHANGED lines
    <2>1. Outcome(c, r) # "lines"
      BY DEF Outcome, Lines
    <2> QED
      BY <1>1, <2>1, ReturnShape DEF TypeOK, ClientTypeOK, ChoicesStay
  <1>2. CASE /\ job[c] = "requery"
             /\ Validate(c, [lines[c] EXCEPT ![cursor[c]] = r], cursor[c])
    <2> DEFINE ls == [lines[c] EXCEPT ![cursor[c]] = r]
    <2>1. lines[c] \in Seq(Lines) /\ cursor[c] \in Nat
      BY ItemsAssumption DEF TypeOK, ClientTypeOK
    <2>2. ls \in Seq(Lines) /\ Len(ls) = items[c]
      BY <1>2, <2>1, ExceptLine DEF Shaped
    <2>3. \A i \in 1 .. Len(lines[c]) : lines[c][i] = "valid" => ls[i] = "valid"
      BY <1>2, <2>1 DEF Shaped
    <2> HIDE DEF ls
    <2>4. Validate(c, ls, cursor[c])
      BY <1>2 DEF ls
    <2> QED
      BY <2>1, <2>2, <2>3, <2>4, ValidateShape DEF ChoicesStay
  <1> QED
    BY <1>1, <1>2 DEF Answer

LEMMA BulkAnswerShape ==
    ASSUME TypeOK, NEW c \in Callers, NEW m \in Nat, NEW reply \in [1 .. m -> Lines],
           BulkAnswer(c, reply)
    PROVE  Shaped(c)' /\ Aside(c) /\ ChoicesStay(c)
  <1>1. items[c] \in Nat
    BY ItemsAssumption DEF TypeOK, ClientTypeOK
  <1>2. Fit(reply, items[c]) \in Seq(Lines) /\ Len(Fit(reply, items[c])) = items[c]
    BY <1>1, FitType
  <1> QED
    BY <1>2, ValidateShape DEF BulkAnswer, ChoicesStay

LEMMA RaiseShape ==
    ASSUME TypeOK, NEW c \in Callers, Shaped(c), Raise(c)
    PROVE  Shaped(c)' /\ Aside(c) /\ ChoicesStay(c)
  <1>1. CASE /\ Return(c, IF job[c] = "health" THEN "unreachable" ELSE "raised")
             /\ UNCHANGED lines
    <2> DEFINE r == IF job[c] = "health" THEN "unreachable" ELSE "raised"
    <2>1. r # "lines" /\ Return(c, r)
      BY <1>1
    <2> HIDE DEF r
    <2> QED
      BY <1>1, <2>1, ReturnShape DEF TypeOK, ClientTypeOK, ChoicesStay
  <1>2. CASE job[c] = "requery" /\ Validate(c, lines[c], cursor[c])
    <2>1. lines[c] \in Seq(Lines) /\ cursor[c] \in Nat /\ Len(lines[c]) = items[c]
      BY <1>2, ItemsAssumption DEF TypeOK, ClientTypeOK, Shaped
    <2> QED
      BY <1>2, <2>1, ValidateShape DEF ChoicesStay
  <1> QED
    BY <1>1, <1>2 DEF Raise

\* An attempt that is followed by another changes no list.
LEMMA RetryShape ==
    ASSUME TypeOK, NEW c \in Callers, Shaped(c), pc[c] # "idle",
           UNCHANGED <<job, items, lines, cursor, result>>,
           pc' \in {pc, [pc EXCEPT ![c] = "backoff"]}
    PROVE  Shaped(c)' /\ Aside(c) /\ ChoicesStay(c)
  <1>1. pc'[c] # "idle" /\ \A d \in Callers \ {c} : pc'[d] = pc[d]
    BY DEF TypeOK, ClientTypeOK
  <1> QED
    BY <1>1 DEF Shaped, Aside, ChoicesStay

LEMMA ReplyShape ==
    ASSUME TypeOK, NEW c \in Callers, Shaped(c), pc[c] # "idle", Reply(c)
    PROVE  Shaped(c)' /\ Aside(c) /\ ChoicesStay(c)
  <1>1. ASSUME NEW r \in Lines, Answer(c, r)
        PROVE  Shaped(c)' /\ Aside(c) /\ ChoicesStay(c)
    BY <1>1, AnswerShape
  <1>2. ASSUME NEW m \in Nat, NEW reply \in [1 .. m -> Lines], BulkAnswer(c, reply)
        PROVE  Shaped(c)' /\ Aside(c) /\ ChoicesStay(c)
    BY <1>2, BulkAnswerShape
  <1>3. CASE Raise(c)
    BY <1>3, RaiseShape
  <1>4. CASE Succeed(c)
    BY <1>1, <1>2, <1>4, ItemsAssumption DEF Succeed, Lines
  <1>5. CASE TooMany(c)
    <2>1. <<>> \in [1 .. 0 -> Lines] /\ "empty" \in Lines
      BY DEF Lines
    <2>2. CASE Answer(c, "empty") \/ BulkAnswer(c, <<>>)
      BY <1>1, <1>2, <2>1, <2>2
    <2> QED
      BY <1>5, <2>2, RetryShape DEF TooMany
  <1>6. CASE Fail(c)
    BY <1>3, <1>6, RetryShape DEF Fail
  <1>7. CASE Crash(c)
    BY <1>3, <1>7 DEF Crash
  <1> QED
    BY <1>4, <1>5, <1>6, <1>7 DEF Reply

\* A caller whose call no other caller's step touches keeps its shape.
LEMMA AsideKeeps ==
    ASSUME ShapeInv, NEW c \in Callers, Aside(c), Shaped(c)'
    PROVE  ShapeInv'
  BY DEF ShapeInv, Shaped, Aside

LEMMA ShapeInit == Init => ShapeInv
  BY DEF Init, ShapeInv, Shaped

LEMMA ShapeStep ==
    ASSUME IndInv, ShapeInv, [ClientNext]_vars
    PROVE  ShapeInv' /\ \A c \in Callers : ChoicesStay(c)
  <1>1. TypeOK /\ Engaged
    BY DEF IndInv
  <1>2. ASSUME NEW c \in Callers, NEW j \in {"complete", "choices", "bulk", "health"}, NEW n,
               Call(c, j, n)
        PROVE  ShapeInv' /\ \A d \in Callers : ChoicesStay(d)
    <2>1. /\ job'[c] = j /\ lines'[c] = <<>> /\ result'[c] = "none"
          /\ \A d \in Callers \ {c} :
                /\ job'[d] = job[d] /\ items'[d] = items[d] /\ lines'[d] = lines[d]
                /\ cursor'[d] = cursor[d] /\ result'[d] = result[d]
      BY <1>1, <1>2 DEF Call, TypeOK, ClientTypeOK
    <2>2. pc'[c] # "idle" /\ \A d \in Callers \ {c} : pc'[d] = pc[d]
      BY <1>1, <1>2 DEF Call, Acquire, TypeOK, ClientTypeOK
    <2>3. Shaped(c)' /\ Aside(c)
      BY <2>1, <2>2 DEF Shaped, Aside
    <2>4. job[c] # "requery"
      BY <1>2 DEF Call, ShapeInv, Shaped
    <2>5. \A d \in Callers : ChoicesStay(d)
      BY <2>1, <2>4 DEF ChoicesStay
    <2> QED
      BY <2>3, <2>5, AsideKeeps
  <1>3. ASSUME NEW c \in Callers, Reply(c)
        PROVE  ShapeInv' /\ \A d \in Callers : ChoicesStay(d)
    <2>1. stage[c] = "using"
      BY <1>3, ReplyMoves DEF PutBack
    <2>2. pc[c] # "idle" /\ Shaped(c)
      BY <1>1, <2>1 DEF Engaged, ShapeInv
    <2>3. Shaped(c)' /\ Aside(c) /\ ChoicesStay(c)
      BY <1>1, <1>3, <2>2, ReplyShape
    <2>4. \A d \in Callers \ {c} : ChoicesStay(d)
      BY <2>3 DEF Aside, ChoicesStay
    <2> QED
      BY <2>3, <2>4, AsideKeeps
  <1>4. ASSUME UNCHANGED <<job, items, lines, cursor, result>>,
               \A d \in Callers : pc'[d] = "idle" => pc[d] = "idle"
        PROVE  ShapeInv' /\ \A d \in Callers : ChoicesStay(d)
    BY <1>4 DEF ShapeInv, Shaped, ChoicesStay
  <1>5. ASSUME NEW c \in Callers, PickKey(c) \/ WakeUp(c)
        PROVE  ShapeInv' /\ \A d \in Callers : ChoicesStay(d)
    BY <1>4, <1>5 DEF PickKey, WakeUp, clientVars
  <1>6. ASSUME NEW c \in Callers, EndBackoff(c)
        PROVE  ShapeInv' /\ \A d \in Callers : ChoicesStay(d)
    <2>1. \A d \in Callers : pc'[d] = "idle" => pc[d] = "idle"
      BY <1>1, <1>6 DEF EndBackoff, TypeOK, ClientTypeOK
    <2> QED
      BY <1>4, <1>6, <2>1 DEF EndBackoff
  <1>7. CASE Close \/ ClientTick \/ UNCHANGED vars
    BY <1>4, <1>7 DEF Close, ClientTick, vars, clientVars
  <1> QED
    BY <1>2, <1>3, <1>5, <1>6, <1>7
    DEF ClientNext, Reply, Complete, HealthCheck, CompleteWithChoices, CompleteBulk

LEMMA ShapeInvariant == ClientSpec => []ShapeInv
  BY ShapeInit, ShapeStep, Inductive, PTL DEF ClientSpec

\* complete_bulk returns one line per item and re-queries only inside the list,
\* whatever the lengths of the replies and however the re-queries end.
THEOREM BulkShapeHolds == ClientSpec => []BulkShape
  <1>1. ShapeInv => BulkShape
    BY DEF ShapeInv, Shaped, BulkShape
  <1> QED
    BY <1>1, ShapeInvariant, PTL

\* No step turns a line that is a choice into anything else while the list is
\* being validated.
THEOREM ValidLinesKeptHolds == ClientSpec => ValidLinesKept
  <1>1. IndInv /\ ShapeInv /\ [ClientNext]_vars =>
           [\A c \in Callers : \A i \in 1 .. Len(lines[c]) :
               job[c] = "requery" /\ lines[c][i] = "valid" => lines'[c][i] = "valid"]_vars
    BY ShapeStep DEF ChoicesStay
  <1> QED
    BY <1>1, Inductive, ShapeInvariant, PTL DEF ClientSpec, ValidLinesKept

-----------------------------------------------------------------------------
(* How many posts a call has made: MaxAttempts for each request that ended *)
(* before the one at hand, which are at most as many as cursor, and one    *)
(* for each attempt of this one.                                           *)

Spent(c) ==
    /\ posts[c] <= MaxAttempts * cursor[c] + attempt[c]
    /\ job[c] # "requery" => cursor[c] = 0

SpentInv == \A c \in Callers : Spent(c)

\* A step of c counts no other caller's posts.
Uncounted(c) ==
    \A d \in Callers \ {c} :
       /\ job'[d] = job[d] /\ cursor'[d] = cursor[d]
       /\ attempt'[d] = attempt[d] /\ posts'[d] = posts[d]

LEMMA TimesNext ==
    ASSUME NEW m \in Nat, NEW a \in Nat, NEW b \in Nat, a < b
    PROVE  m * a + m <= m * b /\ m * a \in Nat /\ m * b \in Nat
  <1> DEFINE d == b - (a + 1)
  <1>1. d \in Nat /\ b = (a + 1) + d
    OBVIOUS
  <1>2. m * ((a + 1) + d) = m * a + m + m * d /\ m * d \in Nat /\ m * a \in Nat
    BY <1>1
  <1> QED
    BY <1>1, <1>2

LEMMA ReturnSpent ==
    ASSUME TypeOK, NEW c \in Callers, NEW r, Return(c, r)
    PROVE  Spent(c)' /\ Uncounted(c)
  <1>1. job'[c] = "none" /\ posts'[c] = 0 /\ cursor'[c] = 0 /\ attempt'[c] = 0
    BY DEF Return, TypeOK, ClientTypeOK
  <1>2. Uncounted(c)
    BY DEF Return, Uncounted, TypeOK, ClientTypeOK
  <1> QED
    BY <1>1, <1>2, AttemptsAssumption DEF Spent

LEMMA ValidateSpent ==
    ASSUME TypeOK, NEW c \in Callers, Spent(c), NEW ls, Validate(c, ls, cursor[c])
    PROVE  Spent(c)' /\ Uncounted(c)
  <1>1. /\ MaxAttempts \in Nat /\ attempt[c] \in 0 .. MaxAttempts - 1
        /\ cursor[c] \in Nat /\ posts[c] \in Nat /\ items[c] \in Nat
    BY AttemptsAssumption, ItemsAssumption DEF TypeOK, ClientTypeOK
  <1>2. CASE Return(c, "lines")
    BY <1>2, ReturnSpent
  <1>3. ASSUME NEW j \in cursor[c] + 1 .. items[c],
               cursor' = [cursor EXCEPT ![c] = j],
               job' = [job EXCEPT ![c] = "requery"],
               attempt' = [attempt EXCEPT ![c] = 0],
               Posted(c)
        PROVE  Spent(c)' /\ Uncounted(c)
    <2>1. /\ job'[c] = "requery" /\ cursor'[c] = j /\ attempt'[c] = 0
          /\ posts'[c] = posts[c] + 1
      BY <1>3 DEF Posted, TypeOK, ClientTypeOK
    <2>2. Uncounted(c)
      BY <1>3 DEF Posted, Uncounted, TypeOK, ClientTypeOK
    <2>3. j \in Nat /\ cursor[c] < j
      BY <1>1
    <2>4. /\ MaxAttempts * cursor[c] + MaxAttempts <= MaxAttempts * j
          /\ MaxAttempts * cursor[c] \in Nat /\ MaxAttempts * j \in Nat
      BY <1>1, <2>3, TimesNext
    <2>5. posts[c] + 1 <= MaxAttempts * j + 0
      BY <1>1, <2>4 DEF Spent
    <2> QED
      BY <2>1, <2>2, <2>5 DEF Spent
  <1> QED
    BY <1>2, <1>3 DEF Validate

LEMMA RetrySpent ==
    ASSUME TypeOK, NEW c \in Callers, Spent(c), NextAttempt(c), UNCHANGED <<job, cursor>>
    PROVE  Spent(c)' /\ Uncounted(c)
  <1>1. attempt'[c] = attempt[c] + 1 /\ posts'[c] = posts[c] + 1
    BY DEF NextAttempt, Posted, TypeOK, ClientTypeOK
  <1>2. Uncounted(c)
    BY DEF NextAttempt, Posted, Uncounted, TypeOK, ClientTypeOK
  <1>3. /\ MaxAttempts * cursor[c] \in Nat
        /\ attempt[c] \in Nat /\ posts[c] \in Nat
    BY AttemptsAssumption, ItemsAssumption DEF TypeOK, ClientTypeOK
  <1> QED
    BY <1>1, <1>2, <1>3 DEF Spent

LEMMA ReplySpent ==
    ASSUME TypeOK, NEW c \in Callers, Spent(c), Reply(c)
    PROVE  Spent(c)' /\ Uncounted(c)
  <1>1. ASSUME NEW r, Answer(c, r) PROVE Spent(c)' /\ Uncounted(c)
    BY <1>1, ReturnSpent, ValidateSpent DEF Answer
  <1>2. ASSUME NEW reply, BulkAnswer(c, reply) PROVE Spent(c)' /\ Uncounted(c)
    <2>1. cursor[c] = 0
      BY <1>2 DEF BulkAnswer, Spent
    <2> QED
      BY <1>2, <2>1, ValidateSpent DEF BulkAnswer
  <1>3. CASE Raise(c)
    BY <1>3, ReturnSpent, ValidateSpent DEF Raise
  <1>4. CASE Succeed(c)
    BY <1>1, <1>2, <1>4 DEF Succeed
  <1>5. CASE TooMany(c)
    BY <1>1, <1>2, <1>5, RetrySpent DEF TooMany
  <1>6. CASE Fail(c)
    BY <1>3, <1>6, RetrySpent DEF Fail
  <1>7. CASE Crash(c)
    BY <1>3, <1>7 DEF Crash
  <1> QED
    BY <1>4, <1>5, <1>6, <1>7 DEF Reply

LEMMA SpentInit == Init => SpentInv
  BY AttemptsAssumption DEF Init, SpentInv, Spent

LEMMA SpentStep ==
    ASSUME TypeOK, ShapeInv, SpentInv, [ClientNext]_vars
    PROVE  SpentInv'
  <1>1. ASSUME NEW c \in Callers, NEW j \in {"complete", "choices", "bulk", "health"}, NEW n,
               Call(c, j, n)
        PROVE  SpentInv'
    <2>1. job[c] = "none"
      BY <1>1 DEF Call, ShapeInv, Shaped
    <2>2. cursor[c] = 0
      BY <2>1 DEF SpentInv, Spent
    <2> QED
      BY <1>1, <2>2 DEF Call, SpentInv, Spent, TypeOK, ClientTypeOK
  <1>2. ASSUME NEW c \in Callers, Reply(c) PROVE SpentInv'
    <2>1. Spent(c)' /\ Uncounted(c)
      BY <1>2, ReplySpent DEF SpentInv
    <2> QED
      BY <2>1 DEF SpentInv, Spent, Uncounted
  <1>3. CASE UNCHANGED <<job, cursor, attempt, posts>>
    BY <1>3 DEF SpentInv, Spent
  <1>4. ASSUME NEW c \in Callers, PickKey(c) \/ WakeUp(c) \/ EndBackoff(c) PROVE SpentInv'
    BY <1>3, <1>4 DEF PickKey, WakeUp, EndBackoff, clientVars
  <1>5. CASE Close \/ ClientTick \/ UNCHANGED vars
    BY <1>3, <1>5 DEF Close, ClientTick, vars, clientVars
  <1> QED
    BY <1>1, <1>2, <1>4, <1>5
    DEF ClientNext, Reply, Complete, HealthCheck, CompleteWithChoices, CompleteBulk

LEMMA SpentInvariant == ClientSpec => []SpentInv
  BY SpentInit, SpentStep, TypeCorrect, ShapeInvariant, PTL DEF ClientSpec

\* No call makes more posts than its attempts allow, for its own request and
\* once for each line of a bulk call, however its attempts and re-queries end.
THEOREM PostsBoundedHolds == ClientSpec => []PostsBounded
  <1>1. TypeOK /\ ShapeInv /\ SpentInv => PostsBounded
    <2> SUFFICES ASSUME TypeOK, ShapeInv, SpentInv, NEW c \in Callers
                 PROVE  posts[c] < MaxAttempts * (1 + items[c])
      BY DEF PostsBounded
    <2>1. /\ MaxAttempts \in Nat /\ attempt[c] \in 0 .. MaxAttempts - 1
          /\ cursor[c] \in Nat /\ posts[c] \in Nat /\ items[c] \in Nat
      BY AttemptsAssumption, ItemsAssumption DEF TypeOK, ClientTypeOK
    <2>2. cursor[c] < 1 + items[c]
      BY <2>1 DEF ShapeInv, Shaped, SpentInv, Spent
    <2>3. /\ MaxAttempts * cursor[c] + MaxAttempts <= MaxAttempts * (1 + items[c])
          /\ MaxAttempts * cursor[c] \in Nat /\ MaxAttempts * (1 + items[c]) \in Nat
      BY <2>1, <2>2, TimesNext
    <2>4. posts[c] <= MaxAttempts * cursor[c] + attempt[c]
      BY DEF SpentInv, Spent
    <2> QED
      BY <2>1, <2>3, <2>4
  <1> QED
    BY <1>1, TypeCorrect, ShapeInvariant, SpentInvariant, PTL

-----------------------------------------------------------------------------
(* The client uses its pool as the pool's specification allows.            *)

\* Time that only a backoff waits for leaves the pool as it is.
LEMMA ElapseStutters ==
    ASSUME PoolTypeOK, Elapse, ~Tick
    PROVE  UNCHANGED poolVars
  <1>1. \A k \in Keys : cooldowns[k] = 0
    <2>1. \A k \in Keys : cooldowns[k] \in Nat
      BY CooldownAssumption DEF PoolTypeOK
    <2> QED
      BY <2>1 DEF Tick
  <1>2. \A c \in Callers : nap[c] = 0
    <2>1. \A c \in Callers : nap[c] \in Nat
      BY CooldownAssumption DEF PoolTypeOK
    <2> QED
      BY <2>1 DEF Tick
  <1>3. cooldowns' = cooldowns /\ nap' = nap
    BY <1>1, <1>2 DEF PoolTypeOK, Elapse, Less
  <1> QED
    BY <1>3 DEF Elapse, poolVars

LEMMA ClientStepsPool ==
    ASSUME TypeOK, [ClientNext]_vars
    PROVE  [Next]_poolVars
  <1>1. ASSUME NEW c \in Callers, Complete(c) \/ HealthCheck(c) \/ CompleteWithChoices(c) \/ CompleteBulk(c)
        PROVE  UNCHANGED poolVars
    BY <1>1 DEF Complete, HealthCheck, CompleteWithChoices, CompleteBulk, Call
  <1>2. ASSUME NEW c \in Callers, PickKey(c) PROVE Next
    BY <1>2 DEF PickKey, Next
  <1>3. ASSUME NEW c \in Callers, WakeUp(c) PROVE Next
    BY <1>3 DEF WakeUp, Next
  <1>4. ASSUME NEW c \in Callers, Succeed(c) \/ TooMany(c) \/ Fail(c) \/ Crash(c) PROVE Next
    BY <1>4 DEF Succeed, TooMany, Fail, Crash, Next
  <1>5. ASSUME NEW c \in Callers, EndBackoff(c) PROVE UNCHANGED poolVars
    BY <1>5 DEF EndBackoff
  <1>6. CASE Close
    BY <1>6 DEF Close, Next
  <1>7. CASE ClientTick
    BY <1>7, ElapseStutters DEF ClientTick, Next, Tick, TypeOK
  <1>8. CASE UNCHANGED vars
    BY <1>8 DEF vars, poolVars
  <1> QED
    BY <1>1, <1>2, <1>3, <1>4, <1>5, <1>6, <1>7, <1>8 DEF ClientNext

\* NIMClient implements NIMKeyPool: every step of a client is a step of the
\* pool, or one that the pool does not see.
THEOREM ImplementsPool == ClientSpec => Safety
  <1>1. Init => PoolInit
    BY DEF Init
  <1> QED
    BY <1>1, ClientStepsPool, TypeCorrect, PTL DEF ClientSpec, Safety

\* What holds of the pool holds of the pool in use: a request sleeps as long as
\* the key it waits for cools, unless a new 429 hits that key.
THEOREM ClientSleepCoversCooldown == ClientSpec => []SleepCoversCooldown
  BY ImplementsPool, SafetySleeps, PTL

\* And no request ends a cooldown early but after sleeping through a new 429.
THEOREM ClientCooldownCutOnlyByLate429 == ClientSpec => CooldownCutOnlyByLate429
  BY ImplementsPool, SafetyCuts, PTL
=============================================================================
