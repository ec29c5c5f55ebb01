------------------------- MODULE Migrations_proofs -------------------------
(***************************************************************************)
(* The safety of Migrations for every set of files, every relation between *)
(* them and any number of runners.  A file that is missing from the schema *)
(* while the table claims it is explained by what was rolled back, because *)
(* a row never leaves "rolledback" and because whoever is about to run a   *)
(* down.sql has seen its row: the row may be withdrawn meanwhile, it does  *)
(* not disappear.                                                          *)
(***************************************************************************)
EXTENDS Migrations, TLAPS

\* A committed up.sql left a row, and none is counted before.
CountedInRecord ==
    \A f \in Files : ups[f] <= 1 /\ (record[f] = "none" => ups[f] = 0)

\* What is being rolled back had been applied when it was looked up.
RollbackSeen ==
    \A r \in Runners : pc[r] = "rollback" => \A f \in todo[r] : record[f] # "none"

IndInv ==
    /\ TypeOK
    /\ InEffectIsApplied
    /\ CountedInRecord
    /\ MissingIsUndone
    /\ RollbackSeen

\* The tables and policies a file needs are other files'.
LEMMA NeedsType == ASSUME NEW f \in Files PROVE Needs[f] \subseteq Files
  BY NeedsAssumption DEF Files

-----------------------------------------------------------------------------
\* What an invocation does to the table: rows appear as "applied", an applied
\* row may be withdrawn, and a row never disappears.
RowStep(old, new) ==
    new = old \/ (old = "none" /\ new = "applied") \/ (old = "applied" /\ new = "rolledback")

\* No step undoes the withdrawal of a row or deletes one.
LEMMA RowSteps ==
  ASSUME TypeOK, Next
  PROVE  \A f \in Files : RowStep(record[f], record'[f])
<1> SUFFICES ASSUME NEW h \in Files PROVE RowStep(record[h], record'[h])
  OBVIOUS
<1> USE DEF TypeOK, RowStep
<1>1. CASE \E r \in Runners : Apply(r)
  <2>1. PICK f \in Files : Insertable(f) /\ record' = Recorded(f)
    BY <1>1 DEF Apply
  <2> QED
    BY <2>1 DEF Insertable, Recorded
<1>2. CASE \E r \in Runners : Rollback(r)
  <2>1. PICK f \in Files : record' = Withdrawn(f)
    BY <1>2 DEF Rollback
  <2> QED
    BY <2>1 DEF Withdrawn, Applied
<1>3. CASE record' = record
  BY <1>3
<1> QED
  BY <1>1, <1>2, <1>3
  DEF Next, StartApply, ApplyFails, StartRollback, RollbackFails, Kill

\* The variables keep their types.
LEMMA TypeStep == ASSUME TypeOK, [Next]_vars PROVE TypeOK'
<1>1. CASE UNCHANGED vars
  BY <1>1 DEF vars, TypeOK
<1>2. ASSUME NEW r \in Runners, StartApply(r) PROVE TypeOK'
  BY <1>2 DEF StartApply, TypeOK, Pending, Resting
<1>3. ASSUME NEW r \in Runners, Apply(r) PROVE TypeOK'
  <2>1. PICK f \in Files :
           /\ record' = Recorded(f) /\ effect' = effect \cup {f}
           /\ ups' = [ups EXCEPT ![f] = @ + 1] /\ todo' = [todo EXCEPT ![r] = @ \ {f}]
           /\ pc' = [pc EXCEPT ![r] = IF todo[r] = {f} THEN "ok" ELSE "apply"]
    BY <1>3 DEF Apply
  <2>2. ups[f] + 1 \in Nat
    BY SMT DEF TypeOK
  <2> QED
    BY <2>1, <2>2 DEF TypeOK, Recorded, Resting
<1>4. ASSUME NEW r \in Runners, ApplyFails(r) PROVE TypeOK'
  BY <1>4 DEF ApplyFails, TypeOK, Resting
<1>5. ASSUME NEW r \in Runners, StartRollback(r) PROVE TypeOK'
  BY <1>5 DEF StartRollback, TypeOK, Applied
<1>6. ASSUME NEW r \in Runners, Rollback(r) PROVE TypeOK'
  <2>1. PICK f \in todo[r] :
           /\ effect' = effect \ Undone(f) /\ record' = Withdrawn(f)
           /\ ups' = [ups EXCEPT ![f] = 0]
    BY <1>6 DEF Rollback
  <2>2. 0 \in Nat
    OBVIOUS
  <2> QED
    BY <1>6, <2>1, <2>2 DEF Rollback, TypeOK, Withdrawn, Resting
<1>7. ASSUME NEW r \in Runners, RollbackFails(r) PROVE TypeOK'
  BY <1>7 DEF RollbackFails, TypeOK, Resting
<1>8. ASSUME NEW r \in Runners, Kill(r) PROVE TypeOK'
  BY <1>8 DEF Kill, TypeOK, Resting
<1> QED
  BY <1>1, <1>2, <1>3, <1>4, <1>5, <1>6, <1>7, <1>8 DEF Next

\* Whoever looks up a file to roll back finds a row, and it stays a row.
LEMMA SeenStep == ASSUME TypeOK, RollbackSeen, Next PROVE RollbackSeen'
<1> SUFFICES ASSUME NEW s \in Runners, pc'[s] = "rollback", NEW f \in todo'[s]
             PROVE  record'[f] # "none"
  BY DEF RollbackSeen
<1>1. f \in Files
  BY TypeStep DEF TypeOK
<1>2. RowStep(record[f], record'[f])
  BY <1>1, RowSteps
<1>3. CASE pc[s] = "rollback" /\ f \in todo[s]
  BY <1>2, <1>3 DEF RollbackSeen, RowStep
<1>4. CASE StartRollback(s)
  BY <1>4 DEF StartRollback, Applied, TypeOK
<1>5. ASSUME NEW r \in Runners, r = s => ~StartRollback(s),
             StartApply(r) \/ Apply(r) \/ ApplyFails(r)
             \/ StartRollback(r) \/ Rollback(r) \/ RollbackFails(r) \/ Kill(r)
      PROVE  pc[s] = "rollback" /\ f \in todo[s]
  <2> USE DEF TypeOK
  <2>1. CASE r # s
    BY <1>5, <2>1
    DEF StartApply, Apply, ApplyFails, StartRollback, Rollback, RollbackFails, Kill
  <2>2. CASE r = s
    <3>1. ~StartApply(s)
      BY DEF StartApply
    <3>2. ~Apply(s)
      BY DEF Apply
    <3>3. ~ApplyFails(s) /\ ~Rollback(s) /\ ~RollbackFails(s) /\ ~Kill(s)
      BY DEF ApplyFails, Rollback, RollbackFails, Kill
    <3> QED
      BY <1>5, <2>2, <3>1, <3>2, <3>3
  <2> QED
    BY <2>1, <2>2
<1> QED
  BY <1>3, <1>4, <1>5 DEF Next

-----------------------------------------------------------------------------
\* A committed apply_migration keeps the invariant.
LEMMA ApplyStep ==
  ASSUME IndInv, NEW r \in Runners, Apply(r)
  PROVE  InEffectIsApplied' /\ CountedInRecord' /\ MissingIsUndone'
<1> USE DEF IndInv, TypeOK
<1>1. PICK f \in Files :
         /\ record[f] = "none" /\ record' = [record EXCEPT ![f] = "applied"]
         /\ effect' = effect \cup {f} /\ ups' = [ups EXCEPT ![f] = @ + 1]
  BY DEF Apply, Insertable, Recorded
<1>2. InEffectIsApplied'
  BY <1>1 DEF InEffectIsApplied, Applied
<1>3. CountedInRecord'
  BY <1>1, SMT DEF CountedInRecord
<1>4. MissingIsUndone'
  <2> SUFFICES ASSUME NEW h \in Files, record'[h] = "applied", h \notin effect'
               PROVE  \E g \in Needs[h] : record'[g] = "rolledback"
    BY DEF MissingIsUndone, Applied
  <2>1. h \in Applied \ effect
    BY <1>1 DEF Applied
  <2>2. PICK g \in Needs[h] : record[g] = "rolledback"
    BY <2>1 DEF MissingIsUndone
  <2>3. g \in Files
    BY NeedsType
  <2>4. record'[g] = "rolledback"
    BY <1>1, <2>2, <2>3
  <2> QED
    BY <2>4
<1> QED
  BY <1>2, <1>3, <1>4

\* A committed rollback_migration keeps it: the other files it takes out of
\* the schema are those that need the file whose row is now withdrawn.
LEMMA RollbackStep ==
  ASSUME IndInv, NEW r \in Runners, Rollback(r)
  PROVE  InEffectIsApplied' /\ CountedInRecord' /\ MissingIsUndone'
<1> USE DEF IndInv, TypeOK
<1>1. PICK f \in todo[r] : /\ effect' = effect \ Undone(f) /\ record' = Withdrawn(f)
                            /\ ups' = [ups EXCEPT ![f] = 0]
  BY DEF Rollback
<1>2. f \in Files /\ record[f] # "none"
  BY DEF Rollback, RollbackSeen
<1>3. record'[f] = "rolledback" /\ \A h \in Files : h # f => record'[h] = record[h]
  BY <1>1, <1>2 DEF Withdrawn, Applied
<1>4. InEffectIsApplied'
  BY <1>1, <1>2, <1>3 DEF InEffectIsApplied, Applied, Undone
<1>5. CountedInRecord'
  BY <1>1, <1>2, <1>3, SMT DEF CountedInRecord
<1>6. MissingIsUndone'
  <2> SUFFICES ASSUME NEW h \in Files, record'[h] = "applied", h \notin effect'
               PROVE  \E g \in Needs[h] : record'[g] = "rolledback"
    BY DEF MissingIsUndone, Applied
  <2>1. h # f /\ h \in Applied
    BY <1>3 DEF Applied
  <2>2. CASE h \in effect
    <3>1. f \in Needs[h]
      BY <1>1, <2>1, <2>2 DEF Undone
    <3> QED
      BY <1>3, <3>1
  <2>3. CASE h \notin effect
    <3>1. PICK g \in Needs[h] : record[g] = "rolledback"
      BY <2>1, <2>3 DEF MissingIsUndone
    <3>2. g \in Files
      BY NeedsType
    <3>3. record'[g] = "rolledback"
      BY <1>3, <3>1, <3>2
    <3> QED
      BY <3>3
  <2> QED
    BY <2>2, <2>3
<1> QED
  BY <1>4, <1>5, <1>6

LEMMA InitInv == Init => IndInv
  BY DEF Init, IndInv, TypeOK, InEffectIsApplied, CountedInRecord, MissingIsUndone,
         RollbackSeen, Applied, Resting

LEMMA StepInv == IndInv /\ [Next]_vars => IndInv'
<1> SUFFICES ASSUME IndInv, [Next]_vars PROVE IndInv'
  OBVIOUS
<1>1. TypeOK'
  BY TypeStep DEF IndInv
<1>2. CASE UNCHANGED vars
  BY <1>2 DEF vars, IndInv, TypeOK, InEffectIsApplied, CountedInRecord, MissingIsUndone,
              RollbackSeen, Applied
<1>3. CASE Next
  <2>1. RollbackSeen'
    BY <1>3, SeenStep DEF IndInv
  <2>2. InEffectIsApplied' /\ CountedInRecord' /\ MissingIsUndone'
    <3>1. CASE \E r \in Runners : Apply(r)
      BY <3>1, ApplyStep
    <3>2. CASE \E r \in Runners : Rollback(r)
      BY <3>2, RollbackStep
    <3>3. CASE UNCHANGED <<record, effect, ups>>
      BY <3>3 DEF IndInv, InEffectIsApplied, CountedInRecord, MissingIsUndone, Applied
    <3> QED
      BY <1>3, <3>1, <3>2, <3>3
      DEF Next, StartApply, ApplyFails, StartRollback, RollbackFails, Kill
  <2> QED
    BY <1>1, <2>1, <2>2 DEF IndInv
<1> QED
  BY <1>2, <1>3

THEOREM Invariance == Spec => []IndInv
<1> QED
  BY InitInv, StepInv, PTL DEF Spec

\* What is in the schema has an applied row, whatever the runners had read
\* before and wherever they were killed.
THEOREM InEffectIsAppliedHolds == Spec => []InEffectIsApplied
<1>1. IndInv => InEffectIsApplied
  BY DEF IndInv
<1> QED
  BY <1>1, Invariance, PTL

\* No up.sql is committed twice without its down.sql in between, by however
\* many runners.
THEOREM RunOnceHolds == Spec => []RunOnce
<1>1. IndInv => RunOnce
  BY DEF IndInv, CountedInRecord, RunOnce
<1> QED
  BY <1>1, Invariance, PTL

\* A file recorded as applied is missing from the schema only if something it
\* needs was rolled back, whatever the files need of each other.
THEOREM MissingIsUndoneHolds == Spec => []MissingIsUndone
<1>1. IndInv => MissingIsUndone
  BY DEF IndInv
<1> QED
  BY <1>1, Invariance, PTL

\* A row of espresso_migrations goes from applied to rolled back once and is
\* never deleted or taken back.
THEOREM RowsOnlyAdvance == Spec => [][\A f \in Files : RowStep(record[f], record'[f])]_vars
<1>1. IndInv /\ [Next]_vars => [\A f \in Files : RowStep(record[f], record'[f])]_vars
  BY RowSteps DEF IndInv, RowStep
<1> QED
  BY <1>1, Invariance, PTL DEF Spec
=============================================================================
