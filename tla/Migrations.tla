----------------------------- MODULE Migrations -----------------------------
(***************************************************************************)
(* The migration runner (migrations/migrate.py): several invocations, by   *)
(* operators or by start.sh, against one database.  A migration's SQL and  *)
(* its row in espresso_migrations are one transaction; what was read       *)
(* before it (the applied set) is not.  A migration may need another one's *)
(* tables: 003 puts policies on the table of 001, and they go with it.     *)
(***************************************************************************)
EXTENDS Integers

CONSTANTS N,       \* files 1 .. N, in the order of their names
          Needs,   \* the migrations whose tables a migration alters
          Runners  \* processes that may run at the same time

ASSUME FilesAssumption == N \in Nat \ {0}
ASSUME NeedsAssumption ==
    Needs \in [1 .. N -> SUBSET (1 .. N)] /\ \A f \in 1 .. N : \A g \in Needs[f] : g < f

VARIABLES record,  \* the row of a file: none, applied, or with rolled_back_at set
          effect,  \* files whose tables and policies are in the database
          pc,      \* what each runner is doing, or how its last run ended
          todo,    \* what is left of to_apply, or the one match of a rollback
          ups      \* history: runs of a file's up.sql committed since its last down.sql

vars == <<record, effect, pc, todo, ups>>

Files == 1 .. N
Applied == {f \in Files : record[f] = "applied"}
Resting == {"idle", "ok", "failed"}

Init ==
    /\ record = [f \in Files |-> "none"]
    /\ effect = {}
    /\ pc = [r \in Runners |-> "idle"]
    /\ todo = [r \in Runners |-> {}]
    /\ ups = [f \in Files |-> 0]

-----------------------------------------------------------------------------
\* The files that are not applied.
Pending == Files \ Applied

\* cmd_apply reads the applied set once.
StartApply(r) ==
    /\ pc[r] \in Resting
    /\ todo' = [todo EXCEPT ![r] = Pending]
    /\ pc' = [pc EXCEPT ![r] = IF Pending = {} THEN "ok" ELSE "apply"]
    /\ UNCHANGED <<record, effect, ups>>

\* Mutant: filename is not UNIQUE, and what was read as pending is inserted.
Insertable_Repeats(f) == TRUE

\* filename is UNIQUE, and a rolled back migration keeps its row.
Insertable(f) == record[f] = "none"

\* Mutant: the SQL is committed without its row.
Recorded_Lost(f) == record

Recorded(f) == [record EXCEPT ![f] = "applied"]

\* The files are taken in the order of their names.
IsFirst(f, S) == f \in S /\ \A g \in S : f <= g

\* apply_migration succeeds and is committed.
Apply(r) ==
    /\ pc[r] = "apply"
    /\ \E f \in Files :
          /\ IsFirst(f, todo[r])
          /\ Needs[f] \subseteq effect
          /\ Insertable(f)
          /\ record' = Recorded(f)
          /\ effect' = effect \cup {f}
          /\ ups' = [ups EXCEPT ![f] = @ + 1]
          /\ todo' = [todo EXCEPT ![r] = @ \ {f}]
          /\ pc' = [pc EXCEPT ![r] = IF todo[r] = {f} THEN "ok" ELSE "apply"]

\* The SQL or the INSERT raises: the transaction is undone, the run ends.
ApplyFails(r) ==
    /\ pc[r] = "apply"
    /\ \E f \in Files :
          IsFirst(f, todo[r]) /\ ~(Needs[f] \subseteq effect /\ Insertable(f))
    /\ pc' = [pc EXCEPT ![r] = "failed"]
    /\ todo' = [todo EXCEPT ![r] = {}]
    /\ UNCHANGED <<record, effect, ups>>

-----------------------------------------------------------------------------
\* cmd_rollback with a name that matches one applied migration, whichever.
StartRollback(r) ==
    /\ pc[r] \in Resting
    /\ \E f \in Applied : todo' = [todo EXCEPT ![r] = {f}]
    /\ pc' = [pc EXCEPT ![r] = "rollback"]
    /\ UNCHANGED <<record, effect, ups>>

\* Dropping a table takes along what other migrations put on it.
Undone(f) == {f} \cup {g \in Files : f \in Needs[g]}

\* Mutant: the UPDATE matches no row.
Withdrawn_NoMatch(f) == record

\* The UPDATE matches the row only if it is still applied.
Withdrawn(f) == IF f \in Applied THEN [record EXCEPT ![f] = "rolledback"] ELSE record

\* rollback_migration.
Rollback(r) ==
    /\ pc[r] = "rollback"
    /\ \E f \in todo[r] :
          /\ Needs[f] \subseteq effect
          /\ effect' = effect \ Undone(f)
          /\ record' = Withdrawn(f)
          /\ ups' = [ups EXCEPT ![f] = 0]
    /\ todo' = [todo EXCEPT ![r] = {}]
    /\ pc' = [pc EXCEPT ![r] = "ok"]

\* down.sql alters a table that is gone.
RollbackFails(r) ==
    /\ pc[r] = "rollback"
    /\ \E f \in todo[r] : ~(Needs[f] \subseteq effect)
    /\ pc' = [pc EXCEPT ![r] = "failed"]
    /\ todo' = [todo EXCEPT ![r] = {}]
    /\ UNCHANGED <<record, effect, ups>>

\* The process is killed: what it had not committed is undone.
Kill(r) ==
    /\ pc[r] \notin Resting
    /\ pc' = [pc EXCEPT ![r] = "idle"]
    /\ todo' = [todo EXCEPT ![r] = {}]
    /\ UNCHANGED <<record, effect, ups>>

-----------------------------------------------------------------------------
Next ==
    \E r \in Runners :
       \/ StartApply(r) \/ Apply(r) \/ ApplyFails(r)
       \/ StartRollback(r) \/ Rollback(r) \/ RollbackFails(r)
       \/ Kill(r)

Spec == Init /\ [][Next]_vars

-----------------------------------------------------------------------------
TypeOK ==
    /\ record \in [Files -> {"none", "applied", "rolledback"}]
    /\ effect \subseteq Files
    /\ pc \in [Runners -> Resting \cup {"apply", "rollback"}]
    /\ todo \in [Runners -> SUBSET Files]
    /\ ups \in [Files -> Nat]

\* The schema holds nothing the tracking table does not know of, through
\* stale reads of it, killed runners and failed transactions.
InEffectIsApplied == effect \subseteq Applied

\* migrate.py:5, "to avoid re-running": between two rollbacks of a file its
\* up.sql is committed once at most, even by two runners that both read it as
\* pending.  To apply a file again after its rollback is not a re-run.
RunOnce == \A f \in Files : ups[f] <= 1

\* The other way round the table may claim too much, but for one reason only:
\* a file that is recorded and not in the schema went with a table it had
\* altered, which was rolled back under it.
MissingIsUndone ==
    \A f \in Applied \ effect : \E g \in Needs[f] : record[g] = "rolledback"

\* migrate.py:142, "Apply all pending migrations.": what status lists as
\* PENDING can be applied once its base is there.
PendingCanBeApplied ==
    [][\A r \in Runners :
          pc[r] = "apply" /\ pc'[r] = "failed" =>
             \E f \in todo[r] :
                IsFirst(f, todo[r]) /\ (f \in Applied \/ ~(Needs[f] \subseteq effect))]_vars
=============================================================================
