------------------------------ MODULE Startup ------------------------------
(***************************************************************************)
(* How an instance starts: src/start.sh runs "alembic upgrade head" and    *)
(* then the server, whatever became of the upgrade.  Instances of an old   *)
(* and a new release start, stop and serve side by side on one database,   *)
(* and admins create accounts through those that serve.                    *)
(*                                                                         *)
(* env.py runs all pending migrations in one PostgreSQL transaction.  The  *)
(* first statement of each migration conflicts with the same statement of  *)
(* another instance (a new table, column or unique row), so of two         *)
(* instances with the same work one waits for the other.                   *)
(***************************************************************************)
EXTENDS Integers

CONSTANTS
  Instances,    \* containers
  head,         \* head[i]: the newest migration in the image of instance i
  Configured,   \* instances whose environment names a JWT secret, or is not production
  NoInstance,   \* no transaction with migrations is open
  MaxFaults     \* bound on failed upgrades and killed instances

ASSUME HeadAssumption == head \in [Instances -> 1 .. 5]

ASSUME FaultsAssumption == MaxFaults \in Nat /\ NoInstance \notin Instances

VARIABLES
  revision,   \* alembic_version: the last migration committed, 0 for none
  owner,      \* owner[n]: who inserted the accounts row with name n
  upgrader,   \* the instance whose open transaction has run a migration
  applied,    \* the last migration that transaction has run
  stage,      \* what each instance does
  found,      \* the revision its upgrade read
  failure,    \* why its upgrade failed
  faults      \* faults so far

startup_vars == <<revision, owner, upgrader, applied, stage, found, failure, faults>>

SystemNames == {"External_Clearing", "Payment_Suspense", "Settlement_Clearing"}

\* The migration that inserts the accounts row of each name.
migration_of(n) == IF n = "External_Clearing" THEN 1 ELSE 5

seeds(m) == {n \in SystemNames : migration_of(n) = m}

seeded_by(r) == {n \in SystemNames : migration_of(n) <= r}

\* Names of rows inserted by the open transaction: in the unique index, but not
\* yet visible.
uncommitted ==
  {n \in SystemNames : /\ upgrader # NoInstance
                       /\ migration_of(n) \in found[upgrader] + 1 .. applied}

StartupInit ==
  /\ revision = 0
  /\ owner = [n \in SystemNames |-> "nobody"]
  /\ upgrader = NoInstance
  /\ applied = 0
  /\ stage = [i \in Instances |-> "off"]
  /\ found = [i \in Instances |-> 0]
  /\ failure = [i \in Instances |-> "none"]
  /\ faults = 0

-----------------------------------------------------------------------------
\* alembic upgrade head

Enter(i, label) == stage' = [stage EXCEPT ![i] = label]

\* FAULT: set -e: the script ends with the failed upgrade.
exit_on_failure(i) == "exited"

\* start.sh has no set -e: the server is started all the same.
after_failure(i) == "starting"

\* What i did in its transaction is rolled back.
Abandon(i) ==
  /\ upgrader' = IF upgrader = i THEN NoInstance ELSE upgrader
  /\ applied' = IF upgrader = i THEN 0 ELSE applied

\* alembic fails.
Fail(i, why) ==
  /\ Enter(i, after_failure(i))
  /\ failure' = [failure EXCEPT ![i] = why]
  /\ Abandon(i)
  /\ UNCHANGED <<revision, owner, found>>

\* The version is read first.  One that the image does not know, because a newer
\* release wrote it, is an error.
ReadVersion(i) ==
  /\ stage[i] = "off"
  /\ found' = [found EXCEPT ![i] = revision]
  /\ Enter(i, IF revision < head[i] THEN "upgrading" ELSE "starting")
  /\ failure' = [failure EXCEPT ![i] = IF revision > head[i] THEN "unknown_revision" ELSE "none"]
  /\ UNCHANGED <<revision, owner, upgrader, applied, faults>>

\* The first pending migration waits while another instance has run it, and
\* fails once that instance has committed it.
FirstMigration(i) ==
  /\ stage[i] = "upgrading" /\ upgrader # i
  /\ IF revision # found[i]
     THEN Fail(i, "outrun")
     ELSE /\ upgrader = NoInstance
          /\ upgrader' = i
          /\ applied' = found[i]
          /\ UNCHANGED <<revision, owner, stage, found, failure>>
  /\ UNCHANGED faults

\* FAULT: INSERT ... ON CONFLICT DO NOTHING.
never_refused(m) == FALSE

\* An INSERT of migration m meets a row of the same name.
refused(m) == \E n \in seeds(m) : owner[n] # "nobody"

\* One migration after the other, in the same transaction.
Migrate(i) ==
  /\ upgrader = i /\ applied < head[i]
  /\ IF refused(applied + 1)
     THEN Fail(i, "name_taken")
     ELSE /\ applied' = applied + 1
          /\ UNCHANGED <<revision, owner, upgrader, stage, found, failure>>
  /\ UNCHANGED faults

\* FAULT: transaction_per_migration: a commit after each migration.
may_commit_any(i) == applied > found[i]

may_commit(i) == applied = head[i]

\* The end of begin_transaction(): everything becomes visible at once.
CommitUpgrade(i) ==
  /\ upgrader = i /\ may_commit(i)
  /\ revision' = applied
  /\ owner' = [n \in SystemNames |->
                 IF n \in uncommitted /\ owner[n] = "nobody" THEN "migration" ELSE owner[n]]
  /\ upgrader' = NoInstance
  /\ applied' = 0
  /\ Enter(i, "starting")
  /\ UNCHANGED <<found, failure, faults>>

\* The connection is lost or refused, or a statement fails for another reason.
LoseUpgrade(i) ==
  /\ stage[i] = "upgrading"
  /\ faults < MaxFaults
  /\ faults' = faults + 1
  /\ Fail(i, "lost")

-----------------------------------------------------------------------------
\* uvicorn

\* Importing app.auth without a secret in production raises, and the server exits.
Serve(i) ==
  /\ stage[i] = "starting"
  /\ Enter(i, IF i \in Configured THEN "serving" ELSE "exited")
  /\ UNCHANGED <<revision, owner, upgrader, applied, found, failure, faults>>

\* POST /accounts: without the table it fails, a taken name is refused, and a
\* name a migration has inserted but not committed is waited for.
CreateAccount(i, n) ==
  /\ stage[i] = "serving"
  /\ revision >= 1
  /\ owner[n] = "nobody"
  /\ n \notin uncommitted
  /\ owner' = [owner EXCEPT ![n] = "admin"]
  /\ UNCHANGED <<revision, upgrader, applied, stage, found, failure, faults>>

\* Scaling in, a new revision, or a crash: the instance is gone and may be
\* started again.
Stop(i) ==
  /\ stage[i] \in {"serving", "exited"}
  /\ Enter(i, "off")
  /\ UNCHANGED <<revision, owner, upgrader, applied, found, failure, faults>>

\* Killed while it upgrades.
Kill(i) ==
  /\ stage[i] \in {"upgrading", "starting"}
  /\ faults < MaxFaults
  /\ faults' = faults + 1
  /\ Enter(i, "off")
  /\ Abandon(i)
  /\ UNCHANGED <<revision, owner, found, failure>>

Start(i) == FirstMigration(i) \/ Migrate(i) \/ CommitUpgrade(i) \/ Serve(i)

StartupNext ==
  \E i \in Instances :
    \/ ReadVersion(i) \/ Start(i) \/ LoseUpgrade(i) \/ Stop(i) \/ Kill(i)
    \/ \E n \in SystemNames : CreateAccount(i, n)

StartupSpec == StartupInit /\ [][StartupNext]_startup_vars

\* A script that has started runs on, and PostgreSQL does not pass a waiter over
\* for ever, however often others fail in front of it.
StartupFairSpec ==
  /\ StartupSpec
  /\ \A i \in Instances : WF_startup_vars(Start(i)) /\ SF_startup_vars(FirstMigration(i))

-----------------------------------------------------------------------------
\* Type invariant

\* Versions, names and instances have their types.
StartupTypeOK ==
  /\ revision \in 0 .. 5
  /\ owner \in [SystemNames -> {"nobody", "migration", "admin"}]
  /\ upgrader \in Instances \cup {NoInstance}
  /\ applied \in 0 .. 5
  /\ stage \in [Instances -> {"off", "upgrading", "starting", "serving", "exited"}]
  /\ found \in [Instances -> 0 .. 5]
  /\ failure \in [Instances -> {"none", "unknown_revision", "outrun", "name_taken", "lost"}]
  /\ faults \in 0 .. MaxFaults

-----------------------------------------------------------------------------
\* Safety

\* A schema at revision r has exactly the system accounts of its migrations:
\* none was created by an admin under the reserved name first, and External
\* Clearing, seeded with the table itself, never can be (001_initial.py:54,
\* 005_payment_accounts.py:29-36; the first transaction adopts whatever row has
\* its name, service.py:23-32).
SeedsAreGenuine ==
  /\ \A n \in seeded_by(revision) : owner[n] = "migration"
  /\ owner["External_Clearing"] # "admin"

\* start.sh starts a release on a schema older than its own only if its upgrade
\* was lost, if an admin owns a name migration 005 inserts, or if an older
\* release upgraded at the same moment; a race between instances of one release
\* ends at that release's schema, and no upgrade is ever half applied
\* (start.sh:2-3, env.py:27-33).
BehindOnlyForCause ==
  \A i \in Instances :
    stage[i] \in {"starting", "serving"} /\ revision < head[i] =>
      \/ failure[i] = "lost"
      \/ failure[i] = "name_taken" /\ \E n \in seeds(5) : owner[n] = "admin"
      \/ failure[i] = "outrun" /\ \E j \in Instances : revision = head[j] /\ head[j] < head[i]

-----------------------------------------------------------------------------
\* Progress

\* A configured instance that starts serves, however many start with it and
\* whatever becomes of the others, unless it is killed: start.sh goes on after
\* a failed upgrade, and a dead upgrader leaves its place to the next.
EveryStartServes ==
  \A i \in Configured : stage[i] = "upgrading" ~> stage[i] \in {"serving", "off"}
=============================================================================
