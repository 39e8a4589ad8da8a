------------------------------ MODULE Migrator ------------------------------
(***************************************************************************)
(* The migration tool.  Several copies may run at once, of releases that   *)
(* carry different editions of the files: nothing locks the list of        *)
(* pending migrations, which is read once.  A migration and its row in     *)
(* schema_migrations commit together; the primary key of that table is     *)
(* what keeps two copies from applying the same one.  Any statement may be *)
(* refused, the answer to a COMMIT lost, and a copy told to end or killed. *)
(***************************************************************************)
EXTENDS Naturals, Sequences, FiniteSets

CONSTANTS
  Tools,     \* copies of the tool
  Editions,  \* contents of a migration file, which its checksum tells apart
  Release,   \* Release[p] : the files of copy p, by the place of the name, as editions
  MaxRuns,   \* bound on the runs of all copies
  Unapplied  \* no row

ASSUME MigratorAssumption ==
  /\ Unapplied \notin Editions
  /\ MaxRuns \in Nat
  /\ DOMAIN Release = Tools
  /\ \A p \in Tools :
       /\ DOMAIN Release[p] \subseteq Nat /\ IsFiniteSet(DOMAIN Release[p])
       /\ \A m \in DOMAIN Release[p] : Release[p][m] \in Editions

VARIABLES
  recorded,   \* recorded[m] : the checksum in the row of migration m
  effects,    \* effects     : the SQL that took effect: migration, edition, and by which copy
  tabled,     \* tabled      : schema_migrations exists
  tool,       \* tool[p]     : where copy p is and the migrations it found pending
  runs        \* runs        : copies started so far

migratorVars == <<recorded, effects, tabled, tool, runs>>

(* getMigrationFiles: a migration is known by its name, and a name by its   *)
(* place among all names; a release need not have every one                *)
MigrationFiles(p) == DOMAIN Release[p]
Migrations == UNION {MigrationFiles(p) : p \in Tools}

NotStarted == [at |-> "idle", pending |-> {}, ending |-> FALSE]

MigratorInit ==
  /\ recorded = [m \in Migrations |-> Unapplied]
  /\ effects = <<>>
  /\ tabled = FALSE
  /\ tool = [p \in Tools |-> NotStarted]
  /\ runs = 0

ToolAt(p, at) == tool[p].at = at
ToolGo(p, at) == tool' = [tool EXCEPT ![p].at = at]
(* a query of the pool, or a client of it: refused once the pool is ending *)
PoolQuery(p, next) == ToolGo(p, next) /\ ~tool[p].ending
Refuse(p) == ToolGo(p, "failed")

(* for (const migration of pendingMigrations): in the order of the files *)
NextPending(p) == CHOOSE m \in tool[p].pending : \A n \in tool[p].pending : m <= n

GetAppliedMigrations == {m \in Migrations : recorded[m] # Unapplied}
PendingOf(p) == MigrationFiles(p) \ GetAppliedMigrations
GetStatus(p) ==
  [total |-> Cardinality(MigrationFiles(p)), applied |-> Cardinality(GetAppliedMigrations),
   pending |-> PendingOf(p)]

-----------------------------------------------------------------------------
(* main: the command up.  A copy that has ended may be run again. *)
StartTool(p) ==
  /\ tool[p].at \in {"idle", "done", "failed"}
  /\ runs < MaxRuns
  /\ runs' = runs + 1
  /\ tool' = [tool EXCEPT ![p] = [NotStarted EXCEPT !.at = "initialize"]]
  /\ UNCHANGED <<recorded, effects, tabled>>

InitializeMigrationsTable(p) ==
  /\ ToolAt(p, "initialize")
  /\ \/ PoolQuery(p, "verify") /\ tabled' = TRUE
     \/ Refuse(p) /\ UNCHANGED tabled
  /\ UNCHANGED <<recorded, effects, runs>>

(* calculateChecksum: two files have the checksum of each other only when  *)
(* their contents are the same                                             *)
CalculateChecksum(edition) == edition

VerifyMigrationIntegrity(p) ==
  \A m \in MigrationFiles(p) :
    recorded[m] # Unapplied => recorded[m] = CalculateChecksum(Release[p][m])

Verify(p) ==
  /\ ToolAt(p, "verify")
  /\ \/ PoolQuery(p, IF VerifyMigrationIntegrity(p) THEN "list" ELSE "failed")
     \/ Refuse(p)
  /\ UNCHANGED <<recorded, effects, tabled, runs>>

(* migrate: the migrations to apply, those that have no row now *)
ListPending(p) ==
  /\ ToolAt(p, "list")
  /\ \/ /\ ~tool[p].ending
        /\ tool' = [tool EXCEPT ![p].at = IF PendingOf(p) = {} THEN "done" ELSE "connect",
                                ![p].pending = PendingOf(p)]
     \/ Refuse(p)
  /\ UNCHANGED <<recorded, effects, tabled, runs>>

-----------------------------------------------------------------------------
(* applyMigration: a client and BEGIN, the SQL of the file, the row, and   *)
(* COMMIT, one await each.                                                 *)
ConnectTool(p) ==
  /\ ToolAt(p, "connect")
  /\ PoolQuery(p, "sql") \/ Refuse(p)
  /\ UNCHANGED <<recorded, effects, tabled, runs>>

RunSql(p) ==
  /\ ToolAt(p, "sql")
  /\ ToolGo(p, "record") \/ ToolGo(p, "rollback")
  /\ UNCHANGED <<recorded, effects, tabled, runs>>

(* The INSERT waits for another transaction that has inserted the same key *)
(* and is refused when that one commits.                                   *)
InsertPending(p, m) == ToolAt(p, "commit") /\ NextPending(p) = m
RecordMigration(p) ==
  LET m == NextPending(p)
  IN  /\ ToolAt(p, "record")
      /\ \A q \in Tools : ~InsertPending(q, m)
      /\ \/ recorded[m] = Unapplied /\ ToolGo(p, "commit")
         \/ ToolGo(p, "rollback")
      /\ UNCHANGED <<recorded, effects, tabled, runs>>

(* what COMMIT makes lasting *)
Lasting(p) ==
  LET m == NextPending(p)
  IN  /\ recorded' = [recorded EXCEPT ![m] = CalculateChecksum(Release[p][m])]
      /\ effects' = Append(effects, [migration |-> m, edition |-> Release[p][m], by |-> p])

(* on to the next migration of the list, the client released *)
Onward(p) ==
  LET rest == tool[p].pending \ {NextPending(p)}
  IN  tool' = [tool EXCEPT ![p].at = IF rest = {} THEN "done" ELSE "connect",
                           ![p].pending = rest]

Commit(p) ==
  /\ ToolAt(p, "commit")
  /\ \/ Lasting(p) /\ Onward(p)
     \/ Lasting(p) /\ ToolGo(p, "rollback")               \* the answer is lost
     \/ ToolGo(p, "rollback") /\ UNCHANGED <<recorded, effects>>
  /\ UNCHANGED <<tabled, runs>>

(* mutant: the error is logged and the loop goes on *)
RollbackAndContinue(p) ==
  /\ ToolAt(p, "rollback")
  /\ Onward(p)
  /\ UNCHANGED <<recorded, effects, tabled, runs>>

(* the catch: what the transaction did is undone, the error goes up to     *)
(* main, which exits with 1                                                *)
Rollback(p) ==
  /\ ToolAt(p, "rollback")
  /\ ToolGo(p, "failed")
  /\ UNCHANGED <<recorded, effects, tabled, runs>>

-----------------------------------------------------------------------------
(* SIGINT, SIGTERM: closePool lets the client in use finish its migration  *)
(* and hands out no other                                                  *)
Terminate(p) ==
  /\ tool[p].at \notin {"idle", "done", "failed"}
  /\ ~tool[p].ending
  /\ tool' = [tool EXCEPT ![p].ending = TRUE]
  /\ UNCHANGED <<recorded, effects, tabled, runs>>

(* killed: the server undoes a transaction that is open *)
KillTool(p) ==
  /\ tool[p].at \notin {"idle", "done", "failed"}
  /\ tool' = [tool EXCEPT ![p] = [NotStarted EXCEPT !.at = "failed"]]
  /\ UNCHANGED <<recorded, effects, tabled, runs>>

(* main: the command reset ends the pool while it waits for the word, so   *)
(* that the reset itself is refused and drops nothing                      *)
Reset(p) ==
  /\ tool[p].at \in {"idle", "done", "failed"}
  /\ runs < MaxRuns
  /\ runs' = runs + 1
  /\ tool' = [tool EXCEPT ![p] = [NotStarted EXCEPT !.at = "failed"]]
  /\ UNCHANGED <<recorded, effects, tabled>>

ApplyMigration(p) == ConnectTool(p) \/ RunSql(p) \/ RecordMigration(p) \/ Commit(p) \/ Rollback(p)

MigratorNext ==
  \E p \in Tools :
    \/ StartTool(p)
    \/ InitializeMigrationsTable(p)
    \/ Verify(p)
    \/ ListPending(p)
    \/ ApplyMigration(p)
    \/ Terminate(p)
    \/ KillTool(p)
    \/ Reset(p)

MigratorSpec == MigratorInit /\ [][MigratorNext]_migratorVars

-----------------------------------------------------------------------------
(* However many copies of whatever releases run at once, are interrupted,  *)
(* killed or run again: no migration takes effect twice; a row is there    *)
(* exactly for what took effect, with the checksum of the SQL that ran;    *)
(* none takes effect before the earlier ones of the release that brought   *)
(* it (applyMigration); and a copy that reports success leaves none of its *)
(* own pending (migrate).  Between releases no order is kept: where one    *)
(* has brought 001 and 003, a later one with a 002 applies it last.        *)
MigratedInOrder ==
  /\ \A i, j \in 1..Len(effects) : effects[i].migration = effects[j].migration => i = j
  /\ \A m \in Migrations, e \in Editions :
       recorded[m] = e <=>
         \E i \in 1..Len(effects) : effects[i].migration = m /\ effects[i].edition = e
  /\ \A i \in 1..Len(effects) : \A m \in MigrationFiles(effects[i].by) :
       m < effects[i].migration => \E j \in 1..(i - 1) : effects[j].migration = m
  /\ \A p \in Tools : ToolAt(p, "done") => PendingOf(p) = {}
=============================================================================
