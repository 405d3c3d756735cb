------------------------------ MODULE SqlSchema ------------------------------
(***************************************************************************)
(* ensure_schema of the two SQL repositories                               *)
(* (job_repository_sqlite.cpp, job_repository_sqlserver.cpp): a process    *)
(* that opens the database brings it to the latest schema, one migration   *)
(* after the other, each in a transaction of its own that also writes the  *)
(* new version.  The version is read once, outside these transactions, and *)
(* several processes may open one database.                                *)
(*                                                                         *)
(* A schema is the set of its tables, of the columns later versions added  *)
(* to jobs, and of its indexes.                                            *)
(***************************************************************************)
EXTENDS Integers, FiniteSets

CONSTANTS
  Engines,    \* the engines to explore: "sqlite", "sqlserver"
  Proc,       \* the processes that open the database
  MaxFailures  \* bound of the number of openers that die or throw

ASSUME EnginesAssumption == Engines \subseteq {"sqlite", "sqlserver"}

VARIABLES
  engine,    \* the engine of this database
  schema,    \* the objects it has
  versions,  \* the rows of schema_version; for SQLite the one user_version
  opener,    \* opener[p]: how far p is, and the version it goes by
  failures   \* number of openers that died or threw

schemaVars == <<engine, schema, versions, opener, failures>>

kLatestSchemaVersion == 7

Tables == {"jobs", "attachments", "tags"}
AddedColumns == {"attempt_count", "last_attempt_at", "priority", "due_at"}
Indexes == {"idx_created", "idx_priority", "idx_due"}

\* the index that migration 2 creates differs: SQL Server began with the second
FirstIndex == IF engine = "sqlite" THEN "idx_created" ELSE "idx_priority"

\* Faults the mutants of PROJECT.json plant in the definition below.
MigratedKeepingIndex(objects, target) ==
  CASE target = 1 -> objects \cup {"jobs", "attachments"} \cup AddedColumns
    [] target = 2 -> objects \cup {FirstIndex}
    [] target = 3 -> objects \cup {"attempt_count"}
    [] target = 4 -> objects \cup {"last_attempt_at"}
    [] target = 5 -> objects \cup {"priority", "idx_priority"}
    [] target = 6 -> (objects \ {"idx_priority"}) \cup {"due_at", "idx_due"}
    [] target = 7 -> objects \cup {"tags"}

\* The migrations: everything is created only if it is not there.
Migrated(objects, target) ==
  CASE target = 1 -> objects \cup {"jobs", "attachments"}
                             \cup (IF "jobs" \in objects THEN {} ELSE AddedColumns)
    [] target = 2 -> objects \cup {FirstIndex}
    [] target = 3 -> objects \cup {"attempt_count"}
    [] target = 4 -> objects \cup {"last_attempt_at"}
    [] target = 5 -> (objects \ {FirstIndex}) \cup {"priority", "idx_priority"}
    [] target = 6 -> (objects \ {"idx_priority"}) \cup {"due_at", "idx_due"}
    [] target = 7 -> objects \cup {"tags"}

-----------------------------------------------------------------------------
(* The databases a process may find.                                       *)

\* What a database of version v has.  The builds of the time created jobs with
\* the columns of the time; a build of today that died half way, with all.
Owed(v) ==
  (IF v >= 1 THEN {"jobs", "attachments"} ELSE {})
  \cup (IF v >= 3 THEN {"attempt_count"} ELSE {})
  \cup (IF v >= 4 THEN {"last_attempt_at"} ELSE {})
  \cup (IF v >= 5 THEN {"priority"} ELSE {})
  \cup (IF v >= 6 THEN {"due_at"} ELSE {})
  \cup (IF v >= 7 THEN {"tags"} ELSE {})
IndexOf(v) ==
  CASE v < 2 -> {} [] v \in 2 .. 4 -> {FirstIndex}
    [] v = 5 -> {"idx_priority"} [] v >= 6 -> {"idx_due"}

SchemaInit ==
  /\ engine \in Engines
  /\ \E v \in 0 .. kLatestSchemaVersion + 1, old \in BOOLEAN :
       /\ schema = Owed(v) \cup IndexOf(v)
                     \cup (IF old \/ v = 0 THEN {} ELSE AddedColumns)
                     \cup (IF engine = "sqlite" \/ v = 0 THEN {} ELSE {"schema_version"})
       /\ versions = IF v = 0 /\ engine = "sqlserver" THEN {} ELSE {v}
  /\ opener = [p \in Proc |-> [at |-> "closed", version |-> 0]]
  /\ failures = 0

-----------------------------------------------------------------------------
(* Opening.                                                                *)

Go(p, place, v) == opener' = [opener EXCEPT ![p] = [at |-> place, version |-> v]]

\* SQL Server first creates schema_version if it is missing: it looks, creates
\* the table and inserts 0 in three steps nothing makes one.  A table without a
\* row reads as 0, as does a SQLite file that is new.
open(p) ==
  /\ opener[p].at = "closed"
  /\ Go(p, IF engine = "sqlserver" /\ "schema_version" \notin schema THEN "create" ELSE "read", 0)
  /\ UNCHANGED <<engine, schema, versions, failures>>

\* somebody else may have created it meanwhile, and then this one throws
CreateVersionTable(p) ==
  /\ opener[p].at = "create"
  /\ IF "schema_version" \in schema THEN Go(p, "closed", 0) ELSE Go(p, "insert", 0)
  /\ schema' = schema \cup {"schema_version"}
  /\ UNCHANGED <<engine, versions, failures>>

InsertVersion(p) ==
  /\ opener[p].at = "insert"
  /\ versions' = versions \cup {0}
  /\ Go(p, "read", 0)
  /\ UNCHANGED <<engine, schema, failures>>

\* A newer database is refused.  Of several rows any may come first.
read_schema_version(p) ==
  /\ opener[p].at = "read"
  /\ \E v \in IF versions = {} THEN {0} ELSE versions :
       Go(p, IF v > kLatestSchemaVersion THEN "refused"
             ELSE IF v = kLatestSchemaVersion THEN "open" ELSE "migrate", v)
  /\ UNCHANGED <<engine, schema, versions, failures>>

\* Fault a mutant of PROJECT.json plants in the definition below: the version is
\* counted up where it should be written.
MigrateCounting(p) ==
  LET target == opener[p].version + 1 IN
  /\ opener[p].at = "migrate"
  /\ schema' = Migrated(schema, target)
  /\ versions' = {v + 1 : v \in versions \cup {0}}
  /\ Go(p, IF target = kLatestSchemaVersion THEN "open" ELSE "migrate", target)
  /\ UNCHANGED <<engine, failures>>

\* The next migration, committed with its version.  write_schema_version
\* updates every row, or inserts one.
Migrate(p) ==
  LET target == opener[p].version + 1 IN
  /\ opener[p].at = "migrate"
  /\ schema' = Migrated(schema, target)
  /\ versions' = {target}
  /\ Go(p, IF target = kLatestSchemaVersion THEN "open" ELSE "migrate", target)
  /\ UNCHANGED <<engine, failures>>

\* The process dies, or throws: a transaction that cannot begin (SQLite waits
\* five seconds for the lock) or fails is rolled back.
OpenerFails(p) ==
  /\ opener[p].at \notin {"closed", "open", "refused"}
  /\ failures < MaxFailures
  /\ failures' = failures + 1
  /\ Go(p, "closed", 0)
  /\ UNCHANGED <<engine, schema, versions>>

Opening(p) ==
  \/ open(p) \/ CreateVersionTable(p) \/ InsertVersion(p)
  \/ read_schema_version(p) \/ Migrate(p) \/ OpenerFails(p)

Opened(p) == opener[p].at = "open"

-----------------------------------------------------------------------------
\* A process that has opened the database finds every table and column its
\* statements name, whatever other openers do to the schema from then on, and
\* the version never promises more than there is; nobody touches a newer one.
SchemaServes ==
  /\ \A v \in versions : Owed(v) \subseteq schema
  /\ \A p \in Proc : Opened(p) => Tables \cup AddedColumns \subseteq schema
  /\ \A p \in Proc : opener[p].at = "refused" => versions = {kLatestSchemaVersion + 1}

\* Openers that raced leave the one index of the latest schema, and the
\* version of it, unless one of them died or threw half way.
SchemaSettles ==
  failures = 0 /\ (\A p \in Proc : Opened(p)) =>
    /\ schema \cap Indexes = {"idx_due"}
    /\ kLatestSchemaVersion \in versions
=============================================================================
