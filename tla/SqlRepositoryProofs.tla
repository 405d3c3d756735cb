------------------------- MODULE SqlRepositoryProofs -------------------------
(***************************************************************************)
(* However many processes open and use a SQL database, whatever version    *)
(* they found and whoever dies on the way: the schema serves everyone who  *)
(* has opened it and settles at the latest version, attachments and tags   *)
(* belong to a stored job, every operation takes effect at once or not at  *)
(* all, a read returns what was stored, and an exception has its reason.   *)
(***************************************************************************)
EXTENDS SqlRepository, TLAPS

Version == 0 .. kLatestSchemaVersion + 1
Places == {"closed", "create", "insert", "read", "migrate", "open", "refused"}

-----------------------------------------------------------------------------
(* What a migration brings and what it leaves.                             *)

\* A migration adds what the version it leads to promises beyond the last.
LEMMA MigrationBrings ==
  ASSUME NEW S, NEW v \in 0 .. 6, Owed(v) \subseteq S
  PROVE  Owed(v + 1) \subseteq Migrated(S, v + 1)
<1>1. v = 0 \/ v = 1 \/ v = 2 \/ v = 3 \/ v = 4 \/ v = 5 \/ v = 6
  OBVIOUS
<1>2. CASE v = 0  BY <1>2 DEF Owed, Migrated
<1>3. CASE v = 1  BY <1>3 DEF Owed, Migrated
<1>4. CASE v = 2  BY <1>4 DEF Owed, Migrated
<1>5. CASE v = 3  BY <1>5 DEF Owed, Migrated
<1>6. CASE v = 4
  <2>1. FirstIndex \in Indexes  BY DEF FirstIndex, Indexes
  <2>. QED  BY <1>6, <2>1 DEF Owed, Migrated, Indexes
<1>7. CASE v = 5  BY <1>7 DEF Owed, Migrated
<1>8. CASE v = 6  BY <1>8 DEF Owed, Migrated
<1>. QED
  BY <1>1, <1>2, <1>3, <1>4, <1>5, <1>6, <1>7, <1>8

\* A migration takes away indexes only, and no version owes one.
LEMMA MigrationKeeps ==
  ASSUME NEW S, NEW t \in 1 .. 7, NEW v \in Version, Owed(v) \subseteq S
  PROVE  Owed(v) \subseteq Migrated(S, t)
<1>1. S \ Indexes \subseteq Migrated(S, t)
  <2>1. t = 1 \/ t = 2 \/ t = 3 \/ t = 4 \/ t = 5 \/ t = 6 \/ t = 7
    OBVIOUS
  <2>2. FirstIndex \in Indexes  BY DEF FirstIndex, Indexes
  <2>. QED  BY <2>1, <2>2 DEF Migrated, Indexes
<1>2. Owed(v) \cap Indexes = {}
  BY DEF Owed, Indexes
<1>. QED
  BY <1>1, <1>2

\* The latest version owes every table and column the statements name.
LEMMA LatestOwesAll == Tables \cup AddedColumns = Owed(kLatestSchemaVersion)
BY DEF Owed, Tables, AddedColumns, kLatestSchemaVersion

-----------------------------------------------------------------------------
(* The schema.                                                             *)

\* Whoever migrates goes by a version the schema has reached, even if others
\* are ahead of it or have written a lower version since; a newer database
\* stays as it was found, since nobody gets past reading its version.
OpenersOK ==
  /\ versions \subseteq Version
  /\ opener \in [Proc -> [at : Places, version : Version]]
  /\ \A p \in Proc : opener[p].at = "migrate" =>
       opener[p].version \in 0 .. 6 /\ Owed(opener[p].version) \subseteq schema
  /\ 8 \in versions =>
       /\ versions = {8}
       /\ engine = "sqlserver" => "schema_version" \in schema
       /\ \A p \in Proc : opener[p].at \in {"closed", "read", "refused"}

SchemaInv == OpenersOK /\ SchemaServes

LEMMA SchemaInvInit == Init => SchemaInv
<1>. SUFFICES ASSUME SchemaInit PROVE SchemaInv
  BY DEF Init
<1>1. PICK v \in Version, old \in BOOLEAN :
        /\ schema = Owed(v) \cup IndexOf(v)
                      \cup (IF old \/ v = 0 THEN {} ELSE AddedColumns)
                      \cup (IF engine = "sqlite" \/ v = 0 THEN {} ELSE {"schema_version"})
        /\ versions = IF v = 0 /\ engine = "sqlserver" THEN {} ELSE {v}
  BY DEF SchemaInit, Version
<1>2. opener = [p \in Proc |-> [at |-> "closed", version |-> 0]]
  BY DEF SchemaInit
<1>3. /\ versions \subseteq {v} /\ Owed(v) \subseteq schema
      /\ versions # {} /\ engine = "sqlserver" => v = 0 \/ "schema_version" \in schema
  BY <1>1
<1>4. OpenersOK
  <2>1. [at |-> "closed", version |-> 0] \in [at : Places, version : Version]
    BY DEF Places, Version, kLatestSchemaVersion
  <2>2. \A p \in Proc : opener[p].at = "closed"
    BY <1>2
  <2>. QED
    BY <1>2, <1>3, <2>1, <2>2 DEF OpenersOK
<1>5. SchemaServes
  BY <1>2, <1>3 DEF SchemaServes, Opened
<1>. QED
  BY <1>4, <1>5 DEF SchemaInv

\* How p's place and version change.
LEMMA GoGives ==
  ASSUME SchemaInv, NEW p \in Proc, NEW place \in Places, NEW v \in Version,
         opener' = [opener EXCEPT ![p] = [at |-> place, version |-> v]]
  PROVE  /\ opener' \in [Proc -> [at : Places, version : Version]]
         /\ opener'[p] = [at |-> place, version |-> v]
         /\ \A q \in Proc : q # p => opener'[q] = opener[q]
<1>1. [at |-> place, version |-> v] \in [at : Places, version : Version]
  OBVIOUS
<1>. QED
  BY <1>1 DEF SchemaInv, OpenersOK

\* An opener that has not got to a database's schema leaves things as they are.
LEMMA GoBack ==
  ASSUME SchemaInv, NEW p \in Proc, NEW place \in {"closed", "read"}, Go(p, place, 0),
         UNCHANGED <<engine, schema, versions>>
  PROVE  SchemaInv'
<1>1. /\ opener' \in [Proc -> [at : Places, version : Version]]
      /\ opener'[p] = [at |-> place, version |-> 0]
      /\ \A q \in Proc : q # p => opener'[q] = opener[q]
  <2>1. place \in Places /\ 0 \in Version
    BY DEF Places, Version, kLatestSchemaVersion
  <2>. QED
    BY <2>1, GoGives DEF Go
<1>2. OpenersOK'
  BY <1>1 DEF SchemaInv, OpenersOK
<1>3. SchemaServes'
  BY <1>1 DEF SchemaInv, SchemaServes, Opened
<1>. QED
  BY <1>2, <1>3 DEF SchemaInv

LEMMA OpeningKeeps ==
  ASSUME SchemaInv, NEW p \in Proc, Opening(p)
  PROVE  SchemaInv'
<1>0. /\ Places = {"closed", "create", "insert", "read", "migrate", "open", "refused"}
      /\ Version = 0 .. 8 /\ kLatestSchemaVersion = 7
  BY DEF Places, Version, kLatestSchemaVersion
<1>1. CASE open(p)
  <2>1. CASE engine = "sqlserver" /\ "schema_version" \notin schema
    <3>1. Go(p, "create", 0) /\ UNCHANGED <<schema, versions>>
      BY <1>1, <2>1 DEF open
    <3>2. /\ opener' \in [Proc -> [at : Places, version : Version]]
          /\ opener'[p] = [at |-> "create", version |-> 0]
          /\ \A q \in Proc : q # p => opener'[q] = opener[q]
      <4>1. "create" \in Places /\ 0 \in Version  BY <1>0
      <4>. QED  BY <3>1, <4>1, GoGives DEF Go
    <3>. QED
      BY <2>1, <3>1, <3>2 DEF SchemaInv, OpenersOK, SchemaServes, Opened
  <2>2. CASE ~(engine = "sqlserver" /\ "schema_version" \notin schema)
    BY <1>1, <2>2, GoBack DEF open
  <2>. QED
    BY <2>1, <2>2
<1>2. CASE CreateVersionTable(p)
  <2>. DEFINE place == IF "schema_version" \in schema THEN "closed" ELSE "insert"
  <2>1. Go(p, place, 0) /\ schema \subseteq schema' /\ versions' = versions
    BY <1>2 DEF CreateVersionTable
  <2>2. /\ opener' \in [Proc -> [at : Places, version : Version]]
        /\ opener'[p] = [at |-> place, version |-> 0]
        /\ \A q \in Proc : q # p => opener'[q] = opener[q]
    <3>1. place \in Places /\ 0 \in Version  BY <1>0
    <3>. QED  BY <2>1, <3>1, GoGives DEF Go
  <2>3. 8 \notin versions
    BY <1>2 DEF CreateVersionTable, SchemaInv, OpenersOK
  <2>4. OpenersOK'
    BY <2>1, <2>2, <2>3 DEF SchemaInv, OpenersOK
  <2>5. SchemaServes'
    BY <2>1, <2>2 DEF SchemaInv, SchemaServes, Opened, Owed
  <2>. QED
    BY <2>4, <2>5 DEF SchemaInv
<1>3. CASE InsertVersion(p)
  <2>1. Go(p, "read", 0) /\ schema' = schema /\ versions' = versions \cup {0}
    BY <1>3 DEF InsertVersion
  <2>2. /\ opener' \in [Proc -> [at : Places, version : Version]]
        /\ opener'[p] = [at |-> "read", version |-> 0]
        /\ \A q \in Proc : q # p => opener'[q] = opener[q]
    <3>1. "read" \in Places /\ 0 \in Version  BY <1>0
    <3>. QED  BY <2>1, <3>1, GoGives DEF Go
  <2>3. 8 \notin versions
    BY <1>3 DEF InsertVersion, SchemaInv, OpenersOK
  <2>4. OpenersOK'
    BY <1>0, <2>1, <2>2, <2>3 DEF SchemaInv, OpenersOK
  <2>5. Owed(0) = {}
    BY DEF Owed
  <2>6. \A q \in Proc : opener[q].at # "refused"
    BY <1>0, <2>3 DEF SchemaInv, SchemaServes
  <2>7. SchemaServes'
    BY <2>1, <2>2, <2>5, <2>6 DEF SchemaInv, SchemaServes, Opened
  <2>. QED
    BY <2>4, <2>7 DEF SchemaInv
<1>4. CASE read_schema_version(p)
  <2>1. PICK v \in IF versions = {} THEN {0} ELSE versions :
          Go(p, IF v > kLatestSchemaVersion THEN "refused"
                ELSE IF v = kLatestSchemaVersion THEN "open" ELSE "migrate", v)
    BY <1>4 DEF read_schema_version
  <2>. DEFINE place == IF v > 7 THEN "refused" ELSE IF v = 7 THEN "open" ELSE "migrate"
  <2>2. UNCHANGED <<engine, schema, versions>>
    BY <1>4 DEF read_schema_version
  <2>3. v \in Version /\ Owed(v) \subseteq schema /\ (v # 0 => v \in versions)
    BY <1>0 DEF SchemaInv, OpenersOK, SchemaServes, Owed
  <2>4. /\ opener' \in [Proc -> [at : Places, version : Version]]
        /\ opener'[p] = [at |-> place, version |-> v]
        /\ \A q \in Proc : q # p => opener'[q] = opener[q]
    <3>1. place \in Places  BY <1>0
    <3>2. Go(p, place, v)
      BY <1>0, <2>1
    <3>. HIDE DEF place
    <3>. QED  BY <2>3, <3>1, <3>2, GoGives DEF Go
  <2>5. CASE v = 8
    <3>1. opener'[p].at = "refused"  BY <2>4, <2>5
    <3>2. versions = {8}  BY <2>3, <2>5 DEF SchemaInv, OpenersOK
    <3>. QED
      BY <1>0, <2>2, <2>4, <3>1, <3>2 DEF SchemaInv, OpenersOK, SchemaServes, Opened
  <2>6. CASE v = 7
    <3>1. opener'[p].at = "open"  BY <2>4, <2>6
    <3>2. Tables \cup AddedColumns \subseteq schema  BY <1>0, <2>3, <2>6, LatestOwesAll
    <3>3. 8 \notin versions  BY <2>3, <2>6 DEF SchemaInv, OpenersOK
    <3>. QED
      BY <1>0, <2>2, <2>4, <3>1, <3>2, <3>3 DEF SchemaInv, OpenersOK, SchemaServes, Opened
  <2>7. CASE v \in 0 .. 6
    <3>1. opener'[p].at = "migrate" /\ opener'[p].version = v  BY <2>4, <2>7
    <3>2. 8 \notin versions  BY <2>1, <2>7 DEF SchemaInv, OpenersOK
    <3>. QED
      BY <1>0, <2>2, <2>3, <2>4, <2>7, <3>1, <3>2 DEF SchemaInv, OpenersOK, SchemaServes, Opened
  <2>. QED
    BY <1>0, <2>3, <2>5, <2>6, <2>7
<1>5. CASE Migrate(p)
  <2>. DEFINE t == opener[p].version + 1
              place == IF t = 7 THEN "open" ELSE "migrate"
  <2>1. opener[p].version \in 0 .. 6 /\ Owed(opener[p].version) \subseteq schema
    BY <1>5 DEF Migrate, SchemaInv, OpenersOK
  <2>2. schema' = Migrated(schema, t) /\ versions' = {t} /\ Go(p, place, t)
    BY <1>0, <1>5 DEF Migrate
  <2>3. t \in 1 .. 7
    BY <2>1
  <2>4. /\ opener' \in [Proc -> [at : Places, version : Version]]
        /\ opener'[p] = [at |-> place, version |-> t]
        /\ \A q \in Proc : q # p => opener'[q] = opener[q]
    <3>1. place \in Places /\ t \in Version  BY <1>0, <2>3
    <3>. QED  BY <2>2, <3>1, GoGives DEF Go
  <2>5. Owed(t) \subseteq schema'
    BY <2>1, <2>2, MigrationBrings
  <2>6. \A v \in Version : Owed(v) \subseteq schema => Owed(v) \subseteq schema'
    BY <2>2, <2>3, MigrationKeeps
  <2>7. \A q \in Proc : opener[q].at # "refused"
    <3>1. 8 \notin versions  BY <1>5 DEF Migrate, SchemaInv, OpenersOK
    <3>. QED  BY <1>0, <3>1 DEF SchemaInv, SchemaServes
  <2>8. OpenersOK'
    <3>1. (versions \subseteq Version)' /\ 8 \notin versions'
      BY <1>0, <2>2, <2>3
    <3>2. \A q \in Proc : opener'[q].at = "migrate" =>
            opener'[q].version \in 0 .. 6 /\ Owed(opener'[q].version) \subseteq schema'
      <4>. SUFFICES ASSUME NEW q \in Proc, opener'[q].at = "migrate"
                    PROVE  opener'[q].version \in 0 .. 6 /\ Owed(opener'[q].version) \subseteq schema'
        OBVIOUS
      <4>1. CASE q = p
        BY <2>3, <2>4, <2>5, <4>1
      <4>2. CASE q # p
        BY <1>0, <2>4, <2>6, <4>2 DEF SchemaInv, OpenersOK
      <4>. QED
        BY <4>1, <4>2
    <3>. QED
      BY <2>4, <3>1, <3>2 DEF OpenersOK
  <2>9. SchemaServes'
    <3>1. \A v \in versions' : Owed(v) \subseteq schema'
      BY <2>2, <2>5
    <3>2. \A q \in Proc : opener'[q].at = "open" => Tables \cup AddedColumns \subseteq schema'
      <4>. SUFFICES ASSUME NEW q \in Proc, opener'[q].at = "open"
                    PROVE  Owed(7) \subseteq schema'
        BY <1>0, LatestOwesAll
      <4>1. CASE q = p
        BY <2>4, <2>5, <4>1
      <4>2. CASE q # p
        <5>1. Owed(7) \subseteq schema
          BY <1>0, <2>4, <4>2, LatestOwesAll DEF SchemaInv, SchemaServes, Opened
        <5>. QED  BY <1>0, <2>6, <5>1
      <4>. QED
        BY <4>1, <4>2
    <3>3. \A q \in Proc : opener'[q].at # "refused"
      BY <2>4, <2>7
    <3>. QED
      BY <3>1, <3>2, <3>3 DEF SchemaServes, Opened
  <2>. QED
    BY <2>8, <2>9 DEF SchemaInv
<1>6. CASE OpenerFails(p)
  BY <1>6, GoBack DEF OpenerFails
<1>. QED
  BY <1>1, <1>2, <1>3, <1>4, <1>5, <1>6 DEF Opening

\* The work on the tables leaves the schema alone.
LEMMA OperatingLeavesSchema ==
  ASSUME NEW p \in Proc, Operating(p)
  PROVE  UNCHANGED schemaVars
BY DEF Operating, fetch, ReadRows, ReadAttachments, ReadTags, upsert, UpsertRow,
       InsertOrUpdate, ReplaceAttachments, ReplaceTags, commit, claim_next_submitted,
       SelectBest, UpdateClaimed, transition, UpdateState, remove, DeleteRow,
       Return, Fails, Misses, Begins, unchangedTables

LEMMA SchemaInvNext == SchemaInv /\ [Next]_vars => SchemaInv'
<1>. SUFFICES ASSUME SchemaInv, [Next]_vars PROVE SchemaInv'
  OBVIOUS
<1>1. ASSUME UNCHANGED schemaVars PROVE SchemaInv'
  BY <1>1 DEF schemaVars, SchemaInv, OpenersOK, SchemaServes, Opened
<1>2. CASE UNCHANGED vars
  BY <1>1, <1>2 DEF vars
<1>3. CASE Next
  BY <1>1, <1>3, OpeningKeeps, OperatingLeavesSchema DEF Next
<1>. QED
  BY <1>2, <1>3

\* Whatever version the processes found, and however their migrations raced or
\* died: whoever has opened the database finds every table and column there.
THEOREM SchemaAlwaysServes == Spec => []SchemaServes
<1>1. SchemaInv => SchemaServes
  BY DEF SchemaInv
<1>. QED
  BY <1>1, SchemaInvInit, SchemaInvNext, PTL DEF Spec

\* Somebody migrates to version k yet, or nobody has begun.
WillReach(k) ==
  \/ \E p \in Proc : opener[p].at = "migrate" /\ opener[p].version < k
  \/ /\ \A v \in versions : v < k
     /\ \A p \in Proc : opener[p].at \notin {"migrate", "open"}

\* The latest index, once created, stays; each older one has somebody who is
\* going to drop it; and the latest version is written last.
SettleInv ==
  /\ \A v \in versions : v >= 6 => "idx_due" \in schema
  /\ \A p \in Proc : opener[p].at = "open" \/ (opener[p].at = "migrate" /\ opener[p].version = 6)
                       => "idx_due" \in schema
  /\ failures \in Nat
  /\ failures = 0 =>
       /\ "idx_created" \in schema => engine = "sqlite" /\ WillReach(5)
       /\ "idx_priority" \in schema => WillReach(6)
       /\ \/ kLatestSchemaVersion \in versions
          \/ \E p \in Proc : opener[p].at = "migrate"
          \/ \A p \in Proc : opener[p].at # "open"

LEMMA SettleInit == Init => SettleInv
<1>. SUFFICES ASSUME SchemaInit PROVE SettleInv
  BY DEF Init
<1>1. PICK v \in 0 .. 8, old \in BOOLEAN :
        /\ schema = Owed(v) \cup IndexOf(v)
                      \cup (IF old \/ v = 0 THEN {} ELSE AddedColumns)
                      \cup (IF engine = "sqlite" \/ v = 0 THEN {} ELSE {"schema_version"})
        /\ versions = IF v = 0 /\ engine = "sqlserver" THEN {} ELSE {v}
  BY DEF SchemaInit, kLatestSchemaVersion
<1>2. failures = 0 /\ \A p \in Proc : opener[p].at = "closed"
  BY DEF SchemaInit
<1>3. versions \subseteq {v} /\ schema \cap Indexes = IndexOf(v)
  <2>1. IndexOf(v) \subseteq Indexes
    BY DEF IndexOf, Indexes, FirstIndex
  <2>2. (Owed(v) \cup AddedColumns \cup {"schema_version"}) \cap Indexes = {}
    BY DEF Owed, AddedColumns, Indexes
  <2>. QED
    BY <1>1, <2>1, <2>2
<1>4. v >= 6 => "idx_due" \in schema
  BY <1>3 DEF IndexOf, Indexes
<1>5. "idx_created" \in schema => engine = "sqlite" /\ v < 5
  BY <1>3 DEF IndexOf, Indexes, FirstIndex
<1>6. "idx_priority" \in schema => v < 6
  BY <1>3 DEF IndexOf, Indexes, FirstIndex
<1>. QED
  BY <1>2, <1>3, <1>4, <1>5, <1>6 DEF SettleInv, WillReach

\* What the opening steps do to p, except for the migrations and failures.
LEMMA QuietOpening ==
  ASSUME SchemaInv, NEW p \in Proc,
         open(p) \/ CreateVersionTable(p) \/ InsertVersion(p) \/ read_schema_version(p)
  PROVE  /\ UNCHANGED <<engine, failures>>
         /\ schema' \in {schema, schema \cup {"schema_version"}}
         /\ versions' \in {versions, versions \cup {0}}
         /\ opener[p].at \notin {"migrate", "open"}
         /\ \A q \in Proc : q # p => opener'[q] = opener[q]
         /\ \/ opener'[p].at \notin {"migrate", "open"}
            \/ /\ opener'[p].version \in versions \cup {0}
               /\ versions' = versions
               /\ opener'[p].at = IF opener'[p].version = 7 THEN "open" ELSE "migrate"
<1>0. /\ Places = {"closed", "create", "insert", "read", "migrate", "open", "refused"}
      /\ Version = 0 .. 8 /\ kLatestSchemaVersion = 7
  BY DEF Places, Version, kLatestSchemaVersion
<1>1. CASE open(p) \/ CreateVersionTable(p) \/ InsertVersion(p)
  <2>1. PICK place \in {"closed", "create", "insert", "read"} : Go(p, place, 0)
    BY <1>1 DEF open, CreateVersionTable, InsertVersion
  <2>2. opener'[p].at = place /\ \A q \in Proc : q # p => opener'[q] = opener[q]
    <3>1. place \in Places /\ 0 \in Version  BY <1>0
    <3>. QED  BY <2>1, <3>1, GoGives DEF Go
  <2>. QED
    BY <1>1, <2>2 DEF open, CreateVersionTable, InsertVersion
<1>2. CASE read_schema_version(p)
  <2>1. PICK v \in versions \cup {0} :
          Go(p, IF v > 7 THEN "refused" ELSE IF v = 7 THEN "open" ELSE "migrate", v)
    BY <1>0, <1>2 DEF read_schema_version
  <2>. DEFINE place == IF v > 7 THEN "refused" ELSE IF v = 7 THEN "open" ELSE "migrate"
  <2>2. opener'[p] = [at |-> place, version |-> v] /\ \A q \in Proc : q # p => opener'[q] = opener[q]
    <3>1. place \in Places /\ v \in Version  BY <1>0 DEF SchemaInv, OpenersOK
    <3>. QED  BY <2>1, <3>1, GoGives DEF Go
  <2>. QED
    BY <1>2, <2>2 DEF read_schema_version
<1>. QED
  BY <1>1, <1>2

\* They leave somebody who will reach version k.
LEMMA QuietReach ==
  ASSUME SchemaInv, NEW p \in Proc, NEW k \in 5 .. 6, WillReach(k),
         open(p) \/ CreateVersionTable(p) \/ InsertVersion(p) \/ read_schema_version(p)
  PROVE  WillReach(k)'
<1>1. CASE \E q \in Proc : opener[q].at = "migrate" /\ opener[q].version < k
  BY <1>1, QuietOpening DEF WillReach
<1>2. CASE /\ \A v \in versions : v < k
           /\ \A q \in Proc : opener[q].at \notin {"migrate", "open"}
  <2>1. \A v \in versions' : v < k
    BY <1>2, QuietOpening
  <2>2. CASE opener'[p].at \notin {"migrate", "open"}
    BY <1>2, <2>1, <2>2, QuietOpening DEF WillReach
  <2>3. CASE opener'[p].at \in {"migrate", "open"}
    BY <1>2, <2>3, QuietOpening DEF WillReach
  <2>. QED
    BY <2>2, <2>3
<1>. QED
  BY <1>1, <1>2 DEF WillReach

\* So does a migration, unless it is the one to version k.
LEMMA MigrateReach ==
  ASSUME SchemaInv, NEW p \in Proc, NEW t \in 1 .. 7, NEW k \in 5 .. 6,
         opener[p].at = "migrate", opener[p].version = t - 1,
         opener'[p] = [at |-> IF t = 7 THEN "open" ELSE "migrate", version |-> t],
         \A q \in Proc : q # p => opener'[q] = opener[q],
         t < k \/ (t # k /\ WillReach(k))
  PROVE  WillReach(k)'
<1>1. CASE t < k
  BY <1>1 DEF WillReach
<1>2. CASE t > k /\ WillReach(k)
  <2>1. PICK q \in Proc : opener[q].at = "migrate" /\ opener[q].version < k
    BY <1>2 DEF WillReach
  <2>2. q # p
    BY <1>2, <2>1
  <2>. QED
    BY <2>1, <2>2 DEF WillReach
<1>. QED
  BY <1>1, <1>2

LEMMA OpeningSettles ==
  ASSUME SchemaInv, SettleInv, NEW p \in Proc, Opening(p)
  PROVE  SettleInv'
<1>0. kLatestSchemaVersion = 7
  BY DEF kLatestSchemaVersion
<1>1. CASE open(p) \/ CreateVersionTable(p) \/ InsertVersion(p) \/ read_schema_version(p)
  <2>1. /\ UNCHANGED <<engine, failures>>
        /\ \A i \in Indexes : i \in schema' <=> i \in schema
    BY <1>1, QuietOpening DEF Indexes
  <2>2. \A v \in versions' : v >= 6 => "idx_due" \in schema'
    BY <1>1, <2>1, QuietOpening DEF SettleInv, Indexes
  <2>3. \A q \in Proc : opener'[q].at = "open" \/ (opener'[q].at = "migrate" /\ opener'[q].version = 6)
                         => "idx_due" \in schema'
    BY <1>1, <2>1, QuietOpening DEF SettleInv, Indexes
  <2>4. ASSUME failures' = 0
        PROVE  /\ "idx_created" \in schema' => engine' = "sqlite" /\ WillReach(5)'
               /\ "idx_priority" \in schema' => WillReach(6)'
    <3>1. ASSUME NEW k \in 5 .. 6, WillReach(k) PROVE WillReach(k)'
      BY <1>1, <3>1, QuietReach
    <3>2. WillReach(5) => WillReach(5)'
      BY <3>1
    <3>3. WillReach(6) => WillReach(6)'
      BY <3>1
    <3>. QED
      BY <2>1, <2>4, <3>2, <3>3 DEF SettleInv, Indexes
  <2>5. ASSUME failures' = 0
        PROVE  \/ 7 \in versions'
               \/ \E q \in Proc : opener'[q].at = "migrate"
               \/ \A q \in Proc : opener'[q].at # "open"
    BY <1>0, <1>1, <2>1, <2>5, QuietOpening DEF SettleInv
  <2>. QED
    BY <1>0, <2>1, <2>2, <2>3, <2>4, <2>5 DEF SettleInv
<1>2. CASE Migrate(p)
  <2>. DEFINE t == opener[p].version + 1
              place == IF t = 7 THEN "open" ELSE "migrate"
  <2>1. opener[p].version \in 0 .. 6 /\ opener[p].at = "migrate"
    BY <1>2 DEF Migrate, SchemaInv, OpenersOK
  <2>2. /\ schema' = Migrated(schema, t) /\ versions' = {t} /\ Go(p, place, t)
        /\ UNCHANGED <<engine, failures>>
    BY <1>0, <1>2 DEF Migrate
  <2>3. t \in 1 .. 7
    BY <2>1
  <2>4. /\ opener'[p] = [at |-> place, version |-> t]
        /\ \A q \in Proc : q # p => opener'[q] = opener[q]
    <3>1. place \in Places /\ t \in Version
      BY <2>3 DEF Places, Version, kLatestSchemaVersion
    <3>. QED  BY <2>2, <3>1, GoGives DEF Go
  <2>5. t = 1 \/ t = 2 \/ t = 3 \/ t = 4 \/ t = 5 \/ t = 6 \/ t = 7
    BY <2>3
  <2>6. "idx_due" \in schema => "idx_due" \in schema'
    BY <2>2, <2>5 DEF Migrated, FirstIndex
  <2>7. t >= 6 => "idx_due" \in schema'
    <3>1. CASE t = 6
      BY <2>2, <3>1 DEF Migrated
    <3>2. CASE t = 7
      <4>1. opener[p].version = 6  BY <2>1, <3>2
      <4>. QED  BY <2>1, <2>6, <4>1 DEF SettleInv
    <3>. QED
      BY <2>3, <3>1, <3>2
  <2>8. "idx_created" \in schema' =>
          \/ t < 5 /\ FirstIndex = "idx_created"
          \/ "idx_created" \in schema /\ (t # 5 \/ engine # "sqlite")
    BY <2>2, <2>5 DEF Migrated, FirstIndex, AddedColumns
  <2>9. "idx_priority" \in schema' => t < 6 \/ (t # 6 /\ "idx_priority" \in schema)
    BY <2>2, <2>5 DEF Migrated, AddedColumns
  <2>10. \A v \in versions' : v >= 6 => "idx_due" \in schema'
    BY <2>2, <2>7
  <2>11. \A q \in Proc : opener'[q].at = "open" \/ (opener'[q].at = "migrate" /\ opener'[q].version = 6)
                          => "idx_due" \in schema'
    BY <2>4, <2>6, <2>7 DEF SettleInv
  <2>12. opener[p].version = t - 1
    BY <2>1
  <2>. HIDE DEF t
  <2>13. ASSUME failures' = 0, "idx_created" \in schema'
         PROVE  engine' = "sqlite" /\ WillReach(5)'
    <3>1. engine = "sqlite" /\ (t < 5 \/ (t # 5 /\ WillReach(5)))
      BY <2>2, <2>8, <2>13 DEF SettleInv, FirstIndex
    <3>. QED
      BY <2>1, <2>2, <2>3, <2>4, <2>12, <3>1, MigrateReach
  <2>14. ASSUME failures' = 0, "idx_priority" \in schema'
         PROVE  WillReach(6)'
    <3>1. t < 6 \/ (t # 6 /\ WillReach(6))
      BY <2>2, <2>9, <2>14 DEF SettleInv
    <3>. QED
      BY <2>1, <2>3, <2>4, <2>12, <3>1, MigrateReach
  <2>15. 7 \in versions' \/ opener'[p].at = "migrate"
    BY <2>2, <2>4
  <2>. QED
    BY <1>0, <2>2, <2>10, <2>11, <2>13, <2>14, <2>15 DEF SettleInv
<1>3. CASE OpenerFails(p)
  <2>1. /\ Go(p, "closed", 0) /\ UNCHANGED <<schema, versions>>
        /\ failures' = failures + 1
    BY <1>3 DEF OpenerFails
  <2>2. opener'[p].at = "closed" /\ \A q \in Proc : q # p => opener'[q] = opener[q]
    <3>1. "closed" \in Places /\ 0 \in Version
      BY DEF Places, Version, kLatestSchemaVersion
    <3>. QED  BY <2>1, <3>1, GoGives DEF Go
  <2>3. failures' \in Nat /\ failures' # 0
    BY <2>1 DEF SettleInv
  <2>. QED
    BY <2>1, <2>2, <2>3 DEF SettleInv
<1>. QED
  BY <1>1, <1>2, <1>3 DEF Opening

LEMMA SettleNext == SchemaInv /\ SettleInv /\ [Next]_vars => SettleInv'
<1>. SUFFICES ASSUME SchemaInv, SettleInv, [Next]_vars PROVE SettleInv'
  OBVIOUS
<1>1. ASSUME UNCHANGED schemaVars PROVE SettleInv'
  BY <1>1 DEF schemaVars, SettleInv, WillReach
<1>2. CASE UNCHANGED vars
  BY <1>1, <1>2 DEF vars
<1>3. CASE Next
  BY <1>1, <1>3, OpeningSettles, OperatingLeavesSchema DEF Next
<1>. QED
  BY <1>2, <1>3

\* Any number of openers that race through the migrations, repeating and undoing
\* each other's, end at the latest version with its one index, unless one of
\* them fails half way.
THEOREM RacesSettle ==
  ASSUME Proc # {}
  PROVE  Spec => []SchemaSettles
<1>1. SchemaInv /\ SettleInv => SchemaSettles
  <2>. SUFFICES ASSUME SettleInv, failures = 0, \A p \in Proc : Opened(p)
                PROVE  schema \cap Indexes = {"idx_due"} /\ kLatestSchemaVersion \in versions
    BY DEF SchemaSettles
  <2>1. PICK p \in Proc : opener[p].at = "open"
    BY DEF Opened
  <2>2. ~WillReach(5) /\ ~WillReach(6) /\ \A q \in Proc : opener[q].at # "migrate"
    BY <2>1 DEF Opened, WillReach
  <2>3. "idx_due" \in schema /\ "idx_created" \notin schema /\ "idx_priority" \notin schema
    BY <2>1, <2>2 DEF SettleInv
  <2>. QED
    BY <2>1, <2>2, <2>3 DEF SettleInv, Indexes
<1>. QED
  BY <1>1, SchemaInvInit, SchemaInvNext, SettleInit, SettleNext, PTL DEF Spec

-----------------------------------------------------------------------------
(* The parts of jobs: what each statement may rely on.                     *)

\* The clock stands still.
RecordFor(j) == {r \in JobRecord : r.id = j /\ r.updated = 0}

\* What it has not written is None.
TransactionFor(j) ==
  [row : RecordFor(j) \cup {None}, attachments : (SUBSET Attachments) \cup {None},
   tags : (SUBSET Tags) \cup {None}]

Unwritten(t) == t.attachments = None /\ t.tags = None

Upserting == {"exists", "insert", "update_row", "attachments", "tags"}
Reading == {"rows", "read_attachments", "read_tags"}

\* The places where a transaction has written, and so has its locks.
Holding == {"attachments", "tags", "update", "commit"}

\* At each place, what the call c and the transaction t of a process hold.
PreparedFor(place, c, t) ==
  /\ place \in Upserting => c.kind = "upsert"
  /\ place \in Upserting \/ (place = "commit" /\ c.kind = "upsert") =>
       c.job \in JobId /\ c.record \in RecordFor(c.job)
  /\ IF place \in Holding THEN c.job \in JobId /\ t \in TransactionFor(c.job) ELSE t = None
  /\ c.kind = "upsert" =>
       /\ place \in {"attachments", "tags", "commit"} => t.row \in {Bare(c.record), None}
       /\ place = "attachments" => Unwritten(t)
       /\ place = "tags" => t.tags = None
       /\ place \in {"tags", "commit"} =>
            t.attachments = c.record.attachments \/ (t.row = None /\ t.attachments = None)
       /\ place = "commit" => t.tags = c.record.tags \/ (t.row = None /\ t.tags = None)
  /\ c.kind = "claim" /\ place \in {"update", "commit"} => t.row # None /\ Unwritten(t)
  /\ place = "select" => c = [NoCall EXCEPT !.kind = "claim"]
  /\ place = "update" => c.kind = "claim"
  /\ place = "commit" => c.kind \in {"upsert", "claim"}
  /\ place = "transition" =>
       c.kind = "transition" /\ c.job \in JobId /\ c.transition \in Transitions
  /\ place = "delete" => c.kind = "remove" /\ c.job \in JobId
  /\ place \in Reading => c.kind = "read" /\ c.job \in JobId \cup {None}

TablesOK ==
  /\ rows = [j \in JobId |-> rows[j]]
  /\ attachments \in [JobId -> SUBSET Attachments]
  /\ tags \in [JobId -> SUBSET Tags]
  /\ \A j \in JobId : rows[j] \in RecordFor(j) \cup {None}
  /\ NoOrphanParts

ExecutionOK ==
  /\ at = [p \in Proc |-> at[p]]
  /\ call = [p \in Proc |-> call[p]]
  /\ pending = [p \in Proc |-> pending[p]]
  /\ \A p \in Proc : PreparedFor(at[p], call[p], pending[p])

PartsInv == TablesOK /\ ExecutionOK

\* A transaction that put parts to a row it has no lock of found one there, and
\* the locks of the parts keep it.
PartsFound(p) ==
  LET t == pending[p] IN
  t # None /\ t.row = None /\ (t.attachments \notin {None, {}} \/ t.tags \notin {None, {}}) =>
    rows[call[p].job] # None

FoundOK == \A p \in Proc : PartsFound(p)

LEMMA PartsInvInit == Init => PartsInv /\ FoundOK
<1>. SUFFICES ASSUME Init PROVE PartsInv /\ FoundOK
  OBVIOUS
<1>1. TablesOK
  BY DEF Init, TablesOK, NoOrphanParts
<1>2. \A p \in Proc : at[p] = "idle" /\ pending[p] = None
  BY DEF Init
<1>3. ExecutionOK
  BY <1>2 DEF Init, ExecutionOK, PreparedFor, Upserting, Reading, Holding
<1>. QED
  BY <1>1, <1>2, <1>3 DEF PartsInv, FoundOK, PartsFound

\* What the operations write in place of a record is a record of the same job.
LEMMA RecordsStay ==
  ASSUME NEW j \in JobId, NEW r \in RecordFor(j)
  PROVE  /\ Bare(r) \in RecordFor(j)
         /\ Table!Claimed(r, "Validating") \in RecordFor(j)
         /\ \A state \in JobState, error \in Messages \cup {None} :
              Table!Transitioned(r, state, error) \in RecordFor(j)
         /\ \A v \in Priorities : [r EXCEPT !.priority = v] \in RecordFor(j)
         /\ \A a \in SUBSET Attachments, t \in SUBSET Tags :
              Whole(r, a, t) \in RecordFor(j)
<1>1. r \in JobRecord /\ r.id = j /\ r.updated = 0
  BY DEF RecordFor
<1>2. Bare(r) \in RecordFor(j)
  BY <1>1 DEF Bare, RecordFor, JobRecord
<1>3. Table!Claimed(r, "Validating") \in RecordFor(j)
  <2>. DEFINE W(next, n) ==
         [r EXCEPT !.state = next, !.updated = 0, !.lastAttempt = 0,
                   !.error = None, !.attempts = n]
  <2>1. \A next \in JobState, n \in Nat : W(next, n) \in RecordFor(j)
    BY <1>1 DEF RecordFor, JobRecord
  <2>2. r.attempts + 1 \in Nat /\ "Validating" \in JobState
    BY <1>1 DEF JobRecord, JobState
  <2>3. Table!Claimed(r, "Validating") = W("Validating", r.attempts + 1)
    BY DEF Table!Claimed
  <2>. HIDE DEF W
  <2>. QED
    BY <2>1, <2>2, <2>3
<1>4. \A state \in JobState, error \in Messages \cup {None} :
        Table!Transitioned(r, state, error) \in RecordFor(j)
  BY <1>1 DEF Table!Transitioned, RecordFor, JobRecord
<1>5. \A v \in Priorities : [r EXCEPT !.priority = v] \in RecordFor(j)
  BY <1>1 DEF RecordFor, JobRecord
<1>6. \A a \in SUBSET Attachments, t \in SUBSET Tags : Whole(r, a, t) \in RecordFor(j)
  <2>1. r # None
    BY <1>1, OperationsAssumption
  <2>. QED
    BY <1>1, <2>1 DEF Whole, RecordFor, JobRecord
<1>. QED
  BY <1>2, <1>3, <1>4, <1>5, <1>6

LEMMA Written ==
  ASSUME NEW j \in JobId, NEW r \in RecordFor(j)
  PROVE  r # None /\ Bare(r) # None /\ Table!Claimed(r, "Validating") # None
<1>1. \A s \in RecordFor(j) : s # None
  BY OperationsAssumption DEF RecordFor
<1>2. Bare(r) \in RecordFor(j) /\ Table!Claimed(r, "Validating") \in RecordFor(j)
  BY RecordsStay
<1>. QED
  BY <1>1, <1>2

\* A step of p that leaves the others' places, calls and transactions alone.
KeepsOthers(f, g, p) == g = [q \in Proc |-> IF q = p THEN g[p] ELSE f[q]]

LEMMA ExceptKeepsOthers ==
  ASSUME NEW f, f = [q \in Proc |-> f[q]], NEW p \in Proc, NEW x, NEW g,
         g = [f EXCEPT ![p] = x]
  PROVE  KeepsOthers(f, g, p) /\ g[p] = x
BY DEF KeepsOthers

LEMMA SameKeepsOthers ==
  ASSUME NEW f, f = [q \in Proc |-> f[q]], NEW p \in Proc, NEW g, g = f
  PROVE  KeepsOthers(f, g, p) /\ g[p] = f[p]
BY DEF KeepsOthers

LEMMA StepOfOne ==
  ASSUME ExecutionOK, NEW p \in Proc,
         KeepsOthers(at, at', p), KeepsOthers(call, call', p), KeepsOthers(pending, pending', p),
         PreparedFor(at'[p], call'[p], pending'[p])
  PROVE  ExecutionOK'
<1>1. /\ at' = [q \in Proc |-> at'[q]]
      /\ call' = [q \in Proc |-> call'[q]]
      /\ pending' = [q \in Proc |-> pending'[q]]
  BY DEF KeepsOthers
<1>2. ASSUME NEW q \in Proc PROVE PreparedFor(at'[q], call'[q], pending'[q])
  <2>1. CASE q = p
    BY <2>1
  <2>2. CASE q # p
    <3>1. at'[q] = at[q] /\ call'[q] = call[q] /\ pending'[q] = pending[q]
      BY <2>2 DEF KeepsOthers
    <3>. QED
      BY <3>1 DEF ExecutionOK
  <2>. QED
    BY <2>1, <2>2
<1>. QED
  BY <1>1, <1>2 DEF ExecutionOK

\* Nothing relies on anything where a process waits for a call or its return.
Free == {"idle", "done", "missed", "threw", "failed"}

LEMMA FreeIsPrepared ==
  ASSUME NEW place \in Free, NEW c
  PROVE  PreparedFor(place, c, None)
BY DEF Free, PreparedFor, Upserting, Reading, Holding

LEMMA ReadingIsPrepared ==
  ASSUME NEW place \in Reading, NEW c, c.kind = "read", c.job \in JobId \cup {None}
  PROVE  PreparedFor(place, c, None)
BY DEF Reading, PreparedFor, Upserting, Holding

\* A commit of a record of the job, or of none and then without parts.
LEMMA CommitKeepsTables ==
  ASSUME TablesOK, NEW p \in Proc, NEW j \in JobId,
         NEW row \in RecordFor(j) \cup {None}, NEW a \in SUBSET Attachments, NEW t \in SUBSET Tags,
         row = None => a = {} /\ t = {},
         Commit(p, j, row, a, t)
  PROVE  TablesOK'
<1>1. /\ rows' = [rows EXCEPT ![j] = row]
      /\ attachments' = [attachments EXCEPT ![j] = a]
      /\ tags' = [tags EXCEPT ![j] = t]
  BY DEF Commit
<1>2. /\ rows' = [k \in JobId |-> rows'[k]]
      /\ attachments' \in [JobId -> SUBSET Attachments]
      /\ tags' \in [JobId -> SUBSET Tags]
  BY <1>1 DEF TablesOK
<1>3. rows'[j] = row /\ attachments'[j] = a /\ tags'[j] = t
  BY <1>1 DEF TablesOK
<1>4. \A k \in JobId \ {j} :
        rows'[k] = rows[k] /\ attachments'[k] = attachments[k] /\ tags'[k] = tags[k]
  BY <1>1 DEF TablesOK
<1>5. \A k \in JobId : rows'[k] \in RecordFor(k) \cup {None}
  BY <1>3, <1>4 DEF TablesOK
<1>6. NoOrphanParts'
  BY <1>3, <1>4 DEF TablesOK, NoOrphanParts
<1>. QED
  BY <1>2, <1>5, <1>6 DEF TablesOK

LEMMA TablesUnchanged ==
  ASSUME TablesOK, UNCHANGED tables
  PROVE  TablesOK'
BY DEF tables, TablesOK, NoOrphanParts

-----------------------------------------------------------------------------
(* The steps of an operation.                                              *)

\* A step that does not touch what the invariant reads of the tables, and
\* changes p's place and perhaps its call and its transaction.
LEMMA QuietStep ==
  ASSUME PartsInv, UNCHANGED tables, NEW p \in Proc, NEW place, NEW c, NEW t,
         at' = [at EXCEPT ![p] = place],
         call' = [call EXCEPT ![p] = c] \/ (UNCHANGED call /\ c = call[p]),
         pending' = [pending EXCEPT ![p] = t] \/ (UNCHANGED pending /\ t = pending[p]),
         PreparedFor(place, c, t)
  PROVE  PartsInv'
<1>1. KeepsOthers(at, at', p) /\ at'[p] = place
  BY ExceptKeepsOthers DEF PartsInv, ExecutionOK
<1>2. KeepsOthers(call, call', p) /\ call'[p] = c
  BY ExceptKeepsOthers, SameKeepsOthers DEF PartsInv, ExecutionOK
<1>3. KeepsOthers(pending, pending', p) /\ pending'[p] = t
  BY ExceptKeepsOthers, SameKeepsOthers DEF PartsInv, ExecutionOK
<1>4. ExecutionOK'
  BY <1>1, <1>2, <1>3, StepOfOne DEF PartsInv
<1>. QED
  BY <1>4, TablesUnchanged DEF PartsInv

\* A step to a place that relies on nothing.
LEMMA FreeStep ==
  ASSUME PartsInv, UNCHANGED tables, NEW p \in Proc, NEW place \in Free, NEW c,
         at' = [at EXCEPT ![p] = place],
         call' = [call EXCEPT ![p] = c] \/ (UNCHANGED call /\ c = call[p]),
         pending' = [pending EXCEPT ![p] = None] \/ (UNCHANGED pending /\ pending[p] = None)
  PROVE  PartsInv'
BY FreeIsPrepared, QuietStep

\* The last step of an operation that commits.
LEMMA LastStep ==
  ASSUME PartsInv, NEW p \in Proc, NEW place \in Free, TablesOK',
         Ends(p, place), UNCHANGED call
  PROVE  PartsInv'
<1>1. KeepsOthers(at, at', p) /\ at'[p] = place
  BY ExceptKeepsOthers DEF PartsInv, ExecutionOK, Ends, Goto
<1>2. KeepsOthers(call, call', p)
  BY SameKeepsOthers DEF PartsInv, ExecutionOK
<1>3. KeepsOthers(pending, pending', p) /\ pending'[p] = None
  BY ExceptKeepsOthers DEF PartsInv, ExecutionOK, Ends
<1>4. ExecutionOK'
  BY <1>1, <1>2, <1>3, StepOfOne, FreeIsPrepared DEF PartsInv
<1>. QED
  BY <1>4 DEF PartsInv

\* A process that does not hold a transaction has none.
LEMMA NoTransaction ==
  ASSUME PartsInv, NEW p \in Proc
  PROVE  pending[p] = None <=> at[p] \notin Holding
<1>1. PreparedFor(at[p], call[p], pending[p])
  BY DEF PartsInv, ExecutionOK
<1>2. ASSUME NEW j \in JobId, NEW t \in TransactionFor(j) PROVE t # None
  BY OperationsAssumption DEF TransactionFor, RecordFor
<1>. QED
  BY <1>1, <1>2 DEF PreparedFor

\* Reading, returning and failing leave everything to the others.
LEMMA ReadingKeepsParts ==
  ASSUME PartsInv, NEW p \in Proc,
         \/ fetch(p) \/ ReadRows(p) \/ ReadAttachments(p) \/ ReadTags(p)
         \/ claim_next_submitted(p) \/ Return(p) \/ Fails(p) \/ Misses(p)
  PROVE  PartsInv'
<1>0. PreparedFor(at[p], call[p], pending[p])
  BY DEF PartsInv, ExecutionOK
<1>1. CASE fetch(p)
  <2>1. PICK j \in Known \cup {None} :
          Begins(p, "rows", [NoCall EXCEPT !.kind = "read", !.job = j])
    BY <1>1 DEF fetch
  <2>. DEFINE c == [NoCall EXCEPT !.kind = "read", !.job = j]
  <2>2. c.kind = "read" /\ c.job \in JobId \cup {None}
    BY OperationsAssumption DEF NoCall
  <2>3. pending[p] = None
    BY <2>1, NoTransaction DEF Begins, Holding
  <2>4. PreparedFor("rows", c, pending[p])
    BY <2>2, <2>3, ReadingIsPrepared DEF Reading
  <2>. HIDE DEF c
  <2>. QED
    BY <2>1, <2>4, QuietStep DEF Begins, Goto, c
<1>2. CASE ReadRows(p) \/ ReadAttachments(p)
  <2>1. PICK place \in {"done", "read_attachments", "read_tags"} : Goto(p, place)
    BY <1>2 DEF ReadRows, ReadAttachments
  <2>2. UNCHANGED <<tables, call, pending>> /\ at[p] \in Reading
    BY <1>2 DEF ReadRows, ReadAttachments, unchangedTables, Reading
  <2>3. PreparedFor(place, call[p], pending[p])
    <3>1. pending[p] = None
      BY <2>2, NoTransaction DEF Holding, Reading
    <3>2. call[p].kind = "read" /\ call[p].job \in JobId \cup {None}
      BY <1>0, <2>2 DEF PreparedFor
    <3>. QED
      BY <3>1, <3>2, FreeIsPrepared, ReadingIsPrepared DEF Free, Reading
  <2>. QED
    BY <2>1, <2>2, <2>3, QuietStep DEF Goto
<1>3. CASE ReadTags(p)
  BY <1>3, FreeStep DEF ReadTags, Ends, Goto, unchangedTables, Free
<1>4. CASE claim_next_submitted(p)
  <2>. DEFINE c == [NoCall EXCEPT !.kind = "claim"]
  <2>1. pending[p] = None
    BY <1>4, NoTransaction DEF claim_next_submitted, Begins, Holding
  <2>2. c.kind = "claim"
    BY DEF NoCall
  <2>3. PreparedFor("select", c, pending[p])
    BY <2>1, <2>2 DEF PreparedFor, Upserting, Holding, Reading
  <2>. QED
    BY <1>4, <2>3, QuietStep DEF claim_next_submitted, Begins, Goto
<1>5. CASE Return(p)
  <2>1. pending[p] = None
    BY <1>5, NoTransaction DEF Return, Over, Holding
  <2>. QED
    BY <1>5, <2>1, FreeStep DEF Return, Goto, Free
<1>6. CASE Fails(p) \/ Misses(p)
  BY <1>6, FreeStep DEF Fails, Misses, Ends, Goto, unchangedTables, Free
<1>. QED
  BY <1>1, <1>2, <1>3, <1>4, <1>5, <1>6

\* An upsert has written its row, or found none to write.
LEMMA RowWritten ==
  ASSUME PartsInv, NEW p \in Proc, UNCHANGED <<tables, call>>,
         call[p].kind = "upsert", call[p].job \in JobId,
         call[p].record \in RecordFor(call[p].job),
         NEW row \in {Bare(call[p].record), None},
         Goto(p, "attachments"), SetPending(p, row, None, None)
  PROVE  PartsInv'
<1>. DEFINE c == call[p]
            t == [row |-> row, attachments |-> None, tags |-> None]
<1>1. row \in RecordFor(c.job) \cup {None}
  BY RecordsStay
<1>2. t \in TransactionFor(c.job) /\ t.row = row /\ Unwritten(t)
  BY <1>1 DEF TransactionFor, Unwritten
<1>3. at' = [at EXCEPT ![p] = "attachments"] /\ pending' = [pending EXCEPT ![p] = t]
  BY DEF Goto, SetPending
<1>. HIDE DEF t
<1>4. PreparedFor("attachments", c, t)
  BY <1>2 DEF PreparedFor, Upserting, Holding, Reading
<1>. QED
  BY <1>3, <1>4, QuietStep

\* An upsert holds a record of its job, and its transaction the row of it, if
\* there was one.
LEMMA UpsertingKeepsParts ==
  ASSUME PartsInv, FoundOK, NEW p \in Proc,
         \/ upsert(p) \/ UpsertRow(p) \/ InsertOrUpdate(p)
         \/ ReplaceAttachments(p) \/ ReplaceTags(p) \/ commit(p)
  PROVE  PartsInv'
<1>. DEFINE c == call[p]
            j == c.job
<1>1. PreparedFor(at[p], c, pending[p])
  BY DEF PartsInv, ExecutionOK
<1>2. CASE upsert(p)
  <2>1. PICK k \in JobId, v \in Priorities : \E parts \in Parts[k] :
          LET fresh == [ id |-> k, state |-> "Submitted", priority |-> v, due |-> None,
                         created |-> 0, updated |-> 0, lastAttempt |-> None, attempts |-> 0,
                         error |-> None, correlation |-> None, attachments |-> {}, tags |-> {} ]
              base == IF rows[k] = None THEN fresh ELSE [rows[k] EXCEPT !.priority = v]
          IN  Begins(p, "exists", [NoCall EXCEPT !.kind = "upsert", !.job = k,
                                     !.record = Whole(base, parts[1], parts[2])])
    BY <1>2 DEF upsert
  <2>. DEFINE fresh == [ id |-> k, state |-> "Submitted", priority |-> v, due |-> None,
                         created |-> 0, updated |-> 0, lastAttempt |-> None, attempts |-> 0,
                         error |-> None, correlation |-> None, attachments |-> {}, tags |-> {} ]
              base == IF rows[k] = None THEN fresh ELSE [rows[k] EXCEPT !.priority = v]
  <2>2. PICK parts \in Parts[k] :
          Begins(p, "exists", [NoCall EXCEPT !.kind = "upsert", !.job = k,
                                 !.record = Whole(base, parts[1], parts[2])])
    BY <2>1
  <2>3. parts[1] \in SUBSET Attachments /\ parts[2] \in SUBSET Tags
    BY OperationsAssumption
  <2>4. fresh \in RecordFor(k)
    <3>1. "Submitted" \in JobState  BY DEF JobState
    <3>. QED  BY <3>1 DEF RecordFor, JobRecord
  <2>5. base \in RecordFor(k)
    <3>1. rows[k] \in RecordFor(k) \cup {None}
      BY DEF PartsInv, TablesOK
    <3>2. CASE rows[k] = None  BY <2>4, <3>2
    <3>3. CASE rows[k] # None  BY <3>1, <3>3, RecordsStay
    <3>. QED  BY <3>2, <3>3
  <2>. HIDE DEF base
  <2>6. Whole(base, parts[1], parts[2]) \in RecordFor(k)
    BY <2>3, <2>5, RecordsStay
  <2>. DEFINE d == [NoCall EXCEPT !.kind = "upsert", !.job = k,
                                  !.record = Whole(base, parts[1], parts[2])]
  <2>7. d.kind = "upsert" /\ d.job = k /\ d.record = Whole(base, parts[1], parts[2])
    BY DEF NoCall
  <2>. HIDE DEF d
  <2>8. PreparedFor("exists", d, pending[p])
    <3>1. pending[p] = None
      BY <2>2, NoTransaction DEF Begins, Holding
    <3>. QED
      BY <2>6, <2>7, <3>1 DEF PreparedFor, Upserting, Holding, Reading
  <2>9. at' = [at EXCEPT ![p] = "exists"] /\ call' = [call EXCEPT ![p] = d]
        /\ UNCHANGED <<tables, pending>>
    BY <2>2 DEF Begins, Goto, d
  <2>. QED
    BY <2>8, <2>9, QuietStep
<1>3. CASE UpsertRow(p)
  <2>1. c.kind = "upsert" /\ j \in JobId /\ c.record \in RecordFor(j) /\ pending[p] = None
    BY <1>1, <1>3 DEF PreparedFor, UpsertRow, Upserting, Holding
  <2>2. UNCHANGED <<tables, call>>
    BY <1>3 DEF UpsertRow, unchangedTables
  <2>3. CASE engine = "sqlite"
    <3>1. Goto(p, "attachments") /\ SetPending(p, Bare(c.record), None, None)
      BY <1>3, <2>3 DEF UpsertRow
    <3>. QED
      BY <2>1, <2>2, <3>1, RowWritten
  <2>4. CASE engine # "sqlite"
    <3>1. PICK place \in {"insert", "update_row"} : Goto(p, place) /\ UNCHANGED pending
      BY <1>3, <2>4 DEF UpsertRow
    <3>2. PreparedFor(place, c, pending[p])
      BY <2>1 DEF PreparedFor, Upserting, Holding, Reading
    <3>. QED
      BY <2>2, <3>1, <3>2, QuietStep DEF Goto
  <2>. QED
    BY <2>3, <2>4
<1>4. CASE InsertOrUpdate(p)
  <2>1. c.kind = "upsert" /\ j \in JobId /\ c.record \in RecordFor(j)
    BY <1>1, <1>4 DEF PreparedFor, InsertOrUpdate, Upserting
  <2>2. UNCHANGED <<tables, call>>
    BY <1>4 DEF InsertOrUpdate, unchangedTables
  <2>3. \/ Ends(p, "threw")
        \/ \E row \in {Bare(c.record), None} :
             Goto(p, "attachments") /\ SetPending(p, row, None, None)
    BY <1>4 DEF InsertOrUpdate
  <2>4. CASE Ends(p, "threw")
    BY <2>2, <2>4, FreeStep DEF Ends, Goto, Free
  <2>. QED
    BY <2>1, <2>2, <2>3, <2>4, RowWritten
<1>5. CASE ReplaceAttachments(p)
  <2>. PICK new : new = Replaced(p, attachments[j], c.record.attachments)
    OBVIOUS
  <2>. DEFINE t == [row |-> pending[p].row, attachments |-> new, tags |-> pending[p].tags]
  <2>1. UNCHANGED <<tables, call>>
    BY <1>5 DEF ReplaceAttachments, unchangedTables
  <2>2. CASE Ends(p, "threw")
    BY <2>1, <2>2, FreeStep DEF Ends, Goto, Free
  <2>3. CASE at' = [at EXCEPT ![p] = "tags"] /\ pending' = [pending EXCEPT ![p] = t]
    <3>1. /\ c.kind = "upsert" /\ j \in JobId /\ c.record \in RecordFor(j)
          /\ pending[p] \in TransactionFor(j) /\ pending[p].row \in {Bare(c.record), None}
          /\ pending[p].tags = None
      BY <1>1, <1>5 DEF PreparedFor, ReplaceAttachments, Upserting, Holding, Unwritten
    <3>2. new = c.record.attachments \/ (pending[p].row = None /\ new = None)
      BY DEF Replaced, WithoutRow
    <3>3. t \in TransactionFor(j)
      BY <3>1, <3>2 DEF TransactionFor, RecordFor, JobRecord
    <3>4. PreparedFor("tags", c, t)
      BY <3>1, <3>2, <3>3 DEF PreparedFor, Upserting, Holding, Reading
    <3>. QED
      BY <2>1, <2>3, <3>4, QuietStep
  <2>. QED
    BY <1>5, <2>2, <2>3 DEF ReplaceAttachments, Goto, SetPending
<1>6. CASE ReplaceTags(p)
  <2>. PICK new : new = Replaced(p, tags[j], c.record.tags)
    OBVIOUS
  <2>. DEFINE t == [row |-> pending[p].row, attachments |-> pending[p].attachments, tags |-> new]
  <2>1. UNCHANGED <<tables, call>>
    BY <1>6 DEF ReplaceTags, unchangedTables
  <2>2. CASE Ends(p, "threw")
    BY <2>1, <2>2, FreeStep DEF Ends, Goto, Free
  <2>3. CASE at' = [at EXCEPT ![p] = "commit"] /\ pending' = [pending EXCEPT ![p] = t]
    <3>1. /\ c.kind = "upsert" /\ j \in JobId /\ c.record \in RecordFor(j)
          /\ pending[p] \in TransactionFor(j) /\ pending[p].row \in {Bare(c.record), None}
          /\ \/ pending[p].attachments = c.record.attachments
             \/ pending[p].row = None /\ pending[p].attachments = None
      BY <1>1, <1>6 DEF PreparedFor, ReplaceTags, Upserting, Holding
    <3>2. new = c.record.tags \/ (pending[p].row = None /\ new = None)
      BY DEF Replaced, WithoutRow
    <3>3. t \in TransactionFor(j)
      BY <3>1, <3>2 DEF TransactionFor, RecordFor, JobRecord
    <3>4. PreparedFor("commit", c, t)
      BY <3>1, <3>2, <3>3 DEF PreparedFor, Upserting, Holding, Reading
    <3>. QED
      BY <2>1, <2>3, <3>4, QuietStep
  <2>. QED
    BY <1>6, <2>2, <2>3 DEF ReplaceTags, Goto, SetPending
<1>7. CASE commit(p)
  <2>. PICK t : t = pending[p]
    OBVIOUS
  <2>. PICK row : row = Settled(t.row, rows[j])
    OBVIOUS
  <2>. PICK a : a = Settled(t.attachments, attachments[j])
    OBVIOUS
  <2>. PICK g : g = Settled(t.tags, tags[j])
    OBVIOUS
  <2>1. j \in JobId /\ t \in TransactionFor(j)
    BY <1>1, <1>7 DEF PreparedFor, commit, Holding
  <2>2. /\ rows[j] \in RecordFor(j) \cup {None}
        /\ attachments[j] \in SUBSET Attachments /\ tags[j] \in SUBSET Tags
        /\ rows[j] = None => attachments[j] = {} /\ tags[j] = {}
    BY <2>1 DEF PartsInv, TablesOK, NoOrphanParts
  <2>3. row \in RecordFor(j) \cup {None} /\ a \in SUBSET Attachments /\ g \in SUBSET Tags
    BY <2>1, <2>2 DEF Settled, TransactionFor
  <2>4. row = None => a = {} /\ g = {}
    <3>. SUFFICES ASSUME row = None PROVE a = {} /\ g = {}
      OBVIOUS
    <3>1. t.row = None /\ rows[j] = None
      BY DEF Settled
    <3>2. t # None
      BY <1>7, NoTransaction DEF commit, Holding
    <3>3. t.attachments \in {None, {}} /\ t.tags \in {None, {}}
      BY <3>1, <3>2 DEF FoundOK, PartsFound
    <3>. QED
      BY <2>2, <3>1, <3>3 DEF Settled
  <2>5. Commit(p, j, row, a, g) /\ Ends(p, "done") /\ UNCHANGED call
    BY <1>7 DEF commit
  <2>6. TablesOK'
    BY <2>1, <2>3, <2>4, <2>5, CommitKeepsTables DEF PartsInv
  <2>. QED
    BY <2>5, <2>6, LastStep DEF Free
<1>. QED
  BY <1>2, <1>3, <1>4, <1>5, <1>6, <1>7

\* A claim takes the stored row of the job it found, and keeps it a row.
LEMMA ClaimingKeepsParts ==
  ASSUME PartsInv, NEW p \in Proc, SelectBest(p) \/ UpdateClaimed(p)
  PROVE  PartsInv'
<1>1. PreparedFor(at[p], call[p], pending[p])
  BY DEF PartsInv, ExecutionOK
<1>2. CASE SelectBest(p)
  <2>1. UNCHANGED tables
    BY <1>2 DEF SelectBest, unchangedTables
  <2>2. CASE Ends(p, "done") /\ UNCHANGED call
    BY <2>1, <2>2, FreeStep DEF Ends, Goto, Free
  <2>3. CASE \E r \in Table!list({"Submitted"}) :
               /\ call' = [call EXCEPT ![p].job = r.id]
               /\ SetPending(p, rows[r.id], None, None)
               /\ Goto(p, "update")
    <3>1. PICK r \in Table!list({"Submitted"}) :
               /\ call' = [call EXCEPT ![p].job = r.id]
               /\ SetPending(p, rows[r.id], None, None)
               /\ Goto(p, "update")
      BY <2>3
    <3>2. PICK k \in JobId : r = Visible[k] /\ Visible[k] # None
      BY DEF Table!list, Table!Stored
    <3>3. rows[k] \in RecordFor(k) /\ r = [rows[k] EXCEPT !.attachments = attachments[k],
                                                             !.tags = tags[k]]
      BY <3>2 DEF Visible, Whole, PartsInv, TablesOK
    <3>4. r.id = k
      BY <3>3 DEF RecordFor, JobRecord
    <3>. DEFINE d == [call[p] EXCEPT !.job = k]
                t == [row |-> rows[k], attachments |-> None, tags |-> None]
    <3>5. call' = [call EXCEPT ![p] = d] /\ pending' = [pending EXCEPT ![p] = t]
          /\ at' = [at EXCEPT ![p] = "update"]
      BY <3>1, <3>4 DEF SetPending, Goto, PartsInv, ExecutionOK
    <3>6. d.job = k /\ d.kind = "claim"
      BY <1>1, <1>2 DEF PreparedFor, SelectBest, NoCall
    <3>7. t \in TransactionFor(k) /\ t.row # None /\ Unwritten(t)
      BY <3>3, OperationsAssumption DEF TransactionFor, RecordFor, Unwritten
    <3>. HIDE DEF d, t
    <3>8. PreparedFor("update", d, t)
      BY <3>6, <3>7 DEF PreparedFor, Upserting, Holding, Reading
    <3>. QED
      BY <2>1, <3>5, <3>8, QuietStep
  <2>. QED
    BY <1>2, <2>2, <2>3 DEF SelectBest
<1>3. CASE UpdateClaimed(p)
  <2>. DEFINE row == Table!Claimed(pending[p].row, "Validating")
              t == [row |-> row, attachments |-> None, tags |-> None]
  <2>1. UNCHANGED <<tables, call>>
    BY <1>3 DEF UpdateClaimed, unchangedTables
  <2>2. \/ Ends(p, "threw")
        \/ Goto(p, "commit") /\ pending' = [pending EXCEPT ![p] = t]
    BY <1>3 DEF UpdateClaimed, SetPending
  <2>3. CASE Ends(p, "threw")
    BY <2>1, <2>3, FreeStep DEF Ends, Goto, Free
  <2>4. CASE Goto(p, "commit") /\ pending' = [pending EXCEPT ![p] = t]
    <3>1. /\ call[p].kind = "claim" /\ call[p].job \in JobId
          /\ pending[p] \in TransactionFor(call[p].job) /\ pending[p].row # None
      BY <1>1, <1>3 DEF PreparedFor, UpdateClaimed, Holding
    <3>2. row \in RecordFor(call[p].job) /\ row # None
      <4>1. pending[p].row \in RecordFor(call[p].job)
        BY <3>1 DEF TransactionFor
      <4>. QED
        BY <3>1, <4>1, RecordsStay, Written
    <3>. HIDE DEF row
    <3>3. t \in TransactionFor(call[p].job) /\ t.row # None /\ Unwritten(t)
      BY <3>1, <3>2 DEF TransactionFor, Unwritten
    <3>. HIDE DEF t
    <3>4. PreparedFor("commit", call[p], t)
      BY <3>1, <3>3 DEF PreparedFor, Upserting, Holding, Reading
    <3>. QED
      BY <2>1, <2>4, <3>4, QuietStep DEF Goto
  <2>. QED
    BY <2>2, <2>3, <2>4
<1>. QED
  BY <1>2, <1>3

\* A transition rewrites a row that is there or none; a removal takes the parts
\* along with the row.
LEMMA ChangingKeepsParts ==
  ASSUME PartsInv, NEW p \in Proc,
         transition(p) \/ UpdateState(p) \/ remove(p) \/ DeleteRow(p)
  PROVE  PartsInv'
<1>. DEFINE j == call[p].job
            t == call[p].transition
<1>1. PreparedFor(at[p], call[p], pending[p])
  BY DEF PartsInv, ExecutionOK
<1>2. CASE transition(p)
  <2>1. PICK k \in Known, e \in Transitions :
          Begins(p, "transition", [NoCall EXCEPT !.kind = "transition", !.job = k,
                                                 !.transition = e])
    BY <1>2 DEF transition
  <2>. DEFINE d == [NoCall EXCEPT !.kind = "transition", !.job = k, !.transition = e]
  <2>2. d.kind = "transition" /\ d.job \in JobId /\ d.transition \in Transitions
    BY OperationsAssumption DEF NoCall
  <2>. HIDE DEF d
  <2>3. PreparedFor("transition", d, pending[p])
    <3>1. pending[p] = None
      BY <2>1, NoTransaction DEF Begins, Holding
    <3>. QED
      BY <2>2, <3>1 DEF PreparedFor, Upserting, Holding, Reading
  <2>. QED
    BY <2>1, <2>3, QuietStep DEF Begins, Goto, d
<1>3. CASE UpdateState(p)
  <2>. DEFINE row == IF rows[j] = None THEN None ELSE Table!Transitioned(rows[j], t[1], t[2])
  <2>1. j \in JobId /\ t[1] \in JobState /\ t[2] \in Messages \cup {None}
    BY <1>1, <1>3, OperationsAssumption DEF PreparedFor, UpdateState
  <2>2. /\ rows[j] \in RecordFor(j) \cup {None}
        /\ attachments[j] \in SUBSET Attachments /\ tags[j] \in SUBSET Tags
    BY <2>1 DEF PartsInv, TablesOK
  <2>3. Commit(p, j, row, attachments[j], tags[j]) /\ UNCHANGED call
    BY <1>3 DEF UpdateState
  <2>4. CASE rows[j] = None
    <3>1. row = None /\ attachments[j] = {} /\ tags[j] = {}
      BY <2>1, <2>4 DEF PartsInv, TablesOK, NoOrphanParts
    <3>. QED
      <4>1. TablesOK'
        BY <2>1, <2>2, <2>3, <3>1, CommitKeepsTables DEF PartsInv
      <4>2. PICK how \in {"done", "threw"} : Ends(p, how)
        BY <1>3 DEF UpdateState
      <4>. QED
        BY <2>3, <4>1, <4>2, LastStep DEF Free
  <2>5. CASE rows[j] # None
    <3>1. row \in RecordFor(j)
      BY <2>1, <2>2, <2>5, RecordsStay
    <3>2. row # None
      BY <3>1, OperationsAssumption DEF RecordFor
    <3>. HIDE DEF row
    <3>3. TablesOK'
      BY <2>1, <2>2, <2>3, <3>1, <3>2, CommitKeepsTables DEF PartsInv
    <3>4. PICK how \in {"done", "threw"} : Ends(p, how)
      BY <1>3 DEF UpdateState
    <3>. QED
      BY <2>3, <3>3, <3>4, LastStep DEF Free
  <2>. QED
    BY <2>4, <2>5
<1>4. CASE remove(p)
  <2>1. PICK k \in Known : Begins(p, "delete", [NoCall EXCEPT !.kind = "remove", !.job = k])
    BY <1>4 DEF remove
  <2>. DEFINE d == [NoCall EXCEPT !.kind = "remove", !.job = k]
  <2>2. d.kind = "remove" /\ d.job \in JobId
    BY OperationsAssumption DEF NoCall
  <2>. HIDE DEF d
  <2>3. PreparedFor("delete", d, pending[p])
    <3>1. pending[p] = None
      BY <2>1, NoTransaction DEF Begins, Holding
    <3>. QED
      BY <2>2, <3>1 DEF PreparedFor, Upserting, Holding, Reading
  <2>. QED
    BY <2>1, <2>3, QuietStep DEF Begins, Goto, d
<1>5. CASE DeleteRow(p)
  <2>1. j \in JobId
    BY <1>1, <1>5 DEF PreparedFor, DeleteRow
  <2>2. Commit(p, j, None, {}, {}) /\ Ends(p, "done") /\ UNCHANGED call
    BY <1>5 DEF DeleteRow
  <2>3. TablesOK'
    BY <2>1, <2>2, CommitKeepsTables DEF PartsInv
  <2>. QED
    BY <2>2, <2>3, LastStep DEF Free
<1>. QED
  BY <1>2, <1>3, <1>4, <1>5

LEMMA PartsInvNext == PartsInv /\ FoundOK /\ [Next]_vars => PartsInv'
<1>. SUFFICES ASSUME PartsInv, FoundOK, [Next]_vars PROVE PartsInv'
  OBVIOUS
<1>1. ASSUME UNCHANGED <<tables, execution>> PROVE PartsInv'
  BY <1>1, TablesUnchanged DEF execution, PartsInv, ExecutionOK
<1>2. CASE UNCHANGED vars
  BY <1>1, <1>2 DEF vars
<1>3. CASE \E p \in Proc : Opening(p) /\ UNCHANGED <<tables, execution, history>>
  BY <1>1, <1>3
<1>4. CASE \E p \in Proc : Operating(p)
  BY <1>4, ReadingKeepsParts, UpsertingKeepsParts, ClaimingKeepsParts, ChangingKeepsParts
  DEF Operating
<1>. QED
  BY <1>2, <1>3, <1>4 DEF Next

-----------------------------------------------------------------------------
(* Parts put to the row of another.                                        *)

\* A step of p leaves the others where they are.
LEMMA OthersStay ==
  ASSUME PartsInv, NEW p \in Proc, Operating(p)
  PROVE  \A q \in Proc \ {p} : at'[q] = at[q] /\ call'[q] = call[q] /\ pending'[q] = pending[q]
<1>1. /\ at = [q \in Proc |-> at[q]] /\ call = [q \in Proc |-> call[q]]
      /\ pending = [q \in Proc |-> pending[q]]
  BY DEF PartsInv, ExecutionOK
<1>2. CASE \/ fetch(p) \/ upsert(p) \/ claim_next_submitted(p) \/ transition(p) \/ remove(p)
           \/ Return(p) \/ Fails(p) \/ Misses(p)
  BY <1>1, <1>2
  DEF fetch, upsert, claim_next_submitted, transition, remove, Return, Fails, Misses, Begins,
      Ends, Goto
<1>3. CASE ReadRows(p) \/ ReadAttachments(p) \/ ReadTags(p)
  BY <1>1, <1>3 DEF ReadRows, ReadAttachments, ReadTags, Ends, Goto
<1>4. CASE UpsertRow(p) \/ InsertOrUpdate(p) \/ ReplaceAttachments(p) \/ ReplaceTags(p)
  BY <1>1, <1>4
  DEF UpsertRow, InsertOrUpdate, ReplaceAttachments, ReplaceTags, Ends, Goto, SetPending
<1>5. CASE SelectBest(p) \/ UpdateClaimed(p)
  BY <1>1, <1>5 DEF SelectBest, UpdateClaimed, Ends, Goto, SetPending
<1>6. CASE commit(p) \/ UpdateState(p) \/ DeleteRow(p)
  BY <1>1, <1>6 DEF commit, UpdateState, DeleteRow, Ends, Goto
<1>. QED
  BY <1>2, <1>3, <1>4, <1>5, <1>6 DEF Operating

\* Only three steps change the tables.
LEMMA TablesFrame ==
  ASSUME NEW p \in Proc, Operating(p), ~commit(p), ~UpdateState(p), ~DeleteRow(p)
  PROVE  UNCHANGED tables
BY DEF Operating, fetch, ReadRows, ReadAttachments, ReadTags, upsert, UpsertRow,
       InsertOrUpdate, ReplaceAttachments, ReplaceTags, claim_next_submitted,
       SelectBest, UpdateClaimed, transition, remove, Return, Fails, Misses,
       Begins, unchangedTables

\* Nobody takes the row away.
LEMMA OthersLeaveRow ==
  ASSUME PartsInv, FoundOK, NEW p \in Proc, Operating(p), NEW q \in Proc \ {p}
  PROVE  PartsFound(q)'
<1>. SUFFICES ASSUME pending[q] # None, pending[q].row = None,
                     pending[q].attachments \notin {None, {}} \/ pending[q].tags \notin {None, {}}
              PROVE  rows'[call[q].job] # None
  BY OthersStay DEF PartsFound
<1>1. rows[call[q].job] # None
  BY DEF FoundOK, PartsFound
<1>2. call[q].job \in JobId
  BY NoTransaction DEF PartsInv, ExecutionOK, PreparedFor
<1>3. CASE commit(p) \/ UpdateState(p)
  <2>1. PICK row, a, t :
          /\ Commit(p, call[p].job, row, a, t)
          /\ row = None => rows[call[p].job] = None
    <3>1. CASE commit(p)
      BY <3>1 DEF commit, Settled
    <3>2. CASE UpdateState(p)
      <4>1. call[p].job \in JobId /\ call[p].transition \in Transitions
        BY <3>2 DEF UpdateState, PartsInv, ExecutionOK, PreparedFor
      <4>2. ASSUME rows[call[p].job] # None
            PROVE  Table!Transitioned(rows[call[p].job], call[p].transition[1],
                                      call[p].transition[2]) # None
        <5>1. /\ rows[call[p].job] \in RecordFor(call[p].job)
              /\ call[p].transition[1] \in JobState /\ call[p].transition[2] \in Messages \cup {None}
          BY <4>1, <4>2, OperationsAssumption DEF PartsInv, TablesOK
        <5>2. Table!Transitioned(rows[call[p].job], call[p].transition[1],
                                 call[p].transition[2]) \in RecordFor(call[p].job)
          BY <4>1, <5>1, RecordsStay
        <5>. QED
          BY <5>2, OperationsAssumption DEF RecordFor
      <4>. QED
        BY <3>2, <4>2 DEF UpdateState
    <3>. QED
      BY <1>3, <3>1, <3>2
  <2>2. rows' = [rows EXCEPT ![call[p].job] = row]
    BY <2>1 DEF Commit
  <2>. QED
    BY <1>1, <1>2, <2>1, <2>2 DEF PartsInv, TablesOK
<1>4. CASE DeleteRow(p)
  <2>1. call[q].job # call[p].job
    BY <1>4 DEF DeleteRow, Others, HasParts, HasAttachments, HasTags
  <2>2. rows' = [rows EXCEPT ![call[p].job] = None]
    BY <1>4 DEF DeleteRow, Commit
  <2>. QED
    BY <1>1, <1>2, <2>1, <2>2 DEF PartsInv, TablesOK
<1>5. CASE ~commit(p) /\ ~UpdateState(p) /\ ~DeleteRow(p)
  BY <1>1, <1>5, TablesFrame DEF tables
<1>. QED
  BY <1>3, <1>4, <1>5

\* Whoever puts parts to a row without its lock finds it.
LEMMA PartsFoundHere ==
  ASSUME PartsInv, FoundOK, NEW p \in Proc, Operating(p)
  PROVE  PartsFound(p)'
<1>0. /\ pending = [q \in Proc |-> pending[q]] /\ PreparedFor(at[p], call[p], pending[p])
      /\ PartsFound(p)
  BY DEF PartsInv, ExecutionOK, FoundOK
<1>1. ASSUME pending'[p] = None \/ (pending'[p].attachments = None /\ pending'[p].tags = None)
      PROVE  PartsFound(p)'
  BY <1>1 DEF PartsFound
<1>2. ASSUME UNCHANGED <<pending, call, rows>> PROVE PartsFound(p)'
  BY <1>0, <1>2 DEF PartsFound
<1>3. CASE \/ fetch(p) \/ upsert(p) \/ claim_next_submitted(p) \/ transition(p) \/ remove(p)
           \/ Return(p) \/ ReadRows(p) \/ ReadAttachments(p)
  <2>1. pending[p] = None
    BY <1>3, NoTransaction
    DEF fetch, upsert, claim_next_submitted, transition, remove, Return, ReadRows,
        ReadAttachments, Begins, Over, Holding
  <2>2. pending' = pending
    BY <1>3
    DEF fetch, upsert, claim_next_submitted, transition, remove, Return, ReadRows,
        ReadAttachments, Begins
  <2>. QED
    BY <1>1, <2>1, <2>2
<1>4. CASE \E place : Ends(p, place)
  BY <1>0, <1>1, <1>4 DEF Ends
<1>5. CASE \E row : SetPending(p, row, None, None)
  BY <1>0, <1>1, <1>5 DEF SetPending
<1>6. CASE UpsertRow(p)
  BY <1>2, <1>5, <1>6 DEF UpsertRow, unchangedTables, tables
<1>7. CASE InsertOrUpdate(p) \/ SelectBest(p) \/ UpdateClaimed(p)
  BY <1>4, <1>5, <1>7 DEF InsertOrUpdate, SelectBest, UpdateClaimed
<1>8. CASE ReadTags(p) \/ Fails(p) \/ Misses(p) \/ commit(p) \/ UpdateState(p) \/ DeleteRow(p)
  BY <1>4, <1>8 DEF ReadTags, Fails, Misses, commit, UpdateState, DeleteRow
<1>9. CASE ReplaceAttachments(p)
  <2>1. CASE Ends(p, "threw")
    BY <1>4, <2>1
  <2>2. CASE /\ WithoutRow(p) /\ call[p].record.attachments # {} => rows[call[p].job] # None
             /\ SetPending(p, pending[p].row,
                           Replaced(p, attachments[call[p].job], call[p].record.attachments),
                           pending[p].tags)
    <3>1. UNCHANGED <<call, rows>> /\ pending[p].tags = None
      BY <1>0, <1>9 DEF ReplaceAttachments, unchangedTables, tables, PreparedFor, Upserting, Unwritten
    <3>2. /\ pending'[p].row = pending[p].row /\ pending'[p].tags = None
          /\ pending'[p].attachments =
               Replaced(p, attachments[call[p].job], call[p].record.attachments)
      BY <1>0, <2>2, <3>1 DEF SetPending
    <3>. QED
      BY <2>2, <3>1, <3>2 DEF PartsFound, Replaced, WithoutRow
  <2>. QED
    BY <1>9, <2>1, <2>2 DEF ReplaceAttachments
<1>10. CASE ReplaceTags(p)
  <2>1. CASE Ends(p, "threw")
    BY <1>4, <2>1
  <2>2. CASE /\ WithoutRow(p) /\ call[p].record.tags # {} => rows[call[p].job] # None
             /\ SetPending(p, pending[p].row, pending[p].attachments,
                           Replaced(p, tags[call[p].job], call[p].record.tags))
    <3>1. UNCHANGED <<call, rows>> /\ pending[p] # None
      BY <1>10, NoTransaction DEF ReplaceTags, unchangedTables, tables, Holding
    <3>2. /\ pending'[p].row = pending[p].row
          /\ pending'[p].attachments = pending[p].attachments
          /\ pending'[p].tags = Replaced(p, tags[call[p].job], call[p].record.tags)
      BY <1>0, <2>2 DEF SetPending
    <3>. QED
      BY <1>0, <2>2, <3>1, <3>2 DEF PartsFound, Replaced, WithoutRow
  <2>. QED
    BY <1>10, <2>1, <2>2 DEF ReplaceTags
<1>. QED
  BY <1>3, <1>6, <1>7, <1>8, <1>9, <1>10 DEF Operating

LEMMA FoundNext == PartsInv /\ FoundOK /\ [Next]_vars => FoundOK'
<1>. SUFFICES ASSUME PartsInv, FoundOK, [Next]_vars PROVE FoundOK'
  OBVIOUS
<1>1. ASSUME UNCHANGED <<tables, execution>> PROVE FoundOK'
  BY <1>1 DEF tables, execution, FoundOK, PartsFound
<1>2. CASE UNCHANGED vars
  BY <1>1, <1>2 DEF vars
<1>3. CASE \E p \in Proc : Opening(p) /\ UNCHANGED <<tables, execution, history>>
  BY <1>1, <1>3
<1>4. ASSUME NEW p \in Proc, Operating(p) PROVE FoundOK'
  BY <1>4, OthersLeaveRow, PartsFoundHere DEF FoundOK
<1>. QED
  BY <1>2, <1>3, <1>4 DEF Next

\* Whoever writes, fails or removes meanwhile, and whosever row an upsert finds:
\* attachments and tags belong to a stored job, and one created again under an
\* old id starts without any.
THEOREM PartsNeverOrphaned == Spec => []NoOrphanParts
<1>1. PartsInv => NoOrphanParts
  BY DEF PartsInv, TablesOK
<1>. QED
  BY <1>1, PartsInvInit, PartsInvNext, FoundNext, PTL DEF Spec

-----------------------------------------------------------------------------
(* The locks of transactions, and what a transaction may rely on.          *)

\* With SQLite one transaction writes at a time; with SQL Server no two write
\* the row of the same job.
LocksOK ==
  \A p, q \in Proc : p # q /\ at[p] \in Holding /\ at[q] \in Holding =>
    /\ engine # "sqlite"
    /\ call[p].job = call[q].job => pending[p].row = None \/ pending[q].row = None

\* Who has not got a job yet has been told nothing of one.
FreshOK ==
  \A p \in Proc : at[p] \in {"idle", "select"} => call[p].job = None /\ ~others[p]

\* What a claim makes of the row it has locked.
RowOfClaim(p) ==
  IF at[p] = "update" THEN rows[call[p].job] ELSE Table!Claimed(rows[call[p].job], "Validating")

\* The job a claim has locked is still as it was found: submitted, and with
\* SQLite the best one; its parts are as they were read, or it has been told.
ClaimStands(p) ==
  LET j == call[p].job IN
  /\ rows[j] # None /\ rows[j].state = "Submitted" /\ rows[j].attempts < MaxAttempts
  /\ pending[p] = [row |-> RowOfClaim(p), attachments |-> None, tags |-> None]
  /\ at[p] = "commit" =>
       \E a, t : /\ records[p] = {Whole(RowOfClaim(p), a, t)}
                 /\ others[p] \/ (a = attachments[j] /\ t = tags[j])
  /\ engine = "sqlite" => ~others[p] /\ IsBest(Visible[j], Table!list({"Submitted"}))

ClaimsOK ==
  \A p \in Proc : at[p] \in {"update", "commit"} /\ call[p].kind = "claim" => ClaimStands(p)

\* An upsert that has looked is still right about its row, or has been told; and
\* what threw was told, or finds no job.
ThrowStands(p) ==
  /\ at[p] \in {"insert", "update_row"} => engine = "sqlserver"
  /\ at[p] = "insert" => rows[call[p].job] = None \/ others[p]
  /\ at[p] = "update_row" => rows[call[p].job] # None \/ others[p]
  /\ at[p] \in {"attachments", "tags", "commit"} /\ WithoutRow(p) =>
       engine = "sqlserver" /\ others[p]
  /\ at[p] = "threw" =>
       /\ engine = "sqlserver"
       /\ call[p].job \in JobId
       /\ \/ call[p].kind = "upsert" /\ others[p]
          \/ call[p].kind = "transition" /\ (rows[call[p].job] = None \/ others[p])

ThrowsOK == \A p \in Proc : ThrowStands(p)

WorkInv ==
  /\ engine \in {"sqlite", "sqlserver"}
  /\ records = [p \in Proc |-> records[p]]
  /\ others = [p \in Proc |-> others[p]]
  /\ LocksOK /\ FreshOK /\ ClaimsOK /\ ThrowsOK

LEMMA WorkInit == Init => WorkInv
<1>. SUFFICES ASSUME Init PROVE WorkInv
  OBVIOUS
<1>1. engine \in {"sqlite", "sqlserver"}
  BY EnginesAssumption DEF Init, SchemaInit
<1>2. \A p \in Proc : at[p] = "idle" /\ call[p].job = None /\ ~others[p]
  BY DEF Init, NoCall
<1>3. /\ records = [p \in Proc |-> records[p]]
      /\ others = [p \in Proc |-> others[p]]
  BY DEF Init
<1>4. LocksOK /\ FreshOK /\ ClaimsOK /\ ThrowsOK
  BY <1>2 DEF LocksOK, FreshOK, ClaimsOK, ThrowsOK, ThrowStands, Holding
<1>. QED
  BY <1>1, <1>3, <1>4 DEF WorkInv

\* A step of p is nobody else's.
LEMMA StepFrame ==
  ASSUME PartsInv, WorkInv, NEW p \in Proc, Operating(p)
  PROVE  /\ engine' = engine
         /\ records' = [q \in Proc |-> records'[q]]
         /\ others' = [q \in Proc |-> others'[q]]
         /\ \A q \in Proc \ {p} : /\ at'[q] = at[q] /\ call'[q] = call[q]
                                  /\ pending'[q] = pending[q] /\ records'[q] = records[q]
<1>1. engine' = engine
  BY OperatingLeavesSchema DEF schemaVars
<1>2. records = [q \in Proc |-> records[q]] /\ others = [q \in Proc |-> others[q]]
  BY DEF WorkInv
<1>3. /\ records' = [q \in Proc |-> records'[q]]
      /\ others' = [q \in Proc |-> others'[q]]
      /\ \A q \in Proc \ {p} : records'[q] = records[q]
  <2>1. CASE \/ fetch(p) \/ upsert(p) \/ claim_next_submitted(p) \/ transition(p) \/ remove(p)
             \/ Return(p) \/ Fails(p) \/ Misses(p)
    BY <1>2, <2>1
    DEF fetch, upsert, claim_next_submitted, transition, remove, Return, Fails, Misses, Begins,
        unchangedTables
  <2>2. CASE ReadRows(p) \/ ReadAttachments(p) \/ ReadTags(p)
    BY <1>2, <2>2 DEF ReadRows, ReadAttachments, ReadTags, unchangedTables
  <2>3. CASE UpsertRow(p) \/ InsertOrUpdate(p) \/ ReplaceAttachments(p) \/ ReplaceTags(p)
    BY <1>2, <2>3
    DEF UpsertRow, InsertOrUpdate, ReplaceAttachments, ReplaceTags, unchangedTables
  <2>4. CASE SelectBest(p) \/ UpdateClaimed(p)
    BY <1>2, <2>4 DEF SelectBest, UpdateClaimed, unchangedTables
  <2>5. CASE commit(p) \/ UpdateState(p) \/ DeleteRow(p)
    BY <1>2, <2>5 DEF commit, UpdateState, DeleteRow, Commit
  <2>. QED
    BY <2>1, <2>2, <2>3, <2>4, <2>5 DEF Operating
<1>. QED
  BY <1>1, <1>3, OthersStay

LEMMA SameTables ==
  ASSUME UNCHANGED tables
  PROVE  Visible' = Visible /\ Table!list({"Submitted"})' = Table!list({"Submitted"})
<1>1. Visible' = Visible
  BY DEF Visible, tables
<1>. QED
  BY <1>1 DEF Table!list, Table!Stored

LEMMA CommitShows ==
  ASSUME PartsInv, NEW p \in Proc, NEW j \in JobId, NEW row, NEW a, NEW t,
         Commit(p, j, row, a, t)
  PROVE  /\ rows'[j] = row /\ attachments'[j] = a /\ tags'[j] = t
         /\ \A k \in JobId \ {j} :
              rows'[k] = rows[k] /\ attachments'[k] = attachments[k] /\ tags'[k] = tags[k]
         /\ Visible' = [Visible EXCEPT ![j] = Whole(row, a, t)]
<1>1. /\ rows'[j] = row /\ attachments'[j] = a /\ tags'[j] = t
      /\ \A k \in JobId \ {j} :
           rows'[k] = rows[k] /\ attachments'[k] = attachments[k] /\ tags'[k] = tags[k]
  BY DEF Commit, PartsInv, TablesOK
<1>2. \A k \in JobId : Visible'[k] = IF k = j THEN Whole(row, a, t) ELSE Visible[k]
  BY <1>1 DEF Visible, Whole
<1>3. Visible' = [Visible EXCEPT ![j] = Whole(row, a, t)]
  BY <1>2 DEF Visible
<1>. QED
  BY <1>1, <1>3

\* What the three write.
LEMMA Writes ==
  ASSUME PartsInv, NEW p \in Proc, commit(p) \/ UpdateState(p) \/ DeleteRow(p)
  PROVE  /\ call[p].job \in JobId /\ call' = call
         /\ \E row, a, t : Commit(p, call[p].job, row, a, t)
<1>1. PreparedFor(at[p], call[p], pending[p])
  BY DEF PartsInv, ExecutionOK
<1>2. call[p].job \in JobId /\ call' = call
  BY <1>1 DEF PreparedFor, commit, UpdateState, DeleteRow, Holding
<1>3. CASE commit(p)
  BY <1>2, <1>3 DEF commit
<1>4. CASE UpdateState(p)
  BY <1>2, <1>4 DEF UpdateState
<1>5. CASE DeleteRow(p)
  BY <1>2, <1>5 DEF DeleteRow
<1>. QED
  BY <1>2, <1>3, <1>4, <1>5

\* Who may write a row is alone with it, with SQLite alone at all.
LEMMA MayWriteApart ==
  ASSUME PartsInv, NEW p \in Proc, NEW j, MayWrite(p, j),
         NEW q \in Proc \ {p}, at[q] \in Holding
  PROVE  engine # "sqlite" /\ (call[q].job = j => pending[q].row = None)
<1>1. pending[q] # None
  BY NoTransaction
<1>. QED
  BY <1>1 DEF MayWrite, LockedByOther, Others, HasRow

LEMMA WritersApart ==
  ASSUME PartsInv, LocksOK, NEW p \in Proc, commit(p) \/ UpdateState(p) \/ DeleteRow(p),
         NEW q \in Proc \ {p}, at[q] \in Holding
  PROVE  /\ engine # "sqlite"
         /\ call[q].job = call[p].job =>
              (commit(p) /\ pending[p].row = None) \/ pending[q].row = None
<1>1. CASE commit(p)
  BY <1>1 DEF commit, LocksOK, Holding
<1>2. CASE UpdateState(p) \/ DeleteRow(p)
  BY <1>2, MayWriteApart DEF UpdateState, DeleteRow
<1>. QED
  BY <1>1, <1>2

-----------------------------------------------------------------------------
(* Locks.                                                                  *)

LEMMA LocksKept ==
  ASSUME PartsInv, WorkInv, NEW p \in Proc, Operating(p)
  PROVE  LocksOK'
<1>. DEFINE Apart ==
       at'[p] \in Holding =>
         \A q \in Proc \ {p} : at[q] \in Holding =>
           /\ engine # "sqlite"
           /\ call'[p].job = call[q].job => pending'[p].row = None \/ pending[q].row = None
<1>0. at = [q \in Proc |-> at[q]] /\ call = [q \in Proc |-> call[q]] /\ LocksOK
  BY DEF PartsInv, ExecutionOK, WorkInv
<1>1. Apart => LocksOK'
  BY <1>0, StepFrame DEF LocksOK
<1>. HIDE DEF Apart
<1>2. CASE \/ fetch(p) \/ ReadRows(p) \/ ReadAttachments(p) \/ ReadTags(p) \/ upsert(p)
           \/ claim_next_submitted(p) \/ transition(p) \/ remove(p) \/ Return(p) \/ Fails(p)
           \/ Misses(p) \/ commit(p) \/ UpdateState(p) \/ DeleteRow(p)
  <2>1. at'[p] \notin Holding
    BY <1>0, <1>2
    DEF fetch, ReadRows, ReadAttachments, ReadTags, upsert, claim_next_submitted, transition,
        remove, Return, Fails, Misses, commit, UpdateState, DeleteRow, Begins, Ends, Goto, Holding
  <2>. QED
    BY <1>1, <2>1 DEF Apart
<1>3. CASE ReplaceAttachments(p) \/ ReplaceTags(p) \/ UpdateClaimed(p)
  <2>0. pending = [q \in Proc |-> pending[q]] /\ PreparedFor(at[p], call[p], pending[p])
    BY DEF PartsInv, ExecutionOK
  <2>1. at[p] \in Holding /\ call' = call
    BY <1>3 DEF ReplaceAttachments, ReplaceTags, UpdateClaimed, Holding
  <2>2. at'[p] \in Holding /\ pending[p].row = None => pending'[p].row = None
    <3>1. CASE ReplaceAttachments(p) \/ ReplaceTags(p)
      BY <1>0, <2>0, <3>1
      DEF ReplaceAttachments, ReplaceTags, SetPending, Ends, Goto, Holding
    <3>2. CASE UpdateClaimed(p)
      BY <2>0, <3>2 DEF UpdateClaimed, PreparedFor
    <3>. QED
      BY <1>3, <3>1, <3>2
  <2>. QED
    BY <1>0, <1>1, <2>1, <2>2 DEF Apart, LocksOK
<1>4. CASE UpsertRow(p) \/ InsertOrUpdate(p)
  <2>1. MayWrite(p, call[p].job) /\ call' = call
    BY <1>4 DEF UpsertRow, InsertOrUpdate
  <2>. QED
    BY <1>1, <2>1, MayWriteApart DEF Apart
<1>5. CASE SelectBest(p)
  <2>1. CASE Ends(p, "done")
    <3>1. at'[p] = "done"
      BY <1>0, <2>1 DEF Ends, Goto
    <3>. QED
      BY <1>1, <3>1 DEF Apart, Holding
  <2>2. CASE \E r \in Table!list({"Submitted"}) :
               /\ engine = "sqlite" \/ ~LockedByOther(p, r.id)
               /\ call' = [call EXCEPT ![p].job = r.id]
    <3>1. PICK r \in Table!list({"Submitted"}) :
               /\ engine = "sqlite" \/ ~LockedByOther(p, r.id)
               /\ call' = [call EXCEPT ![p].job = r.id]
      BY <2>2
    <3>2. PreparedFor(at[p], call[p], pending[p]) /\ at[p] = "select"
      BY <1>5 DEF SelectBest, PartsInv, ExecutionOK
    <3>3. call'[p].job = r.id
      <4>1. call[p] = [NoCall EXCEPT !.kind = "claim"]
        BY <3>2 DEF PreparedFor
      <4>. QED
        BY <1>0, <3>1, <4>1 DEF NoCall
    <3>4. CASE engine = "sqlite"
      <4>1. MayWrite(p, None)
        BY <1>5, <3>4 DEF SelectBest
      <4>. QED
        BY <1>1, <3>4, <4>1, MayWriteApart DEF Apart
    <3>5. CASE engine # "sqlite"
      <4>1. MayWrite(p, r.id)
        BY <3>1, <3>5 DEF MayWrite
      <4>. QED
        BY <1>1, <3>3, <4>1, MayWriteApart DEF Apart
    <3>. QED
      BY <3>4, <3>5
  <2>. QED
    BY <1>5, <2>1, <2>2 DEF SelectBest
<1>. QED
  BY <1>2, <1>3, <1>4, <1>5 DEF Operating

-----------------------------------------------------------------------------
(* Claims.                                                                 *)

\* Nobody is told anything but by a commit.
LEMMA OthersUntold ==
  ASSUME WorkInv, NEW p \in Proc, Operating(p), ~commit(p), ~UpdateState(p), ~DeleteRow(p),
         NEW q \in Proc \ {p}
  PROVE  others'[q] = others[q]
BY DEF Operating, fetch, ReadRows, ReadAttachments, ReadTags, upsert, UpsertRow,
       InsertOrUpdate, ReplaceAttachments, ReplaceTags, claim_next_submitted, SelectBest,
       UpdateClaimed, transition, remove, Return, Fails, Misses, Begins, unchangedTables, WorkInv

LEMMA FreshKept ==
  ASSUME PartsInv, WorkInv, NEW p \in Proc, Operating(p)
  PROVE  FreshOK'
<1>1. SUFFICES ASSUME NEW q \in Proc, at'[q] \in {"idle", "select"}
               PROVE  call'[q].job = None /\ ~others'[q]
  BY DEF FreshOK
<1>2. CASE q # p
  <2>1. at[q] \in {"idle", "select"} /\ call'[q] = call[q]
    BY <1>1, <1>2, StepFrame
  <2>2. call[q].job = None /\ ~others[q]
    BY <2>1 DEF WorkInv, FreshOK
  <2>3. CASE commit(p) \/ UpdateState(p) \/ DeleteRow(p)
    <3>1. PICK row, a, t : call[p].job \in JobId /\ Commit(p, call[p].job, row, a, t)
      BY <2>3, Writes
    <3>2. call[q].job # call[p].job
      BY <2>2, <3>1, RecordAssumption
    <3>. QED
      BY <2>1, <2>2, <3>1, <3>2 DEF Commit
  <2>4. CASE ~commit(p) /\ ~UpdateState(p) /\ ~DeleteRow(p)
    BY <1>2, <2>1, <2>2, <2>4, OthersUntold
  <2>. QED
    BY <2>3, <2>4
<1>3. CASE q = p
  <2>0. /\ at = [r \in Proc |-> at[r]] /\ call = [r \in Proc |-> call[r]]
        /\ others = [r \in Proc |-> others[r]]
    BY DEF PartsInv, ExecutionOK, WorkInv
  <2>1. claim_next_submitted(p) \/ Return(p)
    BY <1>1, <1>3, <2>0
    DEF Operating, fetch, ReadRows, ReadAttachments, ReadTags, upsert, UpsertRow,
        InsertOrUpdate, ReplaceAttachments, ReplaceTags, commit, SelectBest, UpdateClaimed,
        transition, UpdateState, remove, DeleteRow, Fails, Misses, Begins, Ends, Goto
  <2>2. CASE claim_next_submitted(p)
    <3>1. at[p] = "idle" /\ call'[p] = [NoCall EXCEPT !.kind = "claim"] /\ others' = others
      BY <2>0, <2>2 DEF claim_next_submitted, Begins
    <3>. QED
      BY <1>3, <3>1 DEF WorkInv, FreshOK, NoCall
  <2>3. CASE Return(p)
    BY <1>3, <2>0, <2>3 DEF Return, NoCall
  <2>. QED
    BY <2>1, <2>2, <2>3
<1>. QED
  BY <1>2, <1>3

\* What others do leaves a claim as it is, but for the parts of its job ...
LEMMA ClaimKept ==
  ASSUME PartsInv, NEW q \in Proc, ClaimStands(q), call[q].job \in JobId, engine' = engine,
         at'[q] = at[q], call'[q] = call[q], pending'[q] = pending[q], records'[q] = records[q],
         others[q] => others'[q],
         rows'[call[q].job] = rows[call[q].job],
         \/ others'[q]
         \/ /\ attachments'[call[q].job] = attachments[call[q].job]
            /\ tags'[call[q].job] = tags[call[q].job],
         engine = "sqlite" => UNCHANGED tables /\ (others'[q] => others[q])
  PROVE  ClaimStands(q)'
<1>1. engine' = "sqlite" =>
        ~others'[q] /\ IsBest(Visible'[call'[q].job], Table!list({"Submitted"})')
  BY SameTables DEF ClaimStands
<1>. PICK j : j = call[q].job
  OBVIOUS
<1>. PICK row : row = RowOfClaim(q)
  OBVIOUS
<1>2. /\ rows[j] # None /\ rows[j].state = "Submitted" /\ rows[j].attempts < MaxAttempts
      /\ pending[q] = [row |-> row, attachments |-> None, tags |-> None]
      /\ at[q] = "commit" =>
           \E a, t : /\ records[q] = {Whole(row, a, t)}
                     /\ others[q] \/ (a = attachments[j] /\ t = tags[j])
  BY DEF ClaimStands
<1>3. at'[q] = "commit" =>
        \E a, t : /\ records'[q] = {Whole(row, a, t)}
                  /\ others'[q] \/ (a = attachments'[j] /\ t = tags'[j])
  BY <1>2
<1>4. RowOfClaim(q)' = row
  BY DEF RowOfClaim, Table!Claimed
<1>5. \A a, t : Whole(RowOfClaim(q), a, t)' = Whole(row, a, t)
  BY <1>4 DEF Whole
<1>6. call'[q].job = j
  OBVIOUS
<1>7. /\ rows'[j] # None /\ rows'[j].state = "Submitted" /\ rows'[j].attempts < MaxAttempts
      /\ pending'[q] = [row |-> row, attachments |-> None, tags |-> None]
  BY <1>2
<1>8. engine' = "sqlite" => ~others'[q] /\ IsBest(Visible'[j], Table!list({"Submitted"})')
  BY <1>1, <1>6
<1>. QED
  BY <1>3, <1>4, <1>5, <1>6, <1>7, <1>8 DEF ClaimStands

\* ... and a claim that finds a job finds it as it says.
LEMMA SelectStands ==
  ASSUME PartsInv, WorkInv, NEW p \in Proc, SelectBest(p), at'[p] = "update"
  PROVE  ClaimStands(p)'
<1>0. /\ at = [q \in Proc |-> at[q]] /\ call = [q \in Proc |-> call[q]]
      /\ pending = [q \in Proc |-> pending[q]]
  BY DEF PartsInv, ExecutionOK
<1>. DEFINE free == {r \in Table!list({"Submitted"}) : engine = "sqlite" \/ ~LockedByOther(p, r.id)}
<1>1. ~Ends(p, "done")
  BY <1>0 DEF Ends, Goto
<1>2. PICK r \in free :
        /\ IsBest(r, free)
        /\ call' = [call EXCEPT ![p].job = r.id]
        /\ SetPending(p, rows[r.id], None, None)
  BY <1>1 DEF SelectBest
<1>3. r.attempts < MaxAttempts /\ UNCHANGED <<tables, others>> /\ engine' = engine
  BY <1>2 DEF SelectBest, unchangedTables, schemaVars, tables
<1>4. PICK k \in JobId : r = Visible[k] /\ Visible[k] # None /\ r.state = "Submitted"
  BY <1>2 DEF Table!list, Table!Stored
<1>5. rows[k] \in RecordFor(k) /\ r = [rows[k] EXCEPT !.attachments = attachments[k],
                                                       !.tags = tags[k]]
  BY <1>4 DEF Visible, Whole, PartsInv, TablesOK
<1>6. /\ r.id = k
      /\ r.state = rows[k].state /\ r.attempts = rows[k].attempts /\ rows[k] # None
  BY <1>5, OperationsAssumption DEF RecordFor, JobRecord
<1>7. call'[p].job = k
  <2>1. call[p] = [NoCall EXCEPT !.kind = "claim"]
    BY DEF PreparedFor, SelectBest, PartsInv, ExecutionOK
  <2>. QED
    BY <1>0, <1>2, <1>6, <2>1 DEF NoCall
<1>8. pending'[p] = [row |-> rows[k], attachments |-> None, tags |-> None]
  BY <1>0, <1>2, <1>6 DEF SetPending
<1>9. engine = "sqlite" => free = Table!list({"Submitted"})
  OBVIOUS
<1>10. engine' = "sqlite" => IsBest(Visible'[k], Table!list({"Submitted"})')
  BY <1>2, <1>3, <1>4, <1>9, SameTables
<1>11. ~others'[p]
  BY <1>3 DEF SelectBest, WorkInv, FreshOK
<1>12. rows' = rows
  BY <1>3 DEF tables
<1>13. RowOfClaim(p)' = rows[k]
  BY <1>7, <1>12 DEF RowOfClaim
<1>14. rows[k] # None /\ rows[k].state = "Submitted" /\ rows[k].attempts < MaxAttempts
  BY <1>3, <1>4, <1>6
<1>. QED
  BY <1>7, <1>8, <1>10, <1>11, <1>12, <1>13, <1>14 DEF ClaimStands

LEMMA UpdateStands ==
  ASSUME PartsInv, WorkInv, NEW p \in Proc, UpdateClaimed(p)
  PROVE  at'[p] = "commit" /\ ClaimStands(p)'
<1>0. /\ at = [q \in Proc |-> at[q]] /\ call = [q \in Proc |-> call[q]]
      /\ pending = [q \in Proc |-> pending[q]] /\ records = [q \in Proc |-> records[q]]
  BY DEF PartsInv, ExecutionOK, WorkInv
<1>1. at[p] = "update" /\ call[p].kind = "claim" /\ call[p].job \in JobId
  BY DEF PreparedFor, UpdateClaimed, PartsInv, ExecutionOK, Holding
<1>2. ClaimStands(p) /\ RowOfClaim(p) = rows[call[p].job]
  BY <1>1 DEF WorkInv, ClaimsOK, RowOfClaim
<1> PICK j \in JobId : j = call[p].job
  BY <1>1
<1>3. /\ rows[j] # None /\ rows[j].state = "Submitted" /\ rows[j].attempts < MaxAttempts
      /\ pending[p] = [row |-> rows[j], attachments |-> None, tags |-> None]
      /\ engine = "sqlite" => ~others[p] /\ IsBest(Visible[j], Table!list({"Submitted"}))
  BY <1>1, <1>2 DEF ClaimStands
<1> PICK row : row = Table!Claimed(rows[j], "Validating")
  OBVIOUS
<1>4. /\ Goto(p, "commit")
      /\ SetPending(p, row, None, None)
      /\ records' = [records EXCEPT ![p] = {Whole(row, attachments[j], tags[j])}]
      /\ UNCHANGED <<tables, others>> /\ call' = call /\ engine' = engine
  BY <1>3 DEF UpdateClaimed, unchangedTables, tables, schemaVars
<1>5. /\ at'[p] = "commit" /\ call'[p].job = j
      /\ pending'[p] = [row |-> row, attachments |-> None, tags |-> None]
      /\ records'[p] = {Whole(row, attachments[j], tags[j])}
  BY <1>0, <1>4 DEF Goto, SetPending
<1>6. engine' = "sqlite" => ~others'[p] /\ IsBest(Visible'[j], Table!list({"Submitted"})')
  BY <1>3, <1>4, SameTables
<1>7. rows' = rows /\ attachments' = attachments /\ tags' = tags
  BY <1>4 DEF tables
<1>8. RowOfClaim(p)' = row
  BY <1>5, <1>7 DEF RowOfClaim, Table!Claimed
<1>9. \A a, t : Whole(RowOfClaim(p), a, t)' = Whole(row, a, t)
  BY <1>8 DEF Whole
<1>. QED
  BY <1>3, <1>5, <1>6, <1>7, <1>8, <1>9 DEF ClaimStands

LEMMA ClaimsKept ==
  ASSUME PartsInv, WorkInv, NEW p \in Proc, Operating(p)
  PROVE  ClaimsOK'
<1>1. SUFFICES ASSUME NEW q \in Proc, at'[q] \in {"update", "commit"}, call'[q].kind = "claim"
               PROVE  ClaimStands(q)'
  BY DEF ClaimsOK
<1>2. CASE q # p
  <2>1. /\ at'[q] = at[q] /\ call'[q] = call[q] /\ pending'[q] = pending[q]
        /\ records'[q] = records[q] /\ engine' = engine
    BY <1>2, StepFrame
  <2>2. at[q] \in Holding /\ call[q].job \in JobId /\ ClaimStands(q)
    BY <1>1, <2>1 DEF WorkInv, ClaimsOK, PartsInv, ExecutionOK, PreparedFor, Holding
  <2>3. CASE commit(p) \/ UpdateState(p) \/ DeleteRow(p)
    <3>1. /\ engine # "sqlite" /\ call[p].job \in JobId
          /\ call[q].job = call[p].job => commit(p) /\ pending[p].row = None
      <4>1. pending[q].row # None
        BY <1>1, <2>1 DEF PartsInv, ExecutionOK, PreparedFor
      <4>. QED
        BY <1>2, <2>2, <2>3, <4>1, WritersApart, Writes DEF WorkInv
    <3>2. PICK row, a, t :
            /\ Commit(p, call[p].job, row, a, t)
            /\ commit(p) /\ pending[p].row = None => row = rows[call[p].job]
      <4>1. CASE commit(p) /\ pending[p].row = None
        BY <4>1 DEF commit, Settled
      <4>2. CASE ~(commit(p) /\ pending[p].row = None)
        BY <2>3, <4>2, Writes
      <4>. QED
        BY <4>1, <4>2
    <3>3. /\ rows'[call[q].job] = rows[call[q].job]
          /\ call[q].job # call[p].job =>
               /\ attachments'[call[q].job] = attachments[call[q].job]
               /\ tags'[call[q].job] = tags[call[q].job]
          /\ call[q].job = call[p].job =>
               attachments'[call[q].job] = a /\ tags'[call[q].job] = t
      BY <2>2, <3>1, <3>2, CommitShows
    <3>4. /\ others[q] => others'[q]
          /\ call[q].job = call[p].job =>
               \/ others'[q]
               \/ a = attachments[call[q].job] /\ t = tags[call[q].job]
      BY <1>1, <1>2, <2>1, <3>2 DEF Commit
    <3>. QED
      BY <2>1, <2>2, <3>1, <3>3, <3>4, ClaimKept
  <2>4. CASE ~commit(p) /\ ~UpdateState(p) /\ ~DeleteRow(p)
    <3>1. UNCHANGED tables /\ rows' = rows /\ attachments' = attachments /\ tags' = tags
      BY <2>4, TablesFrame DEF tables
    <3>2. others'[q] = others[q]
      BY <1>2, <2>4, OthersUntold
    <3>. QED
      BY <2>1, <2>2, <3>1, <3>2, ClaimKept
  <2>. QED
    BY <2>3, <2>4
<1>3. CASE q = p
  <2>0. /\ at = [r \in Proc |-> at[r]] /\ call = [r \in Proc |-> call[r]]
        /\ PreparedFor(at[p], call[p], pending[p])
    BY DEF PartsInv, ExecutionOK
  <2>1. SelectBest(p) \/ UpdateClaimed(p) \/ ReplaceTags(p)
    BY <1>1, <1>3, <2>0
    DEF Operating, fetch, ReadRows, ReadAttachments, ReadTags, upsert, UpsertRow,
        InsertOrUpdate, ReplaceAttachments, commit, claim_next_submitted, transition,
        UpdateState, remove, DeleteRow, Return, Fails, Misses, Begins, Ends, Goto
  <2>2. CASE SelectBest(p)
    <3>1. at'[p] = "update"
      BY <1>1, <1>3, <2>0, <2>2 DEF SelectBest, Ends, Goto
    <3>. QED
      BY <1>3, <2>2, <3>1, SelectStands
  <2>3. CASE UpdateClaimed(p)
    BY <1>3, <2>3, UpdateStands
  <2>4. CASE ReplaceTags(p)
    <3>1. call[p].kind = "upsert" /\ call' = call
      BY <2>0, <2>4 DEF ReplaceTags, PreparedFor, Upserting
    <3>. QED
      BY <1>1, <1>3, <3>1
  <2>. QED
    BY <2>1, <2>2, <2>3, <2>4
<1>. QED
  BY <1>2, <1>3

-----------------------------------------------------------------------------
(* Exceptions.                                                             *)

\* Whoever waits for its statement is told when its job comes or goes.
LEMMA OthersTold ==
  ASSUME PartsInv, WorkInv, NEW p \in Proc, Operating(p), NEW q \in Proc \ {p},
         call[q].job \in JobId, call[q].kind \in {"upsert", "transition"}
  PROVE  /\ others[q] => others'[q]
         /\ others'[q] \/ (rows'[call[q].job] = None <=> rows[call[q].job] = None)
<1>1. CASE commit(p) \/ UpdateState(p) \/ DeleteRow(p)
  <2>1. call[p].job \in JobId
    BY <1>1, Writes
  <2>2. PICK row, a, t : Commit(p, call[p].job, row, a, t)
    BY <1>1, Writes
  <2>3. /\ others[q] => others'[q]
        /\ call[q].job = call[p].job /\ (row = None <=> rows[call[p].job] # None) => others'[q]
    BY <2>2 DEF Commit
  <2>. QED
    BY <2>1, <2>2, <2>3, CommitShows
<1>2. CASE ~commit(p) /\ ~UpdateState(p) /\ ~DeleteRow(p)
  <2>1. others'[q] = others[q]
    BY <1>2, OthersUntold
  <2>2. rows' = rows
    BY <1>2, TablesFrame DEF tables
  <2>. QED
    BY <2>1, <2>2
<1>. QED
  BY <1>1, <1>2

LEMMA ThrowsKept ==
  ASSUME PartsInv, WorkInv, NEW p \in Proc, Operating(p)
  PROVE  ThrowsOK'
<1>1. SUFFICES ASSUME NEW q \in Proc PROVE ThrowStands(q)'
  BY DEF ThrowsOK
<1>2. ThrowStands(q) /\ PreparedFor(at[q], call[q], pending[q])
  BY DEF WorkInv, ThrowsOK, PartsInv, ExecutionOK
<1>3. CASE q # p
  <2>1. at'[q] = at[q] /\ call'[q] = call[q] /\ pending'[q] = pending[q] /\ engine' = engine
    BY <1>3, StepFrame
  <2>2. CASE at[q] \in {"insert", "update_row", "threw"}
    <3>1. call[q].job \in JobId /\ call[q].kind \in {"upsert", "transition"}
      BY <1>2, <2>2 DEF PreparedFor, Upserting, ThrowStands
    <3>. QED
      BY <1>2, <1>3, <2>1, <2>2, <3>1, OthersTold DEF ThrowStands
  <2>3. CASE at[q] \in {"attachments", "tags", "commit"} /\ WithoutRow(q)
    <3>1. call[q].job \in JobId /\ call[q].kind = "upsert"
      BY <1>2, <2>3 DEF PreparedFor, Upserting, WithoutRow
    <3>. QED
      BY <1>2, <1>3, <2>1, <2>3, <3>1, OthersTold DEF ThrowStands, WithoutRow
  <2>4. CASE /\ at[q] \notin {"insert", "update_row", "threw"}
             /\ ~(at[q] \in {"attachments", "tags", "commit"} /\ WithoutRow(q))
    BY <2>1, <2>4 DEF ThrowStands, WithoutRow
  <2>. QED
    BY <2>2, <2>3, <2>4
<1>4. CASE q = p
  <2>0. /\ at = [r \in Proc |-> at[r]] /\ pending = [r \in Proc |-> pending[r]]
        /\ engine' = engine /\ engine \in {"sqlite", "sqlserver"}
        /\ others = [r \in Proc |-> others[r]]
    BY StepFrame DEF PartsInv, ExecutionOK, WorkInv
  <2>1. CASE at'[p] \notin {"insert", "update_row", "threw", "attachments", "tags", "commit"}
    BY <1>4, <2>1 DEF ThrowStands
  <2>2. CASE UpsertRow(p)
    <3>1. at[p] = "exists" /\ UNCHANGED <<rows, others, call>>
      BY <2>2 DEF UpsertRow, unchangedTables, tables
    <3>2. CASE engine = "sqlite"
      <4>1. call[p].record \in RecordFor(call[p].job) /\ call[p].job \in JobId
        BY <1>2, <1>4, <3>1 DEF PreparedFor, Upserting
      <4>2. Bare(call[p].record) # None
        BY <4>1, Written
      <4>3. at'[p] = "attachments" /\ pending'[p].row = Bare(call[p].record)
        BY <2>0, <2>2, <3>2 DEF UpsertRow, Goto, SetPending
      <4>. QED
        BY <1>4, <4>2, <4>3 DEF ThrowStands, WithoutRow
    <3>3. CASE engine # "sqlite"
      BY <1>4, <2>0, <2>2, <3>1, <3>3 DEF UpsertRow, Goto, ThrowStands
    <3>. QED
      BY <3>2, <3>3
  <2>3. CASE InsertOrUpdate(p)
    <3>1. call[p].kind = "upsert" /\ call[p].job \in JobId /\ call[p].record \in RecordFor(call[p].job)
      BY <1>2, <1>4, <2>3 DEF InsertOrUpdate, PreparedFor, Upserting
    <3>2. engine = "sqlserver" /\ UNCHANGED <<rows, others, call>>
      BY <1>2, <1>4, <2>3 DEF InsertOrUpdate, ThrowStands, unchangedTables, tables
    <3>3. CASE Ends(p, "threw") /\ at[p] = "insert" /\ rows[call[p].job] # None
      BY <1>2, <1>4, <2>0, <3>1, <3>2, <3>3 DEF Goto, Ends, ThrowStands
    <3>4. CASE /\ Goto(p, "attachments")
               /\ SetPending(p, IF at[p] = "update_row" /\ rows[call[p].job] = None THEN None
                                ELSE Bare(call[p].record), None, None)
      <4>1. Bare(call[p].record) # None
        BY <3>1, Written
      <4>2. at'[p] = "attachments"
        BY <2>0, <3>4 DEF Goto
      <4>3. pending'[p].row = IF at[p] = "update_row" /\ rows[call[p].job] = None THEN None
                              ELSE Bare(call[p].record)
        BY <2>0, <3>4 DEF SetPending
      <4>4. pending'[p].row = None => others[p]
        BY <1>2, <1>4, <4>1, <4>3 DEF ThrowStands
      <4>. QED
        BY <1>4, <2>0, <3>2, <4>2, <4>4 DEF ThrowStands, WithoutRow
    <3>. QED
      BY <2>3, <3>3, <3>4 DEF InsertOrUpdate
  <2>4. CASE UpdateClaimed(p)
    <3>1. at'[p] = "commit" /\ ClaimStands(p)'
      BY <2>4, UpdateStands
    <3>2. pending'[p].row # None
      <4>1. call[p].job \in JobId /\ pending[p].row \in RecordFor(call[p].job)
        BY <1>2, <1>4, <2>4 DEF UpdateClaimed, PreparedFor, Holding, TransactionFor
      <4>2. Goto(p, "commit") => SetPending(p, Table!Claimed(pending[p].row, "Validating"), None, None)
        BY <2>0, <2>4 DEF UpdateClaimed, Ends, Goto
      <4>3. Goto(p, "commit")
        BY <2>0, <2>4, <3>1 DEF UpdateClaimed, Ends, Goto
      <4>4. pending'[p].row = Table!Claimed(pending[p].row, "Validating")
        BY <2>0, <4>2, <4>3 DEF SetPending
      <4>. QED
        BY <4>1, <4>4, Written
    <3>. QED
      BY <1>4, <3>1, <3>2 DEF ThrowStands, WithoutRow
  <2>5. CASE UpdateState(p)
    <3>1. call[p].kind = "transition" /\ call[p].job \in JobId /\ call' = call
      BY <1>2, <1>4, <2>5 DEF UpdateState, PreparedFor
    <3>2. CASE rows[call[p].job] = None
      <4>1. rows'[call[p].job] = None
        BY <2>5, <3>1, <3>2, CommitShows DEF UpdateState
      <4>. QED
        BY <1>4, <2>0, <2>5, <3>1, <3>2, <4>1 DEF UpdateState, Ends, Goto, ThrowStands
    <3>3. CASE rows[call[p].job] # None
      BY <2>0, <2>1, <2>5, <3>3 DEF UpdateState, Ends, Goto
    <3>. QED
      BY <3>2, <3>3
  <2>6. CASE ReplaceAttachments(p) \/ ReplaceTags(p)
    <3>1. /\ call[p].kind = "upsert" /\ call[p].job \in JobId
          /\ at[p] \in {"attachments", "tags"} /\ UNCHANGED <<rows, others, call>>
      BY <1>2, <1>4, <2>6
      DEF ReplaceAttachments, ReplaceTags, PreparedFor, Upserting, unchangedTables, tables
    <3>2. WithoutRow(p) => engine = "sqlserver" /\ others[p]
      BY <1>2, <1>4, <3>1 DEF ThrowStands
    <3>3. CASE Ends(p, "threw") /\ WithoutRow(p)
      BY <1>4, <2>0, <3>1, <3>2, <3>3 DEF Ends, Goto, ThrowStands
    <3>4. CASE \E place \in {"tags", "commit"} : \E a, t :
                 Goto(p, place) /\ SetPending(p, pending[p].row, a, t)
      <4>1. at'[p] \in {"tags", "commit"} /\ pending'[p].row = pending[p].row
        BY <2>0, <3>4 DEF Goto, SetPending
      <4>. QED
        BY <1>4, <2>0, <3>1, <3>2, <4>1 DEF ThrowStands, WithoutRow
    <3>. QED
      BY <2>6, <3>3, <3>4 DEF ReplaceAttachments, ReplaceTags, InsertThrows
  <2>7. at'[p] \in {"insert", "update_row", "threw", "attachments", "tags", "commit"} =>
          \/ UpsertRow(p) \/ InsertOrUpdate(p) \/ UpdateClaimed(p) \/ UpdateState(p)
          \/ ReplaceAttachments(p) \/ ReplaceTags(p)
    <3>1. fetch(p) \/ upsert(p) \/ claim_next_submitted(p) \/ transition(p) \/ remove(p) =>
            at'[p] \in {"rows", "exists", "select", "transition", "delete"}
      BY <2>0 DEF fetch, upsert, claim_next_submitted, transition, remove, Begins, Goto
    <3>2. ReadRows(p) \/ ReadAttachments(p) \/ ReadTags(p) =>
            at'[p] \in {"read_attachments", "read_tags", "done"}
      BY <2>0 DEF ReadRows, ReadAttachments, ReadTags, Ends, Goto
    <3>3. commit(p) \/ SelectBest(p) \/ DeleteRow(p) => at'[p] \in {"done", "update"}
      BY <2>0 DEF commit, SelectBest, DeleteRow, Ends, Goto
    <3>4. Return(p) \/ Fails(p) \/ Misses(p) => at'[p] \in {"idle", "failed", "missed"}
      BY <2>0 DEF Return, Fails, Misses, Ends, Goto
    <3>. QED
      BY <3>1, <3>2, <3>3, <3>4 DEF Operating
  <2>. QED
    BY <2>1, <2>2, <2>3, <2>4, <2>5, <2>6, <2>7
<1>. QED
  BY <1>3, <1>4

LEMMA WorkNext == PartsInv /\ WorkInv /\ [Next]_vars => WorkInv'
<1>. SUFFICES ASSUME PartsInv, WorkInv, [Next]_vars PROVE WorkInv'
  OBVIOUS
<1>1. ASSUME UNCHANGED <<engine, tables, execution, history>> PROVE WorkInv'
  <2>1. /\ UNCHANGED <<engine, at, call, pending, records, others, rows, attachments, tags>>
        /\ Visible' = Visible /\ Table!list({"Submitted"})' = Table!list({"Submitted"})
    BY <1>1, SameTables DEF tables, execution, history
  <2>2. LocksOK' /\ FreshOK' /\ ThrowsOK'
    BY <2>1 DEF WorkInv, LocksOK, FreshOK, ThrowsOK, ThrowStands, WithoutRow
  <2>3. ASSUME NEW q \in Proc, ClaimStands(q), call[q].job \in JobId PROVE ClaimStands(q)'
    BY <1>1, <2>1, <2>3, ClaimKept
  <2>4. \A q \in Proc : at[q] \in {"update", "commit"} => call[q].job \in JobId
    BY DEF PartsInv, ExecutionOK, PreparedFor, Holding
  <2>5. ClaimsOK'
    BY <2>1, <2>3, <2>4 DEF WorkInv, ClaimsOK
  <2>. QED
    BY <2>1, <2>2, <2>5 DEF WorkInv
<1>2. CASE UNCHANGED vars
  BY <1>1, <1>2 DEF vars, schemaVars
<1>3. CASE \E p \in Proc : Opening(p) /\ UNCHANGED <<tables, execution, history>>
  BY <1>1, <1>3
  DEF Opening, open, CreateVersionTable, InsertVersion, read_schema_version, Migrate,
      OpenerFails
<1>4. CASE \E p \in Proc : Operating(p)
  BY <1>4, StepFrame, LocksKept, FreshKept, ClaimsKept, ThrowsKept DEF WorkInv
<1>. QED
  BY <1>2, <1>3, <1>4 DEF Next

\* A claim never throws, and SQLite does not for what others do; with SQL Server
\* a transition does whose job is gone, and an upsert whose job came or went
\* between its look and its write.
THEOREM ThrowsHaveReasons == Spec => []ThrowsExplained
<1>1. WorkInv => ThrowsExplained
  BY DEF WorkInv, ThrowsOK, ThrowStands, ThrowsExplained
<1>. QED
  BY <1>1, PartsInvInit, PartsInvNext, FoundNext, WorkInit, WorkNext, PTL DEF Spec

-----------------------------------------------------------------------------
(* The operations take effect at once.                                     *)

\* What the step of p that ends its operation and changes the tables does.
Effect(p) ==
  LET c == call[p] IN
  /\ at[p] # "done" /\ at'[p] = "done"
  /\ CASE c.kind = "upsert" -> Table!Upsert(c.record) \/ PartsOnly(p)
       [] c.kind = "transition" ->
            Table!Transition(c.job, c.transition[1], c.transition[2])
       [] c.kind = "remove" -> Table!Remove(c.job)
       [] c.kind = "claim" ->
            /\ IF others[p] THEN {Bare(r) : r \in records[p]} = {Bare(Visible'[c.job])}
               ELSE records[p] = {Visible'[c.job]}
            /\ \E r \in Table!list({"Submitted"}) :
                 /\ Visible' = [Visible EXCEPT ![r.id] = Table!Claimed(r, "Validating")]
                 /\ engine = "sqlite" => ~others[p] /\ Table!Claim(r, "Validating")
       [] c.kind = "read" -> FALSE

\* The table sees the same order of candidates.
LEMMA TableOrder ==
  ASSUME NEW r, NEW S
  PROVE  Table!IsBest(r, S) <=> IsBest(r, S)
BY DEF Table!IsBest, IsBest, Table!better_candidate, better_candidate,
   Table!due_precedes, due_precedes

\* A row and its parts make up the record they were taken from.
LEMMA WholeAgain ==
  ASSUME NEW r \in JobRecord
  PROVE  Whole(Bare(r), r.attachments, r.tags) = r
<1>1. Bare(r) # None
  <2>1. Bare(r) \in JobRecord
    BY DEF Bare, JobRecord
  <2>. QED
    BY <2>1, OperationsAssumption
<1>. QED
  BY <1>1 DEF Bare, Whole, JobRecord

\* What a commit writes of the parts.
LEMMA PartsSettle ==
  ASSUME NEW a \in SUBSET Attachments, NEW t \in SUBSET Tags, NEW x
  PROVE  Settled(a, x) = a /\ Settled(t, x) = t /\ Settled(None, x) = x
BY OperationsAssumption DEF Settled

\* An upsert shows the record it was given; or, if it had found its row gone and
\* so was told, parts of it with the row of another.
LEMMA UpsertCommits ==
  ASSUME PartsInv, WorkInv, NEW p \in Proc, commit(p), call[p].kind = "upsert"
  PROVE  Effect(p)
<1>1. PreparedFor(at[p], call[p], pending[p]) /\ at = [q \in Proc |-> at[q]] /\ ThrowStands(p)
  BY DEF PartsInv, ExecutionOK, WorkInv, ThrowsOK
<1>. PICK r : r = call[p].record
  OBVIOUS
<1>. PICK j : j = call[p].job
  OBVIOUS
<1>2. /\ at[p] = "commit" /\ j \in JobId /\ r \in RecordFor(j)
      /\ pending[p].row \in {Bare(r), None}
      /\ pending[p].attachments = r.attachments \/ (pending[p].row = None /\ pending[p].attachments = None)
      /\ pending[p].tags = r.tags \/ (pending[p].row = None /\ pending[p].tags = None)
  BY <1>1 DEF commit, PreparedFor
<1>3. at[p] # "done" /\ at'[p] = "done"
  BY <1>1 DEF commit, Ends, Goto
<1>4. r \in JobRecord /\ r.id = j /\ r.attachments \in SUBSET Attachments /\ r.tags \in SUBSET Tags
  BY <1>2 DEF RecordFor, JobRecord
<1>5. Commit(p, j, Settled(pending[p].row, rows[j]), Settled(pending[p].attachments, attachments[j]),
             Settled(pending[p].tags, tags[j]))
  BY DEF commit
<1>6. CASE pending[p].row # None
  <2>1. /\ Settled(pending[p].row, rows[j]) = Bare(r)
        /\ Settled(pending[p].attachments, attachments[j]) = r.attachments
        /\ Settled(pending[p].tags, tags[j]) = r.tags
    <3>1. Settled(pending[p].row, rows[j]) = Bare(r)
      BY <1>2, <1>6 DEF Settled
    <3>. QED
      BY <1>2, <1>4, <1>6, <3>1, PartsSettle
  <2>2. Visible' = [Visible EXCEPT ![j] = r]
    BY <1>2, <1>4, <1>5, <2>1, CommitShows, WholeAgain
  <2>3. Table!Touched(r) = r /\ r.id = j
    BY <1>2 DEF Table!Touched, RecordFor, JobRecord
  <2>4. Table!Upsert(call[p].record)
    BY <2>2, <2>3 DEF Table!Upsert
  <2>. QED
    BY <1>3, <2>4 DEF Effect
<1>7. CASE pending[p].row = None
  <2>1. engine = "sqlserver" /\ others[p] /\ WithoutRow(p)
    BY <1>1, <1>2, <1>7 DEF ThrowStands, WithoutRow
  <2>2. PICK a \in {attachments[j], r.attachments} : a = Settled(pending[p].attachments, attachments[j])
    BY <1>2, <1>4, PartsSettle
  <2>3. PICK t \in {tags[j], r.tags} : t = Settled(pending[p].tags, tags[j])
    BY <1>2, <1>4, PartsSettle
  <2>4. Settled(pending[p].row, rows[j]) = rows[j]
    BY <1>7 DEF Settled
  <2>5. Visible' = [Visible EXCEPT ![j] = Whole(rows[j], a, t)]
    BY <1>2, <1>5, <2>2, <2>3, <2>4, CommitShows
  <2>6. PartsOnly(p)
    BY <2>1, <2>2, <2>3, <2>5 DEF PartsOnly
  <2>. QED
    BY <1>3, <2>6 DEF Effect
<1>. QED
  BY <1>6, <1>7

\* What a claim or a transition makes of a row it makes of the record, which has
\* the job's attachments and tags besides.
LEMMA WholeChanged ==
  ASSUME NEW j \in JobId, NEW row \in RecordFor(j), NEW a, NEW t
  PROVE  /\ Whole(Table!Claimed(row, "Validating"), a, t) =
              Table!Claimed(Whole(row, a, t), "Validating")
         /\ \A state \in JobState, error \in Messages \cup {None} :
              Whole(Table!Transitioned(row, state, error), a, t) =
                Table!Transitioned(Whole(row, a, t), state, error)
<1>1. row \in JobRecord /\ row # None
  BY OperationsAssumption DEF RecordFor
<1>2. Table!Claimed(row, "Validating") # None
  BY RecordsStay, OperationsAssumption DEF RecordFor
<1>3. Whole(row, a, t) = [row EXCEPT !.attachments = a, !.tags = t]
  BY <1>1 DEF Whole
<1>4. Whole(Table!Claimed(row, "Validating"), a, t) =
        [Table!Claimed(row, "Validating") EXCEPT !.attachments = a, !.tags = t]
  BY <1>2 DEF Whole
<1>5. [Table!Claimed(row, "Validating") EXCEPT !.attachments = a, !.tags = t] =
        Table!Claimed([row EXCEPT !.attachments = a, !.tags = t], "Validating")
  BY <1>1 DEF Table!Claimed, JobRecord
<1>6. ASSUME NEW state \in JobState, NEW error \in Messages \cup {None}
      PROVE  Whole(Table!Transitioned(row, state, error), a, t) =
               Table!Transitioned(Whole(row, a, t), state, error)
  <2>1. Table!Transitioned(row, state, error) # None
    BY RecordsStay, OperationsAssumption DEF RecordFor
  <2>2. Whole(Table!Transitioned(row, state, error), a, t) =
          [Table!Transitioned(row, state, error) EXCEPT !.attachments = a, !.tags = t]
    BY <2>1 DEF Whole
  <2>3. [Table!Transitioned(row, state, error) EXCEPT !.attachments = a, !.tags = t] =
          Table!Transitioned([row EXCEPT !.attachments = a, !.tags = t], state, error)
    BY <1>1 DEF Table!Transitioned, JobRecord
  <2>. QED
    BY <1>3, <2>2, <2>3
<1>. QED
  BY <1>3, <1>4, <1>5, <1>6

\* A claim shows, and returns, what it found, claimed.
LEMMA ClaimCommits ==
  ASSUME PartsInv, WorkInv, NEW p \in Proc, commit(p), call[p].kind = "claim"
  PROVE  Effect(p)
<1>1. PreparedFor(at[p], call[p], pending[p]) /\ at = [q \in Proc |-> at[q]]
  BY DEF PartsInv, ExecutionOK
<1>. PICK j : j = call[p].job
  OBVIOUS
<1>2. j \in JobId /\ ClaimStands(p) /\ at[p] = "commit"
  BY <1>1 DEF commit, PreparedFor, Holding, WorkInv, ClaimsOK
<1>3. /\ rows[j] # None /\ rows[j].state = "Submitted" /\ rows[j].attempts < MaxAttempts
      /\ engine = "sqlite" => IsBest(Visible[j], Table!list({"Submitted"}))
  BY <1>2 DEF ClaimStands
<1>. PICK r : r = Visible[j]
  OBVIOUS
<1>. PICK row : row = Table!Claimed(rows[j], "Validating")
  OBVIOUS
<1>4. /\ pending[p] = [row |-> row, attachments |-> None, tags |-> None]
      /\ \E a, t : /\ records[p] = {Whole(row, a, t)}
                   /\ others[p] \/ (a = attachments[j] /\ t = tags[j])
      /\ engine = "sqlite" => ~others[p]
  <2>1. RowOfClaim(p) = row
    BY <1>2 DEF RowOfClaim
  <2>. QED
    BY <1>2, <2>1 DEF ClaimStands
<1>5. rows[j] \in RecordFor(j) /\ r = Whole(rows[j], attachments[j], tags[j])
  BY <1>2, <1>3 DEF Visible, PartsInv, TablesOK
<1>6. row \in RecordFor(j) /\ row # None
  BY <1>2, <1>5, RecordsStay, Written
<1>7. r \in JobRecord /\ r.id = j /\ r.state = "Submitted" /\ r.attempts < MaxAttempts
  <2>1. r \in RecordFor(j)
    BY <1>2, <1>5, RecordsStay DEF PartsInv, TablesOK
  <2>. QED
    BY <1>3, <1>5, <2>1 DEF RecordFor, JobRecord, Whole
<1>8. Whole(row, attachments[j], tags[j]) = Table!Claimed(r, "Validating")
  BY <1>2, <1>5, WholeChanged
<1>. PICK w : w = Table!Claimed(r, "Validating")
  OBVIOUS
<1>9. Visible' = [Visible EXCEPT ![j] = w]
  <2>1. Commit(p, j, row, attachments[j], tags[j])
    <3>1. Settled(row, rows[j]) = row
      BY <1>6 DEF Settled
    <3>2. Settled(None, attachments[j]) = attachments[j] /\ Settled(None, tags[j]) = tags[j]
      BY DEF Settled
    <3>. QED
      BY <1>4, <3>1, <3>2 DEF commit
  <2>. QED
    BY <1>2, <1>8, <2>1, CommitShows
<1>10. /\ Visible'[j] = w /\ Visible'[j] = Whole(row, attachments[j], tags[j])
  BY <1>2, <1>8, <1>9 DEF Visible
<1>11. IF others[p] THEN {Bare(s) : s \in records[p]} = {Bare(Visible'[j])}
       ELSE records[p] = {Visible'[j]}
  <2>1. \A a, t : Bare(Whole(row, a, t)) = Bare(row)
    BY <1>6 DEF Bare, Whole, RecordFor, JobRecord
  <2>2. PICK a, t : /\ records[p] = {Whole(row, a, t)}
                    /\ others[p] \/ (a = attachments[j] /\ t = tags[j])
    BY <1>4
  <2>3. {Bare(s) : s \in records[p]} = {Bare(Whole(row, a, t))}
    BY <2>2
  <2>. QED
    BY <1>10, <2>1, <2>2, <2>3
<1>12. r \in Table!list({"Submitted"})
  BY <1>2, <1>7, OperationsAssumption DEF Table!list, Table!Stored
<1>13. engine = "sqlite" => ~others[p] /\ Table!Claim(r, "Validating")
  BY <1>3, <1>4, <1>7, <1>9, TableOrder DEF Table!Claim
<1>14. at[p] # "done" /\ at'[p] = "done"
  BY <1>1, <1>2 DEF commit, Ends, Goto
<1>. QED
  BY <1>7, <1>9, <1>11, <1>12, <1>13, <1>14 DEF Effect

\* A transition changes the job that is there; a removal removes it.
LEMMA ChangeCommits ==
  ASSUME PartsInv, WorkInv, NEW p \in Proc, UpdateState(p) \/ DeleteRow(p)
  PROVE  UNCHANGED Visible \/ Effect(p)
<1>0. PreparedFor(at[p], call[p], pending[p]) /\ at = [q \in Proc |-> at[q]]
  BY DEF PartsInv, ExecutionOK
<1>. PICK j : j = call[p].job
  OBVIOUS
<1>1. CASE UpdateState(p)
  <2>. PICK t : t = call[p].transition
    OBVIOUS
  <2>1. /\ call[p].kind = "transition" /\ j \in JobId
        /\ t[1] \in JobState /\ t[2] \in Messages \cup {None}
    BY <1>0, <1>1, OperationsAssumption DEF UpdateState, PreparedFor
  <2>2. rows[j] \in RecordFor(j) \cup {None}
    BY <2>1 DEF PartsInv, TablesOK
  <2>3. CASE rows[j] = None
    <3>1. Commit(p, j, None, attachments[j], tags[j])
      BY <1>1, <2>3 DEF UpdateState
    <3>2. Visible' = [Visible EXCEPT ![j] = None] /\ Visible[j] = None
      <4>1. Visible' = [Visible EXCEPT ![j] = Whole(None, attachments[j], tags[j])]
        BY <2>1, <3>1, CommitShows
      <4>2. Whole(None, attachments[j], tags[j]) = None
        BY DEF Whole
      <4>3. Visible[j] = None
        BY <2>1, <2>3, <4>2 DEF Visible
      <4>. QED
        BY <4>1, <4>2, <4>3
    <3>. QED
      BY <2>1, <3>2 DEF Visible
  <2>4. CASE rows[j] # None
    <3>. PICK row : row = Table!Transitioned(rows[j], t[1], t[2])
      OBVIOUS
    <3>1. Commit(p, j, row, attachments[j], tags[j]) /\ Ends(p, "done")
      BY <1>1, <2>4 DEF UpdateState
    <3>2. row \in RecordFor(j) /\ row # None
      <4>1. row \in RecordFor(j)
        BY <2>1, <2>2, <2>4, RecordsStay
      <4>. QED
        BY <4>1, OperationsAssumption DEF RecordFor
    <3>3. Visible[j] = Whole(rows[j], attachments[j], tags[j]) /\ Visible[j] # None
      <4>1. Visible[j] \in RecordFor(j)
        BY <2>1, <2>2, <2>4, RecordsStay DEF Visible, PartsInv, TablesOK
      <4>. QED
        BY <2>1, <4>1, OperationsAssumption DEF Visible, RecordFor
    <3>4. Whole(row, attachments[j], tags[j]) = Table!Transitioned(Visible[j], t[1], t[2])
      BY <2>1, <2>2, <2>4, <3>3, WholeChanged
    <3>5. Visible' = [Visible EXCEPT ![j] = Whole(row, attachments[j], tags[j])]
      BY <2>1, <3>1, CommitShows
    <3>6. Table!Transition(j, t[1], t[2])
      BY <2>1, <3>3, <3>4, <3>5 DEF Table!Transition, Visible
    <3>7. at[p] # "done" /\ at'[p] = "done"
      BY <1>0, <1>1, <3>1 DEF UpdateState, Ends, Goto
    <3>. QED
      BY <2>1, <3>6, <3>7 DEF Effect
  <2>. QED
    BY <2>3, <2>4
<1>2. CASE DeleteRow(p)
  <2>1. call[p].kind = "remove" /\ j \in JobId
    BY <1>0, <1>2 DEF DeleteRow, PreparedFor
  <2>2. Visible' = [Visible EXCEPT ![j] = None]
    BY <1>2, <2>1, CommitShows DEF DeleteRow, Whole
  <2>3. at[p] # "done" /\ at'[p] = "done"
    BY <1>0, <1>2 DEF DeleteRow, Ends, Goto
  <2>. QED
    BY <2>1, <2>2, <2>3 DEF Effect, Table!Remove
<1>. QED
  BY <1>1, <1>2

LEMMA StepsImplement ==
  ASSUME PartsInv, WorkInv, [Next]_vars
  PROVE  UNCHANGED Visible \/ \E p \in Proc : Effect(p)
<1>1. CASE UNCHANGED vars \/ \E p \in Proc : Opening(p) /\ UNCHANGED <<tables, execution, history>>
  BY <1>1, SameTables DEF vars
<1>2. ASSUME NEW p \in Proc, Operating(p), ~commit(p), ~UpdateState(p), ~DeleteRow(p)
      PROVE  UNCHANGED Visible
  BY <1>2, TablesFrame, SameTables
<1>3. ASSUME NEW p \in Proc, commit(p) PROVE Effect(p)
  <2>1. call[p].kind \in {"upsert", "claim"}
    BY <1>3 DEF commit, PartsInv, ExecutionOK, PreparedFor
  <2>. QED
    BY <1>3, <2>1, UpsertCommits, ClaimCommits
<1>4. ASSUME NEW p \in Proc, UpdateState(p) \/ DeleteRow(p) PROVE UNCHANGED Visible \/ Effect(p)
  BY <1>4, ChangeCommits
<1>. QED
  BY <1>1, <1>2, <1>3, <1>4 DEF Next

\* With either engine, however statements of different processes interleave and
\* whichever fail: each operation changes the tables in one step, as the
\* repository's operation does; a claim takes a submitted job no other claim
\* takes, with SQLite the best, and returns what it stored.  The one exception is
\* an upsert of SQL Server whose job was removed between its look and its
\* update: it may leave its parts with the row that has come since, and so
\* replace the parts of a job that is being claimed.
THEOREM OperationsImplemented == Spec => RepositoryImplemented
<1>1. PartsInv /\ WorkInv /\ [Next]_vars =>
        [ \/ UNCHANGED Visible
          \/ \E p \in Proc :
               LET c == call[p] IN
               /\ at[p] # "done" /\ at'[p] = "done"
               /\ CASE c.kind = "upsert" -> Table!Upsert(c.record) \/ PartsOnly(p)
                    [] c.kind = "transition" ->
                         Table!Transition(c.job, c.transition[1], c.transition[2])
                    [] c.kind = "remove" -> Table!Remove(c.job)
                    [] c.kind = "claim" ->
                         /\ IF others[p] THEN {Bare(r) : r \in records[p]} = {Bare(Visible'[c.job])}
                            ELSE records[p] = {Visible'[c.job]}
                         /\ \E r \in Table!list({"Submitted"}) :
                              /\ Visible' = [Visible EXCEPT ![r.id] = Table!Claimed(r, "Validating")]
                              /\ engine = "sqlite" => ~others[p] /\ Table!Claim(r, "Validating")
                    [] c.kind = "read" -> FALSE
        ]_vars
  BY StepsImplement DEF Effect
<1>. QED
  BY <1>1, PartsInvInit, PartsInvNext, FoundNext, WorkInit, WorkNext, PTL
  DEF Spec, RepositoryImplemented

-----------------------------------------------------------------------------
(* Reading.                                                                *)

\* What p's reader wants, as it is now; and as SQLite shows it to p.
Current(p) == [k \in Wanted(p) |-> Visible[k]]
Snapped(p) == [k \in Wanted(p) |-> snapshot[p][k]]

Present(v) == {k \in DOMAIN v : v[k] # None}

\* With SQLite: the rows are those of the snapshot, then so are the parts.
ShownAsSnapped(p) ==
  /\ snapshot[p] \in [JobId -> JobRecord \cup {None}]
  /\ Snapped(p) \in seen[p]
  /\ \A r \in records[p] :
       /\ r \in JobRecord /\ r.id \in Present(Snapped(p))
       /\ Bare(r) = Bare(snapshot[p][r.id])
       /\ at[p] = "read_tags" => r.attachments = snapshot[p][r.id].attachments
  /\ \A k \in Present(Snapped(p)) : \E r \in records[p] : r.id = k

\* With SQL Server: each part of a record was stored at some moment.
RowSeen(r, S) == \E v \in S : v[r.id] # None /\ Bare(v[r.id]) = Bare(r)
AttachmentsSeen(r, S) ==
  \E v \in S : r.attachments = IF v[r.id] = None THEN {} ELSE v[r.id].attachments
TagsSeen(r, S) == \E v \in S : r.tags = IF v[r.id] = None THEN {} ELSE v[r.id].tags

ShownAsSeen(p) ==
  /\ at[p] \in {"read_attachments", "read_tags"} => snapshot[p] = None
  /\ \A r \in records[p] :
       /\ r \in JobRecord /\ r.id \in Wanted(p)
       /\ RowSeen(r, seen[p])
       /\ at[p] \in {"read_tags", "done"} => AttachmentsSeen(r, seen[p])
       /\ at[p] = "done" => TagsSeen(r, seen[p])

ReadStands(p) ==
  /\ at[p] \in Reading => Current(p) \in seen[p]
  /\ at[p] \in {"read_attachments", "read_tags"} =>
       IF engine = "sqlite" THEN ShownAsSnapped(p) ELSE ShownAsSeen(p)
  /\ at[p] = "done" =>
       IF engine = "sqlite" THEN \E v \in seen[p] : records[p] = {v[j] : j \in Present(v)}
       ELSE ShownAsSeen(p)
  /\ at[p] = "missed" => call[p].job # None /\ records[p] = {}

ReadsOK == \A p \in Proc : call[p].kind = "read" => ReadStands(p)

ReadInv ==
  /\ snapshot = [p \in Proc |-> snapshot[p]]
  /\ seen = [p \in Proc |-> seen[p]]
  /\ ReadsOK

LEMMA ReadInit == Init => ReadInv
<1>. SUFFICES ASSUME Init PROVE ReadInv
  OBVIOUS
<1>1. /\ snapshot = [p \in Proc |-> snapshot[p]]
      /\ seen = [p \in Proc |-> seen[p]]
  BY DEF Init
<1>2. \A p \in Proc : at[p] = "idle"
  BY DEF Init
<1>. QED
  BY <1>1, <1>2 DEF ReadInv, ReadsOK, ReadStands, Reading

LEMMA VisibleTyped ==
  ASSUME PartsInv
  PROVE  /\ Visible \in [JobId -> JobRecord \cup {None}]
         /\ \A k \in JobId :
              /\ Visible[k] # None <=> rows[k] # None
              /\ rows[k] # None =>
                   /\ rows[k] \in JobRecord /\ rows[k].id = k
                   /\ Visible[k].id = k /\ Bare(Visible[k]) = Bare(rows[k])
              /\ attachments[k] = IF Visible[k] = None THEN {} ELSE Visible[k].attachments
              /\ tags[k] = IF Visible[k] = None THEN {} ELSE Visible[k].tags
<1>1. ASSUME NEW k \in JobId
      PROVE  /\ Visible[k] \in JobRecord \cup {None}
             /\ Visible[k] # None <=> rows[k] # None
             /\ rows[k] # None =>
                  /\ rows[k] \in JobRecord /\ rows[k].id = k
                  /\ Visible[k].id = k /\ Bare(Visible[k]) = Bare(rows[k])
             /\ attachments[k] = IF Visible[k] = None THEN {} ELSE Visible[k].attachments
             /\ tags[k] = IF Visible[k] = None THEN {} ELSE Visible[k].tags
  <2>1. Visible[k] = Whole(rows[k], attachments[k], tags[k])
    BY DEF Visible
  <2>2. CASE rows[k] = None
    BY <2>1, <2>2 DEF Whole, PartsInv, TablesOK, NoOrphanParts
  <2>3. CASE rows[k] # None
    <3>1. rows[k] \in RecordFor(k)
      BY <2>3 DEF PartsInv, TablesOK
    <3>2. Visible[k] \in RecordFor(k)
      <4>1. attachments[k] \in SUBSET Attachments /\ tags[k] \in SUBSET Tags
        BY DEF PartsInv, TablesOK
      <4>. QED
        BY <2>1, <3>1, <4>1, RecordsStay
    <3>3. Visible[k] # None
      BY <3>2, OperationsAssumption DEF RecordFor
    <3>4. Visible[k] = [rows[k] EXCEPT !.attachments = attachments[k], !.tags = tags[k]]
      BY <2>1, <2>3 DEF Whole
    <3>5. /\ Visible[k].attachments = attachments[k] /\ Visible[k].tags = tags[k]
          /\ Bare(Visible[k]) = Bare(rows[k])
      BY <3>1, <3>4 DEF RecordFor, JobRecord, Bare
    <3>. QED
      BY <2>3, <3>1, <3>2, <3>3, <3>5 DEF RecordFor
  <2>. QED
    BY <2>2, <2>3
<1>. QED
  BY <1>1 DEF Visible

-----------------------------------------------------------------------------
(* What others do to a reader.                                             *)

\* What was seen stays, and what is there now is seen.
LEMMA MomentsKept ==
  ASSUME PartsInv, ReadInv, WorkInv, NEW p \in Proc, Operating(p), NEW q \in Proc \ {p},
         call[q].kind = "read"
  PROVE  /\ seen[q] \subseteq seen'[q]
         /\ at[q] \in Over => seen'[q] = seen[q]
         /\ at[q] \in Reading => Current(q)' \in seen'[q]
         /\ snapshot'[q] = snapshot[q]
<1>0. /\ snapshot = [r \in Proc |-> snapshot[r]] /\ seen = [r \in Proc |-> seen[r]]
      /\ call'[q] = call[q] /\ ReadStands(q)
  BY StepFrame DEF ReadInv, ReadsOK
<1>1. CASE commit(p) \/ UpdateState(p) \/ DeleteRow(p)
  <2>1. call[p].job \in JobId
    BY <1>1, Writes
  <2>2. PICK row, a, t : Commit(p, call[p].job, row, a, t)
    BY <1>1, Writes
  <2>3. Visible' = [Visible EXCEPT ![call[p].job] = Whole(row, a, t)]
    BY <2>1, <2>2, CommitShows
  <2>4. seen'[q] = IF at[q] \in Over THEN seen[q]
                   ELSE {[k \in DOMAIN w |-> Visible'[k]] : w \in seen[q]} \cup seen[q]
    BY <2>2, <2>3 DEF Commit
  <2>5. ASSUME at[q] \in Reading PROVE Current(q)' \in seen'[q]
    <3>1. Current(q) \in seen[q] /\ at[q] \notin Over
      BY <1>0, <2>5 DEF ReadStands, Reading, Over
    <3>2. Current(q)' = [k \in DOMAIN Current(q) |-> Visible'[k]]
      BY <1>0 DEF Current, Wanted
    <3>. QED
      BY <2>4, <3>1, <3>2
  <2>6. snapshot'[q] = snapshot[q]
    BY <1>0, <1>1 DEF commit, UpdateState, DeleteRow, Ends
  <2>. QED
    BY <2>4, <2>5, <2>6
<1>2. CASE ~commit(p) /\ ~UpdateState(p) /\ ~DeleteRow(p)
  <2>1. seen'[q] = seen[q] /\ snapshot'[q] = snapshot[q]
    <3>1. CASE \/ fetch(p) \/ upsert(p) \/ claim_next_submitted(p) \/ transition(p) \/ remove(p)
               \/ Return(p) \/ Fails(p) \/ Misses(p)
               \/ ReadRows(p) \/ ReadAttachments(p) \/ ReadTags(p)
      BY <1>0, <3>1
      DEF fetch, upsert, claim_next_submitted, transition, remove, Return, Fails, Misses,
          ReadRows, ReadAttachments, ReadTags, Begins, Ends, unchangedTables
    <3>2. CASE \/ UpsertRow(p) \/ InsertOrUpdate(p) \/ ReplaceAttachments(p) \/ ReplaceTags(p)
               \/ SelectBest(p) \/ UpdateClaimed(p)
      BY <1>0, <3>2
      DEF UpsertRow, InsertOrUpdate, ReplaceAttachments, ReplaceTags, SelectBest,
          UpdateClaimed, Ends, unchangedTables
    <3>. QED
      BY <1>2, <3>1, <3>2 DEF Operating
  <2>2. Visible' = Visible
    BY <1>2, TablesFrame, SameTables
  <2>3. Current(q)' = Current(q)
    BY <1>0, <2>2 DEF Current, Wanted
  <2>. QED
    BY <1>0, <2>1, <2>3 DEF ReadStands
<1>. QED
  BY <1>1, <1>2

LEMMA OthersRead ==
  ASSUME PartsInv, ReadInv, WorkInv, NEW p \in Proc, Operating(p), NEW q \in Proc \ {p},
         call[q].kind = "read"
  PROVE  ReadStands(q)'
<1>1. /\ at'[q] = at[q] /\ call'[q] = call[q] /\ records'[q] = records[q] /\ engine' = engine
      /\ ReadStands(q)
  BY StepFrame DEF ReadInv, ReadsOK
<1>2. /\ seen[q] \subseteq seen'[q] /\ (at[q] \in Over => seen'[q] = seen[q])
      /\ at[q] \in Reading => Current(q)' \in seen'[q]
      /\ snapshot'[q] = snapshot[q]
  BY MomentsKept
<1>3. Snapped(q)' = Snapped(q) /\ Wanted(q)' = Wanted(q)
  BY <1>1, <1>2 DEF Snapped, Wanted
<1>4. ShownAsSnapped(q) => ShownAsSnapped(q)'
  BY <1>1, <1>2, <1>3 DEF ShownAsSnapped
<1>5. ShownAsSeen(q) => ShownAsSeen(q)'
  <2>1. \A r \in records[q] :
          /\ RowSeen(r, seen[q]) => RowSeen(r, seen'[q])
          /\ AttachmentsSeen(r, seen[q]) => AttachmentsSeen(r, seen'[q])
          /\ TagsSeen(r, seen[q]) => TagsSeen(r, seen'[q])
    BY <1>2 DEF RowSeen, AttachmentsSeen, TagsSeen
  <2>. QED
    BY <1>1, <1>2, <1>3, <2>1 DEF ShownAsSeen
<1>6. at[q] = "done" => seen'[q] = seen[q]
  BY <1>2 DEF Over
<1>. QED
  BY <1>1, <1>2, <1>4, <1>5, <1>6 DEF ReadStands

-----------------------------------------------------------------------------
(* What a reader does.                                                     *)

LEMMA WithParts ==
  ASSUME NEW r \in JobRecord, NEW a \in SUBSET Attachments, NEW t \in SUBSET Tags
  PROVE  /\ [r EXCEPT !.attachments = a] \in JobRecord
         /\ [r EXCEPT !.attachments = a].id = r.id
         /\ [r EXCEPT !.attachments = a].attachments = a
         /\ Bare([r EXCEPT !.attachments = a]) = Bare(r)
         /\ [r EXCEPT !.tags = t] \in JobRecord
         /\ [r EXCEPT !.tags = t].id = r.id
         /\ [r EXCEPT !.tags = t].tags = t
         /\ [r EXCEPT !.tags = t].attachments = r.attachments
         /\ Bare([r EXCEPT !.tags = t]) = Bare(r)
BY DEF JobRecord, Bare

LEMMA SameRecord ==
  ASSUME NEW r \in JobRecord, NEW s \in JobRecord,
         Bare(r) = Bare(s), r.attachments = s.attachments, r.tags = s.tags
  PROVE  r = s
<1>1. Whole(Bare(r), r.attachments, r.tags) = r /\ Whole(Bare(s), s.attachments, s.tags) = s
  BY WholeAgain
<1>. QED
  BY <1>1

\* A reader that has not ended sees what is there.
LEMMA ReaderSees ==
  ASSUME PartsInv, ReadInv, NEW p \in Proc, at[p] \in Reading
  PROVE  /\ call[p].kind = "read" /\ ReadStands(p)
         /\ Current(p) \in seen[p] /\ Wanted(p) \subseteq JobId
         /\ \A k \in Wanted(p) : Current(p)[k] = Visible[k]
<1>1. call[p].kind = "read" /\ call[p].job \in JobId \cup {None}
  BY DEF PreparedFor, PartsInv, ExecutionOK
<1>2. ReadStands(p)
  BY <1>1 DEF ReadInv, ReadsOK
<1>. QED
  BY <1>1, <1>2 DEF ReadStands, Wanted, Current

\* The statement over the rows.
LEMMA RowsRead ==
  ASSUME PartsInv, WorkInv, ReadInv, NEW p \in Proc, ReadRows(p)
  PROVE  ReadStands(p)'
<1>0. /\ at = [q \in Proc |-> at[q]] /\ records = [q \in Proc |-> records[q]]
      /\ snapshot = [q \in Proc |-> snapshot[q]]
  BY DEF PartsInv, ExecutionOK, WorkInv, ReadInv
<1>. PICK W : W = Wanted(p)
  OBVIOUS
<1>1. /\ call[p].kind = "read" /\ Current(p) \in seen[p] /\ W \subseteq JobId
      /\ \A k \in W : Current(p)[k] = Visible[k]
  BY ReaderSees DEF ReadRows, Reading
<1>. DEFINE found == {j \in W : rows[j] # None}
<1>2. /\ records' = [records EXCEPT ![p] = {rows[j] : j \in found}]
      /\ snapshot' = [snapshot EXCEPT ![p] = IF engine = "sqlite" THEN Visible ELSE None]
      /\ Goto(p, IF found = {} THEN "done" ELSE "read_attachments")
      /\ UNCHANGED <<tables, engine, seen, call>>
  BY DEF ReadRows, unchangedTables, schemaVars, tables
<1>3. /\ records'[p] = {rows[j] : j \in found}
      /\ snapshot'[p] = IF engine = "sqlite" THEN Visible ELSE None
      /\ at'[p] = IF found = {} THEN "done" ELSE "read_attachments"
  BY <1>0, <1>2 DEF Goto
<1>4. Visible' = Visible /\ Wanted(p)' = W /\ Current(p)' = Current(p)
  BY <1>2, SameTables DEF Wanted, Current
<1>5. \A k \in W : /\ k \in found <=> Visible[k] # None
                   /\ k \in found => /\ rows[k] \in JobRecord /\ rows[k].id = k
                                     /\ Bare(Visible[k]) = Bare(rows[k])
  BY <1>1, VisibleTyped
<1>6. CASE found = {}
  <2>1. records'[p] = {} /\ at'[p] = "done"
    BY <1>3, <1>6
  <2>2. Present(Current(p)) = {}
    BY <1>1, <1>5, <1>6 DEF Present, Current
  <2>3. {Current(p)[j] : j \in Present(Current(p))} = {}
    BY <2>2
  <2>. QED
    BY <1>1, <1>2, <2>1, <2>3 DEF ReadStands, Reading, ShownAsSeen
<1>7. CASE found # {} /\ engine = "sqlite"
  <2>1. at'[p] = "read_attachments" /\ snapshot'[p] = Visible
    BY <1>3, <1>7
  <2>2. Snapped(p)' = Current(p)
    BY <1>4, <2>1 DEF Snapped, Current
  <2>3. Present(Current(p)) = found
    BY <1>1, <1>5 DEF Present, Current
  <2>4. Visible \in [JobId -> JobRecord \cup {None}]
    BY VisibleTyped
  <2>5. ASSUME NEW r \in records'[p]
        PROVE  r \in JobRecord /\ r.id \in found /\ Bare(r) = Bare(Visible[r.id])
    BY <1>3, <1>5
  <2>6. \A k \in found : \E r \in records'[p] : r.id = k
    BY <1>3, <1>5
  <2>. HIDE DEF found
  <2>7. ShownAsSnapped(p)'
    BY <1>1, <1>2, <2>1, <2>2, <2>3, <2>4, <2>5, <2>6 DEF ShownAsSnapped
  <2>. QED
    BY <1>1, <1>2, <1>4, <1>7, <2>1, <2>7 DEF ReadStands
<1>8. CASE found # {} /\ engine # "sqlite"
  <2>1. at'[p] = "read_attachments" /\ snapshot'[p] = None
    BY <1>3, <1>8
  <2>2. ASSUME NEW r \in records'[p]
        PROVE  r \in JobRecord /\ r.id \in W /\ RowSeen(r, seen[p])
    <3>1. r \in JobRecord /\ r.id \in found /\ Bare(Visible[r.id]) = Bare(r)
      BY <1>3, <1>5
    <3>. QED
      BY <1>1, <1>5, <3>1 DEF RowSeen
  <2>. HIDE DEF found
  <2>3. ShownAsSeen(p)'
    BY <1>2, <1>4, <2>1, <2>2 DEF ShownAsSeen
  <2>. QED
    BY <1>1, <1>2, <1>4, <1>8, <2>1, <2>3 DEF ReadStands
<1>. QED
  BY <1>6, <1>7, <1>8

\* The statements over the parts: what they show of a record's job.
LEMMA PartsShown ==
  ASSUME PartsInv, ReadInv, NEW p \in Proc, at[p] \in {"read_attachments", "read_tags"},
         NEW r \in records[p]
  PROVE  /\ r \in JobRecord
         /\ Shown(p, r.id).attachments \in SUBSET Attachments
         /\ Shown(p, r.id).tags \in SUBSET Tags
         /\ engine = "sqlite" =>
              Shown(p, r.id) = snapshot[p][r.id] /\ snapshot[p][r.id] \in JobRecord
         /\ engine # "sqlite" =>
              /\ \E v \in seen[p] :
                   Shown(p, r.id).attachments = IF v[r.id] = None THEN {} ELSE v[r.id].attachments
              /\ \E v \in seen[p] :
                   Shown(p, r.id).tags = IF v[r.id] = None THEN {} ELSE v[r.id].tags
<1>1. /\ ReadStands(p) /\ Current(p) \in seen[p] /\ Wanted(p) \subseteq JobId
      /\ \A k \in Wanted(p) : Current(p)[k] = Visible[k]
  BY ReaderSees DEF Reading
<1>2. CASE engine = "sqlite"
  <2>1. ShownAsSnapped(p)
    BY <1>1, <1>2 DEF ReadStands
  <2>2. snapshot[p] # None
    BY <2>1, OperationsAssumption DEF ShownAsSnapped
  <2>3. r \in JobRecord /\ r.id \in JobId /\ snapshot[p][r.id] # None
    BY <1>1, <2>1 DEF ShownAsSnapped, Present, Snapped
  <2>4. snapshot[p][r.id] \in JobRecord
    BY <2>1, <2>3 DEF ShownAsSnapped
  <2>5. Shown(p, r.id) = snapshot[p][r.id]
    BY <2>2 DEF Shown
  <2>. QED
    BY <1>2, <2>3, <2>4, <2>5 DEF JobRecord
<1>3. CASE engine # "sqlite"
  <2>1. ShownAsSeen(p)
    BY <1>1, <1>3 DEF ReadStands
  <2>2. r \in JobRecord /\ r.id \in Wanted(p) /\ snapshot[p] = None
    BY <2>1 DEF ShownAsSeen
  <2>3. Shown(p, r.id) = [attachments |-> attachments[r.id], tags |-> tags[r.id]]
    BY <2>2 DEF Shown
  <2>4. attachments[r.id] \in SUBSET Attachments /\ tags[r.id] \in SUBSET Tags
    BY <1>1, <2>2 DEF PartsInv, TablesOK
  <2>5. /\ attachments[r.id] = IF Current(p)[r.id] = None THEN {} ELSE Current(p)[r.id].attachments
        /\ tags[r.id] = IF Current(p)[r.id] = None THEN {} ELSE Current(p)[r.id].tags
    BY <1>1, <2>2, VisibleTyped
  <2>. QED
    BY <1>1, <1>3, <2>2, <2>3, <2>4, <2>5
<1>. QED
  BY <1>2, <1>3

LEMMA AttachmentsRead ==
  ASSUME PartsInv, WorkInv, ReadInv, NEW p \in Proc, ReadAttachments(p)
  PROVE  ReadStands(p)'
<1>0. at = [q \in Proc |-> at[q]] /\ records = [q \in Proc |-> records[q]]
  BY DEF PartsInv, ExecutionOK, WorkInv
<1>1. /\ at[p] = "read_attachments" /\ Goto(p, "read_tags")
      /\ records' = [records EXCEPT ![p] =
           {[r EXCEPT !.attachments = Shown(p, r.id).attachments] : r \in @}]
      /\ UNCHANGED <<tables, engine, seen, call, snapshot>>
  BY DEF ReadAttachments, unchangedTables, schemaVars, tables
<1>2. /\ call[p].kind = "read" /\ ReadStands(p) /\ Current(p) \in seen[p]
  BY <1>1, ReaderSees DEF Reading
<1>3. /\ at'[p] = "read_tags"
      /\ records'[p] = {[r EXCEPT !.attachments = Shown(p, r.id).attachments] : r \in records[p]}
  BY <1>0, <1>1 DEF Goto
<1>4. Wanted(p)' = Wanted(p) /\ Current(p)' = Current(p) /\ Snapped(p)' = Snapped(p)
  BY <1>1, SameTables DEF Wanted, Current, Snapped
<1>5. ASSUME NEW r \in records[p]
      PROVE  LET n == [r EXCEPT !.attachments = Shown(p, r.id).attachments] IN
             /\ n \in JobRecord /\ n.id = r.id /\ Bare(n) = Bare(r)
             /\ n.attachments = Shown(p, r.id).attachments
  <2> DEFINE a == Shown(p, r.id).attachments
  <2>1. r \in JobRecord /\ a \in SUBSET Attachments
    BY <1>1, PartsShown
  <2> HIDE DEF a
  <2>2. /\ [r EXCEPT !.attachments = a] \in JobRecord
        /\ [r EXCEPT !.attachments = a].id = r.id
        /\ Bare([r EXCEPT !.attachments = a]) = Bare(r)
        /\ [r EXCEPT !.attachments = a].attachments = a
    BY <2>1, WithParts
  <2> USE DEF a
  <2>. QED
    BY <2>2
<1>6. ASSUME NEW n \in records'[p]
      PROVE  \E r \in records[p] :
               /\ n \in JobRecord /\ n.id = r.id /\ Bare(n) = Bare(r)
               /\ n.attachments = Shown(p, r.id).attachments
  BY <1>3, <1>5
<1>7. \A r \in records[p] : \E n \in records'[p] : n.id = r.id
  BY <1>3, <1>5
<1>8. CASE engine = "sqlite"
  <2>1. ShownAsSnapped(p)
    BY <1>1, <1>2, <1>8 DEF ReadStands
  <2>2. \A r \in records[p] : Shown(p, r.id) = snapshot[p][r.id]
    BY <1>1, <1>8, PartsShown
  <2>3. ASSUME NEW n \in records'[p]
        PROVE  /\ n \in JobRecord /\ n.id \in Present(Snapped(p))
               /\ Bare(n) = Bare(snapshot[p][n.id])
               /\ n.attachments = snapshot[p][n.id].attachments
    BY <1>6, <2>1, <2>2 DEF ShownAsSnapped
  <2>4. \A k \in Present(Snapped(p)) : \E n \in records'[p] : n.id = k
    BY <1>7, <2>1 DEF ShownAsSnapped
  <2>5. ShownAsSnapped(p)'
    BY <1>1, <1>4, <2>1, <2>3, <2>4 DEF ShownAsSnapped
  <2>. QED
    BY <1>1, <1>2, <1>3, <1>4, <1>8, <2>5 DEF ReadStands
<1>9. CASE engine # "sqlite"
  <2>1. ShownAsSeen(p)
    BY <1>1, <1>2, <1>9 DEF ReadStands
  <2>2. ASSUME NEW n \in records'[p]
        PROVE  /\ n \in JobRecord /\ n.id \in Wanted(p)
               /\ RowSeen(n, seen[p]) /\ AttachmentsSeen(n, seen[p])
    <3>1. PICK r \in records[p] :
            /\ n \in JobRecord /\ n.id = r.id /\ Bare(n) = Bare(r)
            /\ n.attachments = Shown(p, r.id).attachments
      BY <1>6
    <3>2. \E v \in seen[p] :
            Shown(p, r.id).attachments = IF v[r.id] = None THEN {} ELSE v[r.id].attachments
      BY <1>1, <1>9, PartsShown
    <3>3. r.id \in Wanted(p) /\ RowSeen(r, seen[p])
      BY <2>1 DEF ShownAsSeen
    <3>. QED
      BY <3>1, <3>2, <3>3 DEF RowSeen, AttachmentsSeen
  <2>3. ShownAsSeen(p)'
    BY <1>1, <1>3, <1>4, <2>1, <2>2 DEF ShownAsSeen
  <2>. QED
    BY <1>1, <1>2, <1>3, <1>4, <1>9, <2>3 DEF ReadStands
<1>. QED
  BY <1>8, <1>9

LEMMA TagsRead ==
  ASSUME PartsInv, WorkInv, ReadInv, NEW p \in Proc, ReadTags(p)
  PROVE  ReadStands(p)'
<1>0. at = [q \in Proc |-> at[q]] /\ records = [q \in Proc |-> records[q]]
  BY DEF PartsInv, ExecutionOK, WorkInv
<1>1. /\ at[p] = "read_tags" /\ Ends(p, "done")
      /\ records' = [records EXCEPT ![p] = {[r EXCEPT !.tags = Shown(p, r.id).tags] : r \in @}]
      /\ UNCHANGED <<tables, engine, seen, call>>
  BY DEF ReadTags, unchangedTables, schemaVars, tables
<1>2. /\ call[p].kind = "read" /\ ReadStands(p) /\ Current(p) \in seen[p]
  BY <1>1, ReaderSees DEF Reading
<1>3. /\ at'[p] = "done"
      /\ records'[p] = {[r EXCEPT !.tags = Shown(p, r.id).tags] : r \in records[p]}
  BY <1>0, <1>1 DEF Ends, Goto
<1>4. Wanted(p)' = Wanted(p)
  BY <1>1 DEF Wanted
<1>5. ASSUME NEW r \in records[p]
      PROVE  LET n == [r EXCEPT !.tags = Shown(p, r.id).tags] IN
             /\ n \in JobRecord /\ n.id = r.id /\ Bare(n) = Bare(r)
             /\ n.attachments = r.attachments /\ n.tags = Shown(p, r.id).tags
  <2>1. r \in JobRecord /\ Shown(p, r.id).tags \in SUBSET Tags
    BY <1>1, PartsShown
  <2>. QED
    BY <2>1, WithParts
<1>6. ASSUME NEW n \in records'[p]
      PROVE  \E r \in records[p] :
               /\ n \in JobRecord /\ n.id = r.id /\ Bare(n) = Bare(r)
               /\ n.attachments = r.attachments /\ n.tags = Shown(p, r.id).tags
  BY <1>3, <1>5
<1>7. \A r \in records[p] : \E n \in records'[p] : n.id = r.id
  BY <1>3, <1>5
<1>8. CASE engine = "sqlite"
  <2>. PICK v : v = Snapped(p)
    OBVIOUS
  <2>1. ShownAsSnapped(p) /\ v \in seen[p]
    BY <1>1, <1>2, <1>8 DEF ReadStands, ShownAsSnapped
  <2>2. \A r \in records[p] : Shown(p, r.id) = snapshot[p][r.id] /\ snapshot[p][r.id] \in JobRecord
    BY <1>1, <1>8, PartsShown
  <2>3. ASSUME NEW n \in records'[p]
        PROVE  n.id \in Present(v) /\ n = v[n.id]
    <3>1. PICK r \in records[p] :
            /\ n \in JobRecord /\ n.id = r.id /\ Bare(n) = Bare(r)
            /\ n.attachments = r.attachments /\ n.tags = Shown(p, r.id).tags
      BY <1>6
    <3>2. /\ r.id \in Present(v) /\ Bare(r) = Bare(snapshot[p][r.id])
          /\ r.attachments = snapshot[p][r.id].attachments
      BY <1>1, <2>1 DEF ShownAsSnapped
    <3>3. snapshot[p][r.id] \in JobRecord /\ n.tags = snapshot[p][r.id].tags
      BY <2>2, <3>1
    <3>4. n = snapshot[p][r.id]
      BY <3>1, <3>2, <3>3, SameRecord
    <3>5. v[r.id] = snapshot[p][r.id]
      BY <3>2 DEF Snapped, Present
    <3>. QED
      BY <3>1, <3>2, <3>4, <3>5
  <2>4. \A k \in Present(v) : \E n \in records'[p] : n.id = k
    BY <1>7, <2>1 DEF ShownAsSnapped
  <2>5. records'[p] = {v[j] : j \in Present(v)}
    BY <2>3, <2>4
  <2>. QED
    BY <1>1, <1>3, <1>8, <2>1, <2>5 DEF ReadStands, Reading
<1>9. CASE engine # "sqlite"
  <2>1. ShownAsSeen(p)
    BY <1>1, <1>2, <1>9 DEF ReadStands
  <2>2. ASSUME NEW n \in records'[p]
        PROVE  /\ n \in JobRecord /\ n.id \in Wanted(p)
               /\ RowSeen(n, seen[p]) /\ AttachmentsSeen(n, seen[p]) /\ TagsSeen(n, seen[p])
    <3>1. PICK r \in records[p] :
            /\ n \in JobRecord /\ n.id = r.id /\ Bare(n) = Bare(r)
            /\ n.attachments = r.attachments /\ n.tags = Shown(p, r.id).tags
      BY <1>6
    <3>2. \E v \in seen[p] :
            Shown(p, r.id).tags = IF v[r.id] = None THEN {} ELSE v[r.id].tags
      BY <1>1, <1>9, PartsShown
    <3>3. r.id \in Wanted(p) /\ RowSeen(r, seen[p]) /\ AttachmentsSeen(r, seen[p])
      BY <1>1, <2>1 DEF ShownAsSeen
    <3>. QED
      BY <3>1, <3>2, <3>3 DEF RowSeen, AttachmentsSeen, TagsSeen
  <2>3. ShownAsSeen(p)'
    BY <1>1, <1>3, <1>4, <2>2 DEF ShownAsSeen
  <2>. QED
    BY <1>1, <1>3, <1>9, <2>3 DEF ReadStands, Reading
<1>. QED
  BY <1>8, <1>9

LEMMA FetchBegins ==
  ASSUME PartsInv, ReadInv, NEW p \in Proc, fetch(p)
  PROVE  ReadStands(p)'
<1>0. /\ at = [q \in Proc |-> at[q]] /\ call = [q \in Proc |-> call[q]]
      /\ seen = [q \in Proc |-> seen[q]]
  BY DEF PartsInv, ExecutionOK, ReadInv
<1>1. PICK j \in Known \cup {None} :
        /\ Begins(p, "rows", [NoCall EXCEPT !.kind = "read", !.job = j])
        /\ seen' = [seen EXCEPT ![p] =
             {[k \in (IF j = None THEN JobId ELSE {j}) |-> Visible[k]]}]
  BY DEF fetch
<1>2. at'[p] = "rows" /\ call'[p].job = j /\ UNCHANGED tables
  BY <1>0, <1>1 DEF Begins, Goto, NoCall
<1>3. seen'[p] = {[k \in (IF j = None THEN JobId ELSE {j}) |-> Visible[k]]}
  BY <1>0, <1>1
<1>4. Current(p)' = [k \in (IF j = None THEN JobId ELSE {j}) |-> Visible[k]]
  BY <1>2, SameTables DEF Current, Wanted
<1>. QED
  BY <1>2, <1>3, <1>4 DEF ReadStands

LEMMA ReadsKept ==
  ASSUME PartsInv, WorkInv, ReadInv, NEW p \in Proc, Operating(p)
  PROVE  ReadInv'
<1>0. /\ at = [q \in Proc |-> at[q]] /\ call = [q \in Proc |-> call[q]]
      /\ snapshot = [q \in Proc |-> snapshot[q]] /\ seen = [q \in Proc |-> seen[q]]
      /\ PreparedFor(at[p], call[p], pending[p])
  BY DEF PartsInv, ExecutionOK, ReadInv
<1>1. /\ snapshot' = [q \in Proc |-> snapshot'[q]]
      /\ seen' = [q \in Proc |-> seen'[q]]
  <2>1. CASE \/ fetch(p) \/ ReadRows(p) \/ ReadAttachments(p) \/ ReadTags(p) \/ upsert(p)
             \/ claim_next_submitted(p) \/ transition(p) \/ remove(p) \/ Return(p) \/ Fails(p)
             \/ Misses(p)
    BY <1>0, <2>1
    DEF fetch, ReadRows, ReadAttachments, ReadTags, upsert, claim_next_submitted, transition,
        remove, Return, Fails, Misses, Begins, Ends, unchangedTables
  <2>2. CASE \/ UpsertRow(p) \/ InsertOrUpdate(p) \/ ReplaceAttachments(p) \/ ReplaceTags(p)
             \/ SelectBest(p) \/ UpdateClaimed(p)
    BY <1>0, <2>2
    DEF UpsertRow, InsertOrUpdate, ReplaceAttachments, ReplaceTags, SelectBest,
        UpdateClaimed, Ends, unchangedTables
  <2>3. CASE commit(p) \/ UpdateState(p) \/ DeleteRow(p)
    BY <1>0, <2>3 DEF commit, UpdateState, DeleteRow, Commit, Ends
  <2>. QED
    BY <2>1, <2>2, <2>3 DEF Operating
<1>2. ASSUME NEW q \in Proc \ {p}, call'[q].kind = "read" PROVE ReadStands(q)'
  <2>1. call[q].kind = "read"
    BY <1>2, StepFrame
  <2>. QED
    BY <1>2, <2>1, OthersRead
<1>3. ASSUME call'[p].kind = "read" PROVE ReadStands(p)'
  <2>1. CASE fetch(p) \/ ReadRows(p) \/ ReadAttachments(p) \/ ReadTags(p)
    BY <2>1, FetchBegins, RowsRead, AttachmentsRead, TagsRead
  <2>2. CASE Fails(p)
    <3>1. at'[p] = "failed"
      BY <1>0, <2>2 DEF Fails, Ends, Goto
    <3>. QED
      BY <3>1 DEF ReadStands, Reading
  <2>3. CASE upsert(p) \/ claim_next_submitted(p) \/ transition(p) \/ remove(p) \/ Return(p)
    <3>1. \E c : c.kind # "read" /\ call' = [call EXCEPT ![p] = c]
      BY <2>3
      DEF upsert, claim_next_submitted, transition, remove, Return, Begins, NoCall
    <3>. QED
      BY <1>0, <1>3, <3>1
  <2>4. CASE \/ UpsertRow(p) \/ InsertOrUpdate(p) \/ ReplaceAttachments(p) \/ ReplaceTags(p)
             \/ commit(p) \/ UpdateClaimed(p) \/ UpdateState(p) \/ DeleteRow(p)
    <3>1. call' = call /\ call[p].kind # "read"
      BY <1>0, <2>4
      DEF UpsertRow, InsertOrUpdate, ReplaceAttachments, ReplaceTags, commit, UpdateClaimed,
          UpdateState, DeleteRow, PreparedFor, Upserting
    <3>. QED
      BY <1>3, <3>1
  <2>5. CASE SelectBest(p)
    <3>1. call[p] = [NoCall EXCEPT !.kind = "claim"]
      BY <1>0, <2>5 DEF SelectBest, PreparedFor
    <3>2. call' = call \/ \E j : call' = [call EXCEPT ![p].job = j]
      BY <2>5 DEF SelectBest
    <3>3. call'[p].kind = "claim"
      <4>1. [NoCall EXCEPT !.kind = "claim"] =
              [kind |-> "claim", job |-> None, record |-> None, transition |-> None]
        BY DEF NoCall
      <4>. QED
        BY <1>0, <3>1, <3>2, <4>1
    <3>. QED
      BY <1>3, <3>3
  <2>6. CASE Misses(p)
    <3>1. /\ at'[p] = "missed" /\ call' = call /\ records'[p] = {}
          /\ (at[p] = "rows" /\ call[p].job # None) \/ at[p] = "select"
      BY <1>0, <2>6 DEF Misses, Ends, Goto, WorkInv
    <3>2. at[p] # "select"
      BY <1>0, <1>3, <3>1 DEF PreparedFor, NoCall
    <3>. QED
      BY <3>1, <3>2 DEF ReadStands, Reading
  <2>. QED
    BY <2>1, <2>2, <2>3, <2>4, <2>5, <2>6 DEF Operating
<1>. QED
  BY <1>1, <1>2, <1>3 DEF ReadInv, ReadsOK

LEMMA ReadNext == PartsInv /\ WorkInv /\ ReadInv /\ [Next]_vars => ReadInv'
<1>. SUFFICES ASSUME PartsInv, WorkInv, ReadInv, [Next]_vars PROVE ReadInv'
  OBVIOUS
<1>1. ASSUME UNCHANGED <<engine, tables, execution, history>> PROVE ReadInv'
  <2>1. UNCHANGED <<engine, at, call, records, snapshot, seen>> /\ Visible' = Visible
    BY <1>1, SameTables DEF execution, history
  <2>2. ASSUME NEW q \in Proc, ReadStands(q) PROVE ReadStands(q)'
    <3>1. Wanted(q)' = Wanted(q) /\ Current(q)' = Current(q) /\ Snapped(q)' = Snapped(q)
      BY <2>1 DEF Wanted, Current, Snapped
    <3>2. (ShownAsSnapped(q) => ShownAsSnapped(q)') /\ (ShownAsSeen(q) => ShownAsSeen(q)')
      BY <2>1, <3>1 DEF ShownAsSnapped, ShownAsSeen
    <3>. QED
      BY <2>1, <2>2, <3>1, <3>2 DEF ReadStands
  <2>. QED
    BY <2>1, <2>2 DEF ReadInv, ReadsOK
<1>2. CASE UNCHANGED vars
  BY <1>1, <1>2 DEF vars, schemaVars
<1>3. CASE \E p \in Proc : Opening(p) /\ UNCHANGED <<tables, execution, history>>
  BY <1>1, <1>3
  DEF Opening, open, CreateVersionTable, InsertVersion, read_schema_version, Migrate,
      OpenerFails
<1>4. CASE \E p \in Proc : Operating(p)
  BY <1>4, ReadsKept
<1>. QED
  BY <1>2, <1>3, <1>4 DEF Next

\* With SQLite a reader, single record or list, gets what was stored at one
\* moment of its three statements, or nothing for a single record whose select
\* failed; with SQL Server rows, attachments and tags that each were at some
\* moment.
THEOREM ReadersSeeWhole == Spec => []ReadsWhole
<1>1. ReadInv => ReadsWhole
  <2>. SUFFICES ASSUME ReadInv, NEW p \in Proc, call[p].kind = "read", at[p] \in {"done", "missed"}
                PROVE  IF engine = "sqlite"
                       THEN \/ \E v \in seen[p] :
                                 records[p] = {v[j] : j \in {k \in DOMAIN v : v[k] # None}}
                            \/ at[p] = "missed" /\ call[p].job # None /\ records[p] = {}
                       ELSE \A r \in records[p] :
                              /\ RowSeen(r, seen[p])
                              /\ AttachmentsSeen(r, seen[p])
                              /\ TagsSeen(r, seen[p])
    BY DEF ReadsWhole, RowSeen, AttachmentsSeen, TagsSeen
  <2>1. ReadStands(p)
    BY DEF ReadInv, ReadsOK
  <2>2. CASE at[p] = "missed"
    BY <2>1, <2>2 DEF ReadStands
  <2>3. CASE at[p] = "done"
    BY <2>1, <2>3 DEF ReadStands, ShownAsSeen, Present
  <2>. QED
    BY <2>2, <2>3
<1>. QED
  BY <1>1, PartsInvInit, PartsInvNext, FoundNext, WorkInit, WorkNext, ReadInit, ReadNext, PTL DEF Spec
=============================================================================
