---------------------------- MODULE SqlRepository ----------------------------
(***************************************************************************)
(* SqliteJobRepository and SqlServerJobRepository                          *)
(* (job_repository_sqlite.cpp, job_repository_sqlserver.cpp): a jobs table *)
(* and the tables of its attachments and tags, used by any number of       *)
(* processes, each with a connection that does one operation at a time.    *)
(* An operation is a few statements, in a transaction or not.              *)
(*                                                                         *)
(* The engines differ in who waits for whom.  SQLite (WAL): a transaction  *)
(* begins IMMEDIATE and is then the only writer; a reader sees the         *)
(* database of its first statement until that one is finished.  SQL Server *)
(* (READ COMMITTED): a writer has the locks of the rows it wrote, in each  *)
(* of the three tables, until it commits, a reader waits for them, and     *)
(* each statement sees what is committed by then.  What a transaction      *)
(* wrote is in pending until it commits.  The clock stands still.          *)
(***************************************************************************)
EXTENDS SqlSchema, JobRecord

CONSTANTS
  Parts,        \* Parts[j]: the attachments and tags a caller may upsert for j, as pairs
  Transitions,  \* the pairs of state and error handed to transition
  Known,        \* the jobs that are read, changed and removed by id
  MaxAttempts   \* bound of a job's attempt counter

ASSUME OperationsAssumption ==
  /\ None \notin JobRecord
  /\ \A S \in (SUBSET Attachments) \cup (SUBSET Tags) : S # None
  /\ None \notin [row : JobRecord \cup {None}, attachments : (SUBSET Attachments) \cup {None},
                  tags : (SUBSET Tags) \cup {None}]
  /\ None \notin [JobId -> JobRecord \cup {None}]
  /\ Parts \in [JobId -> SUBSET ((SUBSET Attachments) \X (SUBSET Tags))]
  /\ Transitions \subseteq JobState \X (Messages \cup {None})
  /\ Known \subseteq JobId

VARIABLES
  rows,         \* rows[j]: the row of j in jobs, or None
  attachments,  \* attachments[j]: the values of j's rows in attachments
  tags,         \* tags[j]: the values of j's rows in tags
  at,           \* at[p]: the next statement of p
  call,         \* call[p]: the operation of p: [kind, job, record, transition]
  pending,      \* pending[p]: what p's transaction wrote of its job, None for each part
                \* it did not write, or None without a transaction
  snapshot,     \* snapshot[p]: the tables SQLite shows to p's reader, or None
  records,      \* records[p]: what p has read, or claimed
  others,       \* others[p]: the job p writes was created or removed meanwhile, or the
                \* parts of the one it claims were replaced
  seen          \* seen[p]: what the jobs p reads have been meanwhile

tables == <<rows, attachments, tags>>
execution == <<at, call, pending, snapshot, records>>
history == <<others, seen>>
vars == <<schemaVars, tables, execution, history>>

Whole(row, a, t) == IF row = None THEN None ELSE [row EXCEPT !.attachments = a, !.tags = t]
Bare(record) == [record EXCEPT !.attachments = {}, !.tags = {}]

\* the records in the tables
Visible == [j \in JobId |-> Whole(rows[j], attachments[j], tags[j])]

Table == INSTANCE JobRepository WITH jobs <- Visible, now <- 0, MaxTime <- 0

NoCall == [kind |-> "none", job |-> None, record |-> None, transition |-> None]

Init ==
  /\ SchemaInit
  /\ rows = [j \in JobId |-> None]
  /\ attachments = [j \in JobId |-> {}] /\ tags = [j \in JobId |-> {}]
  /\ at = [p \in Proc |-> "idle"] /\ call = [p \in Proc |-> NoCall]
  /\ pending = [p \in Proc |-> None] /\ snapshot = [p \in Proc |-> None]
  /\ records = [p \in Proc |-> {}]
  /\ others = [p \in Proc |-> FALSE] /\ seen = [p \in Proc |-> {}]

-----------------------------------------------------------------------------
(* Locks and steps.                                                        *)

Over == {"done", "missed", "threw", "failed"}

Goto(p, place) == at' = [at EXCEPT ![p] = place]
SetPending(p, row, a, t) ==
  pending' = [pending EXCEPT ![p] = [row |-> row, attachments |-> a, tags |-> t]]

\* the locks of q's transaction: the row of job j; old and new rows of its
\* attachments and of its tags
HasRow(q, j) == pending[q] # None /\ call[q].job = j /\ pending[q].row # None
HasAttachments(q, j) ==
  /\ pending[q] # None /\ call[q].job = j /\ pending[q].attachments # None
  /\ pending[q].attachments \cup attachments[j] # {}
HasTags(q, j) ==
  /\ pending[q] # None /\ call[q].job = j /\ pending[q].tags # None
  /\ pending[q].tags \cup tags[j] # {}
HasParts(q, j) == HasAttachments(q, j) \/ HasTags(q, j)

Others(p) == Proc \ {p}
LockedByOther(p, j) == \E q \in Others(p) : HasRow(q, j)

\* p may write the row of job j now
MayWrite(p, j) ==
  IF engine = "sqlite" THEN \A q \in Others(p) : pending[q] = None
  ELSE ~LockedByOther(p, j)

\* The tables change to what the next operators give; every reader sees one
\* more moment, and every other operation on j learns that j came or went.
Commit(p, j, row, a, t) ==
  LET v == [Visible EXCEPT ![j] = Whole(row, a, t)] IN
  /\ rows' = [rows EXCEPT ![j] = row]
  /\ attachments' = [attachments EXCEPT ![j] = a]
  /\ tags' = [tags EXCEPT ![j] = t]
  /\ seen' = [q \in Proc |-> IF at[q] \in Over THEN seen[q]
                              ELSE {[k \in DOMAIN w |-> v[k]] : w \in seen[q]} \cup seen[q]]
  /\ others' = [q \in Proc |-> \/ others[q]
                               \/ /\ q # p /\ call[q].job = j
                                  /\ \/ /\ call[q].kind \in {"upsert", "transition"}
                                        /\ row = None <=> rows[j] # None
                                     \/ /\ call[q].kind = "claim"
                                        /\ <<a, t>> # <<attachments[j], tags[j]>>]

\* the operation ends: it returns ("done"), returns nothing because its select
\* failed ("missed"), throws ("threw"), or the database failed it ("failed")
Ends(p, how) ==
  /\ Goto(p, how)
  /\ pending' = [pending EXCEPT ![p] = None]
  /\ snapshot' = [snapshot EXCEPT ![p] = None]

unchangedTables == <<schemaVars, tables, others, seen>>

Begins(p, place, c) ==
  /\ at[p] = "idle"
  /\ \A q \in Proc : Opened(q)     \* bound: nobody works before all have opened
  /\ Goto(p, place)
  /\ call' = [call EXCEPT ![p] = c]
  /\ UNCHANGED <<schemaVars, tables, pending, snapshot, records, others>>

\* the caller takes the result
Return(p) ==
  /\ at[p] \in Over
  /\ Goto(p, "idle")
  /\ call' = [call EXCEPT ![p] = NoCall]
  /\ records' = [records EXCEPT ![p] = {}]
  /\ others' = [others EXCEPT ![p] = FALSE]
  /\ seen' = [seen EXCEPT ![p] = {}]
  /\ UNCHANGED <<schemaVars, tables, pending, snapshot>>

\* a statement fails, or the lock is not free in time: the destructor of the
\* transaction rolls back (so does the engine when the process dies)
Fails(p) ==
  /\ at[p] \notin Over \cup {"idle"}
  /\ Ends(p, "failed")
  /\ records' = [records EXCEPT ![p] = {}]
  /\ UNCHANGED <<unchangedTables, call>>

\* SQLite's select of one job, or of the next to claim, takes every answer that
\* is not a row for "no such job", a failure too
Misses(p) ==
  /\ engine = "sqlite"
  /\ \/ at[p] = "rows" /\ call[p].job # None
     \/ at[p] = "select" /\ MayWrite(p, None)
  /\ Ends(p, "missed")
  /\ records' = [records EXCEPT ![p] = {}]
  /\ UNCHANGED <<unchangedTables, call>>

-----------------------------------------------------------------------------
(* fetch and list: the rows, then the attachments and the tags of each.    *)

\* kind "fetch" of one job, or "list" of all jobs
fetch(p) ==
  \E j \in Known \cup {None} :
    /\ Begins(p, "rows", [NoCall EXCEPT !.kind = "read", !.job = j])
    /\ seen' = [seen EXCEPT ![p] = {[k \in (IF j = None THEN JobId ELSE {j}) |-> Visible[k]]}]

Wanted(p) == IF call[p].job = None THEN JobId ELSE {call[p].job}

\* Fault a mutant of PROJECT.json plants in the definition below: the statement
\* is finished before the parts are read.
ReadRowsFinished(p) ==
  LET found == {j \in Wanted(p) : rows[j] # None} IN
  /\ at[p] = "rows"
  /\ engine = "sqlite" \/ \A j \in Wanted(p) : ~LockedByOther(p, j)
  /\ records' = [records EXCEPT ![p] = {rows[j] : j \in found}]
  /\ Goto(p, IF found = {} THEN "done" ELSE "read_attachments")
  /\ UNCHANGED <<unchangedTables, call, pending, snapshot>>

ReadRows(p) ==
  LET found == {j \in Wanted(p) : rows[j] # None} IN
  /\ at[p] = "rows"
  /\ engine = "sqlite" \/ \A j \in Wanted(p) : ~LockedByOther(p, j)
  /\ records' = [records EXCEPT ![p] = {rows[j] : j \in found}]
  /\ snapshot' = [snapshot EXCEPT ![p] = IF engine = "sqlite" THEN Visible ELSE None]
  /\ Goto(p, IF found = {} THEN "done" ELSE "read_attachments")
  /\ UNCHANGED <<unchangedTables, call, pending>>

\* what p sees of the parts of job j
Shown(p, j) ==
  IF snapshot[p] # None THEN snapshot[p][j]
  ELSE [attachments |-> attachments[j], tags |-> tags[j]]

\* SQL Server's reader waits for writers of what it reads
ReadAttachments(p) ==
  /\ at[p] = "read_attachments"
  /\ engine = "sqlite" \/ \A r \in records[p], q \in Others(p) : ~HasAttachments(q, r.id)
  /\ records' = [records EXCEPT ![p] =
       {[r EXCEPT !.attachments = Shown(p, r.id).attachments] : r \in @}]
  /\ Goto(p, "read_tags")
  /\ UNCHANGED <<unchangedTables, call, pending, snapshot>>

ReadTags(p) ==
  /\ at[p] = "read_tags"
  /\ engine = "sqlite" \/ \A r \in records[p], q \in Others(p) : ~HasTags(q, r.id)
  /\ records' = [records EXCEPT ![p] =
       {[r EXCEPT !.tags = Shown(p, r.id).tags] : r \in @}]
  /\ Ends(p, "done")
  /\ UNCHANGED <<unchangedTables, call>>

-----------------------------------------------------------------------------
(* upsert: the row, the attachments, the tags, in one transaction.         *)

\* the caller's record: a new one, or what is stored with other parts
upsert(p) ==
  \E j \in JobId, v \in Priorities : \E parts \in Parts[j] :
    LET fresh == [ id |-> j, state |-> "Submitted", priority |-> v, due |-> None,
                   created |-> 0, updated |-> 0, lastAttempt |-> None, attempts |-> 0,
                   error |-> None, correlation |-> None, attachments |-> {}, tags |-> {} ]
        base == IF rows[j] = None THEN fresh ELSE [rows[j] EXCEPT !.priority = v]
    IN  /\ Begins(p, "exists", [NoCall EXCEPT !.kind = "upsert", !.job = j,
                                  !.record = Whole(base, parts[1], parts[2])])
        /\ UNCHANGED seen

\* Fault a mutant of PROJECT.json plants in the definition below: SQLite looks
\* first as well.
UpsertRowLooking(p) ==
  LET j == call[p].job IN
  /\ at[p] = "exists"
  /\ MayWrite(p, j)
  /\ Goto(p, IF rows[j] = None THEN "insert" ELSE "update_row")
  /\ UNCHANGED <<unchangedTables, call, pending, snapshot, records>>

\* SQLite begins the transaction and writes the row in one statement, INSERT OR
\* UPDATE; SQL Server looks first, and reads past no lock
UpsertRow(p) ==
  LET j == call[p].job IN
  /\ at[p] = "exists"
  /\ MayWrite(p, j)
  /\ IF engine = "sqlite"
     THEN Goto(p, "attachments") /\ SetPending(p, Bare(call[p].record), None, None)
     ELSE Goto(p, IF rows[j] = None THEN "insert" ELSE "update_row") /\ UNCHANGED pending
  /\ UNCHANGED <<unchangedTables, call, snapshot, records>>

\* SQL Server: an insert finds the key taken and throws; an update of a row that
\* is gone writes nothing, has no lock of it, and the transaction goes on
InsertOrUpdate(p) ==
  LET j == call[p].job
      taken == at[p] = "insert" /\ rows[j] # None
      gone == at[p] = "update_row" /\ rows[j] = None
  IN
  /\ at[p] \in {"insert", "update_row"}
  /\ MayWrite(p, j)
  /\ \/ taken /\ Ends(p, "threw")
     \/ /\ ~taken
        /\ SetPending(p, IF gone THEN None ELSE Bare(call[p].record), None, None)
        /\ Goto(p, "attachments")
        /\ UNCHANGED snapshot
  /\ UNCHANGED <<unchangedTables, call, records>>

(* The old attachments (tags) go and the new ones come.  Without the row, to   *)
(* insert takes that there is one and nobody has its lock, and throws if there *)
(* is none, or if somebody inserted others after the delete; with nothing to   *)
(* delete and nothing to insert it writes nothing.                             *)

WithoutRow(p) == pending[p].row = None
MayInsert(p, new) == WithoutRow(p) /\ new # {} => MayWrite(p, call[p].job)
InsertThrows(p, old, new) ==
  WithoutRow(p) /\ new # {} /\ (rows[call[p].job] = None \/ old # {})
Replaced(p, old, new) == IF WithoutRow(p) /\ old \cup new = {} THEN None ELSE new

\* Fault a mutant of PROJECT.json plants in the definition below: the statements
\* commit on their own.
ReplaceAttachmentsAtOnce(p) ==
  LET j == call[p].job IN
  /\ at[p] = "attachments"
  /\ SetPending(p, pending[p].row, call[p].record.attachments, pending[p].tags)
  /\ Commit(p, j, rows[j], IF rows[j] = None THEN {} ELSE call[p].record.attachments, tags[j])
  /\ Goto(p, "tags")
  /\ UNCHANGED <<schemaVars, call, snapshot, records>>

ReplaceAttachments(p) ==
  LET old == attachments[call[p].job]
      new == call[p].record.attachments
  IN
  /\ at[p] = "attachments"
  /\ MayInsert(p, new) /\ \A q \in Others(p) : ~HasAttachments(q, call[p].job)
  /\ \/ InsertThrows(p, old, new) /\ Ends(p, "threw")
     \/ /\ WithoutRow(p) /\ new # {} => rows[call[p].job] # None
        /\ SetPending(p, pending[p].row, Replaced(p, old, new), pending[p].tags)
        /\ Goto(p, "tags")
        /\ UNCHANGED snapshot
  /\ UNCHANGED <<unchangedTables, call, records>>

ReplaceTags(p) ==
  LET old == tags[call[p].job]
      new == call[p].record.tags
  IN
  /\ at[p] = "tags"
  /\ MayInsert(p, new) /\ \A q \in Others(p) : ~HasTags(q, call[p].job)
  /\ \/ InsertThrows(p, old, new) /\ Ends(p, "threw")
     \/ /\ WithoutRow(p) /\ new # {} => rows[call[p].job] # None
        /\ SetPending(p, pending[p].row, pending[p].attachments, Replaced(p, old, new))
        /\ Goto(p, "commit")
        /\ UNCHANGED snapshot
  /\ UNCHANGED <<unchangedTables, call, records>>

\* what is stored once a transaction that wrote new, or nothing, commits
Settled(new, old) == IF new = None THEN old ELSE new

commit(p) ==
  LET j == call[p].job
      t == pending[p]
  IN
  /\ at[p] = "commit"
  /\ Commit(p, j, Settled(t.row, rows[j]), Settled(t.attachments, attachments[j]),
            Settled(t.tags, tags[j]))
  /\ Ends(p, "done")
  /\ UNCHANGED <<schemaVars, call, records>>

-----------------------------------------------------------------------------
(* claim_next_submitted, transition and remove.                            *)

claim_next_submitted(p) ==
  /\ Begins(p, "select", [NoCall EXCEPT !.kind = "claim"])
  /\ UNCHANGED seen

\* SQLite has the write lock by then; SQL Server reads past the jobs others
\* have locked and locks the one it takes
SelectBest(p) ==
  LET free == {r \in Table!list({"Submitted"}) : engine = "sqlite" \/ ~LockedByOther(p, r.id)}
  IN
  /\ at[p] = "select"
  /\ engine = "sqlite" => MayWrite(p, None)
  /\ \A r \in free : r.attempts < MaxAttempts
  /\ \/ free = {} /\ Ends(p, "done") /\ UNCHANGED call
     \/ \E r \in free :
          /\ IsBest(r, free)
          /\ call' = [call EXCEPT ![p].job = r.id]
          /\ SetPending(p, rows[r.id], None, None)
          /\ Goto(p, "update")
          /\ UNCHANGED snapshot
  /\ UNCHANGED <<unchangedTables, records>>

\* the row is written and the record read again, with its parts; SQL Server
\* throws if the row it locked is not there
UpdateClaimed(p) ==
  LET j == call[p].job
      row == Table!Claimed(pending[p].row, "Validating")
  IN
  /\ at[p] = "update"
  /\ IF rows[j] = None
     THEN Ends(p, "threw") /\ UNCHANGED records
     ELSE /\ \A q \in Others(p) : ~HasParts(q, j)
          /\ Goto(p, "commit")
          /\ SetPending(p, row, None, None)
          /\ records' = [records EXCEPT ![p] = {Whole(row, attachments[j], tags[j])}]
          /\ UNCHANGED snapshot
  /\ UNCHANGED <<unchangedTables, call>>

transition(p) ==
  \E j \in Known, t \in Transitions :
    /\ Begins(p, "transition", [NoCall EXCEPT !.kind = "transition", !.job = j,
                                              !.transition = t])
    /\ UNCHANGED seen

\* one UPDATE and its commit; SQL Server throws when it changed no row
UpdateState(p) ==
  LET j == call[p].job
      t == call[p].transition
      missing == rows[j] = None
  IN
  /\ at[p] = "transition"
  /\ MayWrite(p, j)
  /\ Commit(p, j, IF missing THEN None ELSE Table!Transitioned(rows[j], t[1], t[2]),
            attachments[j], tags[j])
  /\ Ends(p, IF missing /\ engine = "sqlserver" THEN "threw" ELSE "done")
  /\ UNCHANGED <<schemaVars, call, records>>

remove(p) ==
  \E j \in Known :
    /\ Begins(p, "delete", [NoCall EXCEPT !.kind = "remove", !.job = j])
    /\ UNCHANGED seen

\* Fault a mutant of PROJECT.json plants in the definition below: foreign keys are
\* not switched on.
DeleteRowOnly(p) ==
  LET j == call[p].job IN
  /\ at[p] = "delete"
  /\ MayWrite(p, j)
  /\ Commit(p, j, None, attachments[j], tags[j])
  /\ Ends(p, "done")
  /\ UNCHANGED <<schemaVars, call, records>>

\* one DELETE, outside any transaction; the foreign keys take the parts along
DeleteRow(p) ==
  /\ at[p] = "delete"
  /\ MayWrite(p, call[p].job) /\ \A q \in Others(p) : ~HasParts(q, call[p].job)
  /\ Commit(p, call[p].job, None, {}, {})
  /\ Ends(p, "done")
  /\ UNCHANGED <<schemaVars, call, records>>

Operating(p) ==
  \/ fetch(p) \/ ReadRows(p) \/ ReadAttachments(p) \/ ReadTags(p)
  \/ upsert(p) \/ UpsertRow(p) \/ InsertOrUpdate(p)
  \/ ReplaceAttachments(p) \/ ReplaceTags(p) \/ commit(p)
  \/ claim_next_submitted(p) \/ SelectBest(p) \/ UpdateClaimed(p)
  \/ transition(p) \/ UpdateState(p) \/ remove(p) \/ DeleteRow(p)
  \/ Return(p) \/ Fails(p) \/ Misses(p)

Next ==
  \E p \in Proc :
    \/ Opening(p) /\ UNCHANGED <<tables, execution, history>>
    \/ Operating(p)

Spec == Init /\ [][Next]_vars

-----------------------------------------------------------------------------
(* Correctness.                                                            *)

\* p's upsert found its row gone and put parts of its own to the row that is
\* stored under the id since then: all, some or none
PartsOnly(p) ==
  LET j == call[p].job
      r == call[p].record
  IN
  /\ engine = "sqlserver" /\ others[p] /\ WithoutRow(p)
  /\ \E a \in {attachments[j], r.attachments}, t \in {tags[j], r.tags} :
       Visible' = [Visible EXCEPT ![j] = Whole(rows[j], a, t)]

\* Each operation of either engine changes the tables as a repository promises
\* and in one step, at its commit, whichever of its statements fails and
\* whatever others do between them, but for an upsert of SQL Server whose job
\* was removed between its look and its update, which may leave its parts with
\* the row of another.  A claim that commits returns the record it stored and
\* had found submitted, on SQLite the best one, but for the parts such an
\* upsert replaced meanwhile.
RepositoryImplemented ==
  [][ \/ UNCHANGED Visible
      \/ \E p \in Proc :
           LET c == call[p] IN
           /\ at[p] # "done" /\ at'[p] = "done"
           /\ CASE c.kind = "upsert" -> Table!Upsert(c.record) \/ PartsOnly(p)
                [] c.kind = "transition" ->
                     Table!Transition(c.job, c.transition[1], c.transition[2])
                [] c.kind = "remove" -> Table!Remove(c.job)
                [] c.kind = "claim" ->
                     /\ IF others[p] THEN {Bare(r) : r \in records[p]} = {Bare(Visible'[c.job])}
                        ELSE records[p] = {Visible'[c.job]}
                     /\ \E r \in Table!list({"Submitted"}) :
                          /\ Visible' = [Visible EXCEPT ![r.id] = Table!Claimed(r, "Validating")]
                          /\ engine = "sqlite" => ~others[p] /\ Table!Claim(r, "Validating")
                [] c.kind = "read" -> FALSE
    ]_vars

\* What a reader returns: with SQLite the records of one moment of its
\* operation, or of one job nothing, when its select failed; with SQL Server
\* rows, attachments and tags that were each stored at some moment of it, not
\* always the same one.
ReadsWhole ==
  \A p \in Proc : call[p].kind = "read" /\ at[p] \in {"done", "missed"} =>
    LET At(v) == {v[j] : j \in {k \in DOMAIN v : v[k] # None}} IN
    IF engine = "sqlite"
    THEN \/ \E v \in seen[p] : records[p] = At(v)
         \/ at[p] = "missed" /\ call[p].job # None /\ records[p] = {}
    ELSE \A r \in records[p] :
           /\ \E v \in seen[p] : v[r.id] # None /\ Bare(v[r.id]) = Bare(r)
           /\ \E v \in seen[p] : r.attachments = IF v[r.id] = None THEN {} ELSE v[r.id].attachments
           /\ \E v \in seen[p] : r.tags = IF v[r.id] = None THEN {} ELSE v[r.id].tags

\* Attachments and tags belong to a stored job: a job created again under an
\* id that was removed does not inherit any.
NoOrphanParts ==
  \A j \in JobId : rows[j] = None => attachments[j] = {} /\ tags[j] = {}

\* An operation throws because the database failed, or, with SQL Server only,
\* because the job of a transition is not there or that of an upsert came or
\* went meanwhile.  A claim never throws for what others do.
ThrowsExplained ==
  \A p \in Proc : at[p] = "threw" =>
    /\ engine = "sqlserver"
    /\ \/ call[p].kind = "upsert" /\ others[p]
       \/ call[p].kind = "transition" /\ (rows[call[p].job] = None \/ others[p])
=============================================================================
