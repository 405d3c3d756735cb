--------------------------- MODULE JobServiceProofs ---------------------------
(***************************************************************************)
(* What JobService keeps true for every number of callers, jobs, crashes   *)
(* and every set of operations: the types, and the coherence of the stored *)
(* records and of the copies on their way back to the repository.          *)
(***************************************************************************)
EXTENDS JobService, TLAPS

\* A record that may be stored or written back.
Good(r) ==
  r \in JobRecord /\ r.id \in issued /\ ErrorMatchesState(r) /\ HistoryCoherent(r)

\* The inductive invariant: what is stored is good and under its own id, what
\* is about to be written is good, and the rest has its type.
JobsOK ==
  /\ now \in 0 .. MaxTime
  /\ issued \in SUBSET JobId
  /\ jobs \in [JobId -> JobRecord \cup {None}]
  /\ \A j \in JobId : Stored(j) => jobs[j].id = j /\ Good(jobs[j])

CopiesOK ==
  /\ upserts \in [Proc -> SUBSET JobRecord]
  /\ \A p \in Proc : \A r \in upserts[p] : Good(r)

ControlOK ==
  /\ resumes \in [Proc -> SUBSET JobId]
  /\ removals \in [Proc -> SUBSET Removal]
  /\ event \in [Proc -> Event \cup {None}]
  /\ announced \in [JobId -> JobState \cup {None}]
  /\ crashes \in 0 .. MaxCrashes

IInv == JobsOK /\ CopiesOK /\ ControlOK

-----------------------------------------------------------------------------
(* Records.                                                                *)

\* What is stored is good.
LEMMA StoredGood ==
  ASSUME JobsOK, NEW j \in JobId, Stored(j)
  PROVE  jobs[j].id = j /\ Good(jobs[j])
BY DEF JobsOK

\* The records list returns are stored, good, and in a state of the filter.
LEMMA Listed ==
  ASSUME JobsOK, NEW states, NEW r \in list(states)
  PROVE  r.id \in JobId /\ Stored(r.id) /\ jobs[r.id] = r /\ Good(r) /\ r.state \in states
<1>1. PICK j \in JobId : Stored(j) /\ r = jobs[j] /\ jobs[j].state \in states
  BY DEF list
<1>2. QED BY <1>1 DEF JobsOK

\* A good record stays good while time passes and ids are issued.
LEMMA StaysGood ==
  ASSUME JobsOK, now' \in Nat, now <= now', issued \subseteq issued',
         NEW r, Good(r)
  PROVE  r \in JobRecord /\ r.id \in issued' /\ ErrorMatchesState(r)
         /\ (r.attempts > 0 <=> r.lastAttempt # None)
         /\ (r.lastAttempt # None => r.created <= r.lastAttempt /\ r.lastAttempt <= r.updated)
         /\ r.created <= r.updated /\ r.updated <= now'
<1>1. now \in Nat
  BY BoundsAssumption DEF JobsOK
<1>2. r.updated \in Nat
  BY DEF Good, JobRecord
<1>3. QED BY <1>1, <1>2 DEF Good, HistoryCoherent

\* Claiming a good record makes it good; so does a transition, if an error
\* message goes with the states that have one.
LEMMA ClaimedGood ==
  ASSUME JobsOK, NEW r, Good(r), NEW next \in Active
  PROVE  Good(Claimed(r, next)) /\ Claimed(r, next).id = r.id
<1>1. now \in Nat
  BY BoundsAssumption DEF JobsOK
<1>2. next \in JobState
  BY DEF Active, JobState
<1>3. r \in JobRecord /\ r.attempts + 1 \in Nat
  BY DEF Good, JobRecord
<1>4. Claimed(r, next) \in JobRecord
  BY <1>1, <1>2, <1>3 DEF Claimed, JobRecord
<1>5. QED
  BY <1>1, <1>3, <1>4, RecordAssumption
  DEF Claimed, Good, JobRecord, ErrorMatchesState, HistoryCoherent, Active

LEMMA TransitionedGood ==
  ASSUME JobsOK, NEW r, Good(r), NEW state \in JobState, NEW error \in Messages \cup {None},
         state = "Exception" => error # None,
         error # None => state \in {"Exception", "Cancelled", "Submitted"}
  PROVE  Good(Transitioned(r, state, error)) /\ Transitioned(r, state, error).id = r.id
<1>1. now \in Nat
  BY BoundsAssumption DEF JobsOK
<1>2. Transitioned(r, state, error) \in JobRecord
  BY <1>1 DEF Transitioned, Good, JobRecord
<1>3. QED
  BY <1>1, <1>2, RecordAssumption
  DEF Transitioned, Good, JobRecord, ErrorMatchesState, HistoryCoherent

LEMMA TouchedGood ==
  ASSUME JobsOK, NEW r, Good(r)
  PROVE  Good(Touched(r)) /\ Touched(r).id = r.id
<1>1. now \in Nat
  BY BoundsAssumption DEF JobsOK
<1>2. Touched(r) \in JobRecord
  BY <1>1 DEF Touched, Good, JobRecord
<1>3. QED
  BY <1>1, <1>2, RecordAssumption
  DEF Touched, Good, JobRecord, ErrorMatchesState, HistoryCoherent

-----------------------------------------------------------------------------
(* The kinds of change a step makes to each part of the invariant.         *)

\* One entry of the table changes.
LEMMA Written ==
  ASSUME JobsOK, NEW j \in JobId, NEW x,
         x = None \/ (Good(x) /\ x.id = j),
         jobs' = [jobs EXCEPT ![j] = x], now' = now, issued' = issued
  PROVE  JobsOK'
<1>1. jobs' \in [JobId -> JobRecord \cup {None}]
  BY DEF JobsOK, Good
<1>2. ASSUME NEW k \in JobId, Stored(k)'
      PROVE  (jobs[k].id = k /\ Good(jobs[k]))'
  <2>1. CASE k = j
    <3>1. jobs'[k] = x
      BY <2>1 DEF JobsOK
    <3>2. Good(x) /\ x.id = k
      BY <1>2, <2>1, <3>1 DEF Stored
    <3>3. QED BY <3>1, <3>2 DEF Good, HistoryCoherent, ErrorMatchesState
  <2>2. CASE k # j
    <3>1. jobs'[k] = jobs[k]
      BY <2>2 DEF JobsOK
    <3>2. Stored(k) /\ jobs[k].id = k /\ Good(jobs[k])
      BY <1>2, <3>1 DEF JobsOK, Stored
    <3>3. QED BY <3>1, <3>2 DEF Good, HistoryCoherent, ErrorMatchesState
  <2>3. QED BY <2>1, <2>2
<1>3. QED BY <1>1, <1>2 DEF JobsOK, Stored

\* The table stays as it is while time passes or an id is issued.
LEMMA Unwritten ==
  ASSUME JobsOK, jobs' = jobs, now' \in now .. MaxTime, issued \subseteq issued',
         issued' \in SUBSET JobId
  PROVE  JobsOK'
<1>1. now \in Nat /\ now' \in Nat /\ now <= now' /\ now' \in 0 .. MaxTime
  BY BoundsAssumption DEF JobsOK
<1>2. ASSUME NEW k \in JobId, Stored(k)'
      PROVE  (jobs[k].id = k /\ Good(jobs[k]))'
  <2>1. jobs'[k] = jobs[k] /\ jobs[k].id = k /\ Good(jobs[k])
    BY <1>2 DEF JobsOK, Stored
  <2>2. jobs[k].updated \in Nat
    BY <2>1 DEF Good, JobRecord
  <2>3. QED BY <1>1, <2>1, <2>2 DEF Good, HistoryCoherent, ErrorMatchesState
<1>3. QED BY <1>1, <1>2 DEF JobsOK, Stored

\* The copies of p are replaced by good ones; the others stay as they are.
LEMMA Copied ==
  ASSUME JobsOK, CopiesOK, NEW p \in Proc, NEW R,
         \A r \in R : Good(r) \/ (r \in JobRecord /\ Good(r)'),
         upserts' = [upserts EXCEPT ![p] = R],
         now' \in now .. MaxTime, issued \subseteq issued'
  PROVE  CopiesOK'
<1>1. now \in Nat /\ now' \in Nat /\ now <= now'
  BY BoundsAssumption DEF JobsOK
<1>2. upserts' \in [Proc -> SUBSET JobRecord]
  BY DEF CopiesOK, Good
<1>3. ASSUME NEW q \in Proc, NEW r \in upserts'[q]
      PROVE  Good(r)'
  <2>1. Good(r) \/ Good(r)'
    BY <1>3 DEF CopiesOK
  <2>2. CASE Good(r)
    <3>1. r.updated \in Nat
      BY <2>2 DEF Good, JobRecord
    <3>2. QED BY <1>1, <2>2, <3>1 DEF Good, HistoryCoherent, ErrorMatchesState
  <2>3. QED BY <2>1, <2>2
<1>4. QED BY <1>2, <1>3 DEF CopiesOK

\* No copy changes.
LEMMA NotCopied ==
  ASSUME JobsOK, CopiesOK, upserts' = upserts,
         now' \in now .. MaxTime, issued \subseteq issued'
  PROVE  CopiesOK'
<1>1. now \in Nat /\ now' \in Nat /\ now <= now'
  BY BoundsAssumption DEF JobsOK
<1>2. ASSUME NEW q \in Proc, NEW r \in upserts'[q]
      PROVE  Good(r)'
  <2>1. Good(r) /\ r.updated \in Nat
    BY <1>2 DEF CopiesOK, Good, JobRecord
  <2>2. QED BY <1>1, <2>1 DEF Good, HistoryCoherent, ErrorMatchesState
<1>3. QED BY <1>2 DEF CopiesOK

-----------------------------------------------------------------------------
(* Every step preserves the invariant.                                     *)

\* An operation decides to upsert good records.
LEMMA DecidesUpserts ==
  ASSUME IInv, NEW p \in Proc, NEW R,
         \A r \in R : Good(r) \/ (r \in JobRecord /\ Good(r)'),
         WillUpsert(p, R), issued \subseteq issued', issued' \in SUBSET JobId
  PROVE  IInv'
<1>1. now \in Nat /\ now' \in now .. MaxTime /\ jobs' = jobs
  BY BoundsAssumption DEF IInv, JobsOK, WillUpsert, repositoryVars
<1>2. JobsOK'
  BY <1>1, Unwritten DEF IInv
<1>3. CopiesOK'
  BY <1>1, Copied DEF IInv, WillUpsert
<1>4. ControlOK'
  BY DEF IInv, ControlOK, WillUpsert
<1>5. QED BY <1>2, <1>3, <1>4 DEF IInv

\* A write of one entry of the table, after which p owes an event; what p has
\* left to do shrinks.
LEMMA Writes ==
  ASSUME IInv, NEW p \in Proc, NEW j \in JobId, NEW x, NEW state \in JobState,
         x = None \/ (Good(x) /\ x.id = j),
         jobs' = [jobs EXCEPT ![j] = x],
         Owes(p, j, state) \/ event' = event,
         upserts' = upserts \/ \E r : upserts' = [upserts EXCEPT ![p] = @ \ {r}],
         resumes' = resumes \/ \E k : resumes' = [resumes EXCEPT ![p] = @ \ {k}],
         removals' = removals \/ \E d : removals' = [removals EXCEPT ![p] = @ \ {d}],
         now' = now, issued' = issued, announced' = announced, crashes' = crashes
  PROVE  IInv'
<1>1. now' \in now .. MaxTime
  BY BoundsAssumption DEF IInv, JobsOK
<1>2. JobsOK'
  BY Written DEF IInv
<1>3. CopiesOK'
  <2>1. CASE upserts' = upserts
    BY <1>1, <2>1, NotCopied DEF IInv
  <2>2. CASE \E r : upserts' = [upserts EXCEPT ![p] = @ \ {r}]
    <3>1. PICK r : upserts' = [upserts EXCEPT ![p] = upserts[p] \ {r}]
      BY <2>2
    <3>2. \A s \in upserts[p] \ {r} : Good(s)
      BY DEF IInv, CopiesOK
    <3>3. QED BY <1>1, <3>1, <3>2, Copied DEF IInv
  <2>3. QED BY <2>1, <2>2
<1>4. event' \in [Proc -> Event \cup {None}]
  BY DEF IInv, ControlOK, Owes, Event
<1>5. resumes' \in [Proc -> SUBSET JobId] /\ removals' \in [Proc -> SUBSET Removal]
  BY DEF IInv, ControlOK
<1>6. QED BY <1>2, <1>3, <1>4, <1>5 DEF IInv, ControlOK

\* A step that only changes the control state, within its type.
LEMMA Controls ==
  ASSUME IInv, ControlOK', UNCHANGED <<repositoryVars, issued, upserts>>
  PROVE  IInv'
<1>1. now' \in now .. MaxTime /\ jobs' = jobs /\ issued' = issued /\ upserts' = upserts
      /\ issued' \in SUBSET JobId
  BY BoundsAssumption DEF IInv, JobsOK, repositoryVars
<1>2. JobsOK' /\ CopiesOK'
  BY <1>1, Unwritten, NotCopied DEF IInv
<1>3. QED BY <1>2 DEF IInv

\* The writes.
LEMMA DoUpsertOK ==
  ASSUME IInv, NEW p \in Proc, NEW r \in upserts[p], DoUpsert(p, r)
  PROVE  IInv'
<1>1. Good(r) /\ r.id \in JobId /\ r.state \in JobState
  BY DEF IInv, CopiesOK, Good, JobRecord
<1>2. Good(Touched(r)) /\ Touched(r).id = r.id
  BY <1>1, TouchedGood DEF IInv
<1>3. QED BY <1>1, <1>2, Writes DEF DoUpsert, Upsert

LEMMA DoResumeOK ==
  ASSUME IInv, NEW p \in Proc, NEW j \in resumes[p], DoResume(p, j)
  PROVE  IInv'
<1> DEFINE x == IF jobs[j] = None THEN None ELSE Transitioned(jobs[j], "Submitted", None)
<1>1. j \in JobId
  BY DEF IInv, ControlOK
<1>2. jobs' = [jobs EXCEPT ![j] = x]
  BY DEF DoResume, Transition
<1>3. x = None \/ (Good(x) /\ x.id = j)
  BY <1>1, StoredGood, TransitionedGood DEF IInv, Stored, JobState
<1>4. QED BY <1>1, <1>2, <1>3, Writes DEF DoResume, JobState

LEMMA DoRemoveOK ==
  ASSUME IInv, NEW p \in Proc, NEW d \in removals[p], DoRemove(p, d)
  PROVE  IInv'
<1>1. d.id \in JobId
  BY DEF IInv, ControlOK, Removal
<1>2. QED BY <1>1, Writes DEF DoRemove, Remove, JobState

LEMMA EmitOK ==
  ASSUME IInv, NEW p \in Proc, emit(p)
  PROVE  IInv'
<1>1. event[p] \in Event
  BY DEF IInv, ControlOK, emit
<1>2. ControlOK'
  BY <1>1 DEF IInv, ControlOK, emit, Event
<1>3. QED BY <1>2, Controls DEF emit

\* create_job.
LEMMA CreateOK ==
  ASSUME IInv, NEW p \in Proc, create_job(p)
  PROVE  IInv'
<1>1. PICK j \in JobId \ issued, priority \in Priorities, due \in DueTimes \cup {None},
           correlation \in Correlations \cup {None},
           attachments \in SUBSET Attachments, tags \in SUBSET Tags :
        /\ issued' = issued \cup {j}
        /\ WillUpsert(p, {Fresh(j, priority, due, correlation, attachments, tags)})
  BY DEF create_job
<1> PICK r : r = Fresh(j, priority, due, correlation, attachments, tags)
  OBVIOUS
<1>2. now \in Nat /\ now' = now
  BY <1>1, BoundsAssumption DEF IInv, JobsOK, WillUpsert, repositoryVars
<1>3. r \in JobRecord
  BY <1>2 DEF Fresh, JobRecord, JobState
<1>4. Good(r)'
  BY <1>1, <1>2, <1>3 DEF Good, Fresh, ErrorMatchesState, HistoryCoherent
<1>5. issued \subseteq issued' /\ issued' \in SUBSET JobId
  BY <1>1 DEF IInv, JobsOK
<1>6. QED BY <1>1, <1>3, <1>4, <1>5, DecidesUpserts

\* The operations that edit one field.
LEMMA EditOK ==
  ASSUME IInv, NEW p \in Proc, NEW op, NEW j \in JobId, NEW r,
         Stored(j) => Good(r), Edit(p, op, j, r)
  PROVE  IInv'
<1>1. Good(r) /\ WillUpsert(p, {r}) /\ issued' = issued
  BY DEF Edit
<1>2. issued \subseteq issued' /\ issued' \in SUBSET JobId
  BY <1>1 DEF IInv, JobsOK
<1>3. QED BY <1>1, <1>2, DecidesUpserts

\* An edit of a field that neither the error nor the history depends on.
LEMMA EditedGood ==
  ASSUME IInv, NEW j \in JobId, Stored(j),
         NEW r \in JobRecord, r.id = jobs[j].id, r.state = jobs[j].state,
         r.error = jobs[j].error, r.attempts = jobs[j].attempts,
         r.lastAttempt = jobs[j].lastAttempt, r.created = jobs[j].created,
         r.updated = jobs[j].updated
  PROVE  Good(r)
BY StoredGood DEF IInv, Good, ErrorMatchesState, HistoryCoherent

LEMMA AttachmentsGood ==
  ASSUME IInv, NEW j \in JobId, Stored(j), NEW S \in SUBSET Attachments
  PROVE  Good([jobs[j] EXCEPT !.attachments = S])
<1>1. jobs[j] \in JobRecord
  BY StoredGood DEF IInv, Good
<1>2. QED BY <1>1, EditedGood DEF JobRecord

LEMMA TagsGood ==
  ASSUME IInv, NEW j \in JobId, Stored(j), NEW S \in SUBSET Tags
  PROVE  Good([jobs[j] EXCEPT !.tags = S])
<1>1. jobs[j] \in JobRecord
  BY StoredGood DEF IInv, Good
<1>2. QED BY <1>1, EditedGood DEF JobRecord

LEMMA EditsOK ==
  ASSUME IInv, NEW p \in Proc,
         \/ update_priority(p) \/ update_due_at(p) \/ update_correlation(p)
         \/ add_attachment(p) \/ remove_attachment(p) \/ clear_attachments(p)
         \/ add_tag(p) \/ remove_tag(p) \/ clear_tags(p)
  PROVE  IInv'
<1>1. \A j \in JobId : Stored(j) => jobs[j] \in JobRecord
  BY StoredGood DEF IInv, Good
<1>2. \A j \in JobId : Stored(j) =>
         jobs[j].attachments \in SUBSET Attachments /\ jobs[j].tags \in SUBSET Tags
  BY <1>1 DEF JobRecord
<1>3. CASE update_priority(p)
  <2>1. PICK j \in JobId, value \in Priorities :
          Edit(p, "update_priority", j, [jobs[j] EXCEPT !.priority = value])
    BY <1>3 DEF update_priority
  <2>2. Stored(j) => Good([jobs[j] EXCEPT !.priority = value])
    BY <1>1, EditedGood DEF JobRecord
  <2>3. QED BY <2>1, <2>2, EditOK
<1>4. CASE update_due_at(p)
  <2>1. PICK j \in JobId, value \in DueTimes \cup {None} :
          Edit(p, "update_due_at", j, [jobs[j] EXCEPT !.due = value])
    BY <1>4 DEF update_due_at
  <2>2. Stored(j) => Good([jobs[j] EXCEPT !.due = value])
    BY <1>1, EditedGood DEF JobRecord
  <2>3. QED BY <2>1, <2>2, EditOK
<1>5. CASE update_correlation(p)
  <2>1. PICK j \in JobId, value \in Correlations \cup {None} :
          Edit(p, "update_correlation", j, [jobs[j] EXCEPT !.correlation = value])
    BY <1>5 DEF update_correlation
  <2>2. Stored(j) => Good([jobs[j] EXCEPT !.correlation = value])
    BY <1>1, EditedGood DEF JobRecord
  <2>3. QED BY <2>1, <2>2, EditOK
<1>6. CASE add_attachment(p)
  <2>1. PICK j \in JobId, a \in Attachments :
          Edit(p, "add_attachment", j,
               [jobs[j] EXCEPT !.attachments = jobs[j].attachments \cup {a}])
    BY <1>6 DEF add_attachment
  <2>2. Stored(j) => Good([jobs[j] EXCEPT !.attachments = jobs[j].attachments \cup {a}])
    BY <1>2, AttachmentsGood
  <2>3. QED BY <2>1, <2>2, EditOK
<1>7. CASE remove_attachment(p)
  <2>1. PICK j \in JobId, a \in Attachments :
          Edit(p, "remove_attachment", j,
               [jobs[j] EXCEPT !.attachments = jobs[j].attachments \ {a}])
    BY <1>7 DEF remove_attachment
  <2>2. Stored(j) => Good([jobs[j] EXCEPT !.attachments = jobs[j].attachments \ {a}])
    BY <1>2, AttachmentsGood
  <2>3. QED BY <2>1, <2>2, EditOK
<1>8. CASE clear_attachments(p)
  <2>1. PICK j \in JobId :
          Edit(p, "clear_attachments", j, [jobs[j] EXCEPT !.attachments = {}])
    BY <1>8 DEF clear_attachments
  <2>2. QED BY <2>1, AttachmentsGood, EditOK
<1>9. CASE add_tag(p)
  <2>1. PICK j \in JobId, t \in Tags :
          Edit(p, "add_tag", j, [jobs[j] EXCEPT !.tags = jobs[j].tags \cup {t}])
    BY <1>9 DEF add_tag
  <2>2. Stored(j) => Good([jobs[j] EXCEPT !.tags = jobs[j].tags \cup {t}])
    BY <1>2, TagsGood
  <2>3. QED BY <2>1, <2>2, EditOK
<1>10. CASE remove_tag(p)
  <2>1. PICK j \in JobId, t \in Tags :
          Edit(p, "remove_tag", j, [jobs[j] EXCEPT !.tags = jobs[j].tags \ {t}])
    BY <1>10 DEF remove_tag
  <2>2. Stored(j) => Good([jobs[j] EXCEPT !.tags = jobs[j].tags \ {t}])
    BY <1>2, TagsGood
  <2>3. QED BY <2>1, <2>2, EditOK
<1>11. CASE clear_tags(p)
  <2>1. PICK j \in JobId : Edit(p, "clear_tags", j, [jobs[j] EXCEPT !.tags = {}])
    BY <1>11 DEF clear_tags
  <2>2. QED BY <2>1, TagsGood, EditOK
<1>12. QED
  BY <1>3, <1>4, <1>5, <1>6, <1>7, <1>8, <1>9, <1>10, <1>11

LEMMA RetryOK ==
  ASSUME IInv, NEW p \in Proc, retry(p)
  PROVE  IInv'
<1>1. PICK j \in JobId, clear_error \in BOOLEAN :
        /\ Stored(j)
        /\ WillUpsert(p, {[jobs[j] EXCEPT !.state = "Submitted",
                             !.error = IF clear_error THEN None ELSE jobs[j].error]})
        /\ issued' = issued
  BY DEF retry
<1> PICK r : r = [jobs[j] EXCEPT !.state = "Submitted",
                                 !.error = IF clear_error THEN None ELSE jobs[j].error]
  OBVIOUS
<1>2. Good(jobs[j])
  BY <1>1, StoredGood DEF IInv
<1>3. r \in JobRecord
  BY <1>2 DEF Good, JobRecord, JobState
<1>4. Good(r)
  BY <1>2, <1>3 DEF Good, JobRecord, ErrorMatchesState, HistoryCoherent
<1>5. issued \subseteq issued' /\ issued' \in SUBSET JobId
  BY <1>1 DEF IInv, JobsOK
<1>6. QED BY <1>1, <1>4, <1>5, DecidesUpserts

\* A transition with an error message where there has to be one.
LEMMA TransitionOK ==
  ASSUME IInv, NEW p \in Proc, NEW j \in JobId, NEW state \in JobState,
         NEW error \in Messages \cup {None},
         state = "Exception" => error # None,
         error # None => state \in {"Exception", "Cancelled", "Submitted"},
         transition(p, j, state, error),
         UNCHANGED <<now, issued, upserts, resumes, removals, announced, crashes>>
  PROVE  IInv'
<1> DEFINE x == IF jobs[j] = None THEN None ELSE Transitioned(jobs[j], state, error)
<1>1. jobs' = [jobs EXCEPT ![j] = x]
  BY DEF transition, Transition
<1>2. x = None \/ (Good(x) /\ x.id = j)
  BY StoredGood, TransitionedGood DEF IInv, Stored
<1>3. QED BY <1>1, <1>2, Writes DEF transition

LEMMA MarksOK ==
  ASSUME IInv, NEW p \in Proc,
         \/ mark_validating(p) \/ mark_rendering(p) \/ mark_completed(p)
         \/ mark_failed(p) \/ mark_cancelled(p)
  PROVE  IInv'
<1>1. PICK j \in JobId, state \in JobState, error \in Messages \cup {None} :
        /\ transition(p, j, state, error)
        /\ UNCHANGED <<now, issued, upserts, resumes, removals, announced, crashes>>
        /\ state = "Exception" => error # None
        /\ error # None => state \in {"Exception", "Cancelled"}
  <2>1. \A m \in Messages : m # None
    BY RecordAssumption
  <2>2. CASE mark_validating(p)
    BY <2>2 DEF mark_validating, Mark, JobState
  <2>3. CASE mark_rendering(p)
    BY <2>3 DEF mark_rendering, Mark, JobState
  <2>4. CASE mark_completed(p)
    BY <2>4 DEF mark_completed, Mark, JobState
  <2>5. CASE mark_failed(p)
    BY <2>1, <2>5 DEF mark_failed, Mark, JobState
  <2>6. CASE mark_cancelled(p)
    BY <2>6 DEF mark_cancelled, Mark, JobState
  <2>7. QED BY <2>2, <2>3, <2>4, <2>5, <2>6
<1>2. QED BY <1>1, TransitionOK

\* A claim, by a caller or by a worker.
LEMMA ClaimOK ==
  ASSUME IInv, NEW p \in Proc, NEW r \in list({"Submitted"}),
         Claim(r, "Validating"), Owes(p, r.id, "Validating"),
         UNCHANGED <<now, issued, upserts, resumes, removals, announced, crashes>>
  PROVE  IInv'
<1>1. r.id \in JobId /\ Good(r)
  BY Listed DEF IInv
<1>2. Good(Claimed(r, "Validating")) /\ Claimed(r, "Validating").id = r.id
  BY <1>1, ClaimedGood DEF IInv, Active
<1>3. QED BY <1>1, <1>2, Writes DEF Claim, JobState

\* The policy only asks for priorities it names.
LEMMA EscalationsGood ==
  ASSUME IInv, NEW policy \in Policies, NEW r \in Escalations(policy)
  PROVE  Good(r)
<1>0. PICK s \in list(JobState) :
        \E v \in EscalatedPriority(policy, s, now) : r = [s EXCEPT !.priority = v]
  BY DEF Escalations
<1>1. PICK v \in EscalatedPriority(policy, s, now) : r = [s EXCEPT !.priority = v]
  BY <1>0
<1>2. Good(s) /\ s \in JobRecord
  BY Listed DEF IInv, Good
<1>3. policy \in SchedulingPolicies
  BY ServiceAssumption
<1>4. v \in TargetPriority(policy, s.due, now)
  BY DEF EscalatedPriority
<1>5. v \in Priorities
  BY <1>3, <1>4
  DEF TargetPriority, FirstRule, LastRule, SchedulingPolicies, Escalation
<1>6. r \in JobRecord
  BY <1>1, <1>2, <1>5 DEF JobRecord
<1>7. QED BY <1>1, <1>2, <1>6 DEF Good, JobRecord, ErrorMatchesState, HistoryCoherent

LEMMA PolicyOK ==
  ASSUME IInv, NEW p \in Proc, apply_scheduling_policy(p)
  PROVE  IInv'
<1>1. PICK policy \in Policies : WillUpsert(p, Escalations(policy)) /\ issued' = issued
  BY DEF apply_scheduling_policy
<1>2. \A r \in Escalations(policy) : Good(r)
  BY EscalationsGood
<1>3. issued \subseteq issued' /\ issued' \in SUBSET JobId
  BY <1>1 DEF IInv, JobsOK
<1>4. QED BY <1>1, <1>2, <1>3, DecidesUpserts

LEMMA ResumeOK ==
  ASSUME IInv, NEW p \in Proc, resume_active_jobs(p)
  PROVE  IInv'
<1>1. {r.id : r \in list(Active)} \in SUBSET JobId
  BY Listed DEF IInv
<1>2. ControlOK'
  BY <1>1 DEF IInv, ControlOK, resume_active_jobs
<1>3. QED BY <1>2, Controls DEF resume_active_jobs

LEMMA PurgeOK ==
  ASSUME IInv, NEW p \in Proc, purge(p)
  PROVE  IInv'
<1>1. PICK state \in JobState, before \in 0 .. MaxTime + 1 :
        removals' = [removals EXCEPT ![p] =
          {[id |-> r.id, state |-> state, before |-> before] : r \in Expired(state, before)}]
  BY DEF purge
<1>2. before \in Nat
  BY BoundsAssumption
<1>3. \A r \in Expired(state, before) : r.id \in JobId
  BY Listed DEF IInv, Expired
<1>4. {[id |-> r.id, state |-> state, before |-> before] : r \in Expired(state, before)}
        \in SUBSET Removal
  BY <1>2, <1>3 DEF Removal
<1>5. ControlOK'
  BY <1>1, <1>4 DEF IInv, ControlOK, purge
<1>6. QED BY <1>5, Controls DEF purge

\* A crash loses copies and control state only.
LEMMA ForgetOK ==
  ASSUME IInv, NEW p \in Proc, Forget(p)
  PROVE  IInv'
<1>1. now' \in now .. MaxTime /\ jobs' = jobs /\ issued' = issued /\ issued' \in SUBSET JobId
  BY BoundsAssumption DEF IInv, JobsOK, Forget, repositoryVars
<1>2. JobsOK'
  BY <1>1, Unwritten DEF IInv
<1>3. CopiesOK'
  BY <1>1, Copied DEF IInv, Forget
<1>4. ControlOK'
  BY ServiceAssumption DEF IInv, ControlOK, Forget
<1>5. QED BY <1>2, <1>3, <1>4 DEF IInv

LEMMA TimeOK ==
  ASSUME IInv, Time
  PROVE  IInv'
<1>1. now' \in now .. MaxTime /\ jobs' = jobs /\ issued' = issued /\ upserts' = upserts
      /\ issued' \in SUBSET JobId
  BY BoundsAssumption DEF IInv, JobsOK, Time, Tick, localVars
<1>2. JobsOK' /\ CopiesOK'
  BY <1>1, Unwritten, NotCopied DEF IInv
<1>3. ControlOK'
  BY DEF IInv, ControlOK, Time, localVars
<1>4. QED BY <1>2, <1>3 DEF IInv

-----------------------------------------------------------------------------
(* The invariant.                                                          *)

LEMMA InitOK == ServiceInit => IInv
BY BoundsAssumption, ServiceAssumption
DEF ServiceInit, RepositoryInit, IInv, JobsOK, CopiesOK, ControlOK, Stored

LEMMA CallOK ==
  ASSUME IInv, NEW p \in Proc, Call(p)
  PROVE  IInv'
<1>1. CASE claim_next_submitted(p)
  BY <1>1, ClaimOK DEF claim_next_submitted
<1>2. CASE ~claim_next_submitted(p)
  BY <1>2, CreateOK, EditsOK, RetryOK, MarksOK, PolicyOK, ResumeOK, PurgeOK DEF Call
<1>3. QED BY <1>1, <1>2

LEMMA ProceedOK ==
  ASSUME IInv, NEW p \in Proc, Proceed(p)
  PROVE  IInv'
BY DoUpsertOK, DoResumeOK, DoRemoveOK, EmitOK DEF Proceed

LEMMA StutterOK ==
  ASSUME IInv, UNCHANGED serviceVars
  PROVE  IInv'
<1>1. ControlOK'
  BY DEF IInv, ControlOK, serviceVars, localVars
<1>2. QED BY <1>1, Controls DEF serviceVars, localVars

LEMMA NextOK == IInv /\ [ServiceNext]_serviceVars => IInv'
<1> SUFFICES ASSUME IInv, [ServiceNext]_serviceVars PROVE IInv'
  OBVIOUS
<1>1. CASE Time
  BY <1>1, TimeOK
<1>2. ASSUME NEW p \in Proc, Call(p) \/ Proceed(p) \/ crash(p) PROVE IInv'
  BY <1>2, CallOK, ProceedOK, ForgetOK DEF crash
<1>3. CASE UNCHANGED serviceVars
  BY <1>3, StutterOK
<1>4. QED BY <1>1, <1>2, <1>3 DEF ServiceNext

\* The invariant implies the properties the runs check.
LEMMA InvImplies ==
  IInv => ServiceTypeOK /\ ErrorsMatchStates /\ HistoriesCoherent /\ CopiesCoherent
BY DEF IInv, JobsOK, CopiesOK, ControlOK, Good, ServiceTypeOK, ErrorsMatchStates,
       HistoriesCoherent, CopiesCoherent

\* The types of JobService's state, for any callers, operations and crashes.
THEOREM ServiceTyped == ServiceSpec => []ServiceTypeOK
BY InitOK, NextOK, InvImplies, PTL DEF ServiceSpec

\* Claim histories stay coherent, whatever stale copies the operations of
\* src/job_service.cpp write over each other's changes.
THEOREM RecordsCoherent == ServiceSpec => []HistoriesCoherent
BY InitOK, NextOK, InvImplies, PTL DEF ServiceSpec

\* So do the error messages: a failed job has one, a job being worked on or
\* completed has none.
THEOREM ErrorsCoherent == ServiceSpec => []ErrorsMatchStates
BY InitOK, NextOK, InvImplies, PTL DEF ServiceSpec

\* And the copies on their way back to the table are no worse than the table.
THEOREM WritesCoherent == ServiceSpec => []CopiesCoherent
BY InitOK, NextOK, InvImplies, PTL DEF ServiceSpec

-----------------------------------------------------------------------------
(* One caller.  What an operation has read cannot change under its feet    *)
(* then, only by its own writes, so every decision still stands when it is *)
(* carried out.                                                            *)

OneCaller == \A p, q \in Proc : p = q

\* p is in the middle of one operation at most.
OneThing(p) ==
  \/ upserts[p] = {} /\ resumes[p] = {}
  \/ upserts[p] = {} /\ removals[p] = {}
  \/ resumes[p] = {} /\ removals[p] = {}

\* The copies in R count as many attempts as the table, and as each other.
SameCounts(R) ==
  /\ \A r \in R : Stored(r.id) => r.attempts = jobs[r.id].attempts
  /\ \A r, s \in R : r.id = s.id => r.attempts = s.attempts

\* The jobs p has decided to write are still as p has read them.
Standing(p) ==
  /\ SameCounts(upserts[p])
  /\ \A j \in resumes[p] : Stored(j) => jobs[j].state \in Active
  /\ \A d \in removals[p] :
       Stored(d.id) => jobs[d.id].state = d.state /\ jobs[d.id].updated < d.before

SInv == IInv /\ \A p \in Proc : OneThing(p) /\ Standing(p)

\* A call begins when p is idle; and it writes at once and decides on no more
\* writes, or writes nothing and decides on writes of one kind.
LEMMA CallForms ==
  ASSUME IInv, NEW p \in Proc, Call(p)
  PROVE  /\ Idle(p)
         /\ \/ /\ UNCHANGED <<upserts, resumes, removals, announced, crashes>>
               /\ \/ \E j \in JobId, state \in JobState \ {"Submitted"},
                     error \in Messages \cup {None} :
                       Transition(j, state, error) /\ Owes(p, j, state)
                  \/ \E r \in list({"Submitted"}) :
                       Claim(r, "Validating") /\ Owes(p, r.id, "Validating")
            \/ /\ UNCHANGED <<jobs, event, announced, crashes>>
               /\ \/ /\ UNCHANGED <<resumes, removals>>
                     /\ \E R : SameCounts(R) /\ upserts' = [upserts EXCEPT ![p] = R]
                  \/ /\ UNCHANGED <<upserts, removals>>
                     /\ resumes' = [resumes EXCEPT ![p] = {r.id : r \in list(Active)}]
                  \/ /\ UNCHANGED <<upserts, resumes>>
                     /\ \E state \in JobState, before \in Nat :
                          removals' = [removals EXCEPT ![p] =
                            {[id |-> r.id, state |-> state, before |-> before] :
                               r \in Expired(state, before)}]
<1>1. Idle(p)
  <2>1. CASE update_priority(p) \/ update_due_at(p) \/ update_correlation(p)
    BY <2>1 DEF update_priority, update_due_at, update_correlation, Edit, Starts
  <2>2. CASE add_attachment(p) \/ remove_attachment(p) \/ clear_attachments(p)
    BY <2>2 DEF add_attachment, remove_attachment, clear_attachments, Edit, Starts
  <2>3. CASE add_tag(p) \/ remove_tag(p) \/ clear_tags(p)
    BY <2>3 DEF add_tag, remove_tag, clear_tags, Edit, Starts
  <2>4. CASE create_job(p) \/ retry(p) \/ apply_scheduling_policy(p)
    BY <2>4 DEF create_job, retry, apply_scheduling_policy, Starts
  <2>5. CASE mark_validating(p) \/ mark_rendering(p) \/ mark_completed(p)
             \/ mark_failed(p) \/ mark_cancelled(p)
    BY <2>5 DEF mark_validating, mark_rendering, mark_completed, mark_failed,
                mark_cancelled, Mark, Starts
  <2>6. CASE claim_next_submitted(p) \/ resume_active_jobs(p) \/ purge(p)
    BY <2>6 DEF claim_next_submitted, resume_active_jobs, purge, Starts
  <2>. QED BY <2>1, <2>2, <2>3, <2>4, <2>5, <2>6 DEF Call
<1>2. ASSUME NEW R, WillUpsert(p, R), SameCounts(R)
      PROVE  /\ UNCHANGED <<jobs, event, announced, crashes, resumes, removals>>
             /\ upserts' = [upserts EXCEPT ![p] = R] /\ SameCounts(R)
  BY <1>2 DEF WillUpsert, repositoryVars
<1>3. ASSUME NEW j \in JobId, Stored(j)
      PROVE  jobs[j] \in JobRecord /\ jobs[j].id = j
  BY <1>3, StoredGood DEF IInv, Good
<1>4. ASSUME NEW op, NEW j \in JobId, NEW r, Edit(p, op, j, r),
             Stored(j) => r.id = j /\ r.attempts = jobs[j].attempts
      PROVE  WillUpsert(p, {r}) /\ SameCounts({r})
  BY <1>4 DEF Edit, SameCounts
<1> DEFINE Same(j, r) == r.id = j /\ r.attempts = jobs[j].attempts
           Edited == \E op, r : \E j \in JobId : Edit(p, op, j, r) /\ (Stored(j) => Same(j, r))
<1>5. ASSUME Edited
      PROVE  \E R : WillUpsert(p, R) /\ SameCounts(R)
  BY <1>4, <1>5
<1>6. ASSUME \/ update_priority(p) \/ update_due_at(p) \/ update_correlation(p)
             \/ add_attachment(p) \/ remove_attachment(p) \/ clear_attachments(p)
             \/ add_tag(p) \/ remove_tag(p) \/ clear_tags(p)
      PROVE  Edited
  <2>1. \A j \in JobId : Stored(j) => \A v : Same(j, [jobs[j] EXCEPT !.priority = v])
    BY <1>3 DEF JobRecord
  <2>2. \A j \in JobId : Stored(j) => \A v : Same(j, [jobs[j] EXCEPT !.due = v])
    BY <1>3 DEF JobRecord
  <2>3. \A j \in JobId : Stored(j) => \A v : Same(j, [jobs[j] EXCEPT !.correlation = v])
    BY <1>3 DEF JobRecord
  <2>4. \A j \in JobId : Stored(j) => \A v : Same(j, [jobs[j] EXCEPT !.attachments = v])
    BY <1>3 DEF JobRecord
  <2>5. \A j \in JobId : Stored(j) => \A v : Same(j, [jobs[j] EXCEPT !.tags = v])
    BY <1>3 DEF JobRecord
  <2>. HIDE DEF Same
  <2>6. CASE update_priority(p)
    BY <2>1, <2>6 DEF update_priority
  <2>7. CASE update_due_at(p)
    BY <2>2, <2>7 DEF update_due_at
  <2>8. CASE update_correlation(p)
    BY <2>3, <2>8 DEF update_correlation
  <2>9. CASE add_attachment(p)
    BY <2>4, <2>9 DEF add_attachment
  <2>10. CASE remove_attachment(p)
    BY <2>4, <2>10 DEF remove_attachment
  <2>11. CASE clear_attachments(p)
    BY <2>4, <2>11 DEF clear_attachments
  <2>12. CASE add_tag(p)
    BY <2>5, <2>12 DEF add_tag
  <2>13. CASE remove_tag(p)
    BY <2>5, <2>13 DEF remove_tag
  <2>14. CASE clear_tags(p)
    BY <2>5, <2>14 DEF clear_tags
  <2>. QED
    BY <1>6, <2>6, <2>7, <2>8, <2>9, <2>10, <2>11, <2>12, <2>13, <2>14
<1>7. CASE Edited
  BY <1>1, <1>2, <1>5, <1>7
<1>8. CASE retry(p)
  <2>1. PICK j \in JobId, clear_error \in BOOLEAN :
          /\ Stored(j)
          /\ WillUpsert(p, {[jobs[j] EXCEPT !.state = "Submitted",
                               !.error = IF clear_error THEN None ELSE jobs[j].error]})
    BY <1>8 DEF retry
  <2> PICK r : r = [jobs[j] EXCEPT !.state = "Submitted",
                                   !.error = IF clear_error THEN None ELSE jobs[j].error]
    OBVIOUS
  <2>2. r.id = j /\ r.attempts = jobs[j].attempts
    BY <1>3, <2>1 DEF JobRecord
  <2>3. SameCounts({r})
    BY <2>2 DEF SameCounts
  <2>. QED BY <1>1, <1>2, <2>1, <2>3
<1>9. CASE create_job(p)
  <2>1. PICK j \in JobId \ issued, priority \in Priorities, due \in DueTimes \cup {None},
             correlation \in Correlations \cup {None},
             attachments \in SUBSET Attachments, tags \in SUBSET Tags :
          WillUpsert(p, {Fresh(j, priority, due, correlation, attachments, tags)})
    BY <1>9 DEF create_job
  <2> PICK r : r = Fresh(j, priority, due, correlation, attachments, tags)
    OBVIOUS
  <2>2. r.id = j /\ ~Stored(j)
    BY StoredGood DEF Fresh, IInv, Good
  <2>3. SameCounts({r})
    BY <2>2 DEF SameCounts
  <2>. QED BY <1>1, <1>2, <2>1, <2>3
<1>10. CASE apply_scheduling_policy(p)
  <2>1. PICK policy \in Policies : WillUpsert(p, Escalations(policy))
    BY <1>10 DEF apply_scheduling_policy
  <2>2. ASSUME NEW r \in Escalations(policy)
        PROVE  r.attempts = jobs[r.id].attempts
    <3>1. PICK s \in list(JobState) :
            \E v \in EscalatedPriority(policy, s, now) : r = [s EXCEPT !.priority = v]
      BY DEF Escalations
    <3>2. s \in JobRecord /\ jobs[s.id] = s
      BY Listed DEF IInv, Good
    <3>. QED BY <3>1, <3>2 DEF JobRecord
  <2>3. SameCounts(Escalations(policy))
    BY <2>2 DEF SameCounts
  <2>. QED BY <1>1, <1>2, <2>1, <2>3
<1>11. CASE \/ mark_validating(p) \/ mark_rendering(p) \/ mark_completed(p)
            \/ mark_failed(p) \/ mark_cancelled(p)
  <2>1. ASSUME NEW op, NEW j \in JobId, NEW state \in JobState \ {"Submitted"},
               NEW error \in Messages \cup {None}, Mark(p, op, j, state, error)
        PROVE  /\ UNCHANGED <<upserts, resumes, removals, announced, crashes>>
               /\ \E k \in JobId, st \in JobState \ {"Submitted"}, e \in Messages \cup {None} :
                    Transition(k, st, e) /\ Owes(p, k, st)
    BY <2>1 DEF Mark, transition
  <2>2. CASE mark_validating(p)
    BY <1>1, <2>1, <2>2 DEF mark_validating, JobState
  <2>3. CASE mark_rendering(p)
    BY <1>1, <2>1, <2>3 DEF mark_rendering, JobState
  <2>4. CASE mark_completed(p)
    BY <1>1, <2>1, <2>4 DEF mark_completed, JobState
  <2>5. CASE mark_failed(p)
    BY <1>1, <2>1, <2>5 DEF mark_failed, JobState
  <2>6. CASE mark_cancelled(p)
    BY <1>1, <2>1, <2>6 DEF mark_cancelled, JobState
  <2>. QED BY <1>11, <2>2, <2>3, <2>4, <2>5, <2>6
<1>12. CASE claim_next_submitted(p)
  BY <1>1, <1>12 DEF claim_next_submitted
<1>13. CASE resume_active_jobs(p)
  BY <1>1, <1>13 DEF resume_active_jobs, repositoryVars
<1>14. CASE purge(p)
  <2>1. PICK state \in JobState, before \in 0 .. MaxTime + 1 :
          /\ removals' = [removals EXCEPT ![p] =
               {[id |-> r.id, state |-> state, before |-> before] :
                  r \in Expired(state, before)}]
          /\ UNCHANGED <<repositoryVars, issued, upserts, resumes, event, announced, crashes>>
    BY <1>14 DEF purge
  <2>2. before \in Nat
    BY BoundsAssumption
  <2>3. UNCHANGED <<jobs, event, announced, crashes, upserts, resumes>>
    BY <2>1 DEF repositoryVars
  <2>4. \E st \in JobState, b \in Nat :
          removals' = [removals EXCEPT ![p] =
            {[id |-> r.id, state |-> st, before |-> b] : r \in Expired(st, b)}]
    BY <2>1, <2>2
  <2>. QED BY <1>1, <2>3, <2>4
<1>. QED
  BY <1>6, <1>7, <1>8, <1>9, <1>10, <1>11, <1>12, <1>13, <1>14 DEF Call

\* A decision stands when it is made.
LEMMA CallStands ==
  ASSUME SInv, OneCaller, NEW p \in Proc, Call(p)
  PROVE  \A q \in Proc : (OneThing(q) /\ Standing(q))'
<1>1. SUFFICES (OneThing(p) /\ Standing(p))'
  BY DEF OneCaller
<1>2. upserts[p] = {} /\ resumes[p] = {} /\ removals[p] = {}
  BY CallForms DEF SInv, Idle
<1>3. CASE UNCHANGED <<upserts, resumes, removals>>
  BY <1>2, <1>3 DEF OneThing, Standing, SameCounts
<1>4. ASSUME jobs' = jobs, UNCHANGED <<resumes, removals>>,
             NEW R, SameCounts(R), upserts' = [upserts EXCEPT ![p] = R]
      PROVE  (OneThing(p) /\ Standing(p))'
  <2>1. upserts'[p] = R
    BY <1>4 DEF SInv, IInv, CopiesOK
  <2>. QED BY <1>2, <1>4, <2>1 DEF OneThing, Standing, SameCounts, Stored
<1>5. ASSUME jobs' = jobs, UNCHANGED <<upserts, removals>>,
             resumes' = [resumes EXCEPT ![p] = {r.id : r \in list(Active)}]
      PROVE  (OneThing(p) /\ Standing(p))'
  <2>1. resumes'[p] = {r.id : r \in list(Active)}
    BY <1>5 DEF SInv, IInv, ControlOK
  <2>2. \A j \in resumes'[p] : jobs[j].state \in Active
    BY <2>1, Listed DEF SInv, IInv
  <2>. QED BY <1>2, <1>5, <2>2 DEF OneThing, Standing, SameCounts, Stored
<1>6. ASSUME jobs' = jobs, UNCHANGED <<upserts, resumes>>,
             NEW state \in JobState, NEW before \in Nat,
             removals' = [removals EXCEPT ![p] =
               {[id |-> r.id, state |-> state, before |-> before] :
                  r \in Expired(state, before)}]
      PROVE  (OneThing(p) /\ Standing(p))'
  <2>1. removals'[p] = {[id |-> r.id, state |-> state, before |-> before] :
                          r \in Expired(state, before)}
    BY <1>6 DEF SInv, IInv, ControlOK
  <2>2. ASSUME NEW d \in removals'[p]
        PROVE  jobs[d.id].state = d.state /\ jobs[d.id].updated < d.before
    <3>1. PICK r \in Expired(state, before) :
            d = [id |-> r.id, state |-> state, before |-> before]
      BY <2>1
    <3>2. jobs[r.id] = r /\ r.state = state /\ r.updated < before
      BY Listed DEF SInv, IInv, Expired
    <3>. QED BY <3>1, <3>2
  <2>. QED BY <1>2, <1>6, <2>2 DEF OneThing, Standing, SameCounts, Stored
<1>. QED
  BY <1>3, <1>4, <1>5, <1>6, CallForms DEF SInv

\* Carrying out one of the decisions leaves the others standing.
LEMMA ProceedStands ==
  ASSUME SInv, OneCaller, NEW p \in Proc, Proceed(p)
  PROVE  \A q \in Proc : (OneThing(q) /\ Standing(q))'
<1>1. SUFFICES (OneThing(p) /\ Standing(p))'
  BY DEF OneCaller
<1>2. OneThing(p) /\ Standing(p)
  BY DEF SInv
<1>3. ASSUME NEW r \in upserts[p], DoUpsert(p, r)
      PROVE  (OneThing(p) /\ Standing(p))'
  <2>1. resumes'[p] = {} /\ removals'[p] = {}
    BY <1>2, <1>3 DEF OneThing, DoUpsert
  <2>2. \A s \in upserts'[p] : s \in upserts[p]
    BY <1>3 DEF DoUpsert, SInv, IInv, CopiesOK
  <2>3. r.id \in JobId /\ r \in JobRecord
    BY DEF SInv, IInv, CopiesOK, Good, JobRecord
  <2>4. /\ jobs'[r.id].attempts = r.attempts
        /\ \A j \in JobId : j # r.id => jobs'[j] = jobs[j]
    BY <1>3, <2>3 DEF DoUpsert, Upsert, Touched, SInv, IInv, JobsOK, JobRecord
  <2>5. \A s \in upserts'[p] : s.id \in JobId
    BY <2>2 DEF SInv, IInv, CopiesOK, Good, JobRecord
  <2>6. SameCounts(upserts[p])'
    BY <1>2, <2>2, <2>4, <2>5 DEF Standing, SameCounts, Stored
  <2>. QED BY <2>1, <2>6 DEF OneThing, Standing
<1>4. ASSUME NEW j \in resumes[p], DoResume(p, j)
      PROVE  (OneThing(p) /\ Standing(p))'
  <2>1. upserts'[p] = {} /\ removals'[p] = {}
    BY <1>2, <1>4 DEF OneThing, DoResume
  <2>2. resumes'[p] = resumes[p] \ {j} /\ resumes[p] \subseteq JobId
    BY <1>4 DEF DoResume, SInv, IInv, ControlOK
  <2>3. \A k \in JobId : k # j => jobs'[k] = jobs[k]
    BY <1>4 DEF DoResume, Transition, SInv, IInv, JobsOK
  <2>. QED BY <1>2, <2>1, <2>2, <2>3 DEF OneThing, Standing, SameCounts, Stored
<1>5. ASSUME NEW d \in removals[p], DoRemove(p, d)
      PROVE  (OneThing(p) /\ Standing(p))'
  <2>1. upserts'[p] = {} /\ resumes'[p] = {}
    BY <1>2, <1>5 DEF OneThing, DoRemove
  <2>2. removals'[p] = removals[p] \ {d}
    BY <1>5 DEF DoRemove, SInv, IInv, ControlOK
  <2>3. \A e \in removals[p] : e.id \in JobId
    BY DEF SInv, IInv, ControlOK, Removal
  <2>4. \A k \in JobId : Stored(k)' => Stored(k) /\ jobs'[k] = jobs[k]
    BY <1>5 DEF DoRemove, Remove, SInv, IInv, JobsOK, Stored
  <2>. QED BY <1>2, <2>1, <2>2, <2>3, <2>4 DEF OneThing, Standing, SameCounts, Stored
<1>6. CASE emit(p)
  <2>1. UNCHANGED <<jobs, upserts, resumes, removals>>
    BY <1>6 DEF emit, repositoryVars
  <2>. QED BY <1>2, <2>1 DEF OneThing, Standing, SameCounts, Stored
<1>. QED BY <1>3, <1>4, <1>5, <1>6 DEF Proceed

\* Where there is one caller, its decisions stand.
LEMMA OneCallerStands ==
  ASSUME OneCaller
  PROVE  /\ ServiceInit => SInv
         /\ SInv /\ [ServiceNext]_serviceVars => SInv'
<1>1. ServiceInit => SInv
  BY InitOK DEF ServiceInit, SInv, OneThing, Standing, SameCounts
<1>2. ASSUME SInv, [ServiceNext]_serviceVars PROVE SInv'
  <2>1. IInv'
    BY <1>2, NextOK DEF SInv
  <2>2. ASSUME NEW p \in Proc, Call(p) PROVE SInv'
    BY <1>2, <2>1, <2>2, CallStands DEF SInv
  <2>3. ASSUME NEW p \in Proc, Proceed(p) PROVE SInv'
    BY <1>2, <2>1, <2>3, ProceedStands DEF SInv
  <2>4. ASSUME NEW p \in Proc, crash(p) PROVE SInv'
    <3>1. upserts'[p] = {} /\ resumes'[p] = {} /\ removals'[p] = {}
      BY <1>2, <2>4 DEF crash, Forget, SInv, IInv, CopiesOK, ControlOK
    <3>. QED BY <2>1, <3>1 DEF SInv, OneCaller, OneThing, Standing, SameCounts
  <2>5. CASE UNCHANGED <<jobs, upserts, resumes, removals>>
    BY <1>2, <2>1, <2>5 DEF SInv, OneThing, Standing, SameCounts, Stored
  <2>. QED
    BY <1>2, <2>2, <2>3, <2>4, <2>5
    DEF ServiceNext, Time, Tick, serviceVars, repositoryVars, localVars
<1>. QED BY <1>1, <1>2

\* With one caller, purge removes only jobs that are in the given state and
\* expired at the moment they are removed.
THEOREM PurgesExpired == ASSUME OneCaller PROVE ServiceSpec => PurgeOnlyExpired
<1> DEFINE Purges ==
      \A p \in Proc : \A d \in removals[p] :
        d \notin removals'[p] /\ Stored(d.id) /\ ~Stored(d.id)' =>
          jobs[d.id].state = d.state /\ jobs[d.id].updated < d.before
<1>1. SInv /\ [ServiceNext]_serviceVars => [Purges]_serviceVars
  BY DEF SInv, Standing
<1>. QED BY <1>1, OneCallerStands, PTL DEF ServiceSpec, PurgeOnlyExpired

\* With one caller, resume_active_jobs puts back only jobs that are validating or
\* rendering at the moment they are put back.
THEOREM ResumesActive == ASSUME OneCaller PROVE ServiceSpec => ResumeOnlyActive
<1> DEFINE Resumes ==
      \A p \in Proc : \A j \in resumes[p] :
        j \notin resumes'[p] /\ Stored(j) /\ jobs'[j] # jobs[j] => jobs[j].state \in Active
<1>1. SInv /\ [ServiceNext]_serviceVars => [Resumes]_serviceVars
  BY DEF SInv, Standing
<1>. QED BY <1>1, OneCallerStands, PTL DEF ServiceSpec, ResumeOnlyActive

\* What a step may do to the attempts of a job that stays.
Attempted(j) ==
  /\ jobs'[j].attempts >= jobs[j].attempts
  /\ jobs'[j].attempts > jobs[j].attempts =>
       jobs[j].state = "Submitted" /\ jobs'[j].state \in Active

LEMMA CountsKept ==
  ASSUME IInv, NEW j \in JobId, Stored(j), jobs'[j].attempts = jobs[j].attempts
  PROVE  Attempted(j)
<1>1. jobs[j].attempts \in Nat
  BY StoredGood DEF IInv, Good, JobRecord
<1>. QED BY <1>1 DEF Attempted

\* A transition does not count as an attempt, a claim does.
LEMMA TransitionCounts ==
  ASSUME IInv, NEW j \in JobId, NEW state, NEW error, Transition(j, state, error),
         NEW k \in JobId, Stored(k), Stored(k)'
  PROVE  Attempted(k)
<1>1. CASE k # j
  BY <1>1, CountsKept DEF Transition, IInv, JobsOK
<1>2. CASE k = j
  <2>1. jobs[k] \in JobRecord /\ jobs'[k] = Transitioned(jobs[k], state, error)
    BY <1>2, StoredGood DEF Transition, IInv, JobsOK, Good, Stored
  <2>. QED BY <2>1, CountsKept DEF Transitioned, JobRecord
<1>. QED BY <1>1, <1>2

LEMMA ClaimCounts ==
  ASSUME IInv, NEW r \in list({"Submitted"}), Claim(r, "Validating"),
         NEW k \in JobId, Stored(k), Stored(k)'
  PROVE  Attempted(k)
<1>1. r.id \in JobId /\ jobs[r.id] = r /\ r \in JobRecord /\ r.state = "Submitted"
  BY Listed DEF IInv, Good
<1>2. CASE k # r.id
  BY <1>1, <1>2, CountsKept DEF Claim, IInv, JobsOK
<1>3. CASE k = r.id
  <2>1. jobs'[k] = Claimed(r, "Validating")
    BY <1>1, <1>3 DEF Claim, IInv, JobsOK
  <2>2. jobs'[k].attempts = r.attempts + 1 /\ jobs'[k].state = "Validating" /\ r.attempts \in Nat
    BY <1>1, <2>1 DEF Claimed, JobRecord
  <2>. QED BY <1>1, <1>3, <2>2 DEF Attempted, Active
<1>. QED BY <1>2, <1>3

\* So every write of one caller keeps the counts.
LEMMA CallCounts ==
  ASSUME SInv, NEW p \in Proc, Call(p), NEW k \in JobId, Stored(k), Stored(k)'
  PROVE  Attempted(k)
<1>1. CASE jobs' = jobs
  BY <1>1, CountsKept DEF SInv
<1>. QED BY <1>1, CallForms, TransitionCounts, ClaimCounts DEF SInv

LEMMA ProceedCounts ==
  ASSUME SInv, NEW p \in Proc, Proceed(p), NEW k \in JobId, Stored(k), Stored(k)'
  PROVE  Attempted(k)
<1>1. ASSUME NEW r \in upserts[p], DoUpsert(p, r)
      PROVE  Attempted(k)
  <2>1. r.id \in JobId /\ r \in JobRecord
    BY DEF SInv, IInv, CopiesOK, Good, JobRecord
  <2>2. CASE k # r.id
    BY <1>1, <2>1, <2>2, CountsKept DEF DoUpsert, Upsert, SInv, IInv, JobsOK
  <2>3. CASE k = r.id
    <3>1. jobs'[k] = Touched(r)
      BY <1>1, <2>1, <2>3 DEF DoUpsert, Upsert, SInv, IInv, JobsOK
    <3>2. jobs'[k].attempts = r.attempts
      BY <2>1, <3>1 DEF Touched, JobRecord
    <3>. QED BY <2>3, <3>2, CountsKept DEF SInv, Standing, SameCounts
  <2>. QED BY <2>2, <2>3
<1>2. ASSUME NEW j \in resumes[p], DoResume(p, j)
      PROVE  Attempted(k)
  BY <1>2, TransitionCounts DEF DoResume, SInv, IInv, ControlOK
<1>3. ASSUME NEW d \in removals[p], DoRemove(p, d)
      PROVE  Attempted(k)
  <2>1. d.id \in JobId
    BY DEF SInv, IInv, ControlOK, Removal
  <2>. QED BY <1>3, <2>1, CountsKept DEF DoRemove, Remove, SInv, IInv, JobsOK, Stored
<1>4. CASE emit(p)
  BY <1>4, CountsKept DEF emit, repositoryVars, SInv
<1>. QED BY <1>1, <1>2, <1>3, <1>4 DEF Proceed

\* With one caller, the attempt counter of a job counts its claims: it never
\* decreases while the job is stored, and only a claim increases it.
THEOREM AttemptsCounted == ASSUME OneCaller PROVE ServiceSpec => AttemptsOnlyGrow
<1> DEFINE Grows == \A j \in JobId : Stored(j) /\ Stored(j)' =>
              /\ jobs'[j].attempts >= jobs[j].attempts
              /\ jobs'[j].attempts > jobs[j].attempts =>
                   jobs[j].state = "Submitted" /\ jobs'[j].state \in Active
<1>1. SInv /\ [ServiceNext]_serviceVars => [Grows]_serviceVars
  <2> SUFFICES ASSUME SInv, ServiceNext, NEW k \in JobId, Stored(k), Stored(k)'
               PROVE  Attempted(k)
    BY DEF Attempted
  <2>1. CASE jobs' = jobs
    BY <2>1, CountsKept DEF SInv
  <2>. QED
    BY <2>1, CallCounts, ProceedCounts
    DEF ServiceNext, Time, Tick, crash, Forget, repositoryVars
<1>. QED BY <1>1, OneCallerStands, PTL DEF ServiceSpec, AttemptsOnlyGrow

-----------------------------------------------------------------------------
(* Events.                                                                 *)

\* The sink knows the state of j, or is about to be told.
Told(j) ==
  \/ \E p \in Proc : /\ event[p] # None
                     /\ event[p].id = j /\ event[p].state = jobs[j].state
  \/ /\ \A p \in Proc : event[p] = None \/ event[p].id # j
     /\ announced[j] = jobs[j].state

EInv ==
  /\ SInv
  /\ \A j \in JobId : Stored(j) => Told(j)

\* A write, and the event that is owed for it.
LEMMA WriteTold ==
  ASSUME EInv, OneCaller, HasSink, NEW p \in Proc, event[p] = None,
         NEW j \in JobId, NEW state \in JobState, Owes(p, j, state), announced' = announced,
         \A k \in JobId : k # j => jobs'[k] = jobs[k],
         Stored(j)' => jobs'[j].state = state
  PROVE  \A k \in JobId : Stored(k)' => Told(k)'
<1>1. event'[p] = [id |-> j, state |-> state] /\ \A q \in Proc : q = p
  BY DEF Owes, OneCaller, EInv, SInv, IInv, ControlOK
<1>2. ASSUME NEW k \in JobId, Stored(k)', k # j
      PROVE  Told(k)'
  <2>1. jobs'[k] = jobs[k] /\ announced[k] = jobs[k].state
    BY <1>1, <1>2 DEF EInv, Told, Stored
  <2>. QED BY <1>1, <1>2, <2>1 DEF Told
<1>3. ASSUME Stored(j)' PROVE Told(j)'
  <2>1. event'[p].id = j /\ event'[p].state = jobs'[j].state
    BY <1>1, <1>3
  <2>2. event'[p] # None
    BY <1>1, <1>3, ServiceAssumption DEF Event
  <2>. QED BY <2>1, <2>2 DEF Told
<1>. QED BY <1>2, <1>3

\* What a write does to the states in the table.
LEMMA TransitionStates ==
  ASSUME IInv, NEW j \in JobId, NEW state, NEW error, Transition(j, state, error)
  PROVE  /\ \A k \in JobId : k # j => jobs'[k] = jobs[k]
         /\ Stored(j)' => jobs'[j].state = state
<1>1. \A k \in JobId : k # j => jobs'[k] = jobs[k]
  BY DEF Transition, IInv, JobsOK
<1>2. ASSUME Stored(j)' PROVE jobs'[j].state = state
  <2>1. jobs[j] \in JobRecord /\ jobs'[j] = Transitioned(jobs[j], state, error)
    BY <1>2, StoredGood DEF Transition, IInv, JobsOK, Good, Stored
  <2>. QED BY <2>1 DEF Transitioned, JobRecord
<1>. QED BY <1>1, <1>2

LEMMA ClaimStates ==
  ASSUME IInv, NEW r \in list({"Submitted"}), Claim(r, "Validating")
  PROVE  /\ r.id \in JobId
         /\ \A k \in JobId : k # r.id => jobs'[k] = jobs[k]
         /\ jobs'[r.id].state = "Validating"
<1>1. r.id \in JobId /\ r \in JobRecord
  BY Listed DEF IInv, Good
<1>. QED BY <1>1 DEF Claim, Claimed, JobRecord, IInv, JobsOK

LEMMA UpsertStates ==
  ASSUME IInv, NEW p \in Proc, NEW r \in upserts[p], Upsert(r)
  PROVE  /\ r.id \in JobId /\ r.state \in JobState
         /\ \A k \in JobId : k # r.id => jobs'[k] = jobs[k]
         /\ jobs'[r.id].state = r.state
<1>1. r.id \in JobId /\ r \in JobRecord
  BY DEF IInv, CopiesOK, Good, JobRecord
<1>. QED BY <1>1 DEF Upsert, Touched, JobRecord, IInv, JobsOK

\* A step that changes neither the table nor what the sink knows.
LEMMA SameTold ==
  ASSUME EInv, UNCHANGED <<jobs, event, announced>>
  PROVE  \A k \in JobId : Stored(k)' => Told(k)'
BY DEF EInv, Told, Stored

LEMMA CallTold ==
  ASSUME EInv, OneCaller, HasSink, NEW p \in Proc, Call(p)
  PROVE  \A k \in JobId : Stored(k)' => Told(k)'
<1>1. event[p] = None /\ IInv
  BY CallForms DEF EInv, SInv, Idle
<1>2. ASSUME NEW j \in JobId, NEW state \in JobState, NEW error,
             Transition(j, state, error), Owes(p, j, state), announced' = announced
      PROVE  \A k \in JobId : Stored(k)' => Told(k)'
  BY <1>1, <1>2, TransitionStates, WriteTold
<1>3. ASSUME NEW r \in list({"Submitted"}), Claim(r, "Validating"),
             Owes(p, r.id, "Validating"), announced' = announced
      PROVE  \A k \in JobId : Stored(k)' => Told(k)'
  BY <1>1, <1>3, ClaimStates, WriteTold DEF JobState
<1>. QED BY <1>1, <1>2, <1>3, CallForms, SameTold

LEMMA ProceedTold ==
  ASSUME EInv, OneCaller, HasSink, NEW p \in Proc, Proceed(p)
  PROVE  \A k \in JobId : Stored(k)' => Told(k)'
<1>1. IInv
  BY DEF EInv, SInv
<1>2. ASSUME NEW r \in upserts[p], DoUpsert(p, r)
      PROVE  \A k \in JobId : Stored(k)' => Told(k)'
  BY <1>1, <1>2, UpsertStates, WriteTold DEF DoUpsert
<1>3. ASSUME NEW j \in resumes[p], DoResume(p, j)
      PROVE  \A k \in JobId : Stored(k)' => Told(k)'
  BY <1>1, <1>3, TransitionStates, WriteTold DEF DoResume, IInv, ControlOK, JobState
<1>4. ASSUME NEW d \in removals[p], DoRemove(p, d)
      PROVE  \A k \in JobId : Stored(k)' => Told(k)'
  <2>1. \A k \in JobId : Stored(k)' => Stored(k) /\ jobs'[k] = jobs[k]
    BY <1>1, <1>4 DEF DoRemove, Remove, IInv, JobsOK, Stored
  <2>. QED BY <1>4, <2>1 DEF EInv, Told, DoRemove
<1>5. CASE emit(p)
  <2>1. event'[p] = None /\ \A q \in Proc : q = p
    BY <1>1, <1>5 DEF emit, OneCaller, IInv, ControlOK
  <2>2. announced' = [announced EXCEPT ![event[p].id] = event[p].state] /\ event[p] # None
        /\ jobs' = jobs
    BY <1>5 DEF emit, repositoryVars
  <2>3. ASSUME NEW k \in JobId, Stored(k)' PROVE announced'[k] = jobs'[k].state
    BY <1>1, <2>1, <2>2, <2>3 DEF EInv, Told, Stored, IInv, ControlOK
  <2>. QED BY <2>1, <2>3 DEF Told
<1>. QED BY <1>2, <1>3, <1>4, <1>5 DEF Proceed

\* With one caller, and a process that does not die between a write and its
\* event, the last event of every job that still exists names the state the job
\* is stored in, once the caller has returned.
THEOREM EventsTellStates ==
  ASSUME OneCaller, HasSink, MaxCrashes = 0
  PROVE  ServiceSpec => []EventsAccurate
<1>1. ServiceInit => EInv
  BY OneCallerStands DEF ServiceInit, RepositoryInit, EInv, Stored
<1>2. ASSUME EInv, [ServiceNext]_serviceVars PROVE EInv'
  <2>1. SInv'
    BY <1>2, OneCallerStands DEF EInv
  <2>2. \A p \in Proc : ~crash(p)
    BY <1>2 DEF EInv, SInv, IInv, ControlOK, crash, Forget
  <2>3. \A k \in JobId : Stored(k)' => Told(k)'
    BY <1>2, <2>2, CallTold, ProceedTold, SameTold
    DEF ServiceNext, Time, Tick, serviceVars, repositoryVars, localVars
  <2>. QED BY <2>1, <2>3 DEF EInv
<1>3. EInv => EventsAccurate
  BY DEF EInv, Told, EventsAccurate, Idle
<1>. QED BY <1>1, <1>2, <1>3, PTL DEF ServiceSpec
=============================================================================
