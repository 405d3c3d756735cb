------------------------------ MODULE JobService ------------------------------
(***************************************************************************)
(* JobService (src/job_service.cpp), called by the processes Proc that     *)
(* share one repository: ppp_jobctl processes, or threads of one host.     *)
(*                                                                         *)
(* The service has no lock of its own.  An operation reads records in one  *)
(* repository call, decides on its copies, and writes in later calls, so   *)
(* it is two kinds of step here: the one that reads and decides (the       *)
(* actions named after the operations), leaving the writes it has decided  *)
(* on in upserts, resumes and removals; and one step for each write.       *)
(* emit() calls the event sink after the write and outside every lock, so  *)
(* it is a step of its own.  An operation that finds no job, or nothing to *)
(* change, returns without writing: a stuttering step, which needs no      *)
(* action.                                                                 *)
(***************************************************************************)
EXTENDS JobRepository, SchedulingPolicy

CONSTANTS
  Proc,       \* the processes that call the service
  Commands,   \* the operations they may start
  HasSink,    \* an event sink is registered (on_event)
  Policies,   \* the policies handed to apply_scheduling_policy
  MaxCrashes  \* bound of the number of crashes

ASSUME ServiceAssumption ==
  /\ Policies \subseteq SchedulingPolicies
  /\ HasSink \in BOOLEAN
  /\ MaxCrashes \in Nat
  /\ None \notin [id : JobId, state : JobState]

VARIABLES
  issued,    \* ids create_job has generated; a random 128-bit id never recurs
  upserts,   \* upserts[p]: the record copies p is going to upsert
  resumes,   \* resumes[p]: the ids p is going to move back to Submitted
  removals,  \* removals[p]: the removals p is going to make, with purge's arguments
  event,     \* event[p]: the event p is about to emit, or None
  announced, \* announced[j]: the state in the last event the sink got for j
  crashes    \* number of crashes so far

localVars   == <<upserts, resumes, removals, event>>
serviceVars == <<repositoryVars, issued, localVars, announced, crashes>>

Event   == [id : JobId, state : JobState]
Removal == [id : JobId, state : JobState, before : Nat]

ServiceInit ==
  /\ RepositoryInit
  /\ issued = {}
  /\ upserts = [p \in Proc |-> {}]
  /\ resumes = [p \in Proc |-> {}]
  /\ removals = [p \in Proc |-> {}]
  /\ event = [p \in Proc |-> None]
  /\ announced = [j \in JobId |-> None]
  /\ crashes = 0

\* p has returned from its last operation.
Idle(p) ==
  /\ upserts[p] = {} /\ resumes[p] = {} /\ removals[p] = {}
  /\ event[p] = None

\* p is between operations and may start op.
Starts(p, op) == Idle(p) /\ op \in Commands

-----------------------------------------------------------------------------
(* Events.                                                                 *)

\* After a write p owes the sink an event, if there is a sink.
Owes(p, id, state) ==
  event' = [event EXCEPT ![p] = IF HasSink THEN [id |-> id, state |-> state] ELSE None]

emit(p) ==
  /\ event[p] # None
  /\ announced' = [announced EXCEPT ![event[p].id] = event[p].state]
  /\ event' = [event EXCEPT ![p] = None]
  /\ UNCHANGED <<repositoryVars, issued, upserts, resumes, removals, crashes>>

-----------------------------------------------------------------------------
(* The writes an operation has decided on.                                 *)

\* Leaves the records R to be upserted by p.
WillUpsert(p, R) ==
  /\ upserts' = [upserts EXCEPT ![p] = R]
  /\ UNCHANGED <<repositoryVars, resumes, removals, event, announced, crashes>>

\* A fault the mutants of PROJECT.json plant: a resumption without its event.
DoResumeSilently(p, j) ==
  /\ event[p] = None
  /\ j \in resumes[p]
  /\ Transition(j, "Submitted", None)
  /\ resumes' = [resumes EXCEPT ![p] = @ \ {j}]
  /\ UNCHANGED <<now, issued, upserts, event, removals, announced, crashes>>

DoUpsert(p, r) ==
  /\ event[p] = None
  /\ r \in upserts[p]
  /\ Upsert(r)
  /\ upserts' = [upserts EXCEPT ![p] = @ \ {r}]
  /\ Owes(p, r.id, r.state)
  /\ UNCHANGED <<now, issued, resumes, removals, announced, crashes>>

\* transition(id, Submitted), decided on by resume_active_jobs.
DoResume(p, j) ==
  /\ event[p] = None
  /\ j \in resumes[p]
  /\ Transition(j, "Submitted", None)
  /\ resumes' = [resumes EXCEPT ![p] = @ \ {j}]
  /\ Owes(p, j, "Submitted")
  /\ UNCHANGED <<now, issued, upserts, removals, announced, crashes>>

\* purge emits no event.
DoRemove(p, d) ==
  /\ event[p] = None
  /\ d \in removals[p]
  /\ Remove(d.id)
  /\ removals' = [removals EXCEPT ![p] = @ \ {d}]
  /\ UNCHANGED <<now, issued, upserts, resumes, event, announced, crashes>>

-----------------------------------------------------------------------------
(* create_job, and the operations that change one field of one job.        *)

\* Faults the mutants of PROJECT.json plant in the definitions below.
FreshUnstamped(j, priority, due, correlation, attachments, tags) ==
  [ id |-> j, state |-> "Submitted", priority |-> priority, due |-> due,
    created |-> now, updated |-> None, lastAttempt |-> None, attempts |-> 0,
    error |-> None, correlation |-> correlation,
    attachments |-> attachments, tags |-> tags ]
RetryResetting(p) ==
  \E j \in JobId :
    /\ Starts(p, "retry")
    /\ Stored(j)
    /\ WillUpsert(p, {[jobs[j] EXCEPT !.state = "Submitted", !.error = None, !.attempts = 0]})
    /\ UNCHANGED issued
RetryInPlace(p) ==
  \E j \in JobId :
    /\ Starts(p, "retry")
    /\ Stored(j)
    /\ WillUpsert(p, {[jobs[j] EXCEPT !.error = None]})
    /\ UNCHANGED issued

\* The record create_job builds; all its other fields are the arguments.
Fresh(j, priority, due, correlation, attachments, tags) ==
  [ id |-> j, state |-> "Submitted", priority |-> priority, due |-> due,
    created |-> now, updated |-> now, lastAttempt |-> None, attempts |-> 0,
    error |-> None, correlation |-> correlation,
    attachments |-> attachments, tags |-> tags ]

create_job(p) ==
  \E j \in JobId \ issued, priority \in Priorities, due \in DueTimes \cup {None},
     correlation \in Correlations \cup {None},
     attachments \in SUBSET Attachments, tags \in SUBSET Tags :
    /\ Starts(p, "create_job")
    /\ issued' = issued \cup {j}
    /\ WillUpsert(p, {Fresh(j, priority, due, correlation, attachments, tags)})

\* The fetched copy becomes r, to be upserted whole; equal copies are not
\* written.
Edit(p, op, j, r) ==
  /\ Starts(p, op)
  /\ Stored(j)
  /\ r # jobs[j]
  /\ WillUpsert(p, {r})
  /\ UNCHANGED issued

update_priority(p) ==
  \E j \in JobId, value \in Priorities :
    Edit(p, "update_priority", j, [jobs[j] EXCEPT !.priority = value])

update_due_at(p) ==
  \E j \in JobId, value \in DueTimes \cup {None} :
    Edit(p, "update_due_at", j, [jobs[j] EXCEPT !.due = value])

update_correlation(p) ==
  \E j \in JobId, value \in Correlations \cup {None} :
    Edit(p, "update_correlation", j, [jobs[j] EXCEPT !.correlation = value])

add_attachment(p) ==
  \E j \in JobId, a \in Attachments :
    Edit(p, "add_attachment", j, [jobs[j] EXCEPT !.attachments = @ \cup {a}])

remove_attachment(p) ==
  \E j \in JobId, a \in Attachments :
    Edit(p, "remove_attachment", j, [jobs[j] EXCEPT !.attachments = @ \ {a}])

clear_attachments(p) ==
  \E j \in JobId :
    Edit(p, "clear_attachments", j, [jobs[j] EXCEPT !.attachments = {}])

add_tag(p) ==
  \E j \in JobId, t \in Tags :
    Edit(p, "add_tag", j, [jobs[j] EXCEPT !.tags = @ \cup {t}])

remove_tag(p) ==
  \E j \in JobId, t \in Tags :
    Edit(p, "remove_tag", j, [jobs[j] EXCEPT !.tags = @ \ {t}])

clear_tags(p) ==
  \E j \in JobId : Edit(p, "clear_tags", j, [jobs[j] EXCEPT !.tags = {}])

\* retry always writes, from whatever state the job was fetched in.
retry(p) ==
  \E j \in JobId, clear_error \in BOOLEAN :
    /\ Starts(p, "retry")
    /\ Stored(j)
    /\ WillUpsert(p, {[jobs[j] EXCEPT !.state = "Submitted",
                                      !.error = IF clear_error THEN None ELSE @]})
    /\ UNCHANGED issued

-----------------------------------------------------------------------------
(* The lifecycle transitions: one repository call, no read.                *)

\* The event is emitted whether or not the job exists.
transition(p, j, state, error) ==
  /\ Transition(j, state, error)
  /\ Owes(p, j, state)

Mark(p, op, j, state, error) ==
  /\ Starts(p, op)
  /\ transition(p, j, state, error)
  /\ UNCHANGED <<now, issued, upserts, resumes, removals, announced, crashes>>

mark_validating(p) ==
  \E j \in JobId : Mark(p, "mark_validating", j, "Validating", None)

mark_rendering(p) ==
  \E j \in JobId : Mark(p, "mark_rendering", j, "Rendering", None)

mark_completed(p) ==
  \E j \in JobId : Mark(p, "mark_completed", j, "Completed", None)

mark_failed(p) ==
  \E j \in JobId, message \in Messages :
    Mark(p, "mark_failed", j, "Exception", message)

mark_cancelled(p) ==
  \E j \in JobId, reason \in Messages \cup {None} :
    Mark(p, "mark_cancelled", j, "Cancelled", reason)

claim_next_submitted(p) ==
  \E r \in list({"Submitted"}) :
    /\ Starts(p, "claim_next_submitted")
    /\ Claim(r, "Validating")
    /\ Owes(p, r.id, "Validating")
    /\ UNCHANGED <<now, issued, upserts, resumes, removals, announced, crashes>>

-----------------------------------------------------------------------------
(* The operations that list the jobs and then write some of them.          *)

\* Faults the mutants of PROJECT.json plant in the definitions below.
ResumeFailedToo(p) ==
  /\ Starts(p, "resume_active_jobs")
  /\ resumes' = [resumes EXCEPT ![p] = {r.id : r \in list(Active \cup {"Exception"})}]
  /\ UNCHANGED <<repositoryVars, issued, upserts, removals, event, announced, crashes>>
ResumeRenderingOnly(p) ==
  /\ Starts(p, "resume_active_jobs")
  /\ resumes' = [resumes EXCEPT ![p] = {r.id : r \in list({"Rendering"})}]
  /\ UNCHANGED <<repositoryVars, issued, upserts, removals, event, announced, crashes>>
ExpiredByCreation(state, before) == {r \in list({state}) : r.created < before}

\* The listed records the policy raises, with their new priorities.
Escalations(policy) ==
  UNION {{[r EXCEPT !.priority = v] : v \in EscalatedPriority(policy, r, now)} :
           r \in list(JobState)}

\* An empty policy returns before listing, which changes nothing here: it
\* escalates no record.
apply_scheduling_policy(p) ==
  \E policy \in Policies :
    /\ Starts(p, "apply_scheduling_policy")
    /\ Escalations(policy) # {}
    /\ WillUpsert(p, Escalations(policy))
    /\ UNCHANGED issued

resume_active_jobs(p) ==
  /\ Starts(p, "resume_active_jobs")
  /\ resumes' = [resumes EXCEPT ![p] = {r.id : r \in list(Active)}]
  /\ UNCHANGED <<repositoryVars, issued, upserts, removals, event, announced, crashes>>

\* updated_at is always set here: upsert and create_job set it.
Expired(state, before) == {r \in list({state}) : r.updated < before}

purge(p) ==
  \E state \in JobState, before \in 0 .. MaxTime + 1 :
    /\ Starts(p, "purge")
    /\ removals' = [removals EXCEPT ![p] =
         {[id |-> r.id, state |-> state, before |-> before] : r \in Expired(state, before)}]
    /\ UNCHANGED <<repositoryVars, issued, upserts, resumes, event, announced, crashes>>

-----------------------------------------------------------------------------
(* A process dies, or a repository call throws, in the middle of an        *)
(* operation: the writes and the event it still had to make are lost.      *)

Forget(p) ==
  /\ crashes < MaxCrashes
  /\ crashes' = crashes + 1
  /\ upserts' = [upserts EXCEPT ![p] = {}]
  /\ resumes' = [resumes EXCEPT ![p] = {}]
  /\ removals' = [removals EXCEPT ![p] = {}]
  /\ event' = [event EXCEPT ![p] = None]
  /\ UNCHANGED <<repositoryVars, issued, announced>>

crash(p) == ~Idle(p) /\ Forget(p)

-----------------------------------------------------------------------------
\* p starts an operation.
Call(p) ==
  \/ create_job(p)
  \/ update_priority(p)
  \/ update_due_at(p)
  \/ update_correlation(p)
  \/ add_attachment(p)
  \/ remove_attachment(p)
  \/ clear_attachments(p)
  \/ add_tag(p)
  \/ remove_tag(p)
  \/ clear_tags(p)
  \/ retry(p)
  \/ mark_validating(p)
  \/ mark_rendering(p)
  \/ mark_completed(p)
  \/ mark_failed(p)
  \/ mark_cancelled(p)
  \/ claim_next_submitted(p)
  \/ apply_scheduling_policy(p)
  \/ resume_active_jobs(p)
  \/ purge(p)

\* p goes on with the operation it is in.
Proceed(p) ==
  \/ \E r \in upserts[p] : DoUpsert(p, r)
  \/ \E j \in resumes[p] : DoResume(p, j)
  \/ \E d \in removals[p] : DoRemove(p, d)
  \/ emit(p)

\* Time passes for everyone.
Time == Tick /\ UNCHANGED <<issued, localVars, announced, crashes>>

ServiceNext == Time \/ \E p \in Proc : Call(p) \/ Proceed(p) \/ crash(p)

ServiceSpec == ServiceInit /\ [][ServiceNext]_serviceVars

-----------------------------------------------------------------------------
(* Correctness.                                                            *)

\* The variables hold values of their types, records are stored under their
\* own ids, and only ids that were issued are stored or about to be written.
ServiceTypeOK ==
  /\ now \in 0 .. MaxTime
  /\ issued \in SUBSET JobId
  /\ jobs \in [JobId -> JobRecord \cup {None}]
  /\ \A j \in JobId : Stored(j) => jobs[j].id = j /\ j \in issued
  /\ upserts \in [Proc -> SUBSET JobRecord]
  /\ \A p \in Proc : \A r \in upserts[p] : r.id \in issued
  /\ resumes \in [Proc -> SUBSET JobId]
  /\ removals \in [Proc -> SUBSET Removal]
  /\ event \in [Proc -> Event \cup {None}]
  /\ announced \in [JobId -> JobState \cup {None}]
  /\ crashes \in 0 .. MaxCrashes

\* An error message is there when the job failed, and is gone once the job is
\* claimed again or completes.
ErrorMatchesState(r) ==
  /\ r.state = "Exception" => r.error # None
  /\ r.error # None => r.state \in {"Exception", "Cancelled", "Submitted"}

\* The claim history of a record is coherent: it has been attempted exactly
\* if it has a last attempt, and creation, last attempt and last update
\* happened in that order, not in the future.
HistoryCoherent(r) ==
  /\ r.attempts > 0 <=> r.lastAttempt # None
  /\ r.lastAttempt # None => r.created <= r.lastAttempt /\ r.lastAttempt <= r.updated
  /\ r.created <= r.updated /\ r.updated <= now

\* Both hold of every stored record, whatever the interleaving of claims,
\* transitions, retries and writes of stale copies.
ErrorsMatchStates == \A j \in JobId : Stored(j) => ErrorMatchesState(jobs[j])
HistoriesCoherent == \A j \in JobId : Stored(j) => HistoryCoherent(jobs[j])

\* What makes the two inductive: the copies waiting to be upserted have the
\* same properties.
CopiesCoherent ==
  \A p \in Proc : \A r \in upserts[p] : ErrorMatchesState(r) /\ HistoryCoherent(r)

\* With one caller at a time, the last event of a job that still exists
\* names the state it is stored in (README: lifecycle events remain accurate).
EventsAccurate ==
  (\A p \in Proc : Idle(p)) =>
    \A j \in JobId : Stored(j) => announced[j] = jobs[j].state

\* purge removes a job only while it is in the given state and its last
\* activity predates the given time.
PurgeOnlyExpired ==
  [][\A p \in Proc : \A d \in removals[p] :
       d \notin removals'[p] /\ Stored(d.id) /\ ~Stored(d.id)' =>
         jobs[d.id].state = d.state /\ jobs[d.id].updated < d.before]_serviceVars

\* resume_active_jobs puts back only jobs that are still validating or
\* rendering.
ResumeOnlyActive ==
  [][\A p \in Proc : \A j \in resumes[p] :
       j \notin resumes'[p] /\ Stored(j) /\ jobs'[j] # jobs[j] =>
         jobs[j].state \in Active]_serviceVars

\* No operation undoes an attempt: while a job is stored its attempt counter
\* never decreases, and it increases only when the job leaves the queue.
AttemptsOnlyGrow ==
  [][\A j \in JobId : Stored(j) /\ Stored(j)' =>
       /\ jobs'[j].attempts >= jobs[j].attempts
       /\ jobs'[j].attempts > jobs[j].attempts =>
            jobs[j].state = "Submitted" /\ jobs'[j].state \in Active]_serviceVars
=============================================================================
