-------------------------- MODULE JobProcessorProofs --------------------------
(***************************************************************************)
(* What the job system keeps true for every number of workers, clients,    *)
(* jobs and crashes: its types; and, for the operations that do not write  *)
(* back a fetched copy, that the attempt numbers tell all claims apart     *)
(* and, if nobody resumes jobs either, that claims are exclusive.          *)
(*                                                                         *)
(* Then what the job system promises to its users, whatever crashes: it    *)
(* loses no job but in a crash (NoOrphans), and it implements JobQueue,    *)
(* the abstract queue that numbers the times it hands a job out.  Both     *)
(* hold as long as no process writes back a fetched copy, and as long as   *)
(* only workers claim jobs; NoOrphans also needs that only workers mark a  *)
(* job as being worked on.                                                 *)
(***************************************************************************)
EXTENDS JobProcessor, JobServiceProofs, FiniteSetTheorems

\* The operations that fetch records and later upsert changed copies of them.
WritesBack ==
  { "update_priority", "update_due_at", "update_correlation", "add_attachment",
    "remove_attachment", "clear_attachments", "add_tag", "remove_tag",
    "clear_tags", "retry", "apply_scheduling_policy" }

WorkersOK ==
  /\ pc \in [Worker -> WorkerPc]
  /\ held \in [Worker -> Holding \cup {None}]
  /\ \A w \in Worker : held[w] = None <=> pc[w] \in {"off", "claim"}
  /\ \A w \in Worker : held[w] # None => held[w].id \in issued

WInv == IInv /\ WorkersOK

-----------------------------------------------------------------------------
(* Types.                                                                  *)

\* Ids are only ever added to those issued.
LEMMA CallIssues ==
  ASSUME NEW p \in Proc, Call(p)
  PROVE  issued \subseteq issued'
<1>1. CASE create_job(p)
  BY <1>1 DEF create_job
<1>2. CASE update_priority(p) \/ update_due_at(p) \/ update_correlation(p)
  BY <1>2 DEF update_priority, update_due_at, update_correlation, Edit
<1>3. CASE add_attachment(p) \/ remove_attachment(p) \/ clear_attachments(p)
  BY <1>3 DEF add_attachment, remove_attachment, clear_attachments, Edit
<1>4. CASE add_tag(p) \/ remove_tag(p) \/ clear_tags(p)
  BY <1>4 DEF add_tag, remove_tag, clear_tags, Edit
<1>5. CASE retry(p) \/ apply_scheduling_policy(p)
  BY <1>5 DEF retry, apply_scheduling_policy
<1>6. CASE mark_validating(p) \/ mark_rendering(p) \/ mark_completed(p)
           \/ mark_failed(p) \/ mark_cancelled(p)
  BY <1>6 DEF mark_validating, mark_rendering, mark_completed, mark_failed,
              mark_cancelled, Mark
<1>7. CASE claim_next_submitted(p) \/ resume_active_jobs(p) \/ purge(p)
  BY <1>7 DEF claim_next_submitted, resume_active_jobs, purge
<1>8. QED BY <1>1, <1>2, <1>3, <1>4, <1>5, <1>6, <1>7 DEF Call

LEMMA ProceedIssues ==
  ASSUME NEW p \in Proc, Proceed(p)
  PROVE  issued' = issued
BY DEF Proceed, DoUpsert, DoResume, DoRemove, emit

\* A step that leaves the workers alone.
LEMMA WorkersStay ==
  ASSUME WorkersOK, UNCHANGED workerVars, issued \subseteq issued'
  PROVE  WorkersOK'
BY DEF WorkersOK, workerVars

LEMMA ClientStepTyped ==
  ASSUME WInv, NEW p \in Client, ClientStep(p)
  PROVE  WInv'
<1>1. p \in Proc
  BY DEF Client
<1>2. IInv'
  BY <1>1, CallOK, ProceedOK, ForgetOK DEF WInv, ClientStep, crash
<1>3. issued \subseteq issued'
  BY <1>1, CallIssues, ProceedIssues DEF ClientStep, crash, Forget
<1>4. QED BY <1>2, <1>3, WorkersStay DEF WInv, ClientStep

LEMMA LaunchTyped ==
  ASSUME WInv, NEW w \in Worker, Launch(w) \/ LaunchResume(w)
  PROVE  WInv'
<1>1. w \in Proc
  BY WorkerAssumption
<1>2. IInv'
  BY <1>1, StutterOK, ResumeOK DEF WInv, Launch, LaunchResume
<1>3. issued' = issued
  BY DEF Launch, LaunchResume, resume_active_jobs, serviceVars
<1>4. WorkersOK'
  BY <1>3 DEF WInv, WorkersOK, Launch, LaunchResume, At, Goto, WorkerPc
<1>5. QED BY <1>2, <1>4 DEF WInv

LEMMA ClaimNextTyped ==
  ASSUME WInv, NEW w \in Worker, ClaimNext(w)
  PROVE  WInv'
<1>1. PICK r \in list({"Submitted"}) :
        /\ At(w, "claim")
        /\ Claim(r, "Validating")
        /\ Owes(w, r.id, "Validating")
        /\ held' = [held EXCEPT ![w] = [id |-> r.id, attempt |-> r.attempts + 1]]
        /\ Goto(w, "rendering")
        /\ UNCHANGED unchangedByWorker
  BY DEF ClaimNext
<1>2. w \in Proc
  BY WorkerAssumption
<1>3. IInv'
  BY <1>1, <1>2, ClaimOK DEF WInv, unchangedByWorker
<1>4. r.id \in JobId /\ r.id \in issued /\ r.attempts \in Nat
  BY Listed DEF WInv, IInv, Good, JobRecord
<1>5. [id |-> r.id, attempt |-> r.attempts + 1] \in Holding
  BY <1>4 DEF Holding
<1>6. WorkersOK'
  BY <1>1, <1>4, <1>5, HoldingAssumption
  DEF WInv, WorkersOK, Goto, WorkerPc, unchangedByWorker
<1>7. QED BY <1>3, <1>6 DEF WInv

LEMMA MarkRenderingTyped ==
  ASSUME WInv, NEW w \in Worker, MarkRendering(w)
  PROVE  WInv'
<1>1. w \in Proc /\ held[w].id \in JobId
  BY WorkerAssumption DEF WInv, WorkersOK, MarkRendering, At, Holding
<1>2. IInv'
  BY <1>1, TransitionOK DEF WInv, MarkRendering, unchangedByWorker, JobState
<1>3. WorkersOK'
  BY DEF WInv, WorkersOK, MarkRendering, At, Goto, WorkerPc, unchangedByWorker
<1>4. QED BY <1>2, <1>3 DEF WInv

LEMMA FinishTyped ==
  ASSUME WInv, NEW w \in Worker, Finish(w)
  PROVE  WInv'
<1>1. PICK outcome \in Outcome, next \in {"claim", "off"} :
        /\ At(w, "handler")
        /\ transition(w, held[w].id, outcome[1], outcome[2])
        /\ Goto(w, next)
        /\ held' = [held EXCEPT ![w] = None]
        /\ UNCHANGED unchangedByWorker
  BY DEF Finish
<1>2. w \in Proc /\ held[w].id \in JobId
  BY <1>1, WorkerAssumption DEF WInv, WorkersOK, At, Holding
<1>3. /\ outcome[1] \in JobState /\ outcome[2] \in Messages \cup {None}
      /\ outcome[1] = "Exception" => outcome[2] # None
      /\ outcome[2] # None => outcome[1] \in {"Exception", "Cancelled"}
  BY RecordAssumption DEF Outcome, JobState
<1>4. IInv'
  BY <1>1, <1>2, <1>3, TransitionOK DEF WInv, unchangedByWorker
<1>5. WorkersOK'
  BY <1>1 DEF WInv, WorkersOK, Goto, WorkerPc, unchangedByWorker
<1>6. QED BY <1>4, <1>5 DEF WInv

LEMMA WorkTyped ==
  ASSUME WInv, NEW w \in Worker, Work(w)
  PROVE  WInv'
<1>1. CASE ClaimNothing(w) \/ GetCurrent(w) \/ GetMissing(w)
  <2>1. IInv'
    BY <1>1, StutterOK DEF WInv, ClaimNothing, GetCurrent, GetMissing
  <2>2. WorkersOK'
    BY <1>1
    DEF WInv, WorkersOK, ClaimNothing, GetCurrent, GetMissing, At, Goto, WorkerPc,
        serviceVars
  <2>3. QED BY <2>1, <2>2 DEF WInv
<1>2. CASE Proceed(w) /\ UNCHANGED workerVars
  BY <1>2, WorkerAssumption, ProceedOK, ProceedIssues, WorkersStay DEF WInv
<1>3. QED BY <1>1, <1>2, ClaimNextTyped, MarkRenderingTyped, FinishTyped DEF Work

LEMMA CrashWorkerTyped ==
  ASSUME WInv, NEW w \in Worker, CrashWorker(w)
  PROVE  WInv'
<1>1. IInv'
  BY WorkerAssumption, ForgetOK DEF WInv, CrashWorker
<1>2. WorkersOK'
  BY DEF WInv, WorkersOK, CrashWorker, Forget, Goto, WorkerPc
<1>3. QED BY <1>1, <1>2 DEF WInv

LEMMA InitTyped == Init => WInv
BY InitOK DEF Init, WInv, WorkersOK, WorkerPc

LEMMA NextTyped == WInv /\ [Next]_vars => WInv'
<1> SUFFICES ASSUME WInv, [Next]_vars PROVE WInv'
  OBVIOUS
<1>1. CASE Time /\ UNCHANGED workerVars
  BY <1>1, TimeOK, WorkersStay DEF WInv, Time
<1>2. CASE UNCHANGED vars
  BY <1>2, StutterOK, WorkersStay DEF WInv, vars, serviceVars
<1>3. QED
  BY <1>1, <1>2, ClientStepTyped, LaunchTyped, WorkTyped, CrashWorkerTyped DEF Next

\* The types of the whole job system's state, for any workers, clients, jobs,
\* crashes and operations.
THEOREM Typed == Spec => []TypeOK
<1>1. WInv => TypeOK
  BY InvImplies DEF WInv, WorkersOK, TypeOK
<1>2. QED BY <1>1, InitTyped, NextTyped, PTL DEF Spec
-----------------------------------------------------------------------------
(* How exclusive a claim is.  As long as no process writes back a fetched  *)
(* copy, no two claims are alike: the number of attempts tells a worker    *)
(* whether the job is still its own.  If, moreover, nobody runs            *)
(* resume_active_jobs, a job is never in two hands at all.  DoubleClaim.cfg *)
(* shows that the first condition is needed.                               *)


\* A record about to be upserted is a new one: nobody else writes it, it is
\* not stored, and no worker has ever held it.
CopiesNew ==
  /\ \A p, q \in Proc : \A r \in upserts[p], s \in upserts[q] :
       r.id = s.id => p = q /\ r = s
  /\ \A p \in Proc : \A r \in upserts[p] :
       ~Stored(r.id) /\ \A w \in Worker : held[w] # None => held[w].id # r.id

AInv == WInv /\ CopiesNew /\ AttemptsExclusive

-----------------------------------------------------------------------------
(* Gentle steps: what they do to the table leaves every claim intact.      *)

\* No job appears, no count of attempts falls, and no copy is made.
Gentle ==
  /\ \A j \in JobId : Stored(j)' => Stored(j) /\ jobs'[j].attempts >= jobs[j].attempts
  /\ \A p \in Proc : upserts'[p] \subseteq upserts[p]

\* No job goes back to the queue.
NoReturns ==
  \A j \in JobId : Stored(j)' /\ jobs'[j].state = "Submitted" =>
    Stored(j) /\ jobs[j].state = "Submitted"

\* No worker gets a job.
NoTaking == \A w \in Worker : held'[w] = held[w] \/ held'[w] = None

LEMMA TransitionGentle ==
  ASSUME IInv, NEW j \in JobId, NEW state, NEW error,
         Transition(j, state, error), upserts' = upserts
  PROVE  Gentle /\ (state # "Submitted" => NoReturns)
<1>1. ASSUME NEW k \in JobId, Stored(k)'
      PROVE  /\ Stored(k) /\ jobs'[k].attempts = jobs[k].attempts
             /\ jobs'[k].state \in {jobs[k].state, state}
  <2>1. CASE k # j
    BY <1>1, <2>1 DEF IInv, JobsOK, Transition, Stored
  <2>2. CASE k = j
    <3>1. Stored(j) /\ jobs'[j] = Transitioned(jobs[j], state, error)
      BY <1>1, <2>2 DEF IInv, JobsOK, Transition, Stored
    <3>2. jobs[j] \in JobRecord
      BY <3>1, StoredGood DEF IInv, Good
    <3>3. QED BY <2>2, <3>1, <3>2 DEF Transitioned, JobRecord
  <2>3. QED BY <2>1, <2>2
<1>2. \A k \in JobId : Stored(k) => jobs[k].attempts \in Nat
  BY StoredGood DEF IInv, Good, JobRecord
<1>3. Gentle
  BY <1>1, <1>2 DEF Gentle
<1>4. state # "Submitted" => NoReturns
  <2>1. SUFFICES ASSUME state # "Submitted", NEW k \in JobId, Stored(k)',
                        jobs'[k].state = "Submitted"
                 PROVE  Stored(k) /\ jobs[k].state = "Submitted"
    BY DEF NoReturns
  <2>2. QED BY <1>1, <2>1
<1>5. QED BY <1>3, <1>4

LEMMA RemoveGentle ==
  ASSUME IInv, NEW j \in JobId, Remove(j), upserts' = upserts
  PROVE  Gentle /\ NoReturns
<1>1. \A k \in JobId : Stored(k)' => Stored(k) /\ jobs'[k] = jobs[k]
  BY DEF IInv, JobsOK, Remove, Stored
<1>2. \A k \in JobId : Stored(k) => jobs[k].attempts \in Nat
  BY StoredGood DEF IInv, Good, JobRecord
<1>3. QED BY <1>1, <1>2 DEF Gentle, NoReturns

LEMMA SameTableGentle ==
  ASSUME IInv, jobs' = jobs, \A p \in Proc : upserts'[p] \subseteq upserts[p]
  PROVE  Gentle /\ NoReturns
<1>1. \A k \in JobId : Stored(k) => jobs[k].attempts \in Nat
  BY StoredGood DEF IInv, Good, JobRecord
<1>2. QED BY <1>1 DEF Gentle, NoReturns, Stored

LEMMA ClaimGentle ==
  ASSUME IInv, NEW r \in list({"Submitted"}), Claim(r, "Validating"), upserts' = upserts
  PROVE  /\ Gentle /\ NoReturns
         /\ jobs'[r.id].attempts = r.attempts + 1
         /\ jobs'[r.id].state = "Validating"
<1>1. r.id \in JobId /\ r = jobs[r.id] /\ Stored(r.id) /\ r \in JobRecord
  BY Listed DEF IInv, Good
<1>2. jobs'[r.id] = Claimed(r, "Validating")
  BY <1>1 DEF IInv, JobsOK, Claim
<1>3. jobs'[r.id].attempts = r.attempts + 1 /\ jobs'[r.id].state = "Validating"
  BY <1>1, <1>2 DEF Claimed, JobRecord
<1>4. \A k \in JobId : k # r.id => jobs'[k] = jobs[k]
  BY <1>1 DEF IInv, JobsOK, Claim
<1>5. \A k \in JobId : Stored(k) => jobs[k].attempts \in Nat
  BY StoredGood DEF IInv, Good, JobRecord
<1>6. Gentle
  BY <1>1, <1>3, <1>4, <1>5 DEF Gentle, Stored
<1>7. NoReturns
  BY <1>1, <1>3, <1>4 DEF NoReturns, Stored
<1>8. QED BY <1>3, <1>6, <1>7

-----------------------------------------------------------------------------
(* What the operations do, when none of them writes back a copy.           *)

\* A call that creates no job decides on no upsert.  It writes nothing at once,
\* or makes one transition, or claims the best job.
LEMMA PlainCall ==
  ASSUME Commands \cap WritesBack = {}, NEW p \in Proc, Call(p), ~create_job(p)
  PROVE  /\ UNCHANGED <<upserts, issued, crashes>>
         /\ \/ jobs' = jobs
            \/ \E j \in JobId, state \in JobState \ {"Submitted"}, error \in Messages \cup {None} :
                 /\ Transition(j, state, error)
                 /\ state = "Validating" => "mark_validating" \in Commands
                 /\ state = "Rendering" => "mark_rendering" \in Commands
            \/ /\ "claim_next_submitted" \in Commands
               /\ \E r \in list({"Submitted"}) : Claim(r, "Validating")
<1>1. \A op \in WritesBack : op \notin Commands
  OBVIOUS
<1>2. ~( update_priority(p) \/ update_due_at(p) \/ update_correlation(p)
         \/ add_attachment(p) \/ remove_attachment(p) \/ clear_attachments(p)
         \/ add_tag(p) \/ remove_tag(p) \/ clear_tags(p) )
  BY <1>1
  DEF WritesBack, update_priority, update_due_at, update_correlation, add_attachment,
      remove_attachment, clear_attachments, add_tag, remove_tag, clear_tags, Edit, Starts
<1>3. ~(retry(p) \/ apply_scheduling_policy(p))
  BY <1>1 DEF WritesBack, retry, apply_scheduling_policy, Starts
<1>4. ASSUME NEW op, NEW j \in JobId, NEW state \in JobState \ {"Submitted"},
             NEW error \in Messages \cup {None}, Mark(p, op, j, state, error)
      PROVE  op \in Commands /\ Transition(j, state, error) /\ UNCHANGED <<upserts, issued, crashes>>
  BY <1>4 DEF Mark, transition, Starts
<1>5. CASE mark_validating(p)
  BY <1>4, <1>5 DEF mark_validating, JobState
<1>6. CASE mark_rendering(p)
  BY <1>4, <1>6 DEF mark_rendering, JobState
<1>7. ASSUME mark_completed(p) \/ mark_failed(p) \/ mark_cancelled(p)
      PROVE  \E j \in JobId, state \in {"Completed", "Exception", "Cancelled"},
                error \in Messages \cup {None} :
           \E op : Mark(p, op, j, state, error)
  <2>1. CASE mark_completed(p)
    BY <2>1 DEF mark_completed
  <2>2. CASE mark_failed(p)
    BY <2>2 DEF mark_failed
  <2>3. CASE mark_cancelled(p)
    BY <2>3 DEF mark_cancelled
  <2>4. QED BY <1>7, <2>1, <2>2, <2>3
<1>8. CASE mark_completed(p) \/ mark_failed(p) \/ mark_cancelled(p)
  <2>1. PICK j \in JobId, state \in {"Completed", "Exception", "Cancelled"},
             error \in Messages \cup {None} : \E op : Mark(p, op, j, state, error)
    BY <1>7, <1>8
  <2>2. state \in JobState \ {"Submitted"} /\ state # "Validating" /\ state # "Rendering"
    BY DEF JobState
  <2>3. QED BY <1>4, <2>1, <2>2
<1>10. CASE claim_next_submitted(p)
  BY <1>10 DEF claim_next_submitted, Starts
<1>11. CASE resume_active_jobs(p) \/ purge(p)
  BY <1>11 DEF resume_active_jobs, purge, repositoryVars
<1>12. QED BY <1>2, <1>3, <1>5, <1>6, <1>8, <1>10, <1>11 DEF Call

LEMMA CallGentle ==
  ASSUME IInv, Commands \cap WritesBack = {}, NEW p \in Proc, Call(p), ~create_job(p)
  PROVE  Gentle /\ NoReturns /\ upserts' = upserts
<1>1. upserts' = upserts
  BY PlainCall
<1>2. CASE jobs' = jobs
  BY <1>1, <1>2, SameTableGentle
<1>3. ASSUME NEW j \in JobId, NEW state \in JobState \ {"Submitted"},
             NEW error \in Messages \cup {None}, Transition(j, state, error)
      PROVE  Gentle /\ NoReturns
  BY <1>1, <1>3, TransitionGentle
<1>4. ASSUME NEW r \in list({"Submitted"}), Claim(r, "Validating")
      PROVE  Gentle /\ NoReturns
  BY <1>1, <1>4, ClaimGentle
<1>5. QED BY <1>1, <1>2, <1>3, <1>4, PlainCall

\* Going on with an operation is gentle, except for an upsert.
LEMMA ProceedGentle ==
  ASSUME IInv, NEW p \in Proc, Proceed(p), \A r \in upserts[p] : ~DoUpsert(p, r)
  PROVE  Gentle /\ (resumes[p] = {} => NoReturns)
<1>1. CASE \E j \in resumes[p] : DoResume(p, j)
  <2>1. PICK j \in resumes[p] : DoResume(p, j)
    BY <1>1
  <2>2. j \in JobId
    BY DEF IInv, ControlOK
  <2>3. QED BY <2>1, <2>2, TransitionGentle DEF DoResume
<1>2. CASE \E d \in removals[p] : DoRemove(p, d)
  <2>1. PICK d \in removals[p] : DoRemove(p, d)
    BY <1>2
  <2>2. d.id \in JobId
    BY DEF IInv, ControlOK, Removal
  <2>3. QED BY <2>1, <2>2, RemoveGentle DEF DoRemove
<1>3. CASE emit(p)
  BY <1>3, SameTableGentle DEF emit, repositoryVars
<1>4. QED BY <1>1, <1>2, <1>3 DEF Proceed

-----------------------------------------------------------------------------
(* What the steps do to the invariants.                                    *)

\* Nobody holds a job that is in the queue.
HoldersOut ==
  /\ HoldersExclusive
  /\ \A p \in Proc : resumes[p] = {}

LEMMA HeldTyped ==
  ASSUME WInv, NEW w \in Worker, held[w] # None
  PROVE  held[w].id \in JobId /\ held[w].id \in issued /\ held[w].attempt \in Nat
BY DEF WInv, WorkersOK, Holding

LEMMA CopyTyped ==
  ASSUME WInv, NEW p \in Proc, NEW r \in upserts[p]
  PROVE  r.id \in JobId /\ r.id \in issued /\ Good(r)
BY DEF WInv, IInv, CopiesOK, Good, JobRecord

LEMMA GentleKeeps ==
  ASSUME AInv, WInv', Gentle, NoTaking
  PROVE  AInv' /\ (HoldersExclusive /\ NoReturns => HoldersExclusive')
<1>1. CopiesNew'
  <2>1. \A p \in Proc : \A r \in upserts'[p] : r \in upserts[p] /\ r.id \in JobId
    BY CopyTyped DEF AInv, Gentle
  <2>2. \A p, q \in Proc : \A r \in upserts'[p], s \in upserts'[q] :
          r.id = s.id => p = q /\ r = s
    BY <2>1 DEF AInv, CopiesNew
  <2>3. ASSUME NEW p \in Proc, NEW r \in upserts'[p]
        PROVE  ~Stored(r.id)' /\ \A w \in Worker : held'[w] # None => held'[w].id # r.id
    BY <2>1 DEF AInv, CopiesNew, Gentle, NoTaking
  <2>4. QED BY <2>2, <2>3 DEF CopiesNew, Stored
<1>2. AttemptsExclusive'
  <2>1. ASSUME NEW v \in Worker, NEW w \in Worker, held'[v] # None, held'[v] = held'[w]
        PROVE  v = w
    BY <2>1 DEF AInv, AttemptsExclusive, NoTaking
  <2>2. ASSUME NEW w \in Worker, held'[w] # None, Stored(held[w].id)'
        PROVE  held'[w].attempt <= jobs'[held'[w].id].attempts
    <3>1. held'[w] = held[w] /\ held[w].id \in JobId /\ held[w].attempt \in Nat
      BY <2>2, HeldTyped DEF AInv, NoTaking
    <3>2. Stored(held[w].id) /\ jobs'[held[w].id].attempts >= jobs[held[w].id].attempts
      BY <2>2, <3>1 DEF Gentle, Stored
    <3>3. held[w].attempt <= jobs[held[w].id].attempts
      BY <2>2, <3>1, <3>2 DEF AInv, AttemptsExclusive
    <3>4. jobs[held[w].id].attempts \in Nat /\ jobs'[held[w].id].attempts \in Nat
      <4>1. jobs[held[w].id] \in JobRecord
        BY <3>1, <3>2, StoredGood DEF AInv, WInv, IInv, Good
      <4>2. jobs'[held[w].id] \in JobRecord
        BY <2>2, <3>1 DEF WInv, IInv, JobsOK, Stored
      <4>3. QED BY <4>1, <4>2 DEF JobRecord
    <3>5. QED BY <3>1, <3>2, <3>3, <3>4
  <2>3. QED BY <2>1, <2>2 DEF AttemptsExclusive, Stored
<1>3. ASSUME HoldersExclusive, NoReturns PROVE HoldersExclusive'
  <2>1. NoDoubleClaim'
    BY <1>3 DEF HoldersExclusive, NoDoubleClaim, NoTaking
  <2>2. ASSUME NEW w \in Worker, held'[w] # None, Stored(held[w].id)'
        PROVE  jobs'[held'[w].id].state # "Submitted"
    <3>1. held'[w] = held[w] /\ held[w].id \in JobId
      BY <2>2, HeldTyped DEF AInv, NoTaking
    <3>2. QED BY <1>3, <2>2, <3>1 DEF HoldersExclusive, NoReturns, Stored
  <2>3. QED BY <2>1, <2>2 DEF HoldersExclusive, Stored
<1>4. QED BY <1>1, <1>2, <1>3 DEF AInv

\* A new job is about to be written.
LEMMA CreateKeeps ==
  ASSUME AInv, WInv', NEW p \in Proc, create_job(p), UNCHANGED workerVars
  PROVE  AInv' /\ (HoldersExclusive => HoldersExclusive')
<1>1. PICK j \in JobId \ issued, priority \in Priorities, due \in DueTimes \cup {None},
           correlation \in Correlations \cup {None},
           attachments \in SUBSET Attachments, tags \in SUBSET Tags :
        WillUpsert(p, {Fresh(j, priority, due, correlation, attachments, tags)})
  BY DEF create_job
<1> PICK r : r = Fresh(j, priority, due, correlation, attachments, tags)
  OBVIOUS
<1>2. r.id = j
  BY DEF Fresh
<1>3. upserts' = [upserts EXCEPT ![p] = {r}] /\ jobs' = jobs /\ held' = held
  BY <1>1 DEF WillUpsert, repositoryVars, workerVars
<1>4. upserts'[p] = {r} /\ \A q \in Proc \ {p} : upserts'[q] = upserts[q]
  BY <1>3 DEF AInv, WInv, IInv, CopiesOK
<1>5. ~Stored(j) /\ \A w \in Worker : held[w] # None => held[w].id # j
  BY StoredGood, HeldTyped DEF AInv, WInv, IInv, Good
<1>6. \A q \in Proc : \A s \in upserts[q] : s.id # j
  BY CopyTyped DEF AInv
<1>7. \A q \in Proc : \A s \in upserts'[q] : (q = p /\ s = r) \/ (q # p /\ s \in upserts[q])
  BY <1>4
<1>8. CopiesNew'
  <2>1. \A q \in Proc, o \in Proc : \A s \in upserts'[q], t \in upserts'[o] :
          s.id = t.id => q = o /\ s = t
    BY <1>2, <1>6, <1>7 DEF AInv, CopiesNew
  <2>2. ASSUME NEW q \in Proc, NEW s \in upserts'[q]
        PROVE  ~Stored(s.id)' /\ \A w \in Worker : held'[w] # None => held'[w].id # s.id
    BY <1>2, <1>3, <1>5, <1>7 DEF AInv, CopiesNew, Stored
  <2>3. QED BY <2>1, <2>2 DEF CopiesNew, Stored
<1>9. QED
  BY <1>3, <1>8
  DEF AInv, AttemptsExclusive, HoldersExclusive, NoDoubleClaim, Stored

\* The new job is written.
LEMMA UpsertKeeps ==
  ASSUME AInv, WInv', NEW p \in Proc, NEW r \in upserts[p], DoUpsert(p, r),
         UNCHANGED workerVars
  PROVE  AInv' /\ (HoldersExclusive => HoldersExclusive')
<1>1. r.id \in JobId
  BY CopyTyped DEF AInv
<1>2. \A j \in JobId : j # r.id => jobs'[j] = jobs[j]
  BY <1>1 DEF AInv, WInv, IInv, JobsOK, DoUpsert, Upsert
<1>3. held' = held /\ \A w \in Worker : held[w] # None =>
        held[w].id \in JobId /\ held[w].id # r.id
  BY HeldTyped DEF AInv, CopiesNew, workerVars
<1>4. \A q \in Proc : \A s \in upserts'[q] : s \in upserts[q] /\ s.id \in JobId /\ s.id # r.id
  <2>1. ASSUME NEW q \in Proc, NEW s \in upserts'[q]
        PROVE  s \in upserts[q] /\ (q # p \/ s # r)
    BY <2>1 DEF AInv, WInv, IInv, CopiesOK, DoUpsert
  <2>2. QED BY <2>1, CopyTyped DEF AInv, CopiesNew
<1>5. CopiesNew'
  BY <1>2, <1>3, <1>4 DEF AInv, CopiesNew, Stored
<1>6. AttemptsExclusive' /\ (HoldersExclusive => HoldersExclusive')
  BY <1>2, <1>3 DEF AInv, AttemptsExclusive, HoldersExclusive, NoDoubleClaim, Stored
<1>7. QED BY <1>5, <1>6 DEF AInv

\* A worker claims a job.
LEMMA ClaimKeeps ==
  ASSUME AInv, WInv', NEW w \in Worker, ClaimNext(w)
  PROVE  AInv' /\ (HoldersExclusive => HoldersExclusive')
<1>1. PICK r \in list({"Submitted"}) :
        /\ Claim(r, "Validating")
        /\ held' = [held EXCEPT ![w] = [id |-> r.id, attempt |-> r.attempts + 1]]
        /\ upserts' = upserts
  BY DEF ClaimNext, unchangedByWorker
<1>2. /\ r.id \in JobId /\ Stored(r.id) /\ jobs[r.id] = r
      /\ r.attempts \in Nat /\ r.state = "Submitted"
  BY Listed DEF AInv, WInv, IInv, Good, JobRecord
<1>3. /\ Gentle /\ NoReturns
      /\ jobs'[r.id].attempts = r.attempts + 1
      /\ jobs'[r.id].state = "Validating"
  BY <1>1, ClaimGentle DEF AInv, WInv
<1>4. /\ held'[w] = [id |-> r.id, attempt |-> r.attempts + 1]
      /\ \A v \in Worker : v # w => held'[v] = held[v]
  BY <1>1 DEF AInv, WInv, WorkersOK
<1>5. \A v \in Worker : v # w /\ held[v] # None => held[v].id \in JobId /\ held[v].attempt \in Nat
  BY HeldTyped DEF AInv
<1>6. CopiesNew'
  <2>1. \A p \in Proc : \A s \in upserts[p] : s.id \in JobId /\ ~Stored(s.id) /\ s.id # r.id
    BY <1>2, CopyTyped DEF AInv, CopiesNew
  <2>2. \A p \in Proc : \A s \in upserts[p] : ~Stored(s.id)'
    BY <1>3, <2>1 DEF Gentle, Stored
  <2>3. QED BY <1>1, <1>4, <2>1, <2>2 DEF AInv, CopiesNew, Stored
<1>7. AttemptsExclusive'
  <2>1. ASSUME NEW v \in Worker, v # w, held'[v] = held'[w]
        PROVE  FALSE
    <3>1. held[v] = [id |-> r.id, attempt |-> r.attempts + 1]
      BY <1>4, <2>1
    <3>2. held[v] # None
      BY <1>2, <3>1, HoldingAssumption DEF Holding
    <3>3. held[v].attempt <= r.attempts
      BY <1>2, <3>1, <3>2 DEF AInv, AttemptsExclusive
    <3>4. held[v].attempt = r.attempts + 1
      BY <3>1
    <3>5. QED BY <1>2, <3>3, <3>4
  <2>2. ASSUME NEW v \in Worker, v # w, held'[v] # None, Stored(held[v].id)'
        PROVE  held'[v].attempt <= jobs'[held'[v].id].attempts
    <3>1. held'[v] = held[v] /\ held[v].id \in JobId /\ held[v].attempt \in Nat
      BY <1>4, <1>5, <2>2
    <3>2. Stored(held[v].id) /\ jobs'[held[v].id].attempts >= jobs[held[v].id].attempts
      BY <1>3, <2>2, <3>1 DEF Gentle, Stored
    <3>3. held[v].attempt <= jobs[held[v].id].attempts
      BY <2>2, <3>1, <3>2 DEF AInv, AttemptsExclusive
    <3>4. jobs[held[v].id].attempts \in Nat /\ jobs'[held[v].id].attempts \in Nat
      <4>1. jobs[held[v].id] \in JobRecord
        BY <3>1, <3>2, StoredGood DEF AInv, WInv, IInv, Good
      <4>2. jobs'[held[v].id] \in JobRecord
        BY <2>2, <3>1 DEF WInv, IInv, JobsOK, Stored
      <4>3. QED BY <4>1, <4>2 DEF JobRecord
    <3>5. QED BY <3>1, <3>2, <3>3, <3>4
  <2>3. held'[w].attempt <= jobs'[held'[w].id].attempts
    BY <1>2, <1>3, <1>4
  <2>4. QED BY <1>4, <2>1, <2>2, <2>3 DEF AInv, AttemptsExclusive, Stored
<1>8. ASSUME HoldersExclusive PROVE HoldersExclusive'
  <2>1. \A v \in Worker : v # w /\ held[v] # None => held[v].id # r.id
    BY <1>2, <1>8 DEF HoldersExclusive
  <2>2. NoDoubleClaim'
    BY <1>4, <1>8, <2>1 DEF HoldersExclusive, NoDoubleClaim
  <2>3. ASSUME NEW v \in Worker, held'[v] # None, Stored(held[v].id)'
        PROVE  jobs'[held'[v].id].state # "Submitted"
    <3>1. CASE v = w
      BY <1>3, <1>4, <3>1
    <3>2. CASE v # w
      BY <1>3, <1>4, <1>5, <1>8, <2>3, <3>2 DEF HoldersExclusive, NoReturns, Stored
    <3>3. QED BY <3>1, <3>2
  <2>4. QED BY <2>2, <2>3 DEF HoldersExclusive, Stored
<1>9. QED BY <1>6, <1>7, <1>8 DEF AInv

-----------------------------------------------------------------------------
(* The theorems.                                                           *)

\* Every step keeps the numbering of the claims; and it keeps claims exclusive
\* unless it puts a job back in the queue.
LEMMA StepKeeps ==
  ASSUME AInv, Commands \cap WritesBack = {}, [Next]_vars
  PROVE  /\ AInv'
         /\ HoldersExclusive /\ (\A p \in Proc : resumes[p] = {}) => HoldersExclusive'
<1>1. WInv'
  BY NextTyped DEF AInv
<1>2. ASSUME NEW p \in Proc, Proceed(p), UNCHANGED workerVars
      PROVE  AInv' /\ (HoldersExclusive /\ resumes[p] = {} => HoldersExclusive')
  <2>1. CASE \E r \in upserts[p] : DoUpsert(p, r)
    BY <1>1, <1>2, <2>1, UpsertKeeps
  <2>2. CASE \A r \in upserts[p] : ~DoUpsert(p, r)
    <3>1. Gentle /\ (resumes[p] = {} => NoReturns)
      BY <1>2, <2>2, ProceedGentle DEF AInv, WInv
    <3>2. NoTaking
      BY <1>2 DEF NoTaking, workerVars
    <3>3. QED BY <1>1, <3>1, <3>2, GentleKeeps
  <2>3. QED BY <2>1, <2>2
<1>3. ASSUME NEW p \in Proc, Forget(p), NoTaking
      PROVE  AInv' /\ (HoldersExclusive => HoldersExclusive')
  <2>1. jobs' = jobs /\ \A q \in Proc : upserts'[q] \subseteq upserts[q]
    BY <1>3 DEF AInv, WInv, IInv, CopiesOK, Forget, repositoryVars
  <2>2. Gentle /\ NoReturns
    BY <2>1, SameTableGentle DEF AInv, WInv
  <2>3. QED BY <1>1, <1>3, <2>2, GentleKeeps
<1>4. ASSUME NEW p \in Client, ClientStep(p)
      PROVE  AInv' /\ (HoldersExclusive /\ resumes[p] = {} => HoldersExclusive')
  <2>1. p \in Proc /\ UNCHANGED workerVars /\ NoTaking
    BY <1>4 DEF Client, ClientStep, NoTaking, workerVars
  <2>2. CASE create_job(p)
    BY <1>1, <2>1, <2>2, CreateKeeps
  <2>3. CASE Call(p) /\ ~create_job(p)
    <3>1. Gentle /\ NoReturns
      BY <2>1, <2>3, CallGentle DEF AInv, WInv
    <3>2. QED BY <1>1, <2>1, <3>1, GentleKeeps
  <2>4. CASE Proceed(p)
    BY <1>2, <2>1, <2>4
  <2>5. CASE crash(p)
    BY <1>3, <2>1, <2>5 DEF crash
  <2>6. QED BY <1>4, <2>2, <2>3, <2>4, <2>5 DEF ClientStep
<1>5. ASSUME NEW w \in Worker, MarkRendering(w) \/ Finish(w)
      PROVE  AInv' /\ (HoldersExclusive => HoldersExclusive')
  <2>1. held[w].id \in JobId
    BY <1>5 DEF AInv, WInv, WorkersOK, MarkRendering, Finish, At, Holding
  <2>2. PICK state, error :
          /\ Transition(held[w].id, state, error) /\ upserts' = upserts
          /\ state # "Submitted"
    BY <1>5 DEF MarkRendering, Finish, transition, unchangedByWorker, Outcome
  <2>3. Gentle /\ NoReturns
    BY <2>1, <2>2, TransitionGentle DEF AInv, WInv
  <2>4. NoTaking
    BY <1>5 DEF AInv, WInv, WorkersOK, NoTaking, MarkRendering, Finish
  <2>5. QED BY <1>1, <2>3, <2>4, GentleKeeps
<1>6. ASSUME jobs' = jobs, upserts' = upserts, NoTaking
      PROVE  AInv' /\ (HoldersExclusive => HoldersExclusive')
  <2>1. Gentle /\ NoReturns
    BY <1>6, SameTableGentle DEF AInv, WInv
  <2>2. QED BY <1>1, <1>6, <2>1, GentleKeeps
<1>7. ASSUME NEW w \in Worker,
             \/ Launch(w) \/ LaunchResume(w) \/ ClaimNothing(w)
             \/ GetCurrent(w) \/ GetMissing(w)
      PROVE  AInv' /\ (HoldersExclusive => HoldersExclusive')
  <2>1. jobs' = jobs /\ upserts' = upserts
    BY <1>7
    DEF Launch, LaunchResume, ClaimNothing, GetCurrent, GetMissing, resume_active_jobs,
        serviceVars, repositoryVars, localVars
  <2>2. NoTaking
    BY <1>7
    DEF AInv, WInv, WorkersOK, NoTaking, Launch, LaunchResume, ClaimNothing, GetCurrent,
        GetMissing
  <2>3. QED BY <1>6, <2>1, <2>2
<1>8. ASSUME NEW w \in Worker, CrashWorker(w)
      PROVE  AInv' /\ (HoldersExclusive => HoldersExclusive')
  <2>1. w \in Proc /\ NoTaking
    BY <1>8, WorkerAssumption DEF AInv, WInv, WorkersOK, NoTaking, CrashWorker
  <2>2. QED BY <1>3, <1>8, <2>1 DEF CrashWorker
<1>9. CASE (Time /\ UNCHANGED workerVars) \/ UNCHANGED vars
  BY <1>6, <1>9
  DEF Time, Tick, NoTaking, workerVars, vars, serviceVars, repositoryVars, localVars
<1>10. ASSUME NEW w \in Worker, Work(w)
       PROVE  /\ AInv'
              /\ HoldersExclusive /\ (\A p \in Proc : resumes[p] = {}) => HoldersExclusive'
  BY <1>1, <1>2, <1>5, <1>7, <1>10, ClaimKeeps, WorkerAssumption DEF Work
<1>11. QED
  BY <1>4, <1>7, <1>8, <1>9, <1>10 DEF Next, Client

\* Where nobody runs resume_active_jobs, nothing is ever about to be resumed.
LEMMA NothingResumed ==
  ASSUME WInv, "resume_active_jobs" \notin Commands, [Next]_vars,
         \A p \in Proc : resumes[p] = {}
  PROVE  \A p \in Proc : resumes'[p] = {}
<1>1. SUFFICES resumes' = resumes \/ \E p \in Proc : resumes' = [resumes EXCEPT ![p] = {}]
  BY DEF WInv, IInv, ControlOK
<1>2. ASSUME NEW p \in Proc, Call(p) PROVE resumes' = resumes
  <2>1. CASE create_job(p) \/ retry(p) \/ apply_scheduling_policy(p)
    BY <2>1 DEF create_job, retry, apply_scheduling_policy, WillUpsert
  <2>2. CASE update_priority(p) \/ update_due_at(p) \/ update_correlation(p)
    BY <2>2 DEF update_priority, update_due_at, update_correlation, Edit, WillUpsert
  <2>3. CASE add_attachment(p) \/ remove_attachment(p) \/ clear_attachments(p)
    BY <2>3 DEF add_attachment, remove_attachment, clear_attachments, Edit, WillUpsert
  <2>4. CASE add_tag(p) \/ remove_tag(p) \/ clear_tags(p)
    BY <2>4 DEF add_tag, remove_tag, clear_tags, Edit, WillUpsert
  <2>5. CASE mark_validating(p) \/ mark_rendering(p) \/ mark_completed(p)
             \/ mark_failed(p) \/ mark_cancelled(p)
    BY <2>5 DEF mark_validating, mark_rendering, mark_completed, mark_failed,
                mark_cancelled, Mark
  <2>6. CASE claim_next_submitted(p) \/ purge(p)
    BY <2>6 DEF claim_next_submitted, purge
  <2>7. CASE resume_active_jobs(p)
    BY <2>7 DEF resume_active_jobs, Starts
  <2>8. QED BY <1>2, <2>1, <2>2, <2>3, <2>4, <2>5, <2>6, <2>7 DEF Call
<1>3. ASSUME NEW p \in Proc, Proceed(p) PROVE resumes' = resumes
  BY <1>3 DEF Proceed, DoUpsert, DoResume, DoRemove, emit
<1>4. ASSUME NEW p \in Proc, Forget(p) PROVE resumes' = [resumes EXCEPT ![p] = {}]
  BY <1>4 DEF Forget
<1>5. ASSUME NEW p \in Client, ClientStep(p)
      PROVE  resumes' = resumes \/ \E q \in Proc : resumes' = [resumes EXCEPT ![q] = {}]
  BY <1>2, <1>3, <1>4, <1>5 DEF Client, ClientStep, crash
<1>6. ASSUME NEW w \in Worker, Launch(w) \/ LaunchResume(w) \/ Work(w)
      PROVE  resumes' = resumes
  BY <1>3, <1>6, WorkerAssumption
  DEF Launch, LaunchResume, resume_active_jobs, Starts, Work, ClaimNext, ClaimNothing,
      MarkRendering, GetCurrent, GetMissing, Finish, unchangedByWorker, serviceVars,
      localVars
<1>7. ASSUME NEW w \in Worker, CrashWorker(w)
      PROVE  \E q \in Proc : resumes' = [resumes EXCEPT ![q] = {}]
  BY <1>4, <1>7, WorkerAssumption DEF CrashWorker
<1>8. CASE (Time /\ UNCHANGED workerVars) \/ UNCHANGED vars
  BY <1>8 DEF Time, vars, serviceVars, localVars
<1>9. QED BY <1>5, <1>6, <1>7, <1>8 DEF Next

LEMMA ClaimInit == Init => AInv /\ HoldersOut
<1> SUFFICES ASSUME Init PROVE AInv /\ HoldersOut
  OBVIOUS
<1>1. \A p \in Proc : upserts[p] = {} /\ resumes[p] = {}
  BY DEF Init, ServiceInit
<1>2. \A w \in Worker : held[w] = None
  BY DEF Init
<1>3. QED
  BY <1>1, <1>2, InitTyped
  DEF AInv, CopiesNew, AttemptsExclusive, HoldersOut, HoldersExclusive, NoDoubleClaim

\* No two claims that are alive at the same time carry the same number, and none
\* a higher number than the job has counted: with or without --resume, crashes
\* and purges, as long as no process writes back a fetched copy.
THEOREM ClaimsNumbered ==
  ASSUME Commands \cap WritesBack = {}
  PROVE  Spec => []AttemptsExclusive
<1>1. Init => AInv
  BY ClaimInit
<1>2. AInv /\ [Next]_vars => AInv'
  BY StepKeeps
<1>3. AInv => AttemptsExclusive
  BY DEF AInv
<1>4. QED BY <1>1, <1>2, <1>3, PTL DEF Spec

\* A job is in one worker's hands at most, and not in the queue meanwhile, as long
\* as no process writes back a fetched copy or resumes active jobs.
THEOREM ClaimsExclusive ==
  ASSUME Commands \cap (WritesBack \cup {"resume_active_jobs"}) = {}
  PROVE  Spec => []HoldersExclusive
<1>1. Init => AInv /\ HoldersOut
  BY ClaimInit
<1>2. AInv /\ HoldersOut /\ [Next]_vars => (AInv /\ HoldersOut)'
  <2> SUFFICES ASSUME AInv, HoldersOut, [Next]_vars PROVE (AInv /\ HoldersOut)'
    OBVIOUS
  <2>1. Commands \cap WritesBack = {} /\ "resume_active_jobs" \notin Commands
    OBVIOUS
  <2>2. AInv' /\ HoldersExclusive'
    BY <2>1, StepKeeps DEF HoldersOut
  <2>3. \A p \in Proc : resumes'[p] = {}
    BY <2>1, NothingResumed DEF AInv, HoldersOut
  <2>4. QED BY <2>2, <2>3 DEF HoldersOut
<1>3. AInv /\ HoldersOut => HoldersExclusive
  BY DEF HoldersOut
<1>4. QED BY <1>1, <1>2, <1>3, PTL DEF Spec

-----------------------------------------------------------------------------
(* No job lost, and the queue of jobs.                                     *)

\* The copies about to be upserted are those of create_job, one at a time, and
\* workers have none.
CopiesFresh ==
  /\ \A p \in Proc : \A r \in upserts[p] :
       upserts[p] = {r} /\ r.state = "Submitted" /\ r.attempts = 0
  /\ \A w \in Worker : upserts[w] = {}

QInv == AInv /\ CopiesFresh

-----------------------------------------------------------------------------
(* The copies stay fresh.                                                  *)

\* What create_job decides on.
LEMMA Created ==
  ASSUME WInv, NEW p \in Proc, create_job(p)
  PROVE  \E j \in JobId \ issued, r \in JobRecord :
           /\ r.id = j /\ r.state = "Submitted" /\ r.attempts = 0
           /\ issued' = issued \cup {j}
           /\ upserts[p] = {} /\ upserts' = [upserts EXCEPT ![p] = {r}]
           /\ UNCHANGED <<jobs, crashes>>
<1>1. PICK j \in JobId \ issued, priority \in Priorities, due \in DueTimes \cup {None},
           correlation \in Correlations \cup {None},
           attachments \in SUBSET Attachments, tags \in SUBSET Tags :
        /\ Starts(p, "create_job")
        /\ issued' = issued \cup {j}
        /\ WillUpsert(p, {Fresh(j, priority, due, correlation, attachments, tags)})
  BY DEF create_job
<1> PICK r : r = Fresh(j, priority, due, correlation, attachments, tags)
  OBVIOUS
<1>2. r.id = j /\ r.state = "Submitted" /\ r.attempts = 0
  BY DEF Fresh
<1>3. now \in Nat
  BY BoundsAssumption DEF WInv, IInv, JobsOK
<1>4. r \in JobRecord
  BY <1>3 DEF Fresh, JobRecord, JobState
<1>5. QED BY <1>1, <1>2, <1>4 DEF WillUpsert, repositoryVars, Starts, Idle

\* A step of a worker's own program makes no copies.
LEMMA WorkerCopiesNothing ==
  ASSUME NEW w \in Worker,
         \/ Launch(w) \/ LaunchResume(w) \/ ClaimNext(w) \/ ClaimNothing(w)
         \/ MarkRendering(w) \/ GetCurrent(w) \/ GetMissing(w) \/ Finish(w)
  PROVE  UNCHANGED <<upserts, issued, crashes>>
BY DEF Launch, LaunchResume, ClaimNext, ClaimNothing, MarkRendering, GetCurrent, GetMissing,
       Finish, resume_active_jobs, unchangedByWorker, serviceVars, repositoryVars, localVars

\* Fewer copies are as fresh.
LEMMA FewerFresh ==
  ASSUME WInv, CopiesFresh,
         \/ upserts' = upserts
         \/ \E p \in Proc : \/ upserts' = [upserts EXCEPT ![p] = {}]
                           \/ \E r : upserts' = [upserts EXCEPT ![p] = @ \ {r}]
  PROVE  CopiesFresh'
<1>1. \A q \in Proc : upserts'[q] = upserts[q] \/ upserts'[q] = {}
  BY DEF WInv, IInv, CopiesOK, CopiesFresh
<1>2. Worker \subseteq Proc
  BY WorkerAssumption
<1>3. QED BY <1>1, <1>2 DEF CopiesFresh

LEMMA FreshKept ==
  ASSUME QInv, Commands \cap WritesBack = {}, [Next]_vars
  PROVE  CopiesFresh'
<1>1. WInv /\ CopiesFresh
  BY DEF QInv, AInv
<1>2. ASSUME NEW p \in Client, create_job(p) PROVE CopiesFresh'
  <2>1. p \in Proc /\ p \notin Worker
    BY DEF Client
  <2>2. PICK r \in JobRecord :
          /\ r.state = "Submitted" /\ r.attempts = 0
          /\ upserts' = [upserts EXCEPT ![p] = {r}]
    BY <1>1, <1>2, <2>1, Created
  <2>3. \A q \in Proc : upserts'[q] = IF q = p THEN {r} ELSE upserts[q]
    BY <1>1, <2>2 DEF WInv, IInv, CopiesOK
  <2>4. QED BY <1>1, <2>1, <2>2, <2>3, WorkerAssumption DEF CopiesFresh
<1>3. ASSUME NEW p \in Client, Call(p), ~create_job(p) PROVE CopiesFresh'
  BY <1>1, <1>3, PlainCall, FewerFresh DEF Client
<1>4. ASSUME NEW p \in Proc, Proceed(p) PROVE CopiesFresh'
  <2>1. CASE \E r \in upserts[p] : DoUpsert(p, r)
    BY <1>1, <2>1, FewerFresh DEF DoUpsert
  <2>2. CASE \A r \in upserts[p] : ~DoUpsert(p, r)
    <3>1. upserts' = upserts
      BY <1>4, <2>2 DEF Proceed, DoResume, DoRemove, emit
    <3>2. QED BY <1>1, <3>1, FewerFresh
  <2>3. QED BY <2>1, <2>2
<1>5. ASSUME NEW p \in Proc, Forget(p) PROVE CopiesFresh'
  BY <1>1, <1>5, FewerFresh DEF Forget
<1>6. CASE upserts' = upserts
  BY <1>1, <1>6, FewerFresh
<1>7. ASSUME NEW p \in Client, ClientStep(p) PROVE CopiesFresh'
  BY <1>2, <1>3, <1>4, <1>5, <1>7 DEF ClientStep, crash, Client
<1>8. ASSUME NEW w \in Worker, Launch(w) \/ LaunchResume(w) \/ Work(w) \/ CrashWorker(w)
      PROVE  CopiesFresh'
  BY <1>4, <1>5, <1>6, <1>8, WorkerCopiesNothing, WorkerAssumption DEF Work, CrashWorker
<1>9. CASE (Time /\ UNCHANGED workerVars) \/ UNCHANGED vars
  BY <1>6, <1>9 DEF Time, vars, serviceVars, localVars
<1>10. QED BY <1>7, <1>8, <1>9 DEF Next

LEMMA InitQInv == Init => QInv
<1> SUFFICES ASSUME Init PROVE QInv
  OBVIOUS
<1>1. \A p \in Proc : upserts[p] = {}
  BY DEF Init, ServiceInit
<1>2. QED BY <1>1, ClaimInit, WorkerAssumption DEF QInv, CopiesFresh

LEMMA NextQInv ==
  ASSUME Commands \cap WritesBack = {}
  PROVE  QInv /\ [Next]_vars => QInv'
BY StepKeeps, FreshKept DEF QInv

-----------------------------------------------------------------------------
(* Orphans.                                                                *)

IsHeld(j) == \E w \in Worker : held[w] # None /\ held[w].id = j
IsActive(j) == Stored(j) /\ jobs[j].state \in Active

LEMMA OrphansAre ==
  /\ Orphans = {j \in JobId : IsActive(j) /\ ~IsHeld(j)}
  /\ Orphans' = {j \in JobId : IsActive(j)' /\ ~IsHeld(j)'}
BY DEF Orphans, IsActive, IsHeld

\* A step makes no orphan if a job that becomes active is held, and a job that
\* is let go is not active.
LEMMA NoNewOrphans ==
  ASSUME \A j \in JobId : IsActive(j)' => IsActive(j) \/ IsHeld(j)',
         \A j \in JobId : IsActive(j)' /\ IsHeld(j) => IsHeld(j)'
  PROVE  Orphans' \subseteq Orphans
BY OrphansAre

LEMMA HeldStays == ASSUME held' = held, NEW j PROVE IsHeld(j)' = IsHeld(j)
BY DEF IsHeld

\* A table in which nothing becomes active.
LEMMA NothingActivated ==
  ASSUME IInv, NEW j \in JobId,
         \A k \in JobId : k # j => jobs'[k] = jobs[k],
         Stored(j)' => jobs'[j].state \notin Active
  PROVE  \A k \in JobId : IsActive(k)' => IsActive(k) /\ k # j
BY DEF IsActive, Stored

\* The steps of a client: only a crash, which loses no job, counts.
LEMMA ProceedOrphans ==
  ASSUME QInv, NEW p \in Proc, Proceed(p), held' = held
  PROVE  Orphans' \subseteq Orphans
<1>1. IInv
  BY DEF QInv, AInv, WInv
<1>2. SUFFICES \A k \in JobId : IsActive(k)' => IsActive(k)
  BY NoNewOrphans, HeldStays
<1>3. ASSUME NEW r \in upserts[p], DoUpsert(p, r)
      PROVE  \A k \in JobId : IsActive(k)' => IsActive(k)
  <2>1. r.state = "Submitted"
    BY DEF QInv, CopiesFresh
  <2>2. QED BY <1>1, <1>3, <2>1, UpsertStates, NothingActivated DEF DoUpsert, Active
<1>4. ASSUME NEW j \in resumes[p], DoResume(p, j)
      PROVE  \A k \in JobId : IsActive(k)' => IsActive(k)
  <2>1. j \in JobId
    BY <1>1 DEF IInv, ControlOK
  <2>2. QED BY <1>1, <1>4, <2>1, TransitionStates, NothingActivated DEF DoResume, Active
<1>5. ASSUME NEW d \in removals[p], DoRemove(p, d)
      PROVE  \A k \in JobId : IsActive(k)' => IsActive(k)
  BY <1>1, <1>5 DEF DoRemove, Remove, IInv, JobsOK, IsActive, Stored
<1>6. CASE emit(p)
  BY <1>6 DEF emit, repositoryVars, IsActive, Stored
<1>7. QED BY <1>3, <1>4, <1>5, <1>6 DEF Proceed

LEMMA CallOrphans ==
  ASSUME QInv, Commands \cap WritesBack = {},
         Commands \cap {"mark_validating", "mark_rendering", "claim_next_submitted"} = {},
         NEW p \in Proc, Call(p), held' = held
  PROVE  Orphans' \subseteq Orphans
<1>1. IInv /\ WInv
  BY DEF QInv, AInv, WInv
<1>2. SUFFICES \A k \in JobId : IsActive(k)' => IsActive(k)
  BY NoNewOrphans, HeldStays
<1>3. CASE jobs' = jobs
  BY <1>3 DEF IsActive, Stored
<1>4. CASE ~create_job(p)
  <2>1. "mark_validating" \notin Commands /\ "mark_rendering" \notin Commands
        /\ "claim_next_submitted" \notin Commands
    OBVIOUS
  <2>2. CASE jobs' # jobs
    <3>1. PICK j \in JobId, state \in JobState, error \in Messages \cup {None} :
            /\ Transition(j, state, error)
            /\ state # "Validating" /\ state # "Rendering"
      BY <1>4, <2>1, <2>2, PlainCall
    <3>2. QED BY <1>1, <3>1, TransitionStates, NothingActivated DEF Active
  <2>3. QED BY <1>3, <2>2
<1>5. CASE create_job(p)
  BY <1>1, <1>3, <1>5, Created
<1>6. QED BY <1>4, <1>5

\* The steps of a worker: it holds what it makes active, and what it lets go
\* is no longer active, or is gone.
LEMMA WorkOrphans ==
  ASSUME QInv, NEW w \in Worker, Work(w) \/ Launch(w) \/ LaunchResume(w)
  PROVE  Orphans' \subseteq Orphans
<1>1. IInv /\ WorkersOK /\ w \in Proc
  BY WorkerAssumption DEF QInv, AInv, WInv
<1>2. CASE jobs' = jobs /\ held' = held
  BY <1>2, NoNewOrphans DEF IsHeld, IsActive, Stored
<1>3. CASE Launch(w) \/ LaunchResume(w) \/ ClaimNothing(w) \/ GetCurrent(w)
  BY <1>2, <1>3
  DEF Launch, LaunchResume, ClaimNothing, GetCurrent, resume_active_jobs, serviceVars,
      repositoryVars
<1>4. CASE Proceed(w) /\ UNCHANGED workerVars
  BY <1>1, <1>4, ProceedOrphans DEF workerVars
<1>5. CASE ClaimNext(w)
  <2>1. PICK r \in list({"Submitted"}) :
          /\ At(w, "claim")
          /\ Claim(r, "Validating")
          /\ held' = [held EXCEPT ![w] = [id |-> r.id, attempt |-> r.attempts + 1]]
    BY <1>5 DEF ClaimNext
  <2>2. /\ r.id \in JobId /\ r \in JobRecord
        /\ \A k \in JobId : k # r.id => jobs'[k] = jobs[k]
    BY <1>1, <2>1, ClaimStates, Listed DEF IInv, Good
  <2>3. held[w] = None /\ held'[w].id = r.id /\ \A v \in Worker : v # w => held'[v] = held[v]
    BY <1>1, <2>1 DEF WorkersOK, At
  <2>4. held'[w] # None
    BY <2>1, <2>2, <1>1, HoldingAssumption DEF WorkersOK, Holding, JobRecord
  <2>5. IsHeld(r.id)' /\ \A j \in JobId : IsHeld(j) => IsHeld(j)'
    BY <2>3, <2>4 DEF IsHeld
  <2>6. \A j \in JobId : IsActive(j)' => IsActive(j) \/ IsHeld(j)'
    BY <2>2, <2>5 DEF IsActive, Stored
  <2>7. QED BY <2>5, <2>6, NoNewOrphans
<1>6. CASE MarkRendering(w)
  <2>1. /\ held[w] # None /\ held[w].id \in JobId
        /\ Transition(held[w].id, "Rendering", None) /\ held' = held
    BY <1>1, <1>6 DEF MarkRendering, transition, WorkersOK, At, Holding
  <2>2. \A k \in JobId : k # held[w].id => jobs'[k] = jobs[k]
    BY <1>1, <2>1, TransitionStates
  <2>3. \A j \in JobId : IsActive(j)' => IsActive(j) \/ IsHeld(j)'
    BY <2>1, <2>2 DEF IsActive, Stored, IsHeld
  <2>4. QED BY <2>1, <2>3, NoNewOrphans, HeldStays
<1>7. CASE Finish(w)
  <2>1. /\ held[w] # None /\ held[w].id \in JobId
        /\ \A v \in Worker : v # w => held'[v] = held[v]
    BY <1>1, <1>7 DEF Finish, WorkersOK, At, Holding
  <2>2. PICK state, error : /\ Transition(held[w].id, state, error)
                            /\ state \in {"Completed", "Exception", "Cancelled"}
    BY <1>7 DEF Finish, transition, Outcome
  <2>3. \A k \in JobId : IsActive(k)' => IsActive(k) /\ k # held[w].id
    BY <1>1, <2>1, <2>2, TransitionStates, NothingActivated DEF Active
  <2>4. \A j \in JobId : IsHeld(j) /\ j # held[w].id => IsHeld(j)'
    BY <2>1 DEF IsHeld
  <2>5. QED BY <2>3, <2>4, NoNewOrphans
<1>8. CASE GetMissing(w)
  <2>1. /\ held[w] # None /\ ~Stored(held[w].id) /\ jobs' = jobs
        /\ \A v \in Worker : v # w => held'[v] = held[v]
    BY <1>1, <1>8 DEF GetMissing, WorkersOK, At, serviceVars, repositoryVars
  <2>2. \A k \in JobId : IsActive(k)' => IsActive(k) /\ k # held[w].id
    BY <2>1 DEF IsActive, Stored
  <2>3. \A j \in JobId : IsHeld(j) /\ j # held[w].id => IsHeld(j)'
    BY <2>1 DEF IsHeld
  <2>4. QED BY <2>2, <2>3, NoNewOrphans
<1>9. QED BY <1>3, <1>4, <1>5, <1>6, <1>7, <1>8 DEF Work

\* A worker that dies leaves one orphan at most.
LEMMA CrashOrphans ==
  ASSUME QInv, NEW w \in Worker, CrashWorker(w)
  PROVE  Orphans' \subseteq Orphans \cup {held[w].id} /\ crashes' = crashes + 1
<1>1. jobs' = jobs /\ \A v \in Worker : v # w => held'[v] = held[v]
  BY DEF CrashWorker, Forget, repositoryVars, QInv, AInv, WInv, WorkersOK
<1>2. \A j \in JobId : IsHeld(j) /\ j # held[w].id => IsHeld(j)'
  BY <1>1 DEF IsHeld
<1>3. \A j \in JobId : IsActive(j)' => IsActive(j)
  BY <1>1 DEF IsActive, Stored
<1>4. QED BY <1>2, <1>3, OrphansAre DEF CrashWorker, Forget

OInv == QInv /\ IsFiniteSet(Orphans) /\ NoOrphans

\* However processes interleave, die and are resumed, every job left behind in
\* an active state was lost in a crash of its own, as long as clients write back
\* no copies and leave claiming and marking jobs as active to the workers.
THEOREM OrphansFromCrashes ==
  ASSUME Commands \cap WritesBack = {},
         Commands \cap {"mark_validating", "mark_rendering", "claim_next_submitted"} = {}
  PROVE  Spec => []NoOrphans
<1>1. Init => OInv
  <2> SUFFICES ASSUME Init PROVE OInv
    OBVIOUS
  <2>1. QInv /\ crashes = 0
    BY InitQInv DEF Init, ServiceInit
  <2>2. Orphans = {}
    BY DEF Orphans, Init, ServiceInit, RepositoryInit, Stored
  <2>3. QED BY <2>1, <2>2, FS_EmptySet DEF OInv, NoOrphans
<1>2. ASSUME OInv, [Next]_vars PROVE OInv'
  <2>1. QInv' /\ crashes \in Nat /\ crashes' \in Nat
    <3>1. QInv /\ QInv'
      BY <1>2, NextQInv DEF OInv
    <3>2. QED BY <3>1, ServiceAssumption DEF QInv, AInv, WInv, IInv, ControlOK
  <2>2. IsFiniteSet(Orphans) /\ Cardinality(Orphans) \in Nat /\ Cardinality(Orphans) <= crashes
    BY <1>2, FS_CardinalityType DEF OInv, NoOrphans
  <2>3. ASSUME Orphans' \subseteq Orphans, crashes' >= crashes
        PROVE  OInv'
    <3>1. IsFiniteSet(Orphans') /\ Cardinality(Orphans') <= Cardinality(Orphans)
      BY <2>2, <2>3, FS_Subset
    <3>2. Cardinality(Orphans') \in Nat
      BY <3>1, FS_CardinalityType
    <3>3. QED BY <2>1, <2>2, <2>3, <3>1, <3>2 DEF OInv, NoOrphans
  <2>4. ASSUME NEW x, Orphans' \subseteq Orphans \cup {x}, crashes' = crashes + 1
        PROVE  OInv'
    <3>1. /\ IsFiniteSet(Orphans \cup {x})
          /\ Cardinality(Orphans \cup {x}) \in Nat
          /\ Cardinality(Orphans \cup {x}) <= crashes + 1
      <4>1. /\ IsFiniteSet(Orphans \cup {x})
            /\ Cardinality(Orphans \cup {x}) =
                 IF x \in Orphans THEN Cardinality(Orphans) ELSE Cardinality(Orphans) + 1
        BY <2>2, FS_AddElement
      <4>2. QED BY <2>1, <2>2, <4>1
    <3>2. IsFiniteSet(Orphans') /\ Cardinality(Orphans') <= Cardinality(Orphans \cup {x})
      BY <2>4, <3>1, FS_Subset
    <3>3. Cardinality(Orphans') \in Nat
      BY <3>2, FS_CardinalityType
    <3>4. QED BY <2>1, <2>4, <3>1, <3>2, <3>3 DEF OInv, NoOrphans
  <2>5. ASSUME NEW p \in Client, ClientStep(p) PROVE OInv'
    <3>1. p \in Proc /\ held' = held /\ QInv
      BY <1>2, <2>5 DEF Client, ClientStep, workerVars, OInv
    <3>2. CASE Call(p)
      <4>1. crashes' = crashes
        BY <3>1, <3>2, PlainCall, Created DEF QInv, AInv
      <4>2. QED BY <2>1, <2>3, <3>1, <3>2, <4>1, CallOrphans
    <3>3. CASE Proceed(p)
      <4>1. crashes' = crashes
        BY <3>3 DEF Proceed, DoUpsert, DoResume, DoRemove, emit
      <4>2. QED BY <2>1, <2>3, <3>1, <3>3, <4>1, ProceedOrphans
    <3>4. CASE crash(p)
      <4>1. crashes' >= crashes /\ jobs' = jobs
        BY <2>1, <3>4 DEF crash, Forget, repositoryVars
      <4>2. Orphans' \subseteq Orphans
        BY <3>1, <4>1 DEF Orphans, Stored
      <4>3. QED BY <2>3, <4>1, <4>2
    <3>5. QED BY <2>5, <3>2, <3>3, <3>4 DEF ClientStep
  <2>6. ASSUME NEW w \in Worker, Work(w) \/ Launch(w) \/ LaunchResume(w) PROVE OInv'
    <3>1. crashes' = crashes
      BY <2>6, WorkerCopiesNothing
      DEF Work, Proceed, DoUpsert, DoResume, DoRemove, emit
    <3>2. QED BY <1>2, <2>1, <2>3, <2>6, <3>1, WorkOrphans DEF OInv
  <2>7. ASSUME NEW w \in Worker, CrashWorker(w) PROVE OInv'
    BY <1>2, <2>4, <2>7, CrashOrphans DEF OInv
  <2>8. CASE (Time /\ UNCHANGED workerVars) \/ UNCHANGED vars
    <3>1. UNCHANGED <<jobs, held, crashes>>
      BY <2>8 DEF Time, Tick, workerVars, vars, serviceVars, repositoryVars
    <3>2. Orphans' \subseteq Orphans
      BY <3>1 DEF Orphans, Stored
    <3>3. QED BY <2>1, <2>3, <3>1, <3>2
  <2>9. QED BY <1>2, <2>5, <2>6, <2>7, <2>8 DEF Next
<1>3. OInv => NoOrphans
  BY DEF OInv
<1>4. QED BY <1>1, <1>2, <1>3, PTL DEF Spec

-----------------------------------------------------------------------------
(* The refinement mapping, job by job.                                     *)

Place(j) ==
  IF Stored(j) THEN IF jobs[j].state = "Submitted" THEN "waiting" ELSE "out"
  ELSE IF j \notin issued \/ BeingCreated(j) THEN "unborn"
  ELSE "gone"

Given(j) == IF Stored(j) THEN jobs[j].attempts ELSE 0

\* Nothing changes for k.
SameFor(k) == Place(k)' = Place(k) /\ Given(k)' = Given(k)

LEMMA MapStutter ==
  ASSUME \A k \in JobId : SameFor(k), held' = held
  PROVE  UNCHANGED Queue!vars
BY DEF SameFor, Place, Given, Queue!vars

\* What a step has to do for one job to be a step of the queue.
LEMMA MapPlaces ==
  ASSUME NEW j \in JobId, \A k \in JobId \ {j} : SameFor(k), held' = held
  PROVE  /\ Place(j) = "unborn" /\ Place(j)' = "waiting" /\ Given(j)' = Given(j)
              => Queue!Enqueue(j)
         /\ Place(j) = "waiting" /\ Place(j)' = "out" /\ Given(j)' = Given(j)
              => Queue!Withdraw(j)
         /\ Place(j) = "out" /\ Place(j)' = "waiting" /\ Given(j)' = Given(j)
              => Queue!Return(j)
         /\ Place(j) # "gone" /\ Place(j)' = "gone" /\ Given(j)' = 0
              => Queue!Discard(j)
BY DEF SameFor, Place, Given, Queue!Enqueue, Queue!Withdraw, Queue!Return, Queue!Discard

LEMMA MapTake ==
  ASSUME NEW w \in Worker, NEW j \in JobId, \A k \in JobId \ {j} : SameFor(k),
         held[w] = None, Place(j) = "waiting", Place(j)' = "out", Given(j)' = Given(j) + 1,
         held' = [held EXCEPT ![w] = [id |-> j, attempt |-> Given(j) + 1]]
  PROVE  Queue!Take(w, j)
BY DEF SameFor, Place, Given, Queue!Take

LEMMA MapLetGo ==
  ASSUME NEW w \in Worker, \A k \in JobId : SameFor(k),
         held[w] # None, held' = [held EXCEPT ![w] = None]
  PROVE  Queue!LetGo(w)
BY DEF SameFor, Place, Given, Queue!LetGo

LEMMA MapSettle ==
  ASSUME NEW w \in Worker, NEW j \in JobId, \A k \in JobId \ {j} : SameFor(k),
         held[w] # None, held[w].id = j, held' = [held EXCEPT ![w] = None],
         Given(j)' = Given(j),
         Place(j)' = IF Place(j) = "waiting" THEN "out" ELSE Place(j)
  PROVE  Queue!Settle(w)
<1>1. [k \in JobId |-> Place(k)'] =
        [[k \in JobId |-> Place(k)] EXCEPT ![j] = IF @ = "waiting" THEN "out" ELSE @]
  BY DEF SameFor
<1>2. [k \in JobId |-> Given(k)'] = [k \in JobId |-> Given(k)]
  BY DEF SameFor
<1>3. QED BY <1>1, <1>2 DEF Place, Given, Queue!Settle

-----------------------------------------------------------------------------
(* Every step of the system is a step of the queue, or none.               *)

\* A job whose record, id and copy a step leaves alone.
LEMMA LeftAlone ==
  ASSUME NEW k \in JobId, jobs'[k] = jobs[k], k \in issued' <=> k \in issued,
         BeingCreated(k)' <=> BeingCreated(k)
  PROVE  SameFor(k)
BY DEF SameFor, Place, Given, Stored

LEMMA OthersAlone ==
  ASSUME NEW j \in JobId, \A k \in JobId : k # j => jobs'[k] = jobs[k],
         UNCHANGED <<issued, upserts>>
  PROVE  \A k \in JobId \ {j} : SameFor(k)
BY LeftAlone DEF BeingCreated

LEMMA AllAlone ==
  ASSUME UNCHANGED <<jobs, issued, upserts>>
  PROVE  \A k \in JobId : SameFor(k)
BY LeftAlone DEF BeingCreated

\* A transition moves its job within the queue, if it is there at all.
LEMMA TransitionPlace ==
  ASSUME IInv, NEW j \in JobId, NEW state \in JobState,
         NEW error \in Messages \cup {None}, Transition(j, state, error),
         UNCHANGED <<issued, upserts>>
  PROVE  /\ \A k \in JobId \ {j} : SameFor(k)
         /\ Given(j)' = Given(j)
         /\ Place(j) \in {"waiting", "out"} =>
              Place(j)' = IF state = "Submitted" THEN "waiting" ELSE "out"
         /\ Place(j) \notin {"waiting", "out"} => Place(j)' = Place(j)
<1>1. \A k \in JobId \ {j} : SameFor(k)
  BY TransitionStates, OthersAlone
<1>2. CASE Stored(j)
  <2>1. jobs'[j] = Transitioned(jobs[j], state, error)
    BY <1>2 DEF Transition, IInv, JobsOK, Stored
  <2>2. jobs[j] \in JobRecord
    BY <1>2, StoredGood DEF IInv, Good
  <2>3. jobs'[j] # None /\ jobs'[j].attempts = jobs[j].attempts /\ jobs'[j].state = state
    <3>1. jobs'[j].attempts = jobs[j].attempts /\ jobs'[j].state = state
      BY <2>1, <2>2 DEF Transitioned, JobRecord
    <3>2. jobs'[j] # None
      <4>1. now \in Nat
        BY BoundsAssumption DEF IInv, JobsOK
      <4>2. jobs'[j] \in JobRecord
        BY <2>1, <2>2, <4>1 DEF Transitioned, JobRecord
      <4>3. QED BY <4>2, BoundsAssumption
    <3>3. QED BY <3>1, <3>2
  <2>4. QED BY <1>1, <1>2, <2>3 DEF Place, Given, Stored
<1>3. CASE ~Stored(j)
  <2>1. jobs'[j] = None
    BY <1>3 DEF Transition, IInv, JobsOK, Stored
  <2>2. SameFor(j)
    BY <1>3, <2>1, LeftAlone DEF Stored, BeingCreated
  <2>3. Place(j) \notin {"waiting", "out"}
    BY <1>3 DEF Place
  <2>4. QED BY <1>1, <2>2, <2>3 DEF SameFor
<1>4. QED BY <1>2, <1>3

LEMMA TransitionMaps ==
  ASSUME IInv, NEW j \in JobId, NEW state \in JobState,
         NEW error \in Messages \cup {None}, Transition(j, state, error),
         UNCHANGED <<issued, upserts, held>>
  PROVE  [Queue!Next]_Queue!vars
<1>1. /\ \A k \in JobId \ {j} : SameFor(k)
      /\ Given(j)' = Given(j)
      /\ Place(j) \in {"waiting", "out"} => Place(j)' \in {"waiting", "out"}
      /\ Place(j) \notin {"waiting", "out"} => Place(j)' = Place(j)
  BY TransitionPlace
<1>2. CASE Place(j)' = Place(j)
  BY <1>1, <1>2, MapStutter DEF SameFor
<1>3. CASE Place(j) = "waiting" /\ Place(j)' = "out"
  BY <1>1, <1>3, MapPlaces DEF Queue!Next
<1>4. CASE Place(j) = "out" /\ Place(j)' = "waiting"
  BY <1>1, <1>4, MapPlaces DEF Queue!Next
<1>5. QED BY <1>1, <1>2, <1>3, <1>4

\* The job a copy is about to create is unborn to the queue.
LEMMA CopyUnborn ==
  ASSUME QInv, NEW p \in Proc, NEW r \in upserts[p]
  PROVE  /\ r.id \in JobId /\ r.id \in issued /\ ~Stored(r.id)
         /\ upserts[p] = {r} /\ r.state = "Submitted" /\ r.attempts = 0
         /\ Place(r.id) = "unborn" /\ Given(r.id) = 0
<1>1. r.id \in JobId /\ r.id \in issued /\ ~Stored(r.id)
  BY CopyTyped DEF QInv, AInv, CopiesNew
<1>2. upserts[p] = {r} /\ r.state = "Submitted" /\ r.attempts = 0
  BY DEF QInv, CopiesFresh
<1>3. QED BY <1>1, <1>2 DEF Place, Given, BeingCreated

\* Dropping that copy disturbs no other job, and leaves it to the table
\* whether the job exists.
LEMMA CopyDropped ==
  ASSUME QInv, NEW p \in Proc, NEW r \in upserts[p],
         upserts' = [upserts EXCEPT ![p] = {}], issued' = issued,
         \A k \in JobId : k # r.id => jobs'[k] = jobs[k]
  PROVE  /\ \A k \in JobId \ {r.id} : SameFor(k)
         /\ ~BeingCreated(r.id)'
<1>1. upserts[p] = {r} /\ upserts'[p] = {} /\ \A q \in Proc : q # p => upserts'[q] = upserts[q]
  BY CopyUnborn DEF QInv, AInv, WInv, IInv, CopiesOK
<1>2. \A k \in JobId \ {r.id} : BeingCreated(k)' <=> BeingCreated(k)
  BY <1>1 DEF BeingCreated
<1>3. ~BeingCreated(r.id)'
  BY <1>1 DEF BeingCreated, QInv, AInv, CopiesNew
<1>4. QED BY <1>2, <1>3, LeftAlone

LEMMA CreateMaps ==
  ASSUME QInv, NEW p \in Proc, create_job(p), held' = held
  PROVE  UNCHANGED Queue!vars
<1>1. PICK j \in JobId \ issued, r \in JobRecord :
        /\ r.id = j /\ issued' = issued \cup {j} /\ jobs' = jobs
        /\ upserts[p] = {} /\ upserts' = [upserts EXCEPT ![p] = {r}]
  BY Created DEF QInv, AInv
<1>2. upserts'[p] = {r} /\ \A q \in Proc : q # p => upserts'[q] = upserts[q]
  BY <1>1 DEF QInv, AInv, WInv, IInv, CopiesOK
<1>3. ASSUME NEW k \in JobId, k # j PROVE SameFor(k)
  <2>1. BeingCreated(k)' <=> BeingCreated(k)
    BY <1>1, <1>2, <1>3 DEF BeingCreated
  <2>2. QED BY <1>1, <1>3, <2>1, LeftAlone
<1>4. SameFor(j)
  <2>1. ~Stored(j) /\ ~Stored(j)'
    BY <1>1, StoredGood DEF QInv, AInv, WInv, IInv, Good, Stored
  <2>2. BeingCreated(j)'
    BY <1>1, <1>2 DEF BeingCreated
  <2>3. QED BY <1>1, <2>1, <2>2 DEF SameFor, Place, Given
<1>5. QED BY <1>3, <1>4, MapStutter

LEMMA CallMaps ==
  ASSUME QInv, Commands \cap WritesBack = {}, "claim_next_submitted" \notin Commands,
         NEW p \in Proc, Call(p), held' = held
  PROVE  [Queue!Next]_Queue!vars
<1>1. CASE create_job(p)
  BY <1>1, CreateMaps
<1>2. CASE ~create_job(p)
  <2>1. CASE jobs' = jobs
    BY <1>2, <2>1, PlainCall, AllAlone, MapStutter
  <2>2. ASSUME NEW j \in JobId, NEW state \in JobState \ {"Submitted"},
               NEW error \in Messages \cup {None}, Transition(j, state, error)
        PROVE  [Queue!Next]_Queue!vars
    BY <1>2, <2>2, PlainCall, TransitionMaps DEF QInv, AInv, WInv
  <2>3. QED BY <1>2, <2>1, <2>2, PlainCall
<1>3. QED BY <1>1, <1>2

LEMMA ProceedMaps ==
  ASSUME QInv, NEW p \in Proc, Proceed(p), held' = held
  PROVE  [Queue!Next]_Queue!vars
<1>1. IInv
  BY DEF QInv, AInv, WInv
<1>2. ASSUME NEW r \in upserts[p], DoUpsert(p, r) PROVE [Queue!Next]_Queue!vars
  <2>1. /\ r.id \in JobId /\ upserts[p] = {r} /\ r.state = "Submitted" /\ r.attempts = 0
        /\ Place(r.id) = "unborn" /\ Given(r.id) = 0
    BY CopyUnborn
  <2>2. upserts' = [upserts EXCEPT ![p] = {}] /\ issued' = issued
    <3>1. upserts[p] \ {r} = {}
      BY <2>1
    <3>2. QED BY <1>2, <3>1 DEF DoUpsert
  <2>3. /\ \A k \in JobId : k # r.id => jobs'[k] = jobs[k]
        /\ jobs'[r.id] = Touched(r)
    BY <1>1, <1>2, <2>1 DEF DoUpsert, Upsert, IInv, JobsOK
  <2>4. jobs'[r.id] # None /\ jobs'[r.id].state = "Submitted" /\ jobs'[r.id].attempts = 0
    <3>1. r \in JobRecord /\ now \in Nat
      BY <1>1, BoundsAssumption DEF IInv, CopiesOK, Good, JobsOK
    <3>2. Touched(r) \in JobRecord /\ Touched(r).state = r.state /\ Touched(r).attempts = r.attempts
      BY <3>1 DEF Touched, JobRecord
    <3>3. QED BY <2>1, <2>3, <3>2, BoundsAssumption
  <2>5. Place(r.id)' = "waiting" /\ Given(r.id)' = 0
    BY <2>4 DEF Place, Given, Stored
  <2>6. \A k \in JobId \ {r.id} : SameFor(k)
    BY <2>2, <2>3, CopyDropped
  <2>7. QED BY <2>1, <2>5, <2>6, MapPlaces DEF Queue!Next
<1>3. ASSUME NEW j \in resumes[p], DoResume(p, j) PROVE [Queue!Next]_Queue!vars
  <2>1. j \in JobId /\ "Submitted" \in JobState
    BY <1>1 DEF IInv, ControlOK, JobState
  <2>2. QED BY <1>1, <1>3, <2>1, TransitionMaps DEF DoResume
<1>4. ASSUME NEW d \in removals[p], DoRemove(p, d) PROVE [Queue!Next]_Queue!vars
  <2>1. d.id \in JobId /\ UNCHANGED <<issued, upserts>>
    BY <1>1, <1>4 DEF IInv, ControlOK, Removal, DoRemove
  <2>2. jobs'[d.id] = None /\ \A k \in JobId : k # d.id => jobs'[k] = jobs[k]
    BY <1>1, <1>4, <2>1 DEF DoRemove, Remove, IInv, JobsOK
  <2>3. \A k \in JobId \ {d.id} : SameFor(k)
    BY <2>1, <2>2, OthersAlone
  <2>4. CASE Stored(d.id)
    <3>1. d.id \in issued
      BY <1>1, <2>1, <2>4, StoredGood DEF IInv, Good
    <3>2. ~BeingCreated(d.id) /\ ~BeingCreated(d.id)'
      BY <2>1, <2>4 DEF BeingCreated, QInv, AInv, CopiesNew
    <3>3. Place(d.id) # "gone" /\ Place(d.id)' = "gone" /\ Given(d.id)' = 0
      BY <2>1, <2>2, <2>4, <3>1, <3>2 DEF Place, Given, Stored
    <3>4. QED BY <2>1, <2>3, <3>3, MapPlaces DEF Queue!Next
  <2>5. CASE ~Stored(d.id)
    <3>1. SameFor(d.id)
      BY <2>1, <2>2, <2>5, LeftAlone DEF Stored, BeingCreated
    <3>2. QED BY <2>3, <3>1, MapStutter
  <2>6. QED BY <2>4, <2>5
<1>5. CASE emit(p)
  BY <1>5, AllAlone, MapStutter DEF emit, repositoryVars
<1>6. QED BY <1>2, <1>3, <1>4, <1>5 DEF Proceed

\* A client that dies takes the job it was creating with it.
LEMMA ForgetMaps ==
  ASSUME QInv, NEW p \in Proc, Forget(p), held' = held
  PROVE  [Queue!Next]_Queue!vars
<1>1. UNCHANGED <<jobs, issued>> /\ upserts' = [upserts EXCEPT ![p] = {}]
  BY DEF Forget, repositoryVars
<1>2. CASE upserts[p] = {}
  BY <1>1, <1>2, AllAlone, MapStutter DEF QInv, AInv, WInv, IInv, CopiesOK
<1>3. ASSUME NEW r \in upserts[p] PROVE [Queue!Next]_Queue!vars
  <2>1. r.id \in JobId /\ r.id \in issued /\ ~Stored(r.id) /\ Place(r.id) = "unborn"
    BY CopyUnborn
  <2>2. (\A k \in JobId \ {r.id} : SameFor(k)) /\ ~BeingCreated(r.id)'
    BY <1>1, CopyDropped
  <2>3. Place(r.id)' = "gone" /\ Given(r.id)' = 0
    BY <1>1, <2>1, <2>2 DEF Place, Given, Stored
  <2>4. QED BY <2>1, <2>2, <2>3, MapPlaces DEF Queue!Next
<1>4. QED BY <1>2, <1>3

LEMMA ClaimMaps ==
  ASSUME QInv, NEW w \in Worker, ClaimNext(w)
  PROVE  [Queue!Next]_Queue!vars
<1>1. IInv /\ WorkersOK
  BY DEF QInv, AInv, WInv
<1>2. PICK r \in list({"Submitted"}) :
        /\ At(w, "claim")
        /\ Claim(r, "Validating")
        /\ held' = [held EXCEPT ![w] = [id |-> r.id, attempt |-> r.attempts + 1]]
        /\ UNCHANGED <<issued, upserts>>
  BY DEF ClaimNext, unchangedByWorker
<1> PICK j \in JobId : j = r.id
  BY <1>1, Listed DEF IInv
<1>3. Stored(j) /\ jobs[j] = r /\ r \in JobRecord /\ r.state = "Submitted"
  BY <1>1, Listed DEF IInv, Good
<1>4. Place(j) = "waiting" /\ Given(j) = r.attempts
  BY <1>3 DEF Place, Given
<1>5. /\ \A k \in JobId : k # j => jobs'[k] = jobs[k]
      /\ jobs'[j].state = "Validating" /\ jobs'[j].attempts = r.attempts + 1
  BY <1>1, <1>2, ClaimStates, ClaimGentle
<1>6. jobs'[j] # None
  <2>1. jobs'[j] = Claimed(r, "Validating")
    BY <1>1, <1>2 DEF Claim, IInv, JobsOK
  <2>2. Good(r) /\ "Validating" \in Active
    BY <1>1, Listed DEF IInv, Active
  <2>3. jobs'[j] \in JobRecord
    BY <1>1, <2>1, <2>2, ClaimedGood DEF IInv, Good
  <2>4. QED BY <2>3, BoundsAssumption
<1>7. Place(j)' = "out" /\ Given(j)' = Given(j) + 1
  BY <1>4, <1>5, <1>6 DEF Place, Given, Stored
<1>8. \A k \in JobId \ {j} : SameFor(k)
  BY <1>2, <1>5, OthersAlone
<1>9. held[w] = None
  BY <1>1, <1>2 DEF WorkersOK, At
<1>10. Queue!Take(w, j)
  BY <1>2, <1>4, <1>7, <1>8, <1>9, MapTake
<1>11. QED BY <1>10 DEF Queue!Next

LEMMA FinishMaps ==
  ASSUME QInv, NEW w \in Worker, Finish(w)
  PROVE  [Queue!Next]_Queue!vars
<1>1. IInv /\ WorkersOK
  BY DEF QInv, AInv, WInv
<1>2. PICK state \in {"Completed", "Exception", "Cancelled"}, error \in Messages \cup {None} :
        /\ At(w, "handler")
        /\ Transition(held[w].id, state, error)
        /\ held' = [held EXCEPT ![w] = None]
        /\ UNCHANGED <<issued, upserts>>
  BY DEF Finish, transition, Outcome, unchangedByWorker
<1>3. held[w] # None
  BY <1>1, <1>2 DEF WorkersOK, At
<1> PICK j \in JobId : j = held[w].id
  BY <1>3, HeldTyped DEF QInv, AInv
<1>4. /\ \A k \in JobId \ {j} : SameFor(k)
      /\ Given(j)' = Given(j)
      /\ Place(j)' = IF Place(j) = "waiting" THEN "out" ELSE Place(j)
  <2>1. state \in JobState /\ state # "Submitted"
    BY DEF JobState
  <2>2. QED BY <1>1, <1>2, <2>1, TransitionPlace
<1>5. Queue!Settle(w)
  BY <1>2, <1>3, <1>4, MapSettle
<1>6. QED BY <1>5 DEF Queue!Next

LEMMA WorkMaps ==
  ASSUME QInv, NEW w \in Worker, Work(w) \/ Launch(w) \/ LaunchResume(w)
  PROVE  [Queue!Next]_Queue!vars
<1>1. IInv /\ WorkersOK /\ w \in Proc
  BY WorkerAssumption DEF QInv, AInv, WInv
<1>2. CASE Launch(w) \/ LaunchResume(w) \/ ClaimNothing(w) \/ GetCurrent(w)
  <2>1. UNCHANGED <<jobs, issued, upserts, held>>
    BY <1>2, WorkerCopiesNothing
    DEF Launch, LaunchResume, ClaimNothing, GetCurrent, resume_active_jobs, serviceVars,
        repositoryVars
  <2>2. QED BY <2>1, AllAlone, MapStutter
<1>3. CASE ClaimNext(w) \/ Finish(w)
  BY <1>3, ClaimMaps, FinishMaps
<1>4. CASE MarkRendering(w)
  <2>1. /\ held[w] # None /\ Transition(held[w].id, "Rendering", None)
        /\ UNCHANGED <<issued, upserts, held>>
    BY <1>1, <1>4 DEF MarkRendering, transition, WorkersOK, At, unchangedByWorker
  <2>2. held[w].id \in JobId /\ "Rendering" \in JobState
    BY <2>1, HeldTyped DEF QInv, AInv, JobState
  <2>3. QED BY <1>1, <2>1, <2>2, TransitionMaps
<1>5. CASE GetMissing(w)
  <2>1. /\ UNCHANGED <<jobs, issued, upserts>>
        /\ held[w] # None /\ held' = [held EXCEPT ![w] = None]
    BY <1>1, <1>5
    DEF GetMissing, WorkersOK, At, serviceVars, repositoryVars, localVars
  <2>2. QED BY <2>1, AllAlone, MapLetGo DEF Queue!Next
<1>6. CASE Proceed(w) /\ UNCHANGED workerVars
  BY <1>1, <1>6, ProceedMaps DEF workerVars
<1>7. QED BY <1>2, <1>3, <1>4, <1>5, <1>6 DEF Work

LEMMA CrashWorkerMaps ==
  ASSUME QInv, NEW w \in Worker, CrashWorker(w)
  PROVE  [Queue!Next]_Queue!vars
<1>1. UNCHANGED <<jobs, issued>> /\ held' = [held EXCEPT ![w] = None]
  BY DEF CrashWorker, Forget, repositoryVars
<1>2. upserts' = upserts
  BY WorkerAssumption
  DEF CrashWorker, Forget, QInv, CopiesFresh, AInv, WInv, IInv, CopiesOK
<1>3. CASE held[w] # None
  BY <1>1, <1>2, <1>3, AllAlone, MapLetGo DEF Queue!Next
<1>4. CASE held[w] = None
  <2>1. held' = held
    BY <1>1, <1>4 DEF QInv, AInv, WInv, WorkersOK
  <2>2. QED BY <1>1, <1>2, <2>1, AllAlone, MapStutter
<1>5. QED BY <1>3, <1>4

LEMMA QueueInit == Init => Queue!Init
<1> SUFFICES ASSUME Init PROVE Queue!Init
  OBVIOUS
<1>1. \A j \in JobId : Place(j) = "unborn" /\ Given(j) = 0
  BY DEF Init, ServiceInit, RepositoryInit, Place, Given, Stored
<1>2. QED BY <1>1 DEF Init, Place, Given, Queue!Init

\* The job system implements the abstract queue: whatever its processes do and
\* wherever they die, a job is handed out under a new number each time and
\* never comes back once it is gone, as long as clients write back no copies
\* and leave claiming to the workers.
THEOREM QueueImplemented ==
  ASSUME Commands \cap WritesBack = {}, "claim_next_submitted" \notin Commands
  PROVE  Spec => ImplementsQueue
<1>1. ASSUME QInv, [Next]_vars PROVE [Queue!Next]_Queue!vars
  <2>1. ASSUME NEW p \in Client, ClientStep(p) PROVE [Queue!Next]_Queue!vars
    BY <1>1, <2>1, CallMaps, ProceedMaps, ForgetMaps DEF ClientStep, crash, Client, workerVars
  <2>2. ASSUME NEW w \in Worker, Launch(w) \/ LaunchResume(w) \/ Work(w) \/ CrashWorker(w)
        PROVE  [Queue!Next]_Queue!vars
    BY <1>1, <2>2, WorkMaps, CrashWorkerMaps
  <2>3. CASE (Time /\ UNCHANGED workerVars) \/ UNCHANGED vars
    <3>1. UNCHANGED <<jobs, issued, upserts, held>>
      BY <2>3 DEF Time, Tick, workerVars, vars, serviceVars, repositoryVars, localVars
    <3>2. QED BY <3>1, AllAlone, MapStutter
  <2>4. QED BY <1>1, <2>1, <2>2, <2>3 DEF Next
<1>2. QED
  BY <1>1, InitQInv, NextQInv, QueueInit, PTL DEF Spec, Queue!Spec, ImplementsQueue
=============================================================================
