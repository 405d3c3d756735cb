----------------------------- MODULE JobProcessor -----------------------------
(***************************************************************************)
(* The whole job system: clients that call JobService, and workers, each a *)
(* process running `ppp_jobctl run-next [--resume] [--continue]`, which is *)
(* a loop around JobProcessor::process_next (src/job_processor.cpp,        *)
(* tools/ppp_jobctl.cpp).  A worker stops between any two repository calls *)
(* of process_next while the other processes go on.                        *)
(***************************************************************************)
EXTENDS JobService, FiniteSets

CONSTANT Worker  \* the workers among Proc; the others are clients

ASSUME WorkerAssumption == Worker \subseteq Proc

VARIABLES
  pc,   \* pc[w]: where in run-next the worker is
  held  \* held[w]: id and attempt_count of the record w's claim returned, or None

workerVars == <<pc, held>>
vars == <<serviceVars, workerVars>>

Client == Proc \ Worker

WorkerPc ==
  { "off",        \* not running
    "claim",      \* about to call process_next
    "rendering",  \* claimed; about to mark_rendering
    "get",        \* about to get the current record
    "handler" }   \* running the handler

Holding == [id : JobId, attempt : Nat]

ASSUME HoldingAssumption == None \notin Holding

Init ==
  /\ ServiceInit
  /\ pc = [w \in Worker |-> "off"]
  /\ held = [w \in Worker |-> None]

Goto(w, place) == pc' = [pc EXCEPT ![w] = place]

\* w is at place and the event of its last write has been emitted.
At(w, place) == pc[w] = place /\ Idle(w)

\* The outcomes of the handler and the transition each one leads to: what()
\* of an exception counts as a failure, and a cancellation may give no reason.
Outcome ==
  {<<"Completed", None>>}
    \cup {<<"Exception", m>> : m \in Messages}
    \cup {<<"Cancelled", m>> : m \in Messages \cup {None}}

unchangedByWorker == <<now, issued, upserts, resumes, removals, announced, crashes>>

-----------------------------------------------------------------------------
\* Faults the mutants of PROJECT.json plant in the definitions below.
FinishOutOfTurn(w) ==
  \E outcome \in Outcome, next \in {"claim", "off"} :
    /\ At(w, "handler")
    /\ UNCHANGED <<jobs, event>>
    /\ Goto(w, next)
    /\ held' = [held EXCEPT ![w] = None]
    /\ UNCHANGED unchangedByWorker
ClaimAnyActive(w) ==
  \E r \in list({"Submitted", "Rendering"}) :
    /\ At(w, "claim")
    /\ r.attempts < MaxAttempts
    /\ jobs' = [jobs EXCEPT ![r.id] = Claimed(r, "Validating")]
    /\ Owes(w, r.id, "Validating")
    /\ held' = [held EXCEPT ![w] = [id |-> r.id, attempt |-> r.attempts + 1]]
    /\ Goto(w, "rendering")
    /\ UNCHANGED unchangedByWorker
FinishHolding(w) ==
  \E outcome \in Outcome, next \in {"claim", "off"} :
    /\ At(w, "handler")
    /\ transition(w, held[w].id, outcome[1], outcome[2])
    /\ Goto(w, next)
    /\ UNCHANGED <<unchangedByWorker, held>>

-----------------------------------------------------------------------------
(* run-next.                                                               *)

\* run-next without --resume.
Launch(w) ==
  /\ At(w, "off")
  /\ "run-next" \in Commands
  /\ Goto(w, "claim")
  /\ UNCHANGED <<serviceVars, held>>

\* run-next --resume: the active jobs go back to the queue first.
LaunchResume(w) ==
  /\ At(w, "off")
  /\ resume_active_jobs(w)
  /\ Goto(w, "claim")
  /\ UNCHANGED held

-----------------------------------------------------------------------------
(* process_next.                                                           *)

ClaimNext(w) ==
  \E r \in list({"Submitted"}) :
    /\ At(w, "claim")
    /\ Claim(r, "Validating")
    /\ Owes(w, r.id, "Validating")
    /\ held' = [held EXCEPT ![w] = [id |-> r.id, attempt |-> r.attempts + 1]]
    /\ Goto(w, "rendering")
    /\ UNCHANGED unchangedByWorker

\* Nothing to claim: process_next returns nullopt and run-next ends.
ClaimNothing(w) ==
  /\ At(w, "claim")
  /\ list({"Submitted"}) = {}
  /\ Goto(w, "off")
  /\ UNCHANGED <<serviceVars, held>>

MarkRendering(w) ==
  /\ At(w, "rendering")
  /\ transition(w, held[w].id, "Rendering", None)
  /\ Goto(w, "get")
  /\ UNCHANGED <<unchangedByWorker, held>>

GetCurrent(w) ==
  /\ At(w, "get")
  /\ Stored(held[w].id)
  /\ Goto(w, "handler")
  /\ UNCHANGED <<serviceVars, held>>

\* The claimed job has been removed: nullopt again, so run-next ends here too.
GetMissing(w) ==
  /\ At(w, "get")
  /\ ~Stored(held[w].id)
  /\ Goto(w, "off")
  /\ held' = [held EXCEPT ![w] = None]
  /\ UNCHANGED serviceVars

\* The handler returns or throws and its outcome is recorded, whatever has
\* become of the job; run-next goes on only with --continue.
Finish(w) ==
  \E outcome \in Outcome, next \in {"claim", "off"} :
    /\ At(w, "handler")
    /\ transition(w, held[w].id, outcome[1], outcome[2])
    /\ Goto(w, next)
    /\ held' = [held EXCEPT ![w] = None]
    /\ UNCHANGED unchangedByWorker

\* The worker process dies; its job keeps the state it has.
CrashWorker(w) ==
  /\ pc[w] # "off"
  /\ Forget(w)
  /\ Goto(w, "off")
  /\ held' = [held EXCEPT ![w] = None]

-----------------------------------------------------------------------------
\* A step of the worker's program.
Work(w) ==
  \/ ClaimNext(w)
  \/ ClaimNothing(w)
  \/ MarkRendering(w)
  \/ GetCurrent(w)
  \/ GetMissing(w)
  \/ Finish(w)
  \/ Proceed(w) /\ UNCHANGED workerVars

ClientStep(p) ==
  (Call(p) \/ Proceed(p) \/ crash(p)) /\ UNCHANGED workerVars

Next ==
  \/ \E p \in Client : ClientStep(p)
  \/ \E w \in Worker : Launch(w) \/ LaunchResume(w) \/ Work(w) \/ CrashWorker(w)
  \/ Time /\ UNCHANGED workerVars

Spec == Init /\ [][Next]_vars

\* Running processes are scheduled, handlers return, and the operator keeps
\* starting the workers that are off, with --resume time and again where it
\* is used at all.
Fairness ==
  /\ \A w \in Worker :
       WF_vars(Work(w)) /\ WF_vars(Launch(w)) /\ SF_vars(LaunchResume(w))
  /\ \A p \in Client : WF_vars(Proceed(p) /\ UNCHANGED workerVars)

FairSpec == Spec /\ Fairness

-----------------------------------------------------------------------------
(* Correctness.                                                            *)

\* The variables hold values of their types (JobProcessor and JobService).
TypeOK ==
  /\ ServiceTypeOK
  /\ pc \in [Worker -> WorkerPc]
  /\ held \in [Worker -> Holding \cup {None}]
  /\ \A w \in Worker : held[w] = None <=> pc[w] \in {"off", "claim"}

\* No two claims of a job ever return the same attempt_count to workers that
\* hold it at the same time, and none returns more than the job has counted:
\* a later claim can tell itself from every earlier one.
AttemptsExclusive ==
  /\ \A v, w \in Worker : held[v] # None /\ held[v] = held[w] => v = w
  /\ \A w \in Worker : held[w] # None /\ Stored(held[w].id) =>
       held[w].attempt <= jobs[held[w].id].attempts

\* claim_next_submitted never hands a job to a worker while another one still
\* holds it (README: workers can't double-claim the same job).
NoDoubleClaim ==
  \A v, w \in Worker :
    held[v] # None /\ held[w] # None /\ held[v].id = held[w].id => v = w

\* Moreover a job in some worker's hands is not back in the queue, the state
\* from which a double claim is one step away.
HoldersExclusive ==
  /\ NoDoubleClaim
  /\ \A w \in Worker : held[w] # None /\ Stored(held[w].id) =>
       jobs[held[w].id].state # "Submitted"

\* The jobs in an active state that no worker holds: only `run-next --resume`
\* takes them out of that state.
Orphans ==
  {j \in JobId : /\ Stored(j) /\ jobs[j].state \in Active
                 /\ \A w \in Worker : held[w] = None \/ held[w].id # j}

\* No interleaving leaves a job behind in an active state: every orphan was
\* lost in a crash of its own.
NoOrphans == Cardinality(Orphans) <= crashes

Settled(j) == Stored(j) /\ jobs[j].state \in {"Exception", "Completed", "Cancelled"}

\* Every job that is stored comes to an outcome, however its workers crash and
\* are relaunched with --resume, unless it is purged first.  (MaxAttempts is
\* the bound of the model: a job that reaches it cannot be claimed again.)
EveryJobSettles ==
  \A j \in JobId :
    Stored(j) ~> \/ Settled(j)
                 \/ ~Stored(j)
                 \/ \E k \in JobId : Stored(k) /\ jobs[k].attempts = MaxAttempts

-----------------------------------------------------------------------------
(* The job system implements JobQueue as long as no process runs one of    *)
(* the operations that write back a fetched copy.                          *)

\* A create_job of j is between its decision and its upsert.
BeingCreated(j) == \E p \in Proc : \E r \in upserts[p] : r.id = j

Queue == INSTANCE JobQueue WITH
  place <- [j \in JobId |->
              IF Stored(j)
              THEN IF jobs[j].state = "Submitted" THEN "waiting" ELSE "out"
              ELSE IF j \notin issued \/ BeingCreated(j) THEN "unborn"
              ELSE "gone"],
  given <- [j \in JobId |-> IF Stored(j) THEN jobs[j].attempts ELSE 0],
  holder <- held

ImplementsQueue == Queue!Spec
=============================================================================
