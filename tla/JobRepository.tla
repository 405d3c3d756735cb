---------------------------- MODULE JobRepository ----------------------------
(***************************************************************************)
(* InMemoryJobRepository (src/job_repository.cpp): the jobs table and its  *)
(* operations.  Each operation holds the repository's mutex from its first *)
(* statement to its return, so each is one atomic step; everything between *)
(* two operations belongs to the callers and interleaves.                  *)
(***************************************************************************)
EXTENDS JobRecord

CONSTANTS
  MaxTime,     \* bound of the clock
  MaxAttempts  \* bound of a job's attempt counter

ASSUME BoundsAssumption ==
  /\ MaxTime \in Nat
  /\ MaxAttempts \in Nat
  /\ None \notin JobRecord

VARIABLES
  jobs,  \* the table: a record, or None for an id that is not stored
  now    \* Clock::now()

repositoryVars == <<jobs, now>>

RepositoryInit ==
  /\ jobs = [j \in JobId |-> None]
  /\ now = 0

Stored(j) == jobs[j] # None

\* list(state_filter), the filter being the set of states it admits.  The
\* backends sort the result differently and no caller below depends on it.
list(states) == {jobs[j] : j \in {k \in JobId : Stored(k) /\ jobs[k].state \in states}}

-----------------------------------------------------------------------------
(* What the operations write.                                              *)

\* Faults the mutants of PROJECT.json plant in the definitions below.
ClaimedKeepingError(r, next) ==
  [r EXCEPT !.state = next, !.updated = now, !.lastAttempt = now, !.attempts = @ + 1]
ClaimedUncounted(r, next) ==
  [r EXCEPT !.state = next, !.updated = now, !.lastAttempt = now, !.error = None]
ClaimedUnstamped(r, next) ==
  [r EXCEPT !.state = next, !.lastAttempt = now, !.error = None, !.attempts = @ + 1]
ClaimedStillSubmitted(r, next) ==
  [r EXCEPT !.updated = now, !.lastAttempt = now, !.error = None, !.attempts = @ + 1]
TransitionedKeepingError(r, state, error) ==
  [r EXCEPT !.state = state, !.updated = now]

Claimed(r, next) ==
  [r EXCEPT !.state       = next,
            !.updated     = now,
            !.lastAttempt = now,
            !.error       = None,
            !.attempts    = @ + 1]

Transitioned(r, state, error) ==
  [r EXCEPT !.state = state, !.updated = now, !.error = error]

Touched(r) == [r EXCEPT !.updated = now]

-----------------------------------------------------------------------------
(* The operations.                                                         *)

\* Claims r, the best submitted record; MaxAttempts bounds the counter.
Claim(r, next) ==
  /\ IsBest(r, list({"Submitted"}))
  /\ r.attempts < MaxAttempts
  /\ jobs' = [jobs EXCEPT ![r.id] = Claimed(r, next)]

\* Writes the whole record, whatever is stored under its id.
Upsert(r) == jobs' = [jobs EXCEPT ![r.id] = Touched(r)]

\* A missing job is ignored.
Transition(id, state, error) ==
  jobs' = [jobs EXCEPT ![id] = IF @ = None THEN None
                               ELSE Transitioned(@, state, error)]

Remove(id) == jobs' = [jobs EXCEPT ![id] = None]

\* Time passes between operations.
Tick == now < MaxTime /\ now' = now + 1 /\ UNCHANGED jobs
=============================================================================
