------------------------------ MODULE Rebalance ------------------------------
(***************************************************************************)
(* What `ppp_jobctl rebalance` and claiming achieve together: a policy is  *)
(* applied now and then while time passes (apply_scheduling_policy in      *)
(* src/job_service.cpp), and a repository scans its table for the job to   *)
(* hand out (claim_next_submitted in src/job_repository.cpp).  Nothing     *)
(* else writes the records meanwhile, and unlike in JobService, where the  *)
(* best candidate is taken in one step, the scan is modelled step by step: *)
(* an unordered_map yields the records in any order.                       *)
(***************************************************************************)
EXTENDS SchedulingPolicy, FiniteSets

CONSTANTS
  Policies,  \* the policies that may be in force
  Tables,    \* the tables of records to start from
  MaxTime    \* bound of the clock

ASSUME RebalanceAssumption ==
  /\ Policies \subseteq SchedulingPolicies
  /\ \A p \in Policies : IsFiniteSet(p.escalations)  \* the code's is a vector
  /\ Tables \subseteq {t \in [JobId -> JobRecord] : \A j \in JobId : t[j].id = j}
  /\ MaxTime \in Nat
  /\ None \notin JobId

VARIABLES
  policy,     \* the policy in force
  base,       \* the table before any rebalancing
  jobs,       \* the table
  now,        \* Clock::now()
  applied,    \* when the policy was last applied, or None
  seen,       \* the ids the scan has passed
  candidate   \* the id of the scan's candidate, or None

vars == <<policy, base, jobs, now, applied, seen, candidate>>

Init ==
  /\ policy \in Policies
  /\ base \in Tables
  /\ jobs = base
  /\ now = 0
  /\ applied = None
  /\ seen = {}
  /\ candidate = None

\* Time passes while no scan is under way.
Wait ==
  /\ seen = {}
  /\ now < MaxTime
  /\ now' = now + 1
  /\ UNCHANGED <<policy, base, jobs, applied, seen, candidate>>

\* The whole of one rebalancing.
Rebalanced ==
  [j \in JobId |->
     LET asked == EscalatedPriority(policy, jobs[j], now)
     IN  IF asked = {} THEN jobs[j]
         ELSE [jobs[j] EXCEPT !.priority = CHOOSE p \in asked : TRUE, !.updated = now]]

Apply ==
  /\ seen = {}
  /\ applied # now
  /\ jobs' = Rebalanced
  /\ applied' = now
  /\ UNCHANGED <<policy, base, now, seen, candidate>>

-----------------------------------------------------------------------------
(* The scan.                                                               *)

\* A record that is not submitted is passed over.
Skip(j) ==
  /\ j \notin seen
  /\ jobs[j].state # "Submitted"
  /\ seen' = seen \cup {j}
  /\ UNCHANGED <<policy, base, jobs, now, applied, candidate>>

\* A submitted record replaces the candidate if it is better, or the first.
Consider(j) ==
  /\ j \notin seen
  /\ jobs[j].state = "Submitted"
  /\ seen' = seen \cup {j}
  /\ candidate' = IF candidate = None THEN j
                  ELSE IF better_candidate(jobs[j], jobs[candidate]) THEN j
                  ELSE candidate
  /\ UNCHANGED <<policy, base, jobs, now, applied>>

Next == Wait \/ Apply \/ \E j \in JobId : Skip(j) \/ Consider(j)

Spec == Init /\ [][Next]_vars

-----------------------------------------------------------------------------
(* Correctness.                                                            *)

Submitted(S) == {j \in S : jobs[j].state = "Submitted"}

\* Whatever the order of the scan, it has in hand the best of the submitted
\* records it has passed, so it ends with the best one of all.
ScanFindsBest ==
  IF Submitted(seen) = {} THEN candidate = None
  ELSE candidate # None /\ IsBest(jobs[candidate], {jobs[j] : j \in Submitted(seen)})

\* A policy whose narrower windows never ask for less.
SaneWindows ==
  \A e, f \in policy.escalations : e.within < f.within => e.priority >= f.priority

\* One that, moreover, asks for at least as much once a job is overdue.
Sane ==
  /\ SaneWindows
  /\ policy.overdue # None
  /\ \A e \in policy.escalations : policy.overdue >= e.priority

Outstanding(j) == jobs[j].state \notin {"Completed", "Cancelled"} /\ jobs[j].due # None

\* The policy has been applied and no time has passed since.
JustApplied == applied = now

EqualBases == \A i, j \in JobId : base[i].priority = base[j].priority

\* The time job j has left, in ticks.
Left(j) == jobs[j].due - now

\* Rebalancing honours every window, to the tick: a job due within a window,
\* or overdue, has at least the priority of that window.
WindowsHonoured ==
  JustApplied /\ Sane =>
    \A j \in JobId, e \in policy.escalations :
      Outstanding(j) /\ Left(j) <= e.within * TicksPerSecond =>
        jobs[j].priority >= e.priority

\* A policy with no overdue priority does not forget overdue jobs unless told
\* to: they get at least the priority of some window.
OverdueBoosted ==
  JustApplied /\ policy.overdue = None /\ policy.escalateOverdue =>
    \A j \in JobId :
      Outstanding(j) /\ Left(j) <= 0 /\ policy.escalations # {} =>
        \E e \in policy.escalations : jobs[j].priority >= e.priority

\* Under a sane policy the result of rebalancing depends on the present only:
\* it is the larger of the priority the job started with and the one asked for
\* now, however often and whenever the policy was applied before.
HistoryForgotten ==
  JustApplied /\ Sane =>
    \A j \in JobId : Outstanding(j) =>
      LET asked == TargetPriority(policy, jobs[j].due, now) \cup {base[j].priority}
      IN  jobs[j].priority \in asked /\ \A p \in asked : jobs[j].priority >= p

\* Rebalancing under a sane policy makes claiming earliest-due-first among jobs
\* submitted with equal priorities: no submitted job is due before the one
\* the scan ends with.
EarliestDueFirst ==
  JustApplied /\ Sane /\ EqualBases /\ seen = JobId /\ candidate # None =>
    \A j \in Submitted(JobId) :
      jobs[j].due # None =>
        jobs[candidate].due # None /\ jobs[candidate].due <= jobs[j].due
=============================================================================
