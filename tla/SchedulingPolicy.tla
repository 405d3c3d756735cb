--------------------------- MODULE SchedulingPolicy ---------------------------
(***************************************************************************)
(* The decision JobService::apply_scheduling_policy takes for one record   *)
(* (src/job_service.cpp): which priority a policy asks for a job with a    *)
(* due time, given a reference time.                                       *)
(*                                                                         *)
(* The clock ticks TicksPerSecond times a second; windows are whole        *)
(* seconds.  The escalations are a set: the code sorts its vector and      *)
(* duplicates change nothing.                                              *)
(***************************************************************************)
EXTENDS JobRecord

CONSTANT TicksPerSecond

ASSUME TicksAssumption == TicksPerSecond \in Nat \ {0}

Escalation == [within : Int, priority : Priorities]

SchedulingPolicies ==
  [ escalations     : SUBSET Escalation,
    overdue         : Priorities \cup {None},
    escalateOverdue : BOOLEAN ]

-----------------------------------------------------------------------------
\* Faults the mutants of PROJECT.json plant in the definitions below.
RulesMissingBoundary(policy, left) ==
  {e \in policy.escalations :
     left < e.within /\ \A f \in policy.escalations \ {e} :
                            left < f.within => f.within > e.within}
NoRules(policy) == {}

\* duration_cast<seconds>(due - reference): rounds toward zero.
Remaining(due, reference) ==
  IF due >= reference THEN (due - reference) \div TicksPerSecond
                      ELSE -((reference - due) \div TicksPerSecond)

\* The code's sort order of the escalations: narrowest window first and,
\* for equal windows, highest priority first.
Precedes(e, f) ==
  e.within < f.within \/ (e.within = f.within /\ e.priority > f.priority)

\* The first escalation, in that order, whose window holds the job.
FirstRule(policy, left) ==
  {e \in policy.escalations :
     left <= e.within /\ \A f \in policy.escalations \ {e} :
                            left <= f.within => Precedes(e, f)}

\* escalations.back(): the last one in that order.
LastRule(policy) ==
  {e \in policy.escalations : \A f \in policy.escalations \ {e} : Precedes(f, e)}

\* The priorities (none or one) the policy asks for a job with this due time.
TargetPriority(policy, due, reference) ==
  LET left == Remaining(due, reference)
      rules == IF left > 0 THEN FirstRule(policy, left)
               ELSE IF policy.escalateOverdue THEN LastRule(policy)
               ELSE {}
  IN  IF left <= 0 /\ policy.overdue # None
      THEN {policy.overdue}
      ELSE {e.priority : e \in rules}

\* A fault the mutants of PROJECT.json plant: what is asked is written even
\* when it is no increase.
AskedReplaced(policy, r, reference) ==
  IF r.state \in {"Completed", "Cancelled"} \/ r.due = None
  THEN {}
  ELSE TargetPriority(policy, r.due, reference)

\* The priorities (none or one) to write into record r: only an increase of
\* the priority of an outstanding job with a due time is written.
EscalatedPriority(policy, r, reference) ==
  IF r.state \in {"Completed", "Cancelled"} \/ r.due = None
  THEN {}
  ELSE {p \in TargetPriority(policy, r.due, reference) : p > r.priority}
=============================================================================
