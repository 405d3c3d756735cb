----------------------------- MODULE MCRebalance -----------------------------
(***************************************************************************)
(* Rebalance for TLC: the values of its constants.                         *)
(***************************************************************************)
EXTENDS Rebalance

Rule(within, priority) == [within |-> within, priority |-> priority]

Policy(escalations, overdue, escalateOverdue) ==
  [escalations |-> escalations, overdue |-> overdue, escalateOverdue |-> escalateOverdue]

\* Two windows and an overdue priority; two rules for one window; windows
\* only, with and without the fallback; an overdue priority only; windows
\* that ask for less the narrower they are.
MCPolicies ==
  { Policy({Rule(1, 2), Rule(2, 1)}, 2, TRUE),
    Policy({Rule(1, 0), Rule(1, 1)}, 2, TRUE),
    Policy({Rule(1, 2), Rule(2, 1)}, None, TRUE),
    Policy({Rule(1, 2), Rule(2, 1)}, None, FALSE),
    Policy({}, 1, FALSE),
    Policy({Rule(1, 1), Rule(2, 2)}, 0, TRUE) }

\* The fields that neither rebalancing nor the scan reads are fixed.
MCRecord(id, state, priority, due, created) ==
  [ id |-> id, state |-> state, priority |-> priority, due |-> due,
    created |-> created, updated |-> created, lastAttempt |-> None, attempts |-> 0,
    error |-> None, correlation |-> None, attachments |-> {}, tags |-> {} ]

\* Every choice of priorities and due times for three jobs; job 3 may have
\* been completed, and the jobs are of one age or the first is the youngest.
MCTables ==
  { [j \in JobId |->
       MCRecord(j, IF j = 3 THEN last ELSE "Submitted", priority[j], due[j],
                IF j = 1 THEN youngest ELSE 0)] :
      priority \in [JobId -> {0, 2}], due \in [JobId -> DueTimes \cup {None}],
      last \in {"Submitted", "Completed"}, youngest \in {0, 1} }
=============================================================================
