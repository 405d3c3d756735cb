---------------------------- MODULE MCJobService ----------------------------
(***************************************************************************)
(* JobService for TLC: the values of its constants.                        *)
(***************************************************************************)
EXTENDS JobService, TLC

\* One caller: everything that lists or decides, and the transitions.
SerialCommands ==
  { "create_job", "retry", "update_priority", "update_due_at", "mark_validating",
    "mark_rendering", "mark_completed", "mark_failed", "claim_next_submitted",
    "apply_scheduling_policy", "resume_active_jobs", "purge" }

\* Several callers: every way to change a record, without the scheduling data.
ConcurrentCommands ==
  { "create_job", "retry", "update_correlation", "add_attachment",
    "remove_attachment", "clear_attachments", "add_tag", "remove_tag",
    "clear_tags", "mark_rendering", "mark_failed", "mark_cancelled",
    "claim_next_submitted", "resume_active_jobs", "purge" }

\* Raise to 1 whatever is due within a second or overdue.
UrgentPolicy ==
  [escalations |-> {[within |-> 1, priority |-> 1]}, overdue |-> None,
   escalateOverdue |-> TRUE]

MCPolicies == {UrgentPolicy}

\* The callers are interchangeable.
CallerSymmetry == Permutations(Proc)
=============================================================================
