---------------------------- MODULE MCJobProcessor ----------------------------
(***************************************************************************)
(* The job system for TLC: the values of its constants.                    *)
(***************************************************************************)
EXTENDS JobProcessor

\* Workers that crash and are relaunched with or without --resume, while a
\* client submits, settles and purges jobs: nothing writes back a copy.
RecoveryCommands ==
  {"create_job", "mark_failed", "resume_active_jobs", "purge", "run-next"}

\* Workers that are never resumed.
PlainCommands == {"create_job", "mark_completed", "run-next"}

\* An operator who changes the priority of a job while workers run.
ReprioritizingCommands == {"create_job", "update_priority", "run-next"}
=============================================================================
