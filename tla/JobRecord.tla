------------------------------ MODULE JobRecord ------------------------------
(***************************************************************************)
(* The persisted state of a job (include/ppp/core/job.h) and the order in  *)
(* which repositories list and hand out jobs (src/job_repository.cpp).     *)
(*                                                                         *)
(* Data is reduced to what the behaviour tells apart.  source_path and     *)
(* profile_name never change after creation and no decision reads them, so *)
(* they are left out.  Attachments and tags are vectors the service keeps  *)
(* free of duplicates and only ever tests for membership: they are sets.   *)
(* Every optional<T> is T with the extra value None.                       *)
(***************************************************************************)
EXTENDS Integers

CONSTANTS
  JobId,        \* job identifiers, compared with < as the code compares strings
  Priorities,   \* the int32 priorities in use
  DueTimes,     \* the due timestamps in use
  Messages,     \* error messages
  Correlations, \* correlation identifiers
  Attachments,  \* attachment paths
  Tags,         \* tags
  None          \* an empty optional

ASSUME RecordAssumption ==
  /\ JobId \subseteq Nat
  /\ Priorities \subseteq Int
  /\ DueTimes \subseteq Nat
  /\ None \notin Nat \cup Messages \cup Correlations

JobState ==
  {"Submitted", "Validating", "Rendering", "Exception", "Completed", "Cancelled"}

\* The states a job has while a worker is busy with it.
Active == {"Validating", "Rendering"}

JobRecord ==
  [ id          : JobId,
    state       : JobState,
    priority    : Priorities,
    due         : DueTimes \cup {None},
    created     : Nat,
    updated     : Nat,
    lastAttempt : Nat \cup {None},
    attempts    : Nat,
    error       : Messages \cup {None},
    correlation : Correlations \cup {None},
    attachments : SUBSET Attachments,
    tags        : SUBSET Tags ]

-----------------------------------------------------------------------------
(* The candidate order.                                                    *)

\* Faults the mutants of PROJECT.json plant in the definitions below.
DueAbsentFirst(lhs, rhs) == rhs # None /\ (lhs # None => lhs < rhs)
TieUnbroken(lhs, rhs) ==
  \/ lhs.priority > rhs.priority
  \/ lhs.priority = rhs.priority /\ lhs.created < rhs.created

\* A due time precedes no due time; two due times compare as numbers.
due_precedes(lhs, rhs) == lhs # None /\ (rhs # None => lhs < rhs)

\* Higher priority, then earlier due, then older, then smaller id.
better_candidate(lhs, rhs) ==
  \/ lhs.priority > rhs.priority
  \/ /\ lhs.priority = rhs.priority
     /\ \/ due_precedes(lhs.due, rhs.due)
        \/ lhs.due = rhs.due /\ lhs.created < rhs.created
        \/ lhs.due = rhs.due /\ lhs.created = rhs.created /\ lhs.id < rhs.id

\* r is the candidate a scan of the records S ends with.
IsBest(r, S) == r \in S /\ \A s \in S \ {r} : better_candidate(r, s)
=============================================================================
