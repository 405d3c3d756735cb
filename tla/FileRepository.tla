---------------------------- MODULE FileRepository ----------------------------
(***************************************************************************)
(* FileJobRepository (src/job_repository.cpp): one directory, one file     *)
(* <id>.job for each job, and any number of processes that share it.       *)
(*                                                                         *)
(* The repository's mutex belongs to one process, so each process runs one *)
(* operation at a time, but the processes interleave between any two calls *)
(* of the file system.  A record is written to <id>.job.tmp, a name all    *)
(* processes share, which is then renamed.  The file system is POSIX: a    *)
(* name refers to an inode, a process keeps writing to the inode it opened *)
(* whatever becomes of the name, and rename replaces its target.  A record *)
(* fits the stream's buffer, so that close makes the one write; the clock  *)
(* stands still, as no property here is about time.                        *)
(***************************************************************************)
EXTENDS JobRecord, FiniteSets

CONSTANTS
  Proc,         \* the processes
  Inode,        \* enough inodes for every name and every open file
  Transitions,  \* the pairs of state and error handed to transition
  MaxAttempts,  \* bound of a job's attempt counter
  MaxCrashes    \* bound of the number of crashes

ASSUME FilesAssumption ==
  /\ IsFiniteSet(Proc) /\ IsFiniteSet(JobId) /\ IsFiniteSet(Inode)
  /\ Cardinality(Inode) >= 2 * Cardinality(JobId) + Cardinality(Proc)
  /\ None \notin Inode /\ None \notin JobRecord
  /\ Transitions \subseteq JobState \X (Messages \cup {None})
  /\ MaxAttempts \in Nat /\ MaxCrashes \in Nat

VARIABLES
  file,       \* file[j]: the inode of <j>.job, or None
  temp,       \* temp[j]: the inode of <j>.job.tmp, or None
  data,       \* data[i]: what read_record makes of i: a record, or None if it is empty
  pc,         \* pc[p]: where in an operation p is
  kind,       \* kind[p]: the operation
  rec,        \* rec[p]: the record to write, or the scan's best so far, or None
  fd,         \* fd[p]: the inode p has open for writing
  unread,     \* unread[p]: the directory entries p has still to scan
  expected,   \* the jobs that have been stored and not removed
  crashes,    \* number of crashes so far
  overlapped  \* two processes have been in the middle of operations at once

names   == <<file, temp>>
program == <<pc, kind, rec, fd, unread>>
history == <<expected, crashes, overlapped>>
vars    == <<names, data, program, history>>

Init ==
  /\ file = [j \in JobId |-> None]
  /\ temp = [j \in JobId |-> None]
  /\ data = [i \in Inode |-> None]
  /\ pc = [p \in Proc |-> "idle"]
  /\ kind = [p \in Proc |-> "none"]
  /\ rec = [p \in Proc |-> None]
  /\ fd = [p \in Proc |-> None]
  /\ unread = [p \in Proc |-> {}]
  /\ expected = {}
  /\ crashes = 0
  /\ overlapped = FALSE

Goto(p, place) == pc' = [pc EXCEPT ![p] = place]

Busy(p) == pc[p] # "idle"

\* p begins an operation, perhaps in the middle of somebody else's.
Begins(p) ==
  /\ ~Busy(p)
  /\ overlapped' = (overlapped \/ \E q \in Proc : Busy(q))

\* p returns, or throws.
Returns(p) ==
  /\ Goto(p, "idle")
  /\ kind' = [kind EXCEPT ![p] = "none"]
  /\ rec' = [rec EXCEPT ![p] = None]
  /\ fd' = [fd EXCEPT ![p] = None]
  /\ unread' = [unread EXCEPT ![p] = {}]

-----------------------------------------------------------------------------
(* Reading.                                                                *)

\* The place of each field in a record's file.
Line ==
  [ id |-> 1, state |-> 2, created |-> 3, updated |-> 4, correlation |-> 5,
    error |-> 6, attempts |-> 7, priority |-> 8, lastAttempt |-> 9, due |-> 10,
    attachments |-> 11, tags |-> 12 ]

\* What a file may say once record new is written over what said old: the
\* lines at the end of a longer old one survive, and read_record takes the
\* last line of each key.
Overwritten(old, new) ==
  IF old = None THEN {new}
  ELSE {[f \in DOMAIN new |-> IF Line[f] < k THEN new[f] ELSE old[f]] : k \in 2 .. 13}

\* read_record of <j>.job; None stands for nullopt.
Read(j) == IF file[j] = None THEN None ELSE data[file[j]]

\* What the directory holds.
Visible == [j \in JobId |-> Read(j)]

Table == INSTANCE JobRepository WITH jobs <- Visible, now <- 0, MaxTime <- 0

-----------------------------------------------------------------------------
(* The decisions of the operations, up to the record to write.             *)

unchangedByStart == <<names, data, fd, expected, crashes>>

\* upsert of a record the caller has made, or fetched and edited.
upsert(p) ==
  \E j \in JobId, v \in Priorities :
    /\ Begins(p)
    /\ LET fresh == [ id |-> j, state |-> "Submitted", priority |-> v, due |-> None,
                      created |-> 0, updated |-> 0, lastAttempt |-> None, attempts |-> 0,
                      error |-> None, correlation |-> None, attachments |-> {}, tags |-> {} ]
           edited == [Read(j) EXCEPT !.priority = v]
       IN  rec' = [rec EXCEPT ![p] = Table!Touched(IF Read(j) = None THEN fresh ELSE edited)]
    /\ kind' = [kind EXCEPT ![p] = "upsert"]
    /\ Goto(p, "open")
    /\ UNCHANGED <<unread, unchangedByStart>>

\* transition of a job that can be read; of any other it does nothing.
transition(p) ==
  \E j \in JobId, t \in Transitions :
    /\ Begins(p)
    /\ Read(j) # None
    /\ rec' = [rec EXCEPT ![p] = Table!Transitioned(Read(j), t[1], t[2])]
    /\ kind' = [kind EXCEPT ![p] = "transition"]
    /\ Goto(p, "open")
    /\ UNCHANGED <<unread, unchangedByStart>>

\* The claim opens the directory.
claim_next_submitted(p) ==
  /\ Begins(p)
  /\ unread' = [unread EXCEPT ![p] = {j \in JobId : file[j] # None}]
  /\ kind' = [kind EXCEPT ![p] = "claim"]
  /\ Goto(p, "scan")
  /\ UNCHANGED <<rec, unchangedByStart>>

\* It reads one file after another, in any order, and keeps the best submitted
\* record; a file that has gone or says nothing is passed over.
ScanEntry(p) ==
  \E j \in unread[p] :
    /\ pc[p] = "scan"
    /\ unread' = [unread EXCEPT ![p] = @ \ {j}]
    /\ rec' = [rec EXCEPT ![p] =
                 IF /\ Read(j) # None
                    /\ Read(j).state = "Submitted"
                    /\ @ = None \/ better_candidate(Read(j), @)
                 THEN Read(j) ELSE @]
    /\ UNCHANGED <<names, data, pc, kind, fd, history>>

\* The scan has found a job, which becomes the record to write (MaxAttempts
\* bounds the counter) ...
ScanFound(p) ==
  /\ pc[p] = "scan" /\ unread[p] = {}
  /\ rec[p] # None
  /\ rec[p].attempts < MaxAttempts
  /\ rec' = [rec EXCEPT ![p] = Table!Claimed(@, "Validating")]
  /\ Goto(p, "open")
  /\ UNCHANGED <<names, data, kind, fd, unread, history>>

\* ... or none, and the claim returns nullopt.
ScanFoundNothing(p) ==
  /\ pc[p] = "scan" /\ unread[p] = {}
  /\ rec[p] = None
  /\ Returns(p)
  /\ UNCHANGED <<names, data, history>>

-----------------------------------------------------------------------------
(* write_record.                                                           *)

\* An inode no name and no process refers to.
Free == Inode \ ({file[j] : j \in JobId} \cup {temp[j] : j \in JobId} \cup {fd[p] : p \in Proc})

\* Faults the mutants of PROJECT.json plant in the definitions below.
OpenInPlace(p) ==
  LET j == rec[p].id
      i == IF file[j] # None THEN file[j] ELSE CHOOSE k \in Free : TRUE
  IN  /\ pc[p] = "open"
      /\ file' = [file EXCEPT ![j] = i]
      /\ data' = [data EXCEPT ![i] = None]
      /\ fd' = [fd EXCEPT ![p] = i]
      /\ Goto(p, "write")
      /\ UNCHANGED <<temp, kind, rec, unread, history>>
RenameCopying(p) ==
  LET j == rec[p].id
  IN  /\ pc[p] = "rename"
      /\ temp[j] # None
      /\ file' = [file EXCEPT ![j] = temp[j]]
      /\ Returns(p)
      /\ UNCHANGED <<temp, data, history>>
RenameNeverReplacing(p) ==
  LET j == rec[p].id
  IN  /\ pc[p] = "rename"
      /\ temp[j] # None
      /\ file' = [file EXCEPT ![j] = IF @ = None THEN temp[j] ELSE @]
      /\ temp' = [temp EXCEPT ![j] = IF file[j] = None THEN None ELSE @]
      /\ Returns(p)
      /\ UNCHANGED <<data, history>>
CleanupRemovingJob(p) ==
  /\ pc[p] = "cleanup"
  /\ file' = [file EXCEPT ![rec[p].id] = None]
  /\ Returns(p)
  /\ UNCHANGED <<temp, data, history>>

\* The .tmp file is created, or truncated if somebody has left or is using it.
Open(p) ==
  LET j == rec[p].id
      i == IF temp[j] # None THEN temp[j] ELSE CHOOSE k \in Free : TRUE
  IN  /\ pc[p] = "open"
      /\ temp' = [temp EXCEPT ![j] = i]
      /\ data' = [data EXCEPT ![i] = None]
      /\ fd' = [fd EXCEPT ![p] = i]
      /\ Goto(p, "write")
      /\ UNCHANGED <<file, kind, rec, unread, history>>

\* close writes the record to the inode that was opened.
Write(p) ==
  /\ pc[p] = "write"
  /\ \E written \in Overwritten(data[fd[p]], rec[p]) : data' = [data EXCEPT ![fd[p]] = written]
  /\ fd' = [fd EXCEPT ![p] = None]
  /\ Goto(p, "rename")
  /\ UNCHANGED <<names, kind, rec, unread, history>>

\* Whatever is called .tmp by now becomes the job's file; the operation returns.
Rename(p) ==
  LET j == rec[p].id
  IN  /\ pc[p] = "rename"
      /\ temp[j] # None
      /\ file' = [file EXCEPT ![j] = temp[j]]
      /\ temp' = [temp EXCEPT ![j] = None]
      /\ expected' = IF kind[p] = "upsert" THEN expected \cup {j} ELSE expected
      /\ Returns(p)
      /\ UNCHANGED <<data, crashes, overlapped>>

\* Another process has renamed it away: the cleanup removes whatever is called
\* .tmp by then, and the operation throws.
RenameFails(p) ==
  /\ pc[p] = "rename"
  /\ temp[rec[p].id] = None
  /\ Goto(p, "cleanup")
  /\ UNCHANGED <<names, data, kind, rec, fd, unread, history>>

Cleanup(p) ==
  /\ pc[p] = "cleanup"
  /\ temp' = [temp EXCEPT ![rec[p].id] = None]
  /\ Returns(p)
  /\ UNCHANGED <<file, data, history>>

-----------------------------------------------------------------------------
remove(p) ==
  \E j \in JobId :
    /\ Begins(p)
    /\ file' = [file EXCEPT ![j] = None]
    /\ expected' = expected \ {j}
    /\ UNCHANGED <<temp, data, program, crashes>>

\* The process dies: files stay as they are, what was not written is lost.
crash(p) ==
  /\ Busy(p)
  /\ crashes < MaxCrashes
  /\ crashes' = crashes + 1
  /\ Returns(p)
  /\ UNCHANGED <<names, data, expected, overlapped>>

Next ==
  \E p \in Proc :
    \/ upsert(p)
    \/ transition(p)
    \/ claim_next_submitted(p)
    \/ ScanEntry(p)
    \/ ScanFound(p)
    \/ ScanFoundNothing(p)
    \/ Open(p)
    \/ Write(p)
    \/ Rename(p)
    \/ RenameFails(p)
    \/ Cleanup(p)
    \/ remove(p)
    \/ crash(p)

Spec == Init /\ [][Next]_vars

-----------------------------------------------------------------------------
(* Correctness.                                                            *)

\* The variables hold values of their types, what an operation writes is a
\* record, and no inode has two names.
FilesTypeOK ==
  /\ file \in [JobId -> Inode \cup {None}]
  /\ temp \in [JobId -> Inode \cup {None}]
  /\ \A i \in Inode : Cardinality({j \in JobId : file[j] = i}) +
                      Cardinality({j \in JobId : temp[j] = i}) <= 1
  /\ data \in [Inode -> JobRecord \cup {None}]
  /\ pc \in [Proc -> {"idle", "scan", "open", "write", "rename", "cleanup"}]
  /\ kind \in [Proc -> {"none", "upsert", "transition", "claim"}]
  /\ \A p \in Proc : pc[p] \in {"open", "write", "rename", "cleanup"} => rec[p] \in JobRecord
  /\ \A p \in Proc : fd[p] # None <=> pc[p] = "write"
  /\ unread \in [Proc -> SUBSET JobId]
  /\ expected \subseteq JobId
  /\ crashes \in 0 .. MaxCrashes
  /\ overlapped \in BOOLEAN

\* As long as the processes take turns, each operation changes what the
\* directory holds as a repository promises, in one step, whenever a process
\* dies and whatever it leaves behind: the step that renames is the claim of the
\* best submitted job, or writes what was asked for, and no other step but
\* remove changes what a reader sees.
OperationsAtomic ==
  [][~overlapped' =>
       \/ UNCHANGED Visible
       \/ \E j \in JobId : Table!Remove(j)
       \/ \E p \in Proc :
            /\ pc[p] = "rename" /\ ~Busy(p)'
            /\ Visible' = [Visible EXCEPT ![rec[p].id] = rec[p]]
            /\ kind[p] = "claim" =>
                 \E r \in Table!list({"Submitted"}) : Table!Claim(r, "Validating")]_vars

\* Processes that overlap can tear, mix and overwrite each other's writes, but
\* if none dies the files recover: once all operations have ended, every job
\* stored and not removed can be read.  If they take turns, this survives
\* crashes too.
NothingLost ==
  (\A p \in Proc : ~Busy(p)) /\ (crashes = 0 \/ ~overlapped) =>
    \A j \in expected : Read(j) # None

\* Only a crash leaves a .tmp file behind that nobody is about to rename.
NoLeftovers ==
  crashes = 0 =>
    \A j \in JobId : temp[j] # None =>
      \E p \in Proc : pc[p] \in {"write", "rename", "cleanup"} /\ rec[p].id = j
=============================================================================
