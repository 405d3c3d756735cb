------------------------- MODULE FileRepositoryProofs -------------------------
(***************************************************************************)
(* What the files of a shared directory keep, for any number of processes, *)
(* jobs and crashes.  Everything rests on one fact: an inode belongs to    *)
(* one job, through its names and through those who have it open, so that  *)
(* overlapping processes spoil each other's writes of one job, and never   *)
(* of two.  Without crashes whoever spoils a write makes it good before it *)
(* returns; without overlap nobody spoils any.                             *)
(***************************************************************************)
EXTENDS FileRepository, JobRecordProofs, FiniteSetTheorems

Writing == {"open", "write", "rename", "cleanup"}

\* The inode i belongs to the job j.
Belongs(i, j) ==
  \/ file[j] = i
  \/ temp[j] = i
  \/ \E p \in Proc : fd[p] = i /\ rec[p].id = j

NamesOK ==
  /\ file \in [JobId -> Inode \cup {None}]
  /\ temp \in [JobId -> Inode \cup {None}]
  /\ \A j \in JobId : file[j] # None => file[j] # temp[j]

\* No inode belongs to two jobs, and what it holds is a record of its job.
OwnersOK ==
  /\ data \in [Inode -> JobRecord \cup {None}]
  /\ \A i \in Inode, j, k \in JobId : Belongs(i, j) /\ Belongs(i, k) => j = k
  /\ \A i \in Inode, j \in JobId : Belongs(i, j) /\ data[i] # None => data[i].id = j

ProgramOK ==
  /\ pc \in [Proc -> {"idle", "scan", "open", "write", "rename", "cleanup"}]
  /\ kind \in [Proc -> {"none", "upsert", "transition", "claim"}]
  /\ rec \in [Proc -> JobRecord \cup {None}]
  /\ \A p \in Proc : pc[p] \in Writing => rec[p] # None
  /\ \A p \in Proc : pc[p] = "idle" => rec[p] = None
  /\ fd \in [Proc -> Inode \cup {None}]
  /\ \A p \in Proc : fd[p] # None <=> pc[p] = "write"
  /\ unread \in [Proc -> SUBSET JobId]
  /\ expected \subseteq JobId
  /\ crashes \in 0 .. MaxCrashes
  /\ overlapped \in BOOLEAN

FInv == NamesOK /\ OwnersOK /\ ProgramOK

\* A stored job has a file.
Kept == \A j \in expected : file[j] # None

\* As long as nobody dies, an empty file is still open.
EmptiesOpen ==
  \A j \in JobId : \A i \in {file[j], temp[j]} :
    i # None /\ data[i] = None => \E p \in Proc : fd[p] = i

\* As long as the processes take turns, there is one in the middle of an
\* operation at most, and it alone handles the .tmp file.
TakesTurns ==
  /\ \A p, q \in Proc : Busy(p) /\ Busy(q) => p = q
  /\ \A j \in JobId : file[j] # None => data[file[j]] # None
  /\ \A p \in Proc :
       /\ pc[p] # "cleanup"
       /\ pc[p] = "write" => fd[p] = temp[rec[p].id] /\ data[fd[p]] = None
       /\ pc[p] = "rename" =>
            temp[rec[p].id] # None /\ data[temp[rec[p].id]] = rec[p]

\* The submitted records among the entries p has scanned.
Scanned(p) ==
  {r \in {Read(j) : j \in JobId \ unread[p]} : r # None /\ r.state = "Submitted"}

\* What p is about to write is the claim of the best submitted job.
ClaimsBest(p) ==
  \E r \in Table!list({"Submitted"}) :
    /\ IsBest(r, Table!list({"Submitted"}))
    /\ r.attempts < MaxAttempts
    /\ rec[p] = Table!Claimed(r, "Validating")

\* Moreover what a process has read is still what the directory holds.
ReadsStand ==
  \A p \in Proc :
    /\ pc[p] = "scan" =>
         IF rec[p] = None THEN Scanned(p) = {} ELSE IsBest(rec[p], Scanned(p))
    /\ pc[p] \in {"open", "write", "rename"} /\ kind[p] = "claim" => ClaimsBest(p)

KeepsInv ==
  /\ FInv
  /\ Kept
  /\ crashes = 0 => EmptiesOpen
  /\ NoLeftovers
  /\ ~overlapped => TakesTurns /\ ReadsStand

-----------------------------------------------------------------------------
(* Types and owners.                                                       *)

\* What read_record may make of a file that mixes two records of a job.
LEMMA Mixed ==
  ASSUME NEW old \in JobRecord, NEW new \in JobRecord, old.id = new.id,
         NEW written \in Overwritten(old, new)
  PROVE  written \in JobRecord /\ written.id = new.id
<1>1. old # None
  BY FilesAssumption
<1>2. PICK k \in 2 .. 13 :
        written = [f \in DOMAIN new |-> IF Line[f] < k THEN new[f] ELSE old[f]]
  BY <1>1 DEF Overwritten
<1>3. DOMAIN new = { "id", "state", "priority", "due", "created", "updated", "lastAttempt",
                     "attempts", "error", "correlation", "attachments", "tags" }
  BY DEF JobRecord
<1>4. written \in JobRecord
  BY <1>2, <1>3 DEF JobRecord, Line
<1>5. written.id = new.id
  BY <1>2, <1>3 DEF JobRecord, Line
<1>6. QED BY <1>4, <1>5

\* What can be read is a record of the job.
LEMMA ReadTyped ==
  ASSUME FInv, NEW j \in JobId, Read(j) # None
  PROVE  file[j] # None /\ Read(j) = data[file[j]] /\ Read(j) \in JobRecord /\ Read(j).id = j
<1>1. file[j] \in Inode /\ Read(j) = data[file[j]]
  BY DEF FInv, NamesOK, Read
<1>2. QED BY <1>1, FilesAssumption DEF FInv, OwnersOK, Belongs

\* The job p is writing.
LEMMA WritingTyped ==
  ASSUME FInv, NEW p \in Proc, pc[p] \in Writing
  PROVE  rec[p] \in JobRecord /\ rec[p].id \in JobId
<1>1. rec[p] \in JobRecord
  BY DEF FInv, ProgramOK
<1>2. QED BY <1>1 DEF JobRecord

\* A step that opens no file takes nobody's place.
LEMMA FewerOwners ==
  ASSUME NEW p \in Proc,
         \A q \in Proc \ {p} : fd'[q] = fd[q] /\ rec'[q] = rec[q],
         fd'[p] = None \/ (fd'[p] = fd[p] /\ rec'[p] = rec[p]),
         \A j \in JobId : file'[j] \in {file[j], temp[j], None} /\ temp'[j] \in {temp[j], None},
         NEW i \in Inode, NEW j \in JobId, Belongs(i, j)'
  PROVE  Belongs(i, j)
BY FilesAssumption DEF Belongs

\* The steps that leave the directory and every file alone.
LEMMA QuietOwners ==
  ASSUME FInv, NEW p \in Proc, UNCHANGED <<names, data>>,
         \A q \in Proc \ {p} : fd'[q] = fd[q] /\ rec'[q] = rec[q],
         fd'[p] = None \/ (fd'[p] = fd[p] /\ rec'[p] = rec[p])
  PROVE  NamesOK' /\ OwnersOK'
<1>1. NamesOK'
  BY DEF FInv, NamesOK, names
<1>2. \A i \in Inode, j \in JobId : Belongs(i, j)' => Belongs(i, j)
  BY FewerOwners DEF names
<1>3. QED BY <1>1, <1>2 DEF FInv, OwnersOK

LEMMA ReturnsTyped ==
  ASSUME FInv, NEW p \in Proc, Returns(p), expected' \subseteq JobId,
         crashes' \in 0 .. MaxCrashes, overlapped' \in BOOLEAN
  PROVE  /\ ProgramOK'
         /\ \A q \in Proc \ {p} : fd'[q] = fd[q] /\ rec'[q] = rec[q]
         /\ fd'[p] = None
BY DEF FInv, ProgramOK, Returns, Goto, Writing

\* p begins an operation, perhaps with the record to write in hand.
LEMMA BeginsTyped ==
  ASSUME FInv, NEW p \in Proc, Begins(p), UNCHANGED unchangedByStart,
         NEW place \in {"scan", "open"}, Goto(p, place),
         NEW r \in JobRecord \cup {None}, rec' = [rec EXCEPT ![p] = r],
         place = "open" => r # None,
         NEW k \in {"upsert", "transition", "claim"}, kind' = [kind EXCEPT ![p] = k],
         NEW U \in SUBSET JobId, unread' = [unread EXCEPT ![p] = U]
  PROVE  FInv'
<1>1. fd[p] = None /\ UNCHANGED <<names, data, fd, expected, crashes>>
  BY DEF FInv, ProgramOK, unchangedByStart, Begins, Busy
<1>2. /\ pc'[p] = place /\ rec'[p] = r
      /\ \A q \in Proc \ {p} : pc'[q] = pc[q] /\ rec'[q] = rec[q]
  BY DEF FInv, ProgramOK, Goto
<1>3. ProgramOK'
  <2>1. /\ pc' \in [Proc -> {"idle", "scan", "open", "write", "rename", "cleanup"}]
        /\ kind' \in [Proc -> {"none", "upsert", "transition", "claim"}]
        /\ rec' \in [Proc -> JobRecord \cup {None}]
        /\ unread' \in [Proc -> SUBSET JobId]
    BY DEF FInv, ProgramOK, Goto
  <2>2. /\ \A q \in Proc : pc'[q] \in Writing => rec'[q] # None
        /\ \A q \in Proc : pc'[q] = "idle" => rec'[q] = None
    BY <1>2 DEF FInv, ProgramOK, Writing
  <2>3. \A q \in Proc : fd'[q] # None <=> pc'[q] = "write"
    BY <1>1, <1>2 DEF FInv, ProgramOK
  <2>4. /\ fd' \in [Proc -> Inode \cup {None}] /\ expected' \subseteq JobId
        /\ crashes' \in 0 .. MaxCrashes /\ overlapped' \in BOOLEAN
    BY <1>1 DEF FInv, ProgramOK, Begins
  <2>5. QED BY <2>1, <2>2, <2>3, <2>4 DEF ProgramOK
<1>4. QED BY <1>1, <1>2, <1>3, QuietOwners DEF FInv

LEMMA StartsTyped ==
  ASSUME FInv, NEW p \in Proc, upsert(p) \/ transition(p) \/ claim_next_submitted(p)
  PROVE  FInv'
<1>1. /\ unread = [unread EXCEPT ![p] = unread[p]] /\ unread[p] \in SUBSET JobId
      /\ rec = [rec EXCEPT ![p] = rec[p]] /\ rec[p] \in JobRecord \cup {None}
  BY DEF FInv, ProgramOK
<1>2. CASE upsert(p)
  <2>1. PICK j \in JobId, v \in Priorities :
          LET fresh == [ id |-> j, state |-> "Submitted", priority |-> v, due |-> None,
                         created |-> 0, updated |-> 0, lastAttempt |-> None, attempts |-> 0,
                         error |-> None, correlation |-> None,
                         attachments |-> {}, tags |-> {} ]
              edited == [Read(j) EXCEPT !.priority = v]
          IN  rec' = [rec EXCEPT ![p] = Table!Touched(IF Read(j) = None THEN fresh ELSE edited)]
    BY <1>2 DEF upsert
  <2> DEFINE fresh == [ id |-> j, state |-> "Submitted", priority |-> v, due |-> None,
                        created |-> 0, updated |-> 0, lastAttempt |-> None, attempts |-> 0,
                        error |-> None, correlation |-> None,
                        attachments |-> {}, tags |-> {} ]
             edited == [Read(j) EXCEPT !.priority = v]
  <2>2. fresh \in JobRecord /\ (Read(j) # None => edited \in JobRecord)
    BY ReadTyped DEF JobRecord, JobState
  <2> HIDE DEF fresh, edited
  <2>3. Table!Touched(IF Read(j) = None THEN fresh ELSE edited) \in JobRecord
    BY <2>2 DEF Table!Touched, JobRecord
  <2>4. rec' = [rec EXCEPT ![p] = Table!Touched(IF Read(j) = None THEN fresh ELSE edited)]
    BY <2>1 DEF fresh, edited
  <2>5. /\ Begins(p) /\ UNCHANGED unchangedByStart /\ Goto(p, "open")
        /\ kind' = [kind EXCEPT ![p] = "upsert"] /\ unread' = unread
    BY <1>2 DEF upsert
  <2>6. QED BY <1>1, <2>3, <2>4, <2>5, BeginsTyped, FilesAssumption
<1>3. CASE transition(p)
  <2>1. PICK j \in JobId, t \in Transitions :
          Read(j) # None /\ rec' = [rec EXCEPT ![p] = Table!Transitioned(Read(j), t[1], t[2])]
    BY <1>3 DEF transition
  <2>2. t[1] \in JobState /\ t[2] \in Messages \cup {None} /\ Read(j) \in JobRecord
    BY <2>1, ReadTyped, FilesAssumption
  <2>3. Table!Transitioned(Read(j), t[1], t[2]) \in JobRecord
    BY <2>2 DEF Table!Transitioned, JobRecord
  <2>4. /\ Begins(p) /\ UNCHANGED unchangedByStart /\ Goto(p, "open")
        /\ kind' = [kind EXCEPT ![p] = "transition"] /\ unread' = unread
    BY <1>3 DEF transition
  <2>5. QED BY <1>1, <2>1, <2>3, <2>4, BeginsTyped, FilesAssumption
<1>4. CASE claim_next_submitted(p)
  <2>1. /\ Begins(p) /\ UNCHANGED unchangedByStart /\ Goto(p, "scan") /\ rec' = rec
        /\ kind' = [kind EXCEPT ![p] = "claim"]
        /\ unread' = [unread EXCEPT ![p] = {j \in JobId : file[j] # None}]
    BY <1>4 DEF claim_next_submitted
  <2>2. {j \in JobId : file[j] # None} \in SUBSET JobId
    OBVIOUS
  <2>3. QED BY <1>1, <2>1, <2>2, BeginsTyped
<1>5. QED BY <1>2, <1>3, <1>4

\* What a claim writes.
LEMMA ClaimedTyped ==
  ASSUME NEW r \in JobRecord
  PROVE  /\ Table!Claimed(r, "Validating") \in JobRecord
         /\ Table!Claimed(r, "Validating").id = r.id
<1>1. "Validating" \in JobState /\ r.attempts + 1 \in Nat
  BY DEF JobState, JobRecord
<1>2. QED BY <1>1 DEF Table!Claimed, JobRecord

\* The claim's scan.
LEMMA ScanTyped ==
  ASSUME FInv, NEW p \in Proc, ScanEntry(p) \/ ScanFound(p)
  PROVE  FInv'
<1>1. pc[p] = "scan" /\ fd[p] = None /\ UNCHANGED <<names, data, kind, fd, history>>
  BY DEF FInv, ProgramOK, ScanEntry, ScanFound
<1>2. ASSUME NEW r \in JobRecord \cup {None}, rec' = [rec EXCEPT ![p] = r],
             NEW place \in {"scan", "open"}, pc' = [pc EXCEPT ![p] = place],
             place = "open" => r # None,
             unread' = unread \/ \E j : unread' = [unread EXCEPT ![p] = @ \ {j}]
      PROVE  FInv'
  <2>1. /\ pc'[p] = place /\ rec'[p] = r
        /\ \A q \in Proc \ {p} : pc'[q] = pc[q] /\ rec'[q] = rec[q]
    BY <1>2 DEF FInv, ProgramOK
  <2>2. ProgramOK'
    <3>1. /\ pc' \in [Proc -> {"idle", "scan", "open", "write", "rename", "cleanup"}]
          /\ rec' \in [Proc -> JobRecord \cup {None}]
          /\ unread' \in [Proc -> SUBSET JobId]
      BY <1>2 DEF FInv, ProgramOK
    <3>2. /\ \A q \in Proc : pc'[q] \in Writing => rec'[q] # None
          /\ \A q \in Proc : pc'[q] = "idle" => rec'[q] = None
      BY <1>2, <2>1 DEF FInv, ProgramOK, Writing
    <3>3. \A q \in Proc : fd'[q] # None <=> pc'[q] = "write"
      BY <1>1, <1>2, <2>1 DEF FInv, ProgramOK
    <3>4. QED BY <1>1, <3>1, <3>2, <3>3 DEF FInv, ProgramOK, history
  <2>3. QED BY <1>1, <2>1, <2>2, QuietOwners DEF FInv
<1>3. rec[p] \in JobRecord \cup {None} /\ pc = [pc EXCEPT ![p] = "scan"]
  BY <1>1 DEF FInv, ProgramOK
<1>4. CASE ScanEntry(p)
  <2>1. PICK j \in unread[p] :
          /\ unread' = [unread EXCEPT ![p] = @ \ {j}]
          /\ rec' = [rec EXCEPT ![p] =
                       IF /\ Read(j) # None
                          /\ Read(j).state = "Submitted"
                          /\ @ = None \/ better_candidate(Read(j), @)
                       THEN Read(j) ELSE @]
          /\ pc' = pc
    BY <1>4 DEF ScanEntry
  <2>2. j \in JobId
    BY DEF FInv, ProgramOK
  <2>3. PICK r \in JobRecord \cup {None} : rec' = [rec EXCEPT ![p] = r]
    BY <1>3, <2>1, <2>2, ReadTyped
  <2>4. QED BY <1>2, <1>3, <2>1, <2>3
<1>5. CASE ScanFound(p)
  <2>1. /\ rec[p] \in JobRecord /\ rec[p] # None
        /\ rec' = [rec EXCEPT ![p] = Table!Claimed(rec[p], "Validating")]
        /\ pc' = [pc EXCEPT ![p] = "open"] /\ unread' = unread
    BY <1>3, <1>5 DEF ScanFound, Goto
  <2>2. Table!Claimed(rec[p], "Validating") \in JobRecord
    BY <2>1, ClaimedTyped
  <2>3. QED BY <1>2, <2>1, <2>2, FilesAssumption
<1>6. QED BY <1>4, <1>5

LEMMA StopsTyped ==
  ASSUME FInv, NEW p \in Proc, ScanFoundNothing(p) \/ crash(p)
  PROVE  FInv'
<1>1. Returns(p) /\ UNCHANGED <<names, data, expected, overlapped>>
  BY DEF ScanFoundNothing, crash, history
<1>2. expected' \subseteq JobId /\ crashes' \in 0 .. MaxCrashes /\ overlapped' \in BOOLEAN
  BY <1>1, FilesAssumption DEF ScanFoundNothing, crash, history, FInv, ProgramOK
<1>3. QED BY <1>1, <1>2, ReturnsTyped, QuietOwners DEF FInv

LEMMA RenameFailsTyped ==
  ASSUME FInv, NEW p \in Proc, RenameFails(p)
  PROVE  FInv'
<1>1. /\ UNCHANGED <<names, data, kind, rec, fd, unread, history>>
      /\ pc[p] = "rename" /\ pc' = [pc EXCEPT ![p] = "cleanup"]
  BY DEF RenameFails, Goto
<1>2. ProgramOK'
  BY <1>1 DEF FInv, ProgramOK, history, Writing
<1>3. QED BY <1>1, <1>2, QuietOwners DEF FInv

LEMMA CleanupTyped ==
  ASSUME FInv, NEW p \in Proc, Cleanup(p)
  PROVE  FInv'
<1>1. Returns(p) /\ UNCHANGED <<file, data, history>>
      /\ temp' = [temp EXCEPT ![rec[p].id] = None]
  BY DEF Cleanup
<1>2. /\ ProgramOK'
      /\ \A q \in Proc \ {p} : fd'[q] = fd[q] /\ rec'[q] = rec[q]
      /\ fd'[p] = None
  BY <1>1, ReturnsTyped DEF FInv, ProgramOK, history
<1>3. NamesOK'
  BY <1>1 DEF FInv, NamesOK
<1>4. \A i \in Inode, j \in JobId : Belongs(i, j)' => Belongs(i, j)
  BY <1>1, <1>2, FewerOwners DEF FInv, NamesOK
<1>5. QED BY <1>1, <1>2, <1>3, <1>4 DEF FInv, OwnersOK

LEMMA RemoveTyped ==
  ASSUME FInv, NEW p \in Proc, remove(p)
  PROVE  FInv'
<1>1. PICK j \in JobId :
        /\ Begins(p)
        /\ file' = [file EXCEPT ![j] = None]
        /\ expected' = expected \ {j}
        /\ UNCHANGED <<temp, data, program, crashes>>
  BY DEF remove
<1>2. ProgramOK'
  BY <1>1 DEF FInv, ProgramOK, program, Begins
<1>3. NamesOK'
  BY <1>1 DEF FInv, NamesOK
<1>4. \A i \in Inode, k \in JobId : Belongs(i, k)' => Belongs(i, k)
  BY <1>1, FilesAssumption DEF Belongs, program, FInv, NamesOK
<1>5. QED BY <1>1, <1>2, <1>3, <1>4 DEF FInv, OwnersOK

LEMMA RenameTyped ==
  ASSUME FInv, NEW p \in Proc, Rename(p)
  PROVE  FInv'
<1> PICK j : j = rec[p].id
  OBVIOUS
<1>1. /\ Returns(p) /\ UNCHANGED <<data, crashes, overlapped>>
      /\ pc[p] = "rename" /\ temp[j] # None
      /\ file' = [file EXCEPT ![j] = temp[j]] /\ temp' = [temp EXCEPT ![j] = None]
      /\ expected' = IF kind[p] = "upsert" THEN expected \cup {j} ELSE expected
  BY DEF Rename
<1>2. j \in JobId
  BY <1>1, WritingTyped DEF Writing
<1>3. /\ ProgramOK'
      /\ \A q \in Proc \ {p} : fd'[q] = fd[q] /\ rec'[q] = rec[q]
      /\ fd'[p] = None
  <2>1. expected' \subseteq JobId
    BY <1>1, <1>2 DEF FInv, ProgramOK
  <2>2. QED BY <1>1, <2>1, ReturnsTyped DEF FInv, ProgramOK
<1>4. \A k \in JobId : /\ file'[k] = IF k = j THEN temp[j] ELSE file[k]
                       /\ temp'[k] = IF k = j THEN None ELSE temp[k]
  BY <1>1 DEF FInv, NamesOK
<1>5. NamesOK'
  <2>1. \A k \in JobId : file'[k] # None => file'[k] # temp'[k]
    BY <1>1, <1>4 DEF FInv, NamesOK
  <2>2. QED BY <1>1, <1>2, <2>1 DEF FInv, NamesOK
<1>6. \A i \in Inode, k \in JobId : Belongs(i, k)' => Belongs(i, k)
  BY <1>3, <1>4, FewerOwners
<1>7. QED BY <1>1, <1>3, <1>5, <1>6 DEF FInv, OwnersOK

\* The closing of p's file: what was empty holds the record to write, anything
\* else a mixture of two records of the job.
LEMMA WriteSteps ==
  ASSUME FInv, NEW p \in Proc, Write(p)
  PROVE  \E written \in JobRecord :
           /\ written.id = rec[p].id /\ (data[fd[p]] = None => written = rec[p])
           /\ fd[p] \in Inode /\ rec[p].id \in JobId /\ Belongs(fd[p], rec[p].id)
           /\ pc[p] = "write"
           /\ data' = [data EXCEPT ![fd[p]] = written]
           /\ fd' = [fd EXCEPT ![p] = None]
           /\ pc' = [pc EXCEPT ![p] = "rename"]
           /\ UNCHANGED <<names, kind, rec, unread, history>>
<1>1. PICK written \in Overwritten(data[fd[p]], rec[p]) :
        /\ pc[p] = "write"
        /\ data' = [data EXCEPT ![fd[p]] = written]
        /\ fd' = [fd EXCEPT ![p] = None]
        /\ pc' = [pc EXCEPT ![p] = "rename"]
        /\ UNCHANGED <<names, kind, rec, unread, history>>
  BY DEF Write, Goto
<1>2. /\ fd[p] \in Inode /\ rec[p] \in JobRecord /\ rec[p].id \in JobId
      /\ Belongs(fd[p], rec[p].id)
  BY <1>1, WritingTyped DEF FInv, ProgramOK, Writing, Belongs
<1>3. CASE data[fd[p]] = None
  <2>1. written = rec[p]
    BY <1>3 DEF Overwritten
  <2>2. QED BY <1>1, <1>2, <2>1
<1>4. CASE data[fd[p]] # None
  <2>1. data[fd[p]] \in JobRecord /\ data[fd[p]].id = rec[p].id
    BY <1>2, <1>4 DEF FInv, OwnersOK
  <2>2. written \in JobRecord /\ written.id = rec[p].id
    BY <1>2, <2>1, Mixed
  <2>3. QED BY <1>1, <1>2, <1>4, <2>2
<1>5. QED BY <1>3, <1>4

LEMMA WriteTyped ==
  ASSUME FInv, NEW p \in Proc, Write(p)
  PROVE  FInv'
<1>1. PICK written \in JobRecord :
        /\ written.id = rec[p].id
        /\ fd[p] \in Inode /\ rec[p].id \in JobId /\ Belongs(fd[p], rec[p].id)
        /\ pc[p] = "write"
        /\ data' = [data EXCEPT ![fd[p]] = written]
        /\ fd' = [fd EXCEPT ![p] = None]
        /\ pc' = [pc EXCEPT ![p] = "rename"]
        /\ UNCHANGED <<names, kind, rec, unread, history>>
  BY WriteSteps
<1>2. \A i \in Inode, j \in JobId : Belongs(i, j)' => Belongs(i, j)
  BY <1>1, FilesAssumption DEF Belongs, names, FInv, ProgramOK
<1>3. OwnersOK'
  <2>1. data' \in [Inode -> JobRecord \cup {None}]
    BY <1>1 DEF FInv, OwnersOK
  <2>2. ASSUME NEW i \in Inode, NEW j \in JobId, Belongs(i, j), data'[i] # None
        PROVE  data'[i].id = j
    BY <1>1, <2>2 DEF FInv, OwnersOK
  <2>3. QED BY <1>2, <2>1, <2>2 DEF FInv, OwnersOK
<1>4. ProgramOK'
  BY <1>1 DEF FInv, ProgramOK, history, Writing
<1>5. QED BY <1>1, <1>3, <1>4 DEF FInv, NamesOK, names

\* A function takes no more values than it has arguments.
LEMMA ImageBound ==
  ASSUME NEW S, IsFiniteSet(S), NEW f
  PROVE  LET T == {f[x] : x \in S}
         IN  IsFiniteSet(T) /\ Cardinality(T) <= Cardinality(S) /\ Cardinality(T) \in Nat
<1> DEFINE T == {f[x] : x \in S}
<1>1. [x \in S |-> f[x]] \in Surjection(S, T)
  BY DEF Surjection
<1>2. IsFiniteSet(T) /\ Cardinality(T) <= Cardinality(S)
  BY <1>1, FS_Surjection
<1>3. QED BY <1>2, FS_CardinalityType

LEMMA UnionBound ==
  ASSUME NEW S, NEW T, IsFiniteSet(S), IsFiniteSet(T)
  PROVE  /\ IsFiniteSet(S \cup T) /\ Cardinality(S \cup T) \in Nat
         /\ Cardinality(S \cup T) <= Cardinality(S) + Cardinality(T)
<1>1. /\ IsFiniteSet(S \cup T)
      /\ Cardinality(S \cup T) = Cardinality(S) + Cardinality(T) - Cardinality(S \cap T)
  BY FS_Union
<1>2. IsFiniteSet(S \cap T)
  BY FS_Subset
<1>3. Cardinality(S) \in Nat /\ Cardinality(T) \in Nat /\ Cardinality(S \cap T) \in Nat
  BY <1>2, FS_CardinalityType
<1>4. QED BY <1>1, <1>3, FS_CardinalityType

\* Whoever is about to open a file finds an inode for it.
LEMMA FreeInode ==
  ASSUME NEW p \in Proc, fd[p] = None
  PROVE  Free # {}
<1> DEFINE A == {file[j] : j \in JobId}
           B == {temp[j] : j \in JobId}
           C == {fd[q] : q \in Proc}
           U == A \cup B \cup C
<1>1. /\ IsFiniteSet(A) /\ IsFiniteSet(B) /\ IsFiniteSet(C)
      /\ Cardinality(A) <= Cardinality(JobId) /\ Cardinality(A) \in Nat
      /\ Cardinality(B) <= Cardinality(JobId) /\ Cardinality(B) \in Nat
      /\ Cardinality(C) <= Cardinality(Proc) /\ Cardinality(C) \in Nat
  BY ImageBound, FilesAssumption
<1>2. Cardinality(Inode) \in Nat /\ Cardinality(JobId) \in Nat /\ Cardinality(Proc) \in Nat
  BY FilesAssumption, FS_CardinalityType
<1>3. None \in U
  OBVIOUS
<1> HIDE DEF A, B, C
<1>4. IsFiniteSet(U) /\ Cardinality(U) \in Nat /\ Cardinality(U) <= Cardinality(Inode)
  <2>1. /\ IsFiniteSet(A \cup B) /\ Cardinality(A \cup B) \in Nat
        /\ Cardinality(A \cup B) <= Cardinality(A) + Cardinality(B)
    BY <1>1, UnionBound
  <2>2. /\ IsFiniteSet(U) /\ Cardinality(U) \in Nat
        /\ Cardinality(U) <= Cardinality(A \cup B) + Cardinality(C)
    BY <1>1, <2>1, UnionBound
  <2>3. QED BY <1>1, <1>2, <2>1, <2>2, FilesAssumption
<1>5. ASSUME Inode \subseteq U PROVE FALSE
  <2>1. /\ IsFiniteSet(U \ {None})
        /\ Cardinality(U \ {None}) = Cardinality(U) - 1
    BY <1>3, <1>4, FS_RemoveElement
  <2>2. Inode \subseteq U \ {None}
    BY <1>5, FilesAssumption
  <2>3. Cardinality(Inode) <= Cardinality(U \ {None})
    BY <2>1, <2>2, FS_Subset
  <2>4. QED BY <1>2, <1>4, <2>1, <2>3
<1>6. QED BY <1>5 DEF Free, A, B, C

\* What opening the .tmp file does to the inodes: it gets a free one, or the
\* one it has got already.
LEMMA OpenTaken ==
  ASSUME FInv, NEW p \in Proc, Open(p)
  PROVE  \E i \in Inode, j \in JobId :
           /\ j = rec[p].id /\ pc[p] = "open" /\ fd[p] = None
           /\ temp[j] = i \/ i \in Free
           /\ temp' = [temp EXCEPT ![j] = i]
           /\ data' = [data EXCEPT ![i] = None]
           /\ fd' = [fd EXCEPT ![p] = i]
           /\ pc' = [pc EXCEPT ![p] = "write"]
           /\ UNCHANGED <<file, kind, rec, unread, history>>
           /\ \A k \in JobId : file[k] # i
           /\ \A k \in JobId \ {j} : ~Belongs(i, k)
<1>1. pc[p] = "open" /\ fd[p] = None
  BY DEF Open, FInv, ProgramOK
<1> PICK j \in JobId : j = rec[p].id
  BY <1>1, WritingTyped DEF Writing
<1> PICK i : i = IF temp[j] # None THEN temp[j] ELSE CHOOSE k \in Free : TRUE
  OBVIOUS
<1>2. temp[j] = i \/ i \in Free
  BY <1>1, FreeInode
<1>3. i \in Inode
  BY <1>1, FreeInode DEF FInv, NamesOK, Free
<1>4. /\ temp' = [temp EXCEPT ![j] = i]
      /\ data' = [data EXCEPT ![i] = None]
      /\ fd' = [fd EXCEPT ![p] = i]
      /\ pc' = [pc EXCEPT ![p] = "write"]
      /\ UNCHANGED <<file, kind, rec, unread, history>>
  BY DEF Open, Goto
<1>5. CASE temp[j] = i
  <2>1. \A k \in JobId \ {j} : ~Belongs(i, k)
    BY <1>3, <1>5 DEF FInv, OwnersOK, Belongs
  <2>2. \A k \in JobId : file[k] # i
    BY <1>3, <1>5, <2>1, FilesAssumption DEF Belongs, FInv, NamesOK
  <2>3. QED BY <1>1, <1>2, <1>3, <1>4, <2>1, <2>2
<1>6. CASE i \in Free
  <2>1. \A k \in JobId : file[k] # i /\ ~Belongs(i, k)
    BY <1>6 DEF Free, Belongs
  <2>2. QED BY <1>1, <1>2, <1>3, <1>4, <2>1
<1>7. QED BY <1>2, <1>5, <1>6

LEMMA OpenTyped ==
  ASSUME FInv, NEW p \in Proc, Open(p)
  PROVE  FInv'
<1>1. PICK i \in Inode, j \in JobId :
        /\ j = rec[p].id /\ pc[p] = "open" /\ fd[p] = None
        /\ temp' = [temp EXCEPT ![j] = i]
        /\ data' = [data EXCEPT ![i] = None]
        /\ fd' = [fd EXCEPT ![p] = i]
        /\ pc' = [pc EXCEPT ![p] = "write"]
        /\ UNCHANGED <<file, kind, rec, unread, history>>
        /\ \A k \in JobId : file[k] # i
        /\ \A k \in JobId \ {j} : ~Belongs(i, k)
  BY OpenTaken
<1>2. NamesOK'
  BY <1>1 DEF FInv, NamesOK
<1>3. \A m \in Inode \ {i}, k \in JobId : Belongs(m, k)' => Belongs(m, k)
  BY <1>1, FilesAssumption DEF Belongs, FInv, NamesOK, ProgramOK
<1>4. \A k \in JobId \ {j} : ~Belongs(i, k)'
  BY <1>1, FilesAssumption DEF Belongs, FInv, NamesOK, ProgramOK
<1>5. OwnersOK'
  <2>1. data' \in [Inode -> JobRecord \cup {None}] /\ data'[i] = None
        /\ \A m \in Inode \ {i} : data'[m] = data[m]
    BY <1>1 DEF FInv, OwnersOK
  <2>2. ASSUME NEW m \in Inode, NEW k, NEW l \in JobId, k \in JobId,
               Belongs(m, k)', Belongs(m, l)'
        PROVE  k = l
    BY <1>3, <1>4, <2>2 DEF FInv, OwnersOK
  <2>3. \A m \in Inode, k \in JobId : Belongs(m, k)' /\ data'[m] # None => data'[m].id = k
    BY <1>3, <2>1 DEF FInv, OwnersOK
  <2>4. QED BY <2>1, <2>2, <2>3 DEF OwnersOK
<1>6. ProgramOK'
  BY <1>1, FilesAssumption DEF FInv, ProgramOK, history, Writing
<1>7. QED BY <1>2, <1>5, <1>6 DEF FInv

LEMMA FilesInit == Init => KeepsInv
<1> SUFFICES ASSUME Init PROVE KeepsInv
  OBVIOUS
<1>1. /\ \A j \in JobId : file[j] = None /\ temp[j] = None
      /\ \A p \in Proc : pc[p] = "idle" /\ fd[p] = None
  BY DEF Init
<1>2. \A i \in Inode, j \in JobId : ~Belongs(i, j)
  BY <1>1, FilesAssumption DEF Belongs
<1>3. OwnersOK
  BY <1>2 DEF OwnersOK, Init
<1>4. NamesOK
  BY <1>1 DEF NamesOK, Init
<1>5. ProgramOK
  <2>1. crashes \in 0 .. MaxCrashes
    BY FilesAssumption DEF Init
  <2>2. \A p \in Proc : pc[p] \notin Writing /\ (fd[p] # None <=> pc[p] = "write")
    BY <1>1 DEF Writing
  <2>3. QED BY <2>1, <2>2 DEF ProgramOK, Init
<1>6. EmptiesOpen /\ NoLeftovers
  BY <1>1 DEF EmptiesOpen, NoLeftovers
<1>7. TakesTurns /\ ReadsStand
  BY <1>1 DEF TakesTurns, ReadsStand, Busy
<1>8. QED BY <1>3, <1>4, <1>5, <1>6, <1>7 DEF KeepsInv, FInv, Kept, Init

LEMMA FilesNext == FInv /\ [Next]_vars => FInv'
<1> SUFFICES ASSUME FInv, [Next]_vars PROVE FInv'
  OBVIOUS
<1>1. CASE UNCHANGED vars
  BY <1>1
  DEF FInv, NamesOK, OwnersOK, ProgramOK, Belongs, vars, names, program, history
<1>2. CASE Next
  BY <1>2, StartsTyped, ScanTyped, StopsTyped, OpenTyped, WriteTyped, RenameTyped,
     RenameFailsTyped, CleanupTyped, RemoveTyped
  DEF Next
<1>3. QED BY <1>1, <1>2

\* No inode has two names.
LEMMA OneName ==
  ASSUME FInv, NEW i \in Inode
  PROVE  Cardinality({j \in JobId : file[j] = i}) + Cardinality({j \in JobId : temp[j] = i}) <= 1
<1> DEFINE F == {j \in JobId : file[j] = i}
           T == {j \in JobId : temp[j] = i}
<1>1. \A j, k \in F \cup T : j = k
  BY DEF FInv, OwnersOK, Belongs
<1>2. F = {} \/ T = {}
  BY <1>1, FilesAssumption DEF FInv, NamesOK
<1> HIDE DEF F, T
<1>3. (F = {} \/ \E j : F = {j}) /\ (T = {} \/ \E j : T = {j})
  BY <1>1
<1>4. /\ F = {} => Cardinality(F) = 0
      /\ (\E j : F = {j}) => Cardinality(F) = 1
      /\ T = {} => Cardinality(T) = 0
      /\ (\E j : T = {j}) => Cardinality(T) = 1
  BY FS_EmptySet, FS_Singleton
<1>5. Cardinality(F) + Cardinality(T) <= 1
  BY <1>2, <1>3, <1>4
<1>6. QED BY <1>5 DEF F, T

\* The variables hold values of their types, and no inode ever has two names,
\* however processes overlap and die.
THEOREM FilesTyped == Spec => []FilesTypeOK
<1>1. Init => FInv
  BY FilesInit DEF KeepsInv
<1>2. FInv => FilesTypeOK
  <2> SUFFICES ASSUME FInv PROVE FilesTypeOK
    OBVIOUS
  <2>1. \A p \in Proc : pc[p] \in Writing => rec[p] \in JobRecord
    BY WritingTyped
  <2>2. \A i \in Inode : Cardinality({j \in JobId : file[j] = i}) +
                         Cardinality({j \in JobId : temp[j] = i}) <= 1
    BY OneName
  <2>3. QED BY <2>1, <2>2 DEF FInv, NamesOK, OwnersOK, ProgramOK, FilesTypeOK, Writing
<1>3. QED BY <1>1, <1>2, FilesNext, PTL DEF Spec

-----------------------------------------------------------------------------
(* Nobody dies.                                                            *)

\* The renaming of p's .tmp file.
LEMMA RenameSteps ==
  ASSUME FInv, NEW p \in Proc, Rename(p)
  PROVE  \E j \in JobId :
           /\ j = rec[p].id /\ pc[p] = "rename" /\ temp[j] # None
           /\ file' = [file EXCEPT ![j] = temp[j]]
           /\ temp' = [temp EXCEPT ![j] = None]
           /\ expected' = IF kind[p] = "upsert" THEN expected \cup {j} ELSE expected
           /\ pc' = [pc EXCEPT ![p] = "idle"] /\ rec' = [rec EXCEPT ![p] = None]
           /\ UNCHANGED <<data, fd, crashes, overlapped>>
<1>1. rec[p].id \in JobId
  BY WritingTyped DEF Rename, Writing
<1>2. fd' = fd
  BY DEF FInv, ProgramOK, Rename, Returns
<1>3. QED BY <1>1, <1>2 DEF Rename, Returns, Goto

LEMMA StoredKept ==
  ASSUME FInv, Kept, [Next]_vars
  PROVE  Kept'
<1>1. CASE UNCHANGED <<file, expected>>
  BY <1>1 DEF Kept
<1>2. ASSUME NEW p \in Proc, Rename(p) PROVE Kept'
  BY <1>2, RenameSteps DEF Kept, FInv, NamesOK, ProgramOK
<1>3. ASSUME NEW p \in Proc, remove(p) PROVE Kept'
  BY <1>3 DEF Kept, remove, FInv, NamesOK, ProgramOK
<1>4. ASSUME NEW p \in Proc,
             \/ upsert(p) \/ transition(p) \/ claim_next_submitted(p) \/ ScanEntry(p)
             \/ ScanFound(p) \/ ScanFoundNothing(p) \/ Open(p) \/ Write(p)
             \/ RenameFails(p) \/ Cleanup(p) \/ crash(p)
      PROVE  UNCHANGED <<file, expected>>
  BY <1>4
  DEF upsert, transition, claim_next_submitted, ScanEntry, ScanFound, ScanFoundNothing,
      Open, Write, RenameFails, Cleanup, crash, unchangedByStart, names, history
<1>5. QED BY <1>1, <1>2, <1>3, <1>4 DEF Next, vars, names, history

\* A process that dies counts.
LEMMA Crashes ==
  ASSUME FInv, [Next]_vars
  PROVE  /\ crashes' \in Nat /\ crashes \in Nat
         /\ crashes' = 0 => crashes = 0 /\ \A p \in Proc : ~crash(p)
         /\ overlapped => overlapped'
<1>1. crashes \in Nat
  BY FilesAssumption DEF FInv, ProgramOK
<1>2. crashes' = crashes \/ \E p \in Proc : crash(p)
  BY DEF Next, upsert, transition, claim_next_submitted, ScanEntry, ScanFound,
     ScanFoundNothing, Open, Write, Rename, RenameFails, Cleanup, remove, unchangedByStart,
     history, vars
<1>3. \A p \in Proc : crash(p) => crashes' = crashes + 1
  BY DEF crash
<1>4. overlapped => overlapped'
  BY DEF Next, upsert, transition, claim_next_submitted, ScanEntry, ScanFound,
     ScanFoundNothing, Open, Write, Rename, RenameFails, Cleanup, remove, crash, Begins,
     history, vars
<1>5. QED BY <1>1, <1>2, <1>3, <1>4

\* The steps between calls of the file system.
LEMMA QuietSteps ==
  ASSUME FInv, NEW p \in Proc,
         \/ upsert(p) \/ transition(p) \/ claim_next_submitted(p) \/ ScanEntry(p)
         \/ ScanFound(p) \/ ScanFoundNothing(p) \/ RenameFails(p)
  PROVE  UNCHANGED <<file, temp, data, fd>>
<1>1. CASE ScanFoundNothing(p)
  BY <1>1 DEF ScanFoundNothing, Returns, names, FInv, ProgramOK
<1>2. QED
  BY <1>1
  DEF upsert, transition, claim_next_submitted, ScanEntry, ScanFound, RenameFails,
      unchangedByStart, names

LEMMA EmptiesKept ==
  ASSUME FInv, EmptiesOpen, crashes' = 0, [Next]_vars
  PROVE  EmptiesOpen'
<1>1. \A p \in Proc : ~crash(p)
  BY Crashes
<1>2. CASE UNCHANGED <<file, temp, data, fd>>
  BY <1>2 DEF EmptiesOpen
<1>3. ASSUME NEW p \in Proc, Open(p) PROVE EmptiesOpen'
  <2>1. PICK i \in Inode, j \in JobId :
          /\ fd[p] = None
          /\ temp' = [temp EXCEPT ![j] = i]
          /\ data' = [data EXCEPT ![i] = None]
          /\ fd' = [fd EXCEPT ![p] = i]
          /\ file' = file
    BY <1>3, OpenTaken
  <2>2. fd'[p] = i /\ \A q \in Proc \ {p} : fd'[q] = fd[q]
    BY <2>1 DEF FInv, ProgramOK
  <2>3. ASSUME NEW k \in JobId, NEW m \in {file'[k], temp'[k]}, m # None, data'[m] = None, m # i
        PROVE  \E q \in Proc : fd'[q] = m
    <3>1. m \in {file[k], temp[k]} /\ data[m] = None
      BY <2>1, <2>3 DEF FInv, NamesOK, OwnersOK
    <3>2. QED BY <2>1, <2>2, <2>3, <3>1 DEF EmptiesOpen
  <2>4. QED BY <2>2, <2>3 DEF EmptiesOpen
<1>4. ASSUME NEW p \in Proc, Write(p) PROVE EmptiesOpen'
  <2>1. PICK written \in JobRecord :
          /\ fd[p] \in Inode
          /\ data' = [data EXCEPT ![fd[p]] = written]
          /\ fd' = [fd EXCEPT ![p] = None]
          /\ UNCHANGED names
    BY <1>4, WriteSteps
  <2>2. /\ data'[fd[p]] # None /\ \A m \in Inode \ {fd[p]} : data'[m] = data[m]
        /\ \A q \in Proc \ {p} : fd'[q] = fd[q]
    BY <2>1, FilesAssumption DEF FInv, OwnersOK, ProgramOK
  <2>3. ASSUME NEW k \in JobId, NEW m \in {file'[k], temp'[k]}, m # None, data'[m] = None
        PROVE  \E q \in Proc : fd'[q] = m
    <3>1. m \in {file[k], temp[k]} /\ m \in Inode
      BY <2>1, <2>3 DEF FInv, NamesOK, names
    <3>2. m # fd[p] /\ data[m] = None
      BY <2>2, <2>3, <3>1
    <3>3. QED BY <2>2, <2>3, <3>1, <3>2 DEF EmptiesOpen
  <2>4. QED BY <2>3 DEF EmptiesOpen
<1>5. ASSUME NEW p \in Proc, Rename(p) PROVE EmptiesOpen'
  <2>1. PICK j \in JobId :
          /\ file' = [file EXCEPT ![j] = temp[j]]
          /\ temp' = [temp EXCEPT ![j] = None]
          /\ UNCHANGED <<data, fd>>
    BY <1>5, RenameSteps
  <2>2. \A k \in JobId : file'[k] \in {file[k], temp[k]} /\ temp'[k] \in {temp[k], None}
    BY <2>1 DEF FInv, NamesOK
  <2>3. QED BY <2>1, <2>2 DEF EmptiesOpen
<1>6. ASSUME NEW p \in Proc, Cleanup(p) PROVE EmptiesOpen'
  <2>1. fd' = fd /\ file' = file /\ data' = data
    BY <1>6 DEF Cleanup, Returns, FInv, ProgramOK
  <2>2. \A k \in JobId : temp'[k] \in {temp[k], None}
    BY <1>6 DEF Cleanup, FInv, NamesOK
  <2>3. QED BY <2>1, <2>2 DEF EmptiesOpen
<1>7. ASSUME NEW p \in Proc, remove(p) PROVE EmptiesOpen'
  <2>1. fd' = fd /\ temp' = temp /\ data' = data
    BY <1>7 DEF remove, program
  <2>2. \A k \in JobId : file'[k] \in {file[k], None}
    BY <1>7 DEF remove, FInv, NamesOK
  <2>3. QED BY <2>1, <2>2 DEF EmptiesOpen
<1>8. QED
  BY <1>1, <1>2, <1>3, <1>4, <1>5, <1>6, <1>7, QuietSteps DEF Next, vars, names, program

\* A .tmp file that is left to nobody was left by the dead.
LEMMA LeftoversKept ==
  ASSUME FInv, NoLeftovers, [Next]_vars
  PROVE  NoLeftovers'
<1> SUFFICES ASSUME crashes' = 0, NEW j \in JobId, temp'[j] # None
             PROVE  \E p \in Proc :
                      pc'[p] \in {"write", "rename", "cleanup"} /\ rec'[p].id = j
  BY DEF NoLeftovers
<1>1. crashes = 0 /\ \A p \in Proc : ~crash(p)
  BY Crashes
<1> DEFINE Works(q) == pc[q] \in {"write", "rename", "cleanup"} /\ rec[q].id = j
<1>2. temp[j] # None => \E q \in Proc : Works(q)
  BY <1>1 DEF NoLeftovers
<1>3. ASSUME temp'[j] = temp[j],
             \A q \in Proc : Works(q) => pc'[q] \in {"write", "rename", "cleanup"}
                                         /\ rec'[q] = rec[q]
      PROVE  \E q \in Proc : pc'[q] \in {"write", "rename", "cleanup"} /\ rec'[q].id = j
  BY <1>2, <1>3
<1>4. CASE UNCHANGED vars
  BY <1>3, <1>4 DEF vars, names, program
<1>5. ASSUME NEW p \in Proc,
             \/ upsert(p) \/ transition(p) \/ claim_next_submitted(p) \/ ScanEntry(p)
             \/ ScanFound(p) \/ ScanFoundNothing(p) \/ RenameFails(p) \/ remove(p)
      PROVE  \E q \in Proc : pc'[q] \in {"write", "rename", "cleanup"} /\ rec'[q].id = j
  <2>1. temp' = temp
    <3>1. CASE upsert(p) \/ transition(p) \/ claim_next_submitted(p)
      <4>1. UNCHANGED unchangedByStart
        BY <3>1 DEF upsert, transition, claim_next_submitted
      <4>. QED BY <4>1 DEF unchangedByStart, names
    <3>2. CASE ScanEntry(p) \/ ScanFound(p) \/ ScanFoundNothing(p) \/ RenameFails(p)
      BY <3>2 DEF ScanEntry, ScanFound, ScanFoundNothing, RenameFails, names
    <3>3. CASE remove(p)
      BY <3>3 DEF remove
    <3>4. QED BY <1>5, <3>1, <3>2, <3>3
  <2>2. /\ pc[p] \in {"write", "cleanup"} => pc'[p] = pc[p] /\ rec'[p] = rec[p]
        /\ pc[p] = "rename" => pc'[p] \in {"rename", "cleanup"} /\ rec'[p] = rec[p]
        /\ \A q \in Proc \ {p} : pc'[q] = pc[q] /\ rec'[q] = rec[q]
    <3>1. CASE upsert(p) \/ transition(p) \/ claim_next_submitted(p) \/ remove(p)
      <4>1. pc[p] = "idle"
        BY <3>1 DEF upsert, transition, claim_next_submitted, remove, Begins, Busy
      <4>2. \A q \in Proc \ {p} : pc'[q] = pc[q] /\ rec'[q] = rec[q]
        BY <3>1
        DEF upsert, transition, claim_next_submitted, remove, Goto, program, FInv, ProgramOK
      <4>. QED BY <4>1, <4>2
    <3>2. CASE ScanEntry(p) \/ ScanFound(p) \/ ScanFoundNothing(p)
      BY <3>2 DEF ScanEntry, ScanFound, ScanFoundNothing, Returns, Goto, FInv, ProgramOK
    <3>3. CASE RenameFails(p)
      BY <3>3 DEF RenameFails, Goto, FInv, ProgramOK
    <3>4. QED BY <1>5, <3>1, <3>2, <3>3
  <2>3. QED BY <1>3, <2>1, <2>2
<1>6. ASSUME NEW p \in Proc, Open(p)
      PROVE  \E q \in Proc : pc'[q] \in {"write", "rename", "cleanup"} /\ rec'[q].id = j
  <2>1. PICK i \in Inode, k \in JobId :
          /\ k = rec[p].id /\ pc[p] = "open"
          /\ temp' = [temp EXCEPT ![k] = i]
          /\ pc' = [pc EXCEPT ![p] = "write"] /\ rec' = rec
    BY <1>6, OpenTaken
  <2>2. CASE k = j
    BY <2>1, <2>2 DEF FInv, ProgramOK
  <2>3. CASE k # j
    BY <1>3, <2>1, <2>3 DEF FInv, ProgramOK, NamesOK
  <2>4. QED BY <2>2, <2>3
<1>7. ASSUME NEW p \in Proc, Write(p)
      PROVE  \E q \in Proc : pc'[q] \in {"write", "rename", "cleanup"} /\ rec'[q].id = j
  BY <1>3, <1>7 DEF Write, Goto, names, FInv, ProgramOK
<1>8. ASSUME NEW p \in Proc, Rename(p) \/ Cleanup(p)
      PROVE  \E q \in Proc : pc'[q] \in {"write", "rename", "cleanup"} /\ rec'[q].id = j
  <2>1. /\ temp' = [temp EXCEPT ![rec[p].id] = None]
        /\ \A q \in Proc \ {p} : pc'[q] = pc[q] /\ rec'[q] = rec[q]
    BY <1>8 DEF Rename, Cleanup, Returns, Goto, FInv, ProgramOK
  <2>2. rec[p].id # j /\ temp'[j] = temp[j]
    BY <2>1 DEF FInv, NamesOK
  <2>3. QED BY <1>3, <2>1, <2>2
<1>9. QED BY <1>1, <1>4, <1>5, <1>6, <1>7, <1>8 DEF Next

-----------------------------------------------------------------------------
(* Nobody overlaps.                                                        *)

\* A step of p: the body of Next.
Step(p) ==
  \/ upsert(p) \/ transition(p) \/ claim_next_submitted(p)
  \/ ScanEntry(p) \/ ScanFound(p) \/ ScanFoundNothing(p)
  \/ Open(p) \/ Write(p) \/ Rename(p) \/ RenameFails(p) \/ Cleanup(p)
  \/ remove(p) \/ crash(p)

\* While p takes its step the others are idle, and stay so.
LEMMA OthersIdle ==
  ASSUME FInv, TakesTurns, ~overlapped', NEW p \in Proc, Step(p), NEW q \in Proc \ {p}
  PROVE  /\ pc[q] = "idle" /\ pc'[q] = "idle"
         /\ rec'[q] = rec[q] /\ fd'[q] = fd[q] /\ kind'[q] = kind[q] /\ unread'[q] = unread[q]
<1>1. CASE Begins(p)
  <2>1. pc[q] = "idle"
    BY <1>1 DEF Begins, Busy
  <2>2. upsert(p) \/ transition(p) \/ claim_next_submitted(p) \/ remove(p)
    BY <1>1
    DEF Step, Begins, Busy, ScanEntry, ScanFound, ScanFoundNothing, Open, Write, Rename,
        RenameFails, Cleanup, crash
  <2>3. QED
    BY <2>1, <2>2
    DEF upsert, transition, claim_next_submitted, remove, unchangedByStart, program, Goto,
        FInv, ProgramOK
<1>2. CASE ~Begins(p)
  <2>1. Busy(p)
    BY <1>2
    DEF Step, Busy, upsert, transition, claim_next_submitted, remove, ScanEntry, ScanFound,
        ScanFoundNothing, Open, Write, Rename, RenameFails, Cleanup, crash
  <2>2. pc[q] = "idle"
    BY <2>1 DEF TakesTurns, Busy
  <2>3. /\ pc'[q] = pc[q] /\ rec'[q] = rec[q] /\ fd'[q] = fd[q]
        /\ kind'[q] = kind[q] /\ unread'[q] = unread[q]
    <3>1. CASE upsert(p) \/ transition(p) \/ claim_next_submitted(p) \/ remove(p)
      BY <1>2, <3>1 DEF upsert, transition, claim_next_submitted, remove
    <3>2. CASE \/ ScanEntry(p) \/ ScanFound(p) \/ Open(p) \/ Write(p) \/ RenameFails(p)
      BY <3>2
      DEF ScanEntry, ScanFound, Open, Write, RenameFails, Goto, FInv, ProgramOK
    <3>3. CASE ScanFoundNothing(p) \/ Rename(p) \/ Cleanup(p) \/ crash(p)
      <4>1. Returns(p)
        BY <3>3 DEF ScanFoundNothing, Rename, Cleanup, crash
      <4>. QED BY <4>1 DEF Returns, Goto, FInv, ProgramOK
    <3>4. QED BY <3>1, <3>2, <3>3 DEF Step
  <2>4. QED BY <2>2, <2>3
<1>3. QED BY <1>1, <1>2

\* What such a step makes of the files, and of p.
LEMMA TurnSteps ==
  ASSUME FInv, TakesTurns, NEW p \in Proc, Step(p)
  PROVE  /\ \A j \in JobId : file'[j] # None => data'[file'[j]] # None
         /\ pc'[p] # "cleanup"
         /\ pc'[p] = "write" => fd'[p] = temp'[rec'[p].id] /\ data'[fd'[p]] = None
         /\ pc'[p] = "rename" =>
              temp'[rec'[p].id] # None /\ data'[temp'[rec'[p].id]] = rec'[p]
<1>1. CASE \/ upsert(p) \/ transition(p) \/ claim_next_submitted(p) \/ ScanEntry(p)
           \/ ScanFound(p) \/ ScanFoundNothing(p)
  <2>1. pc'[p] \in {"idle", "scan", "open"}
    BY <1>1
    DEF upsert, transition, claim_next_submitted, ScanEntry, ScanFound, ScanFoundNothing,
        Returns, Goto, FInv, ProgramOK
  <2>2. QED BY <1>1, <2>1, QuietSteps DEF TakesTurns
<1>2. CASE crash(p) \/ remove(p)
  <2>1. pc'[p] = "idle" /\ temp' = temp /\ data' = data
    BY <1>2 DEF crash, remove, Returns, Goto, names, program, Begins, Busy, FInv, ProgramOK
  <2>2. \A j \in JobId : file'[j] \in {file[j], None}
    BY <1>2 DEF crash, remove, names, FInv, NamesOK
  <2>3. QED BY <2>1, <2>2 DEF TakesTurns
<1>3. CASE RenameFails(p) \/ Cleanup(p)
  BY <1>3 DEF TakesTurns, RenameFails, Cleanup
<1>4. CASE Open(p)
  <2>1. PICK i \in Inode, j \in JobId :
          /\ j = rec[p].id
          /\ temp' = [temp EXCEPT ![j] = i]
          /\ data' = [data EXCEPT ![i] = None]
          /\ fd' = [fd EXCEPT ![p] = i]
          /\ pc' = [pc EXCEPT ![p] = "write"]
          /\ UNCHANGED <<file, rec>>
          /\ \A k \in JobId : file[k] # i
    BY <1>4, OpenTaken
  <2>2. pc'[p] = "write" /\ rec'[p].id = j /\ fd'[p] = i /\ temp'[j] = i /\ data'[i] = None
    BY <2>1 DEF FInv, NamesOK, OwnersOK, ProgramOK
  <2>3. \A k \in JobId : file'[k] # None => data'[file'[k]] # None
    BY <2>1 DEF TakesTurns, FInv, NamesOK, OwnersOK
  <2>4. QED BY <2>2, <2>3
<1>5. CASE Write(p)
  <2>1. PICK written \in JobRecord :
          /\ data[fd[p]] = None => written = rec[p]
          /\ fd[p] \in Inode /\ pc[p] = "write"
          /\ data' = [data EXCEPT ![fd[p]] = written]
          /\ pc' = [pc EXCEPT ![p] = "rename"]
          /\ UNCHANGED <<file, temp, rec>>
    BY <1>5, WriteSteps DEF names
  <2>2. written = rec[p] /\ fd[p] = temp[rec[p].id] /\ pc'[p] = "rename"
    BY <2>1 DEF TakesTurns, FInv, ProgramOK
  <2>3. data'[fd[p]] = rec[p] /\ \A m \in Inode \ {fd[p]} : data'[m] = data[m]
    BY <2>1, <2>2 DEF FInv, OwnersOK
  <2>4. \A k \in JobId : file'[k] # None => data'[file'[k]] # None
    <3>1. rec[p] # None
      BY <2>1, <2>2, FilesAssumption
    <3>2. QED BY <2>1, <2>3, <3>1 DEF TakesTurns, FInv, NamesOK
  <2>5. temp[rec[p].id] # None
    BY <2>1, <2>2, FilesAssumption
  <2>6. QED BY <2>1, <2>2, <2>3, <2>4, <2>5
<1>6. CASE Rename(p)
  <2>1. PICK j \in JobId :
          /\ j = rec[p].id /\ pc[p] = "rename"
          /\ file' = [file EXCEPT ![j] = temp[j]]
          /\ pc' = [pc EXCEPT ![p] = "idle"]
          /\ data' = data
    BY <1>6, RenameSteps
  <2>2. data[temp[j]] # None
    BY <2>1 DEF TakesTurns, FInv, ProgramOK, Writing
  <2>3. \A k \in JobId : file'[k] # None => data'[file'[k]] # None
    BY <2>1, <2>2 DEF TakesTurns, FInv, NamesOK
  <2>4. QED BY <2>1, <2>3 DEF FInv, ProgramOK
<1>7. QED BY <1>1, <1>2, <1>3, <1>4, <1>5, <1>6 DEF Step

LEMMA TurnsKept ==
  ASSUME FInv, TakesTurns, ~overlapped', [Next]_vars
  PROVE  TakesTurns'
<1>1. CASE UNCHANGED vars
  BY <1>1 DEF TakesTurns, Busy, vars, names, program
<1>2. ASSUME NEW p \in Proc, Step(p) PROVE TakesTurns'
  <2>1. \A q \in Proc \ {p} : pc'[q] = "idle"
    BY <1>2, OthersIdle
  <2>2. QED BY <1>2, <2>1, TurnSteps DEF TakesTurns, Busy
<1>3. QED BY <1>1, <1>2 DEF Next, Step

\* What a reader sees changes with the files only.
LEMMA SameVisible ==
  ASSUME \A j \in JobId : Read(j)' = Read(j)
  PROVE  Visible' = Visible /\ Table!list({"Submitted"})' = Table!list({"Submitted"})
<1>1. Visible' = Visible
  BY DEF Visible
<1>2. QED BY <1>1 DEF Table!list, Table!Stored

LEMMA ListRead ==
  Table!list({"Submitted"}) =
    {r \in {Read(j) : j \in JobId} : r # None /\ r.state = "Submitted"}
BY DEF Table!list, Table!Stored, Visible

\* No step but a rename and a removal changes what a reader sees.
LEMMA ReadsSame ==
  ASSUME FInv, TakesTurns, NEW p \in Proc, Step(p), ~Rename(p), ~remove(p)
  PROVE  \A k \in JobId : Read(k)' = Read(k)
<1>1. CASE \/ upsert(p) \/ transition(p) \/ claim_next_submitted(p) \/ ScanEntry(p)
           \/ ScanFound(p) \/ ScanFoundNothing(p) \/ RenameFails(p)
  BY <1>1, QuietSteps DEF Read
<1>2. CASE crash(p) \/ Cleanup(p)
  BY <1>2 DEF crash, Cleanup, names, Read
<1>3. CASE Open(p)
  <2>1. PICK i \in Inode : /\ data' = [data EXCEPT ![i] = None] /\ file' = file
                           /\ \A k \in JobId : file[k] # i
    BY <1>3, OpenTaken
  <2>2. QED BY <2>1 DEF FInv, NamesOK, OwnersOK, Read
<1>4. CASE Write(p)
  <2>1. PICK written \in JobRecord :
          /\ fd[p] \in Inode /\ rec[p].id \in JobId /\ Belongs(fd[p], rec[p].id)
          /\ pc[p] = "write"
          /\ data' = [data EXCEPT ![fd[p]] = written]
          /\ file' = file
    BY <1>4, WriteSteps DEF names
  <2>2. fd[p] = temp[rec[p].id]
    BY <2>1 DEF TakesTurns
  <2>3. \A k \in JobId : file[k] # fd[p]
    BY <2>1, <2>2, FilesAssumption DEF FInv, NamesOK, OwnersOK, Belongs
  <2>4. QED BY <2>1, <2>3 DEF FInv, NamesOK, OwnersOK, Read
<1>5. QED BY <1>1, <1>2, <1>3, <1>4 DEF Step

\* The scan keeps the best of what it has seen.
LEMMA ScanStands ==
  ASSUME FInv, ReadsStand, NEW p \in Proc, ScanEntry(p), \A k \in JobId : Read(k)' = Read(k)
  PROVE  IF rec'[p] = None THEN Scanned(p)' = {} ELSE IsBest(rec'[p], Scanned(p)')
<1>1. PICK j \in unread[p] :
        /\ pc[p] = "scan"
        /\ unread' = [unread EXCEPT ![p] = @ \ {j}]
        /\ rec' = [rec EXCEPT ![p] =
                     IF /\ Read(j) # None
                        /\ Read(j).state = "Submitted"
                        /\ @ = None \/ better_candidate(Read(j), @)
                     THEN Read(j) ELSE @]
  BY DEF ScanEntry
<1>2. j \in JobId /\ unread'[p] = unread[p] \ {j} /\ unread[p] \subseteq JobId
  BY <1>1 DEF FInv, ProgramOK
<1> PICK r : r = rec[p]
  OBVIOUS
<1>3. rec'[p] = IF /\ Read(j) # None
                   /\ Read(j).state = "Submitted"
                   /\ r = None \/ better_candidate(Read(j), r)
                THEN Read(j) ELSE r
  BY <1>1 DEF FInv, ProgramOK
<1>4. IF r = None THEN Scanned(p) = {} ELSE IsBest(r, Scanned(p))
  BY <1>1 DEF ReadsStand
<1>5. CASE Read(j) = None \/ Read(j).state # "Submitted"
  <2>1. Scanned(p)' = Scanned(p)
    BY <1>2, <1>5 DEF Scanned
  <2>2. QED BY <1>3, <1>4, <1>5, <2>1
<1>6. CASE Read(j) # None /\ Read(j).state = "Submitted"
  <2>1. Scanned(p)' = Scanned(p) \cup {Read(j)}
    BY <1>2, <1>6 DEF Scanned
  <2>2. /\ Scanned(p) \in SUBSET JobRecord /\ Read(j) \in JobRecord
        /\ \A t \in Scanned(p) : t.id # Read(j).id
    BY <1>1, <1>2, <1>6, ReadTyped DEF Scanned
  <2>3. CASE r = None
    BY <1>3, <1>4, <1>6, <2>1, <2>3 DEF IsBest
  <2>4. CASE r # None
    <3>1. IsBest(IF better_candidate(Read(j), r) THEN Read(j) ELSE r, Scanned(p)')
      BY <1>4, <2>1, <2>2, <2>4, BestOfMore
    <3>2. rec'[p] = IF better_candidate(Read(j), r) THEN Read(j) ELSE r
      BY <1>3, <1>6, <2>4
    <3>3. rec'[p] # None
      BY <1>6, <2>4, <3>2
    <3>4. QED BY <3>1, <3>2, <3>3
  <2>5. QED BY <2>3, <2>4
<1>7. QED BY <1>5, <1>6

LEMMA ReadsKept ==
  ASSUME FInv, TakesTurns, ReadsStand, NEW p \in Proc, Step(p)
  PROVE  /\ pc'[p] = "scan" =>
              IF rec'[p] = None THEN Scanned(p)' = {} ELSE IsBest(rec'[p], Scanned(p)')
         /\ pc'[p] \in {"open", "write", "rename"} /\ kind'[p] = "claim" => ClaimsBest(p)'
<1>1. CASE upsert(p) \/ transition(p)
  BY <1>1 DEF upsert, transition, Goto, FInv, ProgramOK
<1>2. CASE claim_next_submitted(p)
  <2>1. /\ pc'[p] = "scan" /\ rec'[p] = None /\ file' = file /\ data' = data
        /\ unread'[p] = {j \in JobId : file[j] # None}
    BY <1>2
    DEF claim_next_submitted, Goto, Begins, Busy, unchangedByStart, names, FInv, ProgramOK
  <2>2. Scanned(p)' = {}
    BY <2>1 DEF Scanned, Read
  <2>3. QED BY <2>1, <2>2
<1>3. CASE ScanEntry(p)
  <2>1. \A k \in JobId : Read(k)' = Read(k)
    BY <1>3, ReadsSame DEF Step, ScanEntry, Rename, remove, Begins, Busy
  <2>2. pc'[p] = "scan"
    BY <1>3 DEF ScanEntry
  <2>3. QED BY <1>3, <2>1, <2>2, ScanStands
<1>4. CASE ScanFound(p)
  <2>1. /\ pc[p] = "scan" /\ unread[p] = {} /\ rec[p] # None /\ rec[p].attempts < MaxAttempts
        /\ rec'[p] = Table!Claimed(rec[p], "Validating") /\ pc'[p] = "open"
    BY <1>4 DEF ScanFound, Goto, FInv, ProgramOK
  <2>2. \A k \in JobId : Read(k)' = Read(k)
    BY <1>4 DEF ScanFound, names, Read
  <2>3. IsBest(rec[p], Table!list({"Submitted"}))
    <3>1. Scanned(p) = Table!list({"Submitted"})
      BY <2>1, ListRead DEF Scanned
    <3>2. QED BY <2>1, <3>1 DEF ReadsStand
  <2>4. rec[p] \in Table!list({"Submitted"})
    BY <2>3 DEF IsBest
  <2>5. Table!list({"Submitted"})' = Table!list({"Submitted"})
    BY <2>2, SameVisible
  <2>6. ClaimsBest(p)'
    <3>1. PICK r : r = rec[p]
      OBVIOUS
    <3>2. /\ r \in Table!list({"Submitted"})' /\ r.attempts < MaxAttempts
          /\ IsBest(r, Table!list({"Submitted"})')
      BY <2>1, <2>3, <2>4, <2>5, <3>1
    <3>3. rec'[p] = [r EXCEPT !.state = "Validating", !.updated = 0, !.lastAttempt = 0,
                              !.error = None, !.attempts = @ + 1]
      BY <2>1, <3>1 DEF Table!Claimed
    <3>4. QED BY <3>2, <3>3 DEF ClaimsBest, Table!Claimed
  <2>7. QED BY <2>1, <2>6
<1>5. CASE Open(p) \/ Write(p)
  <2>1. /\ pc[p] \in {"open", "write"} /\ pc'[p] \in {"write", "rename"}
        /\ rec' = rec /\ kind' = kind
    BY <1>5 DEF Open, Write, Goto, FInv, ProgramOK
  <2>2. \A k \in JobId : Read(k)' = Read(k)
    BY <1>5, <2>1, ReadsSame DEF Step, Rename, remove, Begins, Busy
  <2>3. Table!list({"Submitted"})' = Table!list({"Submitted"})
    BY <2>2, SameVisible
  <2>4. ClaimsBest(p) => ClaimsBest(p)'
    BY <2>1, <2>3 DEF ClaimsBest, Table!Claimed
  <2>5. QED BY <2>1, <2>4 DEF ReadsStand
<1>6. CASE \/ ScanFoundNothing(p) \/ Rename(p) \/ RenameFails(p) \/ Cleanup(p)
           \/ remove(p) \/ crash(p)
  <2>1. pc'[p] \in {"idle", "cleanup"}
    BY <1>6
    DEF ScanFoundNothing, Rename, RenameFails, Cleanup, remove, crash, Returns, Goto,
        Begins, Busy, program, FInv, ProgramOK
  <2>2. QED BY <2>1
<1>7. QED BY <1>1, <1>2, <1>3, <1>4, <1>5, <1>6 DEF Step

LEMMA StandKept ==
  ASSUME FInv, TakesTurns, ReadsStand, ~overlapped', [Next]_vars
  PROVE  ReadsStand'
<1>1. CASE UNCHANGED vars
  <2>1. UNCHANGED <<file, data, pc, kind, rec, unread>>
    BY <1>1 DEF vars, names, program
  <2>2. \A k \in JobId : Read(k)' = Read(k)
    BY <2>1 DEF Read
  <2>3. \A p \in Proc : Scanned(p)' = Scanned(p)
    BY <2>1, <2>2 DEF Scanned
  <2>4. \A p \in Proc : ClaimsBest(p)' = ClaimsBest(p)
    BY <2>1, <2>2, SameVisible DEF ClaimsBest, Table!Claimed
  <2>5. QED BY <2>1, <2>3, <2>4 DEF ReadsStand
<1>2. ASSUME NEW p \in Proc, Step(p) PROVE ReadsStand'
  <2>1. \A q \in Proc \ {p} : pc'[q] = "idle"
    BY <1>2, OthersIdle
  <2>2. QED BY <1>2, <2>1, ReadsKept DEF ReadsStand
<1>3. QED BY <1>1, <1>2 DEF Next, Step

LEMMA KeepsNext == KeepsInv /\ [Next]_vars => KeepsInv'
<1> SUFFICES ASSUME KeepsInv, [Next]_vars PROVE KeepsInv'
  OBVIOUS
<1>1. FInv /\ FInv'
  BY FilesNext DEF KeepsInv
<1>2. Kept' /\ NoLeftovers'
  BY StoredKept, LeftoversKept DEF KeepsInv
<1>3. crashes' = 0 => EmptiesOpen'
  BY <1>1, EmptiesKept, Crashes DEF KeepsInv
<1>4. ~overlapped' => TakesTurns' /\ ReadsStand'
  BY <1>1, Crashes, TurnsKept, StandKept DEF KeepsInv
<1>5. QED BY <1>1, <1>2, <1>3, <1>4 DEF KeepsInv

\* As long as nobody dies, a .tmp file has somebody who is about to rename it
\* or to clean it up.
THEOREM LeftoversFromCrashes == Spec => []NoLeftovers
<1>1. KeepsInv => NoLeftovers
  BY DEF KeepsInv
<1>2. QED BY <1>1, FilesInit, KeepsNext, PTL DEF Spec

\* Once all operations have ended every stored job can be read, if nobody has
\* died or if nobody has overlapped, whatever else has happened.
THEOREM JobsKept == Spec => []NothingLost
<1>1. KeepsInv => NothingLost
  <2> SUFFICES ASSUME KeepsInv, \A p \in Proc : ~Busy(p), crashes = 0 \/ ~overlapped,
                      NEW j \in expected
               PROVE  Read(j) # None
    BY DEF NothingLost
  <2>1. j \in JobId /\ file[j] # None
    BY DEF KeepsInv, Kept, FInv, ProgramOK
  <2>2. CASE crashes = 0
    <3>1. \A p \in Proc : fd[p] = None
      BY DEF KeepsInv, FInv, ProgramOK, Busy
    <3>2. QED BY <2>1, <2>2, <3>1 DEF KeepsInv, EmptiesOpen, Read
  <2>3. CASE ~overlapped
    BY <2>1, <2>3 DEF KeepsInv, TakesTurns, Read
  <2>4. QED BY <2>2, <2>3
<1>2. QED BY <1>1, FilesInit, KeepsNext, PTL DEF Spec

-----------------------------------------------------------------------------
(* The operations are atomic.                                              *)

\* The table sees the same order of candidates.
LEMMA TableOrder ==
  ASSUME NEW r, NEW S
  PROVE  Table!IsBest(r, S) <=> IsBest(r, S)
BY DEF Table!IsBest, IsBest, Table!better_candidate, better_candidate,
   Table!due_precedes, due_precedes

\* The rename shows readers the record it was made for ...
LEMMA RenameShows ==
  ASSUME FInv, TakesTurns, NEW p \in Proc, Rename(p)
  PROVE  /\ rec[p].id \in JobId /\ pc[p] = "rename" /\ pc'[p] = "idle"
         /\ Visible' = [Visible EXCEPT ![rec[p].id] = rec[p]]
<1>1. PICK j \in JobId :
        /\ j = rec[p].id /\ pc[p] = "rename" /\ temp[j] # None
        /\ file' = [file EXCEPT ![j] = temp[j]]
        /\ pc' = [pc EXCEPT ![p] = "idle"]
        /\ data' = data
  BY RenameSteps
<1>2. data[temp[j]] = rec[p]
  BY <1>1 DEF TakesTurns
<1>3. \A k \in JobId : Read(k)' = IF k = j THEN rec[p] ELSE Read(k)
  BY <1>1, <1>2 DEF Read, FInv, NamesOK
<1>4. Visible' = [Visible EXCEPT ![j] = rec[p]]
  BY <1>3 DEF Visible
<1>5. pc'[p] = "idle"
  BY <1>1 DEF FInv, ProgramOK
<1>6. QED BY <1>1, <1>4, <1>5

\* ... which for a claim is the best submitted job of that moment, claimed.
LEMMA RenameClaims ==
  ASSUME FInv, ReadsStand, NEW p \in Proc, kind[p] = "claim", pc[p] = "rename",
         Visible' = [Visible EXCEPT ![rec[p].id] = rec[p]]
  PROVE  \E r \in Table!list({"Submitted"}) : Table!Claim(r, "Validating")
<1>1. PICK r \in Table!list({"Submitted"}) :
        /\ IsBest(r, Table!list({"Submitted"})) /\ r.attempts < MaxAttempts
        /\ rec[p] = Table!Claimed(r, "Validating")
  BY DEF ReadsStand, ClaimsBest
<1>2. r \in JobRecord
  BY <1>1, ListRead, ReadTyped
<1>3. rec[p].id = r.id
  BY <1>1, <1>2 DEF Table!Claimed, JobRecord
<1>4. Table!IsBest(r, Table!list({"Submitted"}))
  BY <1>1, TableOrder
<1>5. QED BY <1>1, <1>3, <1>4 DEF Table!Claim

LEMMA StepsAtomic ==
  ASSUME KeepsInv, [Next]_vars, ~overlapped'
  PROVE  \/ UNCHANGED Visible
         \/ \E j \in JobId : Table!Remove(j)
         \/ \E p \in Proc :
              /\ pc[p] = "rename" /\ ~Busy(p)'
              /\ Visible' = [Visible EXCEPT ![rec[p].id] = rec[p]]
              /\ kind[p] = "claim" =>
                   \E r \in Table!list({"Submitted"}) : Table!Claim(r, "Validating")
<1>1. FInv /\ TakesTurns /\ ReadsStand
  BY Crashes DEF KeepsInv
<1>2. CASE UNCHANGED vars
  BY <1>2 DEF vars, names, Visible, Read
<1>3. ASSUME NEW p \in Proc, Step(p), ~Rename(p), ~remove(p)
      PROVE  UNCHANGED Visible
  BY <1>1, <1>3, ReadsSame, SameVisible
<1>4. ASSUME NEW p \in Proc, remove(p)
      PROVE  \E j \in JobId : Table!Remove(j)
  <2>1. PICK j \in JobId : file' = [file EXCEPT ![j] = None] /\ data' = data
    BY <1>4 DEF remove
  <2>2. \A k \in JobId : Read(k)' = IF k = j THEN None ELSE Read(k)
    BY <1>1, <2>1 DEF Read, FInv, NamesOK
  <2>3. Visible' = [Visible EXCEPT ![j] = None]
    BY <2>2 DEF Visible
  <2>4. QED BY <2>3 DEF Table!Remove
<1>5. ASSUME NEW p \in Proc, Rename(p)
      PROVE  /\ pc[p] = "rename" /\ ~Busy(p)'
             /\ Visible' = [Visible EXCEPT ![rec[p].id] = rec[p]]
             /\ kind[p] = "claim" =>
                  \E r \in Table!list({"Submitted"}) : Table!Claim(r, "Validating")
  <2>1. /\ pc[p] = "rename" /\ pc'[p] = "idle"
        /\ Visible' = [Visible EXCEPT ![rec[p].id] = rec[p]]
    BY <1>1, <1>5, RenameShows
  <2>2. QED BY <1>1, <2>1, RenameClaims DEF Busy
<1>6. QED BY <1>2, <1>3, <1>4, <1>5 DEF Next, Step

\* As long as the processes take turns, only removals and renames change what
\* the directory holds: a rename shows the one record its operation wrote, and a
\* claim's is the claim of the best job submitted at that moment, although the
\* scan, the write and the rename are many calls of the file system.
THEOREM TurnsAtomic == Spec => OperationsAtomic
<1>1. KeepsInv /\ [Next]_vars =>
        [~overlapped' =>
           \/ UNCHANGED Visible
           \/ \E j \in JobId : Table!Remove(j)
           \/ \E p \in Proc :
                /\ pc[p] = "rename" /\ ~Busy(p)'
                /\ Visible' = [Visible EXCEPT ![rec[p].id] = rec[p]]
                /\ kind[p] = "claim" =>
                     \E r \in Table!list({"Submitted"}) : Table!Claim(r, "Validating")]_vars
  BY StepsAtomic
<1>2. QED BY <1>1, FilesInit, KeepsNext, PTL DEF Spec, OperationsAtomic
=============================================================================
