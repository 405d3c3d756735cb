# PPPModern in TLA+

PPPModern is a C++ prepress toolkit. At its core is a job system: jobs are
queued in a repository, workers claim them in priority order, run a handler and
record the outcome, and operators change, reschedule, retry, resume and purge
jobs meanwhile, each from a process of their own (`ppp_jobctl`). Jobs live in memory, in
files, in SQLite or in SQL Server. Around the job system stand the image pipeline
that turns scanned pages into clean ones, the batch tool that runs it over files,
and the formats in which pages, profiles, jobs and policies are stored. This
directory models all of these, checks them with TLC on small instances and proves
the most important properties of the job system and of the page pipeline with TLAPS for
every instance.

## The system

| Part | State it keeps | Operations | Talks to | What makes it correct |
|---|---|---|---|---|
| Job record, claim order (`job.h`, `better_candidate`) | - | comparison | repositories | a strict total order: the claim does not depend on the scan |
| Repositories (`job_repository*.cpp`) | the jobs table | `fetch`, `list`, `claim_next_submitted`, `upsert`, `transition`, `remove` | a map, files, SQLite, ODBC | every operation is atomic; a claim chooses, dequeues and counts in one step |
| `JobService` | the event sink | create, update, retry, mark, claim, `apply_scheduling_policy`, `resume_active_jobs`, `purge` | one repository, the sink | records stay coherent whatever interleaves; events name what happened; only the right jobs are resumed and purged |
| Scheduling policy | - | windows, overdue rule | `JobService` | windows honoured to the tick; urgent jobs are claimed first |
| `JobProcessor`, `run-next` | the job in hand | claim, mark, get, handle, record the outcome; `--resume`, `--continue` | `JobService` | no job is held twice, none is left behind, each comes to an outcome |
| Policy files (`scheduling_policy_io.cpp`) | - | parse, combine a stack | `ppp_jobctl` | a stack says what all its lines in their order say |
| Profiles, job JSON (`processing_config*.cpp`, `job_serialization.cpp`) | - | write, read | `ppp_batch`, `ppp_jobctl` | what is written is what is read |
| Pipeline (`processing_pipeline.cpp`, `image_ops.cpp`) | the page in work | the steps of a profile | images | each step does to the page what it is for, and content is not lost between them |
| Batches (`run_batch`, `ppp_batch.cpp`) | counters, lists, output files | page after page, file after file | pipeline, output writer | counters, flags and lists agree with the pages and the files |
| Output writer, codecs (`output_writer.cpp`, `tiff*.cpp`, `pdf_writer.cpp`, `bmp.cpp`) | files | encode, write, read | file system | round trips; nothing partial passes for whole |
| Images, geometry (`image.cpp`, `geometry.cpp`) | pixels | pure functions | - | components and bands are exact |
| `ppp_jobviewer` | windows | the calls of `JobService` | `JobService` | - |

The hardest behaviour is in the job system. Several processes share one repository,
each repository call is atomic, but the operations of `JobService` are not: they
read in one call, decide on a copy, and write in later calls with no lock or
version in between. Workers hold a job across four calls and may die between
any two of them. The databases add migrations that race, reads in several statements
and statements that fail; the pages add algorithms whose mistakes show only on
particular shapes, and files that are cut short. `PROJECT.json` lists every such place under `hazards`, with its
line and the property that watches it.

## The modules

    JobRecord            records, states, the claim order
      SchedulingPolicy   what a policy asks for one record
        Rebalance        a policy applied while time passes, then a scan
      JobRepository      the table and its atomic operations
        FileRepository   (INSTANCE) the same operations on a directory of files
        SqlRepository    (INSTANCE, + SqlSchema) the same in a database
        JobService       (+ SchedulingPolicy) the service between repository calls
          JobProcessor   workers and clients together
    JobQueue             what a job queue promises (abstract)
    Geometry             rectangles, spans, components, bands
      Images             images as ink and tint
        ImageOps         the operations of the pipeline
          Pipeline       run_pipeline, step by step
            PageBatch    run_batch and ppp_batch
    TiffCodecs           PackBits, LZW, Group 4
      TiffFile           TIFF files, what the output writer chooses
        BmpFile, PdfFile
    ProfileSchema        the members of a profile and of a job, as JSON
      JsonText           writing and reading such a text
    PolicyText           policy files and stacks of them
      Documents          (+ JsonText, PdfFile) documents saved, cut and loaded
    MC*                  constants for TLC

and the theorems, each module beside the one it is about:

    JobRecordProofs            the claim order, for the two that follow
      RebalanceProofs          Rebalance
      FileRepositoryProofs     FileRepository
    SqlRepositoryProofs        SqlRepository with SqlSchema
    JobServiceProofs           JobService
      JobProcessorProofs       JobProcessor: types, claims, orphans, and its
                               refinement of JobQueue
    ImageProofs                the operators of Geometry, Images and ImageOps
      PageBatchProofs          PageBatch with Pipeline

* **JobRecord** - `JobState`, the record, `due_precedes`, `better_candidate`;
  `IsBest` is what a scan of the whole table for the best candidate ends with.
  Text (paths, profile) is left out, and attachments and tags are sets.
* **SchedulingPolicy** - the decision of `apply_scheduling_policy` for one
  record: the remaining time truncated to seconds, the rule order the code
  sorts into, the overdue cases, and that only increases are written.
* **JobRepository** - `InMemoryJobRepository`: one operator per operation, one
  step each, because the mutex is held throughout.
* **FileRepository** - `FileJobRepository` between any two calls of the file
  system, with names, inodes and open files: the scan file by file, then the
  `.tmp` file opened, written and renamed, and the cleanup when the rename fails.
  The mutex is inside a process, so processes interleave everywhere, and they
  share the names of the `.tmp` files: what an inode holds may be empty for a
  while, or one record with the last lines of another. `Table` is `JobRepository`
  seen through the files.
* **SqlSchema** - opening a database: the version read, then one migration per
  transaction, each creating only what is not there. `schema` is the set of
  tables, added columns and indexes, `versions` the rows of `schema_version`
  (one number with SQLite). SQL Server's version table is created where it does not
  exist, and one without a row reads as version 0. Databases of every version, of builds of the time or
  left half way, and a newer one are found at the start.
* **SqlRepository** - `SqliteJobRepository` and `SqlServerJobRepository`, told apart by
  `engine`, statement by statement: `pending` is what a transaction has written
  and not committed, `snapshot` what a SQLite reader sees while its first
  statement is open. SQLite has one writer at a time; SQL Server locks the rows a
  transaction has written, table by table (`HasRow`, `HasAttachments`, `HasTags`),
  reads past locked jobs when it claims and commits every statement of a read. Any
  statement may fail (`Fails`), and so may the process; the failed select of a SQLite
  `fetch` or claim passes for an absent job (`Misses`). SQL Server's upsert whose row
  has gone between its look and its UPDATE has no lock on it and goes on to its
  attachments and tags (`WithoutRow`). `seen` and `others` are history for the
  properties. `Table` is `JobRepository` seen through the tables.
* **JobService** - one action per operation. The step that reads and decides
  leaves the writes in `upserts`, `resumes` and `removals`; each write is a
  step (`DoUpsert`, `DoResume`, `DoRemove`), and so is the `emit` after it.
  An operation that returns without writing is a stuttering step. `crash`
  loses what an operation still had to do. The sink is a constant: nothing
  but the set-up of a process calls `on_event`.
* **JobProcessor** - `process_next` with a program counter per worker between
  repository calls; `run-next` starts it (`Launch`, `LaunchResume`), goes on
  with `--continue` or ends, and may die anywhere (`CrashWorker`). `held` is
  what the claim returned: the id and the attempt number. The clients call any
  of `Commands`; the operator relaunches workers that ended.
* **JobQueue** - the promise, in terms of a job's place (unborn, waiting, out,
  gone), the number of times it was given out and who holds which giving.
  `ImplementsQueue` maps the job system to it.
* **Rebalance** - the priorities a policy gives while time passes, and the claim
  scan record by record in any order, which the other modules take as one
  step.

* **Geometry**, **Images**, **ImageOps** - pure functions. An image is its size,
  format and resolution, the set of pixels that are not background (`ink`) and
  those of them with colour (`tint`); shades in between are left out, so that
  thresholds are those between the three values. `FindComponents` labels spans as
  the code does, with its window into the previous row and its union-find, and
  is compared with the definition of a connected component.
  The settings of a profile that the operations read are sets of records.
* **Pipeline** - one action per step of `run_pipeline`, in its order and with its
  conditions; `work` is the image with what later steps need to know of it (the
  detected content, where it was put), and the step list and errors of the result.
* **PageBatch** - the two callers: `run_batch` with a callback that may cancel,
  and `ppp_batch` with files that cannot be read, output that exists or cannot be
  written, and the two lists, one after the other, each of which may fail with no more
  than a warning. A TIFF or BMP writer may return true for a page that the flush
  then loses (`Unflushed`). The tool may be killed between or during any two of these
  writes, and is started again on the same directories. `CollectImages` is the set of pages
  kept, whose images are returned in the pages' order.
* **TiffCodecs** - the three codecs in both directions, on bits. `LiteralBits`, `MaxBits`
  and `MaxRun` scale the byte (8), the widest LZW code (12) and the longest PackBits
  run (128), so that codes widen, dictionaries fill and runs split within short
  strips.
* **TiffFile**, **BmpFile**, **PdfFile** - a file is its size and the chunks in it
  by offset; offsets are computed as the writers do, relocated as
  `write_multipage_tiff` does, and followed as the readers do. Resolutions are
  fractions, so that a TIFF's whole dots per inch, a bitmap's whole pixels per metre
  and the unrounded quotient its reader returns are the code's.
* **ProfileSchema** - every member of every structure, once as its writer writes it
  and once as its reader reads it, and the enumerations with their texts.
* **JsonText** - the writer and the recursive reader over these tables, on tokens;
  strings are sequences of characters, so that the two dialects' escapes, which
  differ, are modelled by what they do. Doubles are scaled integers rounded to
  `Digits` digits.
* **PolicyText** - the directives of a line and their combination, per file,
  directory and stack.
* **Documents** - one file of any of these formats: saved, refused because it exists,
  cut at some place by a full disk or a crash, and loaded.

The definitions named `...Keeping...`, `...Uncounted`, `...AtOnce` and so on, under a comment
that calls them a fault or a mutant, are not part of the model: each is a
plausible error in the definition it stands in for, and shows that a property
notices it.

## What TLC checks

| Run | Instance | What it shows |
|---|---|---|
| `service_serial` | one caller, two jobs, two priorities, one due time, one tick, one attempt, a sink | types; the last event names the stored state; purge and resume touch only what they should; attempts only grow |
| `service_concurrent` | two callers, one job, every kind of change but scheduling data, one tick, a crash | with all the overwriting by stale copies, errors and histories stay coherent, in the table and in the copies on their way |
| `workers` | two workers, a client, two jobs, one crash, nobody resumes | a job is in one hand at most and out of the queue while held; only a crash leaves a job behind |
| `recovery` | two workers, a client that settles and purges, one job, two crashes, three attempts, one tick, `--resume` | no two holders have the same attempt; the system implements `JobQueue`; every job settles |
| `rebalance` | three jobs, half-second ticks, due now, in part of a second, in a window or beyond, six policies | the scan ends with the best; windows are honoured to the tick; the result does not depend on earlier applications; claiming becomes earliest-due-first |
| `files` | two processes, two jobs (one once they overlap), one attempt, one crash | while processes take turns, each operation is atomic, the claim takes the best job, and crashes lose nothing but the operation; when they overlap, the files recover once all have returned, and only crashes leave `.tmp` files |
| `sql` | two processes, two jobs of which one is read, changed and removed by its id, two engines, databases of versions 0 to 8, one failure while opening, any number while working | after any race of openers the tables are there and the version is true; each operation takes effect at its commit as `JobRepository`'s does, or not at all, but for a SQL Server upsert whose row vanished; a SQLite reader sees one moment, or misses the one job it asked for, a SQL Server reader parts that were all there; parts never outlive their job; what is thrown is explained |
| `pages` | one page of every shape of three by three; batches of three images (5x4 black and white, 4x3 colour, 3x3 blank, files that cannot be read) under five profiles that between them switch every step on, on canvases up to 6x5, with output that exists, a cancellation, one failing write of a page or a list, and one kill | components and bands are exact; openings, closings and turns obey their laws; cleanups remove what they should and nothing outside their strips, and `run_step` makes of a page what the pipeline's step does; content arrives; counters and lists are true, a good file's output being whole or lost after its writer reported it |
| `documents` | about 27,000 documents: profiles that differ in one member, lists of jobs, strips up to 30 bytes, pages up to five by two in every format and compression, up to three pages, stacks of policies | what is whole is read back, to the precision the format keeps; what is cut is refused, or has the pixels it had |
| `double_claim` | two workers, one client with `update_priority` | violated: see below |
| `deskew` | pages with slanted lines | violated: see below |
| `group4` | pages as the output writer writes them | violated: see below |

Bounds. One job is enough where the question is what several processes do to the
same record; two where claims choose or a worker can go on to another job; three
for the order of a scan. Two processes are enough for a stale copy, which takes
one reader and one writer, and two workers with a client for a double claim. Two
crashes let a job be orphaned, resumed and orphaned again, and three attempts
leave room for the settlement after them. Two values of the clock tell earlier
from later; half-second ticks show the truncation of `duration_cast`.
`MaxTime`, `MaxAttempts` and `MaxCrashes` bound the clock, the attempts of a job
and the crashes; a job that reached `MaxAttempts` cannot be claimed in the
model, which is why `EveryJobSettles` excuses it.
In `sql`, the operations begin when all processes have opened the database (an
opener changes no table with rows in it), the clock stands still (`JobRepository`
has it), and the view leaves out the schema once it has served its purpose; it is
the only state that openers and operations share, and `SchemaServes` says that
operations cannot tell. Of an operation that is over the view keeps only whether what it read
satisfies `ReadsWhole`; the constraint `FewMoments` lets a read overlap one
change of its jobs. In `documents`, a profile deviates from the canonical
one in a single member: writers and readers are independent from member to
member. Only the documents of `Again` are saved over, and only a few are cut, at
every place or every seventh.
In `files`, the view leaves out what unnamed inodes held and the history of
claims, neither of which a step reads, and once two processes have overlapped
only one job is explored: processes meet in the files of a job.

Fairness (only `recovery` uses it). Weak fairness of `Work` says that a running
worker is scheduled and that handlers return; of `Launch`, that an operator (a
cron job, a loop) starts workers that ended. `LaunchResume` has strong fairness:
`--resume` is used again and again where it is used at all, though a plain launch
may get in first each time. A client finishes the operations it has begun. No
fairness is assumed of crashes, of the start of client operations, or of time.

## Where the code differs from what its documents say

1. *A claim is not exclusive while anyone edits* (`double_claim`). `update_priority`,
   every other `update_*`, `add_*`, `remove_*`, `clear_*` and `retry`, and
   `apply_scheduling_policy` write back the whole record they read. A claim
   in between is undone: the job is `Submitted` again and a second worker claims
   it. The README promises that workers can't double-claim.
2. *Deskew turns the wrong way* (`deskew`): the page is rotated by the detected
   angle, not against it, and leaves the step about twice as skewed.
3. *Group 4 rows are not Group 4* (`group4`): the writer announces all runs of a row
   with one prefix, which stands for one pair. Rows with more are read back as
   others; Group 4 is the default for black and white pages.

Other disagreements are in the models, and the properties say where they begin:

* LZW: the reader's dictionary is one entry behind the writer's while both widen
  their codes at the same count. `CodecsExact` says that a strip is read back if and
  only if it has not enough different pairs for that (`LzwOutOfStep`). Compiled, a grey row of
  256 pixels whose neighbouring pairs all differ comes back wrong.
* A black and white page written as BlackIsZero comes back inverted (`ReadsBack`); an
  empty first image of a multi-page TIFF is undefined behaviour; profiles write
  escapes that their reader refuses (`Controlled`).
* `write_tiff` and `write_bmp` look at the stream before it is flushed, so that the good
  list of `ppp_batch` may name an output that was lost after its writer reported it
  (`unflushed` in `ListsTruthful`).
* The SQLite `fetch` and claim take every answer of their select that is not a row for "no
  such job", an error included (`missed` in `ReadsWhole`): a worker ends then as if the queue
  were empty.
* SQL Server's upsert whose row was removed between its look and its UPDATE goes on to
  the attachments and tags: if the id was created again meanwhile, the row of one upsert
  is left with the parts of another, without an error (`PartsOnly`).
* A resumption or a purge decides on listed copies and acts by id later, whatever became of
  the job: `ResumeOnlyActive` and `PurgeOnlyExpired` hold of a single caller only.
* `process_next` gives the same answer when the job it claimed was removed as when there
  was none, and `run-next --continue` ends with jobs waiting.
* Two processes on one directory of files can claim the same attempt of a job, which is
  why `OperationsAtomic` asks for turns.
* Hole cleanup looks for components in the strip of the margin, so that a large object
  which reaches into it loses its part there.

The other properties say what survives all the same: records stay coherent, and
where nothing writes back a copy, claims are exclusive again.

## What is proved

The theorems hold for every set of processes, workers, jobs, operations, policies,
databases and batches and for every bound, from the named assumptions on
constants (`RecordAssumption`, `TicksAssumption`, `ServiceAssumption`,
`WorkerAssumption`, `HoldingAssumption`, `RebalanceAssumption`, `FilesAssumption`,
`EnginesAssumption`, `OperationsAssumption`, `JobsAssumption`, `SettingsAssumption`). These
say of what kind the constants are, that `None` is no value of theirs, that a policy
has finitely many rules (the code keeps them in a vector), that `FileRepository` has
inodes enough for all files and processes, and that a batch is a list of images with a
profile. A profile is any member of `ProcessingProfile`, whatever its numbers, negative
ones included, but that a canvas to resize to has no negative size: the code would ask for
that much memory and end. TLC evaluates the assumptions in the runs. Other hypotheses are in the statement of the theorem.

**The service** (`JobServiceProofs`)

* `ServiceTyped`, `RecordsCoherent`, `ErrorsCoherent`, `WritesCoherent` -
  `ServiceSpec => []ServiceTypeOK`, `[]HistoriesCoherent`, `[]ErrorsMatchStates`,
  `[]CopiesCoherent`. The invariant `IInv` has the types and coherence of the stored
  records (`JobsOK`), those of the copies waiting to be written (`CopiesOK`) and
  the types of everything else (`ControlOK`). The copies are what makes it
  inductive: a stale copy is arbitrarily old, but was coherent when read, and a
  record stays coherent when time passes and when `upsert` stamps it.
* `PurgesExpired`, `ResumesActive`, `AttemptsCounted` - with one caller
  (`OneCaller`: all processes are the same), `PurgeOnlyExpired`, `ResumeOnlyActive` and
  `AttemptsOnlyGrow`. `SInv` adds that a caller does one thing at a time
  (`OneThing`) and that what it has decided still stands (`Standing`): a job it
  is about to remove is still in the state and of the age asked for, one it is about
  to resume is still active, and a copy it is about to write counts as many attempts
  as the table. None of it holds of two callers.
* `EventsTellStates` - with one caller, a sink and no deaths, `[]EventsAccurate`.
  `EInv` adds for every job what was announced last or is owed (`Told`).

**The job system** (`JobProcessorProofs`)

* `Typed` - `Spec => []TypeOK`. It reuses the step lemmas of the service and
  adds that a worker never has a copy to write back.
* `ClaimsNumbered` - if no operation that writes back a copy is used
  (`WritesBack`), live claims of a job carry distinct attempt numbers, none above
  the job's count, with crashes, `--resume`, purges and transitions going on. The
  only copies left are those of `create_job`, whose ids are new (`CopiesNew`),
  so that the counter only grows; a claim takes the next number.
* `ClaimsExclusive` - if moreover `resume_active_jobs` is not used, no two workers
  hold a job and a held job is not `Submitted`: nothing puts a job back in
  the queue, and only a claim, which takes it out, gives it to a worker.
* `OrphansFromCrashes` - if clients write back no copies and leave claiming and marking
  jobs as active to the workers, `[]NoOrphans`: a crash takes at most one job
  out of a worker's hands, and nothing else makes a job active that nobody holds.
* `QueueImplemented` - if clients write back no copies and do not claim, `Spec =>
  ImplementsQueue`. Every action of the service, of a worker and of a crash is
  shown to be a step of `JobQueue` or to leave its place, number and holders
  alone. `QInv` adds to the invariant of claims that a process has at most one copy to write,
  submitted and never attempted (`CopiesFresh`), so that writing it is a birth.

**Scheduling** (`RebalanceProofs`)

* `ScanCorrect` - `Spec => []ScanFindsBest`: `better_candidate` is transitive
  and total on records with different ids (`JobRecordProofs`), so the candidate in
  hand stays the best of what the scan has passed, in any order, whatever
  rebalancing did before.
* `RebalancingHonoursWindows`, `RebalancingBoostsOverdue`, `RebalancingForgetsHistory`,
  `RebalancingOrdersByDue` - `[]WindowsHonoured`, `[]OverdueBoosted`,
  `[]HistoryForgotten` and `[]EarliestDueFirst`, whose hypotheses (`Sane` policies, equal
  first priorities) are in the properties. They rest on lemmas about the rules: the
  first rule that matches is the narrowest window, a finite set of rules
  has a first and a last, truncation to seconds is monotonic and moves no job
  out of a window. `HInv` adds that every priority is the job's first or one the
  policy has asked for at some moment so far (`RaisedOnly`),
  and as time passes a sane policy only asks for more.

**Files** (`FileRepositoryProofs`)

* `FilesTyped` - `[]FilesTypeOK`: no inode has two names, whoever overlaps
  and dies. `FInv` says who owns what (`NamesOK`, `OwnersOK`) and what each place of
  an operation relies on (`ProgramOK`); that a new inode is always to be had is
  a count of names and open files.
* `LeftoversFromCrashes`, `JobsKept` - `[]NoLeftovers` and `[]NothingLost`: without
  a death, an empty file is still open (`EmptiesOpen`) and a `.tmp` file has
  somebody to rename it; without overlap, no file of a job is ever torn.
* `TurnsAtomic` - `OperationsAtomic`, step by step: while processes take turns
  (`TakesTurns`), what a scan has passed still stands (`ReadsStand`), so that the rename
  at the end is the one step of the repository's operation.

**Databases** (`SqlRepositoryProofs`)

* `SchemaAlwaysServes` - `[]SchemaServes`, for any number of failing openers.
  `SchemaInv` adds to it what an opener knows at each place of `ensure_schema`
  (`OpenersOK`): one that migrates has read a version below the latest, and the
  schema has all that this version promises; where a newer database is found,
  nobody goes past the read. Migrations only add, so that a version read long
  ago still promises no more than there is, and the operations never touch the schema.
* `RacesSettle` - with at least one process, `[]SchemaSettles`. An old index that is
  there has somebody left who will drop it (`WillReach`): whoever created it again has
  yet to go on to the migration that does. The latest version is written last, and
  where it is missing somebody still migrates.
* `PartsNeverOrphaned` - `[]NoOrphanParts`. `PartsInv` has the tables (`TablesOK`: a row
  is a record under its own id, parts only where there is a row) and what each
  statement of a process relies on (`ExecutionOK`): before parts are written, the
  transaction holds the row of the same job, or, where it lost it, writes parts only
  to a row it finds, which nobody can then remove; so a commit never brings parts
  without their row, wherever another process removed the job meanwhile.
* `OperationsImplemented` - `RepositoryImplemented`, step by step, under both engines.
  `WorkInv` adds the locks (`LocksOK`: one writer with SQLite, one writer of each row
  and of each job's parts with SQL Server) and what a claim has chosen (`ClaimsOK`), which nobody
  can take while the lock is held. An upsert of SQL Server that lost its row is the
  exception, and the theorem says how far it goes: the row stored by then is
  untouched, and each kind of part is wholly the old one or the upsert's (`PartsOnly`).
* `ThrowsHaveReasons` - `[]ThrowsExplained`, from the same invariant and
  what others did meanwhile (`ThrowsOK`).
* `ReadersSeeWhole` - `[]ReadsWhole`, where a failed select of SQLite may leave out the one
  job asked for, and nothing else. `ReadInv` says, at each statement of a read, that
  what it has so far is in the history of the table since it began: with SQLite all
  of it at one moment, the snapshot's, with SQL Server each part at its own.

**Images** (`ImageProofs`), for every image and every setting

* Every operator of the pipeline makes an image of an image: what it writes is on the
  page and its tint is ink. Crop and blit are where it could go wrong, with origins on
  either side of the image; scaling and the rotation by an angle compute each
  pixel of the result from one or four of the source, whatever the arithmetic gives.
* `FindComponents` finds only components whose boxes lie in the region it was given,
  whatever labels the scan of the spans ends with: the spans it starts from are sorted
  and cut to the region, and a component is some of them.
* `TurnsCompose`, `OpeningRemoves`, `ClosingKeeps` - turns undo one another, a round of
  opening removes and repeats without effect, a round of closing keeps what is away
  from the border.

**Pages and batches** (`PageBatchProofs`), for any images and profiles

* `ListsTrue`, `BatchTrue` - `[]ListsTruthful` and `[]BatchAccounts`, whatever the steps
  make of the pages: `BatchInv` says that
  a page in work has a flag for success and one for blankness throughout the
  pipeline (`StepsKeepPage`), that the counters are those of the pages so far
  (`CountsOK`), and that the outputs of the files reported good so far are whole or lost after
  the report (`ListsOK`). The lists are those of one run, or of an earlier one where
  the present has not come to write them.
* `PagesTyped`, `ContentFound` - `[]PagesTypeOK` and `[]ContentArrives`. `PictureInv` says
  what the page in work is at each place of the pipeline: an image, not empty and with a
  resolution until the margins place it (`Sheet`); once the content is detected, its
  box is the one detection would find in the page as it is, and `cut` is what that box holds
  (`PictureOK`). `ContentArrives` speaks of the page after the movement limit, and what
  the limit moves has to be in place before it: after the margins, a pixel of the canvas
  within the content's rectangle is ink exactly where the one cut out is (`Arrived`), also
  where the rectangle reaches beyond the canvas. `DirOK` ties an output's state to the
  image in it.
* `MorphologyHolds` - `[]MorphologyLaws`, from the laws above and `PictureInv`.
* `StepsTrue` - `StepsExact`, from its halves. `CleanupInStrips`: a box found in a strip
  lies in the strip, so that clearing boxes, which also removes ink of others, is confined
  to it. `AloneAgrees`: a page in the pipeline has a resolution, so that `run_step`
  gives it none, and the content that it detects anew is what the pipeline detected (both
  in `PictureOK`).

The proof that a page stays an image turned up an error of the model, which took an image
for empty only where its width is zero; `empty()` asks for either dimension.

Only model-checked:

* `EveryJobSettles`: liveness is beyond the prover.
* `ComponentsExact`: that the labelling of spans, and the bands, are exactly
  the classes of pixels and boxes is what two folds compute over sequences of any length,
  and needs an induction on what they have joined so far against the classes of the
  definition, itself a fold over a set. What is proved of the labelling, that it stays
  within the region, does not need to know which spans it joined.
* `CodecsExact`, `PagesReadBack`, `TextReadsBack`, `TornNeverWhole`: the writers and
  readers are recursive operators, and modules that reach one have no proofs.

## Not modelled

* *Pixels*: grey levels between background, ink and tint, binarization with Otsu's
  threshold, histograms.
* *Formats*: what only other programs write (several strips, FillOrder 2,
  big-endian TIFF, RLE8 bitmaps), the CCITT code words for runs longer than the
  instances have, JPEG (the code has none), `job_summary_to_json`, times before 1970,
  integers of JSON beyond 32 bits, and the text of a job's file in
  `FileJobRepository`, of which lines are modelled but not their quoting.
* *Databases*: the ODBC calls, several open statements on one connection of SQL
  Server, the order in which `list` sorts (no caller depends on it).
* *A full disk* under `FileJobRepository`: the code does not look, and keeps nothing
  that could be stated.
* *Tools*: the windows of `ppp_jobviewer`; the parsing of command lines; of `ppp_jobctl`
  the commands that make one call of `JobService`, which the clients of `JobProcessor`
  make; `ppp_batch` on a list of files, and its ACCEPT lists.
* *Default values* of a profile's members: one canonical value stands for each.
* `list_with_tags`, `list` and `summarize` only read. The text of the messages in
  events is left out.

## Plan

1. The labelling of components against the classes of the definition, by an induction
   over the spans that the prover can follow; then its part about specks follows.
2. The codecs as recursive functions rather than operators, so that what a strip is
   read back as can be reasoned about.
3. A weaker form of the promises of the service for several callers: what a purge
   or a resumption may do to a job that changed after it was listed.
4. Grey levels, with Otsu's threshold, in `Images`.
