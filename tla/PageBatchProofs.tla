--------------------------- MODULE PageBatchProofs ---------------------------
(***************************************************************************)
(* What the callers of the page pipeline report is true, for any batches,  *)
(* any crashes and any failing writes, whatever the steps do to the page;  *)
(* and what the steps make of the page, for any profile: it stays an       *)
(* image, cleanup stays in its strips, the content arrives where the       *)
(* result says, and a step run alone does the same.                        *)
(***************************************************************************)
EXTENDS PageBatch, ImageProofs, SequenceTheorems

\* The members of a page in work, and those the callers rely on.
Members ==
  { "img", "steps", "bounds", "blank", "canvas", "content", "success", "cut", "placed" }

Page(st) ==
  /\ Members \subseteq DOMAIN st
  /\ st.success \in BOOLEAN
  /\ st.blank \in BOOLEAN

IsSequence(s) == \E S : s \in Seq(S)

ControlOK ==
  /\ job \in Jobs
  /\ caller \in {"run_batch", "ppp_batch", "listing", "stopped"}
  /\ Page(work)
  /\ pc # "idle" => Current \in Files /\ caller # "stopped"
  /\ IsSequence(results)
  /\ Len(results) <= Len(job.images)
  /\ DOMAIN dir = Files

\* What BatchResult says of the pages so far.
Failed == { k \in DOMAIN results : ~results[k].success }
Blank == { k \in DOMAIN results : results[k].blank }
Cancelled == batch.error # <<>> /\ batch.error[1] = "cancelled"
BatchMembers == {"succeeded", "failed", "blank", "success", "error"}

FirstError ==
  IF Failed = {} THEN batch.error = <<>>
  ELSE \E m \in Failed : /\ \A k \in Failed : m <= k
                         /\ batch.error = <<"page", m - 1>>

CountsOK ==
  /\ caller \in {"ppp_batch", "listing"} => batch = NoBatch
  /\ caller = "run_batch" => ~Cancelled
  /\ caller = "run_batch" \/ batch # NoBatch =>
       /\ \A k \in DOMAIN results : Page(results[k])
       /\ BatchMembers \subseteq DOMAIN batch
       /\ batch.succeeded \in Nat /\ batch.failed \in Nat /\ batch.blank \in Nat
       /\ batch.success \in BOOLEAN
       /\ batch.succeeded + batch.failed = Len(results)
       /\ batch.failed = Cardinality(Failed)
       /\ batch.blank = Cardinality(Blank)
       /\ batch.success <=> Failed = {} /\ ~Cancelled
       /\ ~Cancelled => FirstError
       /\ caller = "stopped" /\ ~Cancelled => Len(results) = Len(job.images)

\* What ppp_batch has concluded of its files, before and in its lists.
Reported == {"whole", "unflushed"}
Good == { k \in Files : results[k].success }

ListsTyped ==
  /\ crashes \in Nat
  /\ DOMAIN lists = {"good", "exceptions"}
  /\ \A which \in {"good", "exceptions"} : lists[which].run \in Nat /\ lists[which].run <= crashes
  /\ lists.good.state = "whole" => lists.good.files \subseteq Files

Concluded ==
  /\ caller \in {"ppp_batch", "listing"} =>
       \A k \in DOMAIN results :
         /\ results[k].file = k
         /\ results[k].success \in BOOLEAN
         /\ results[k].success => dir[k].state \in Reported
  /\ caller = "listing" => Len(results) = Len(job.images)

\* How far this run has come with its lists.
Listed ==
  /\ caller = "ppp_batch" => ~OfThisRun("good")
  /\ caller \in {"ppp_batch", "listing"} => ~OfThisRun("exceptions")
  /\ caller = "listing" /\ OfThisRun("good") => lists.good.files = Good

ListsOK == ListsTyped /\ Concluded /\ Listed /\ ListsTruthful

BatchInv == ControlOK /\ CountsOK /\ ListsOK

-----------------------------------------------------------------------------
(* Sequences and smallest members.                                         *)

LEMMA Appended ==
  ASSUME NEW s, IsSequence(s), NEW e
  PROVE  /\ IsSequence(Append(s, e))
         /\ Len(s) \in Nat /\ Len(Append(s, e)) = Len(s) + 1
         /\ DOMAIN s = 1 .. Len(s) /\ DOMAIN Append(s, e) = 1 .. Len(s) + 1
         /\ Append(s, e)[Len(s) + 1] = e
         /\ \A k \in 1 .. Len(s) : Append(s, e)[k] = s[k]
<1>1. PICK S : s \in Seq(S)
  BY DEF IsSequence
<1>2. s \in Seq(S \cup {e})
  BY <1>1, SeqMonotonic
<1>3. Append(s, e) \in Seq(S \cup {e}) /\ Len(Append(s, e)) = Len(s) + 1 /\ Len(s) \in Nat
  BY <1>2
<1>4. DOMAIN s = 1 .. Len(s) /\ DOMAIN Append(s, e) = 1 .. Len(s) + 1
  BY <1>2, <1>3
<1>5. Append(s, e)[Len(s) + 1] = e /\ \A k \in 1 .. Len(s) : Append(s, e)[k] = s[k]
  BY <1>2, <1>3
<1>. QED  BY <1>3, <1>4, <1>5 DEF IsSequence

LEMMA MinIs ==
  ASSUME NEW S \in SUBSET Int, NEW m \in S, \A k \in S : m <= k
  PROVE  Min(S) = m
<1>1. Min(S) \in S /\ \A k \in S : Min(S) <= k
  BY Zenon DEF Min
<1>2. Min(S) \in Int /\ m \in Int /\ Min(S) <= m /\ m <= Min(S)
  BY <1>1
<1>. QED  BY <1>2

-----------------------------------------------------------------------------
(* The steps of the pipeline change neither the success nor, but for the   *)
(* step that looks for it, the blankness of the page.                      *)

LEMMA LoggedPage ==
  ASSUME NEW st, Page(st), NEW name, NEW applied
  PROVE  Page(Logged(st, name, applied))
BY DEF Page, Members, Logged

LEMMA StepsKeepPage ==
  ASSUME NEW st, Page(st), NEW p, NEW n
  PROVE  /\ Page(RotateStep(st, p)) /\ Page(DropoutStep(st, p))
         /\ Page(EdgeStep(st, p, n)) /\ Page(DeskewStep(st, p))
         /\ Page(HoleStep(st, p, n)) /\ Page(DespeckleStep(st, p))
         /\ Page(WholeIfEmpty(DetectStep(st, p)))
         /\ Page(BlankStep(st, p))
         /\ Page(MarginStep(CanvasStep(st, p), p, n))
         /\ Page(LimitStep(st, p)) /\ Page(ResizeStep(st, p, n))
<1>1. \A img : Page([st EXCEPT !.img = img])
  BY DEF Page, Members
<1>2. \A r : Page([st EXCEPT !.bounds = r])
  BY DEF Page, Members
<1>3. \A c : Page([st EXCEPT !.canvas = c])
  BY DEF Page, Members
<1>4. \A u, r, c : Page(u) => Page([u EXCEPT !.bounds = r, !.cut = c])
  BY DEF Page, Members
<1>5. \A u, img, c, at : Page(u) => Page([u EXCEPT !.img = img, !.content = c, !.placed = at])
  BY DEF Page, Members
<1>6. \A img, c : Page([st EXCEPT !.img = img, !.content = c])
  BY DEF Page, Members
<1>7. \A b \in BOOLEAN : Page([st EXCEPT !.blank = b])
  BY DEF Page, Members
<1>8. Page(RotateStep(st, p)) /\ Page(DropoutStep(st, p))
  BY <1>1, LoggedPage DEF RotateStep, DropoutStep
<1>9. Page(EdgeStep(st, p, n)) /\ Page(HoleStep(st, p, n)) /\ Page(DespeckleStep(st, p))
  BY <1>1, LoggedPage DEF EdgeStep, HoleStep, DespeckleStep
<1>10. Page(DeskewStep(st, p))
  BY <1>1, LoggedPage DEF DeskewStep
<1>11. Page(DetectStep(st, p))
  BY <1>2, LoggedPage DEF DetectStep
<1>12. Page(WholeIfEmpty(DetectStep(st, p)))
  BY <1>4, <1>11 DEF WholeIfEmpty
<1>13. Page(BlankStep(st, p))
  BY <1>7, LoggedPage DEF BlankStep
<1>14. Page(CanvasStep(st, p))
  BY <1>3 DEF CanvasStep
<1>15. Page(MarginStep(CanvasStep(st, p), p, n))
  BY <1>5, <1>14, LoggedPage DEF MarginStep
<1>16. Page(LimitStep(st, p))
  BY <1>6, LoggedPage DEF LimitStep
<1>17. Page(ResizeStep(st, p, n))
  BY <1>1, LoggedPage DEF ResizeStep, RefitPage
<1>. QED
  BY <1>8, <1>9, <1>10, <1>12, <1>13, <1>15, <1>16, <1>17

LEMMA PipelineKeepsPage ==
  ASSUME RunPipeline, Page(work)
  PROVE  Page(work') /\ pc # "idle" /\ pc # "done"
<1> USE DEF Step
<1>1. CASE Rotating  BY <1>1, StepsKeepPage DEF Rotating
<1>2. CASE Dropping  BY <1>2, StepsKeepPage DEF Dropping
<1>3. CASE CleaningEdgesFirst  BY <1>3, StepsKeepPage DEF CleaningEdgesFirst
<1>4. CASE Deskewing  BY <1>4, StepsKeepPage DEF Deskewing
<1>5. CASE CleaningHoles  BY <1>5, StepsKeepPage DEF CleaningHoles
<1>6. CASE Despeckling  BY <1>6, StepsKeepPage DEF Despeckling
<1>7. CASE CleaningEdgesLast  BY <1>7, StepsKeepPage DEF CleaningEdgesLast
<1>8. CASE Detecting  BY <1>8, StepsKeepPage DEF Detecting
<1>9. CASE LookingBlank  BY <1>9, StepsKeepPage DEF LookingBlank
<1>10. CASE Positioning  BY <1>10, StepsKeepPage DEF Positioning
<1>11. CASE Limiting  BY <1>11, StepsKeepPage DEF Limiting
<1>12. CASE Resizing  BY <1>12, StepsKeepPage DEF Resizing
<1>. QED
  BY <1>1, <1>2, <1>3, <1>4, <1>5, <1>6, <1>7, <1>8, <1>9, <1>10, <1>11, <1>12
     DEF RunPipeline

-----------------------------------------------------------------------------
(* Control.                                                                *)

LEMMA BeginsPage ==
  ASSUME NEW image, NEW p, NEW n, Begin(image, p, n)
  PROVE  Page(work') /\ pc' # "idle"
<1>1. Page(NoWork)
  BY DEF NoWork, Page, Members
<1>2. Page([NoWork EXCEPT !.success = FALSE])
  BY DEF NoWork, Page, Members
<1>3. Page(Started(image, p))
  BY <1>1 DEF Page, Members, Started
<1>. QED  BY <1>2, <1>3 DEF Begin

LEMMA ControlInit ==
  ASSUME Init  PROVE ControlOK
<1>1. Page(NoWork)
  BY DEF NoWork, Page, Members
<1>2. Len(results) = 0 /\ IsSequence(results)
  BY EmptySeq DEF Init, IsSequence
<1>3. Len(job.images) \in Nat
  BY JobsAssumption DEF Init
<1>. QED  BY <1>1, <1>2, <1>3 DEF Init, ControlOK, Files

LEMMA ControlNext ==
  ASSUME ControlOK, [Next]_vars  PROVE ControlOK'
<1>0. /\ Len(job.images) \in Nat /\ Files = 1 .. Len(job.images)
      /\ Len(results) \in Nat
  BY Appended, JobsAssumption DEF ControlOK, Files
<1>1. CASE NextPage
  BY <1>1, BeginsPage DEF NextPage, ControlOK, callerVars, Files, Current
<1>2. CASE RunPipeline /\ UNCHANGED callerVars
  <2>1. UNCHANGED callerVars /\ Page(work') /\ pc # "idle"
    BY <1>2, PipelineKeepsPage DEF ControlOK
  <2>. QED  BY <2>1 DEF ControlOK, callerVars, Files, Current
<1>3. CASE \E goOn \in BOOLEAN : CountPage(goOn)
  <2>1. PICK goOn \in BOOLEAN : CountPage(goOn)
    BY <1>3
  <2>2. /\ pc' = "idle" /\ results' = Append(results, work) /\ pc = "done"
        /\ caller' \in {caller, "stopped"}
        /\ UNCHANGED <<work, job, dir>>
    BY <2>1 DEF CountPage
  <2>. QED  BY <1>0, <2>2, Appended DEF ControlOK, Files, Current
<1>4. ASSUME NEW f, NEW error, NEW content, f = Current, Concluding,
             Report(f, error, content)
      PROVE  ControlOK'
  BY <1>0, <1>4, Appended DEF ControlOK, Files, Current, Concluding, Report
<1>5. CASE RefuseFile
  BY <1>4, <1>5 DEF RefuseFile
<1>6. CASE \E ok \in BOOLEAN : WriteFile(ok)
  BY <1>4, <1>6 DEF WriteFile
<1>7. CASE WriteGoodList \/ WriteExceptionList
  BY <1>7 DEF WriteGoodList, WriteExceptionList, WriteList, ControlOK, pageVars, Files, Current
<1>8. CASE Kill
  <2>1. Page(NoWork)
    BY DEF NoWork, Page, Members
  <2>2. Len(results') = 0 /\ IsSequence(results')
    BY <1>8, EmptySeq DEF Kill, IsSequence
  <2>3. DOMAIN dir' = DOMAIN dir
    BY <1>8 DEF Kill
  <2>. QED  BY <1>0, <1>8, <2>1, <2>2, <2>3 DEF Kill, ControlOK, Files
<1>9. CASE Done \/ UNCHANGED vars
  BY <1>9 DEF Done, vars, pageVars, callerVars, ControlOK, Files, Current
<1>. QED
  BY <1>1, <1>2, <1>3, <1>5, <1>6, <1>7, <1>8, <1>9 DEF Next

-----------------------------------------------------------------------------
(* Lists.                                                                  *)

LEMMA ListsInit ==
  ASSUME Init  PROVE ListsOK
<1>1. /\ lists = [good |-> List("absent", {}, 0), exceptions |-> List("absent", {}, 0)]
      /\ DOMAIN results = {} /\ crashes = 0 /\ caller # "listing"
  BY DEF Init, NoLists
<1>2. \A which \in {"good", "exceptions"} : lists[which].state = "absent" /\ lists[which].run = 0
  BY <1>1 DEF List
<1>3. job.exists \subseteq Files
  BY JobsAssumption DEF Init, Files
<1>4. \A f \in job.exists : dir[f].state = "old"
  BY <1>3 DEF Init, Output
<1>5. ListsTyped
  BY <1>1, <1>2 DEF ListsTyped
<1>6. Concluded
  BY <1>1 DEF Concluded
<1>7. ~OfThisRun("good") /\ ~OfThisRun("exceptions")
  BY <1>2 DEF OfThisRun
<1>8. ListsTruthful
  BY <1>2, <1>4, <1>7 DEF ListsTruthful
<1>. QED  BY <1>5, <1>6, <1>7, <1>8 DEF ListsOK, Listed

\* Without --overwrite what is there stays, and what the lists say of it.
OutputsKept == ~job.overwrite => \A f \in Files : dir[f] # Absent => dir'[f] = dir[f]

LEMMA OldKept ==
  ASSUME ControlOK, ListsOK, OutputsKept, job' = job  PROVE
    /\ ~job'.overwrite => \A f \in job'.exists : dir'[f].state = "old"
    /\ ~job'.overwrite /\ lists.good.state = "whole" =>
         \A f \in lists.good.files : dir'[f].state \in Reported
<1>1. job.exists \subseteq Files
  BY JobsAssumption DEF ControlOK, Files
<1>2. \A f : dir[f].state = "old" \/ dir[f].state \in Reported => dir[f] # Absent
  BY DEF Absent, Output, Reported
<1>3. ~job.overwrite => \A f \in job.exists : dir[f].state = "old"
  BY DEF ListsOK, ListsTruthful
<1>4. ~job.overwrite /\ lists.good.state = "whole" =>
         \A f \in lists.good.files : f \in Files /\ dir[f].state \in Reported
  BY DEF ListsOK, ListsTyped, ListsTruthful, Reported
<1>. QED  BY <1>1, <1>2, <1>3, <1>4 DEF OutputsKept

\* One output is written, of a file whose output may be.
LEMMA KeptBut ==
  ASSUME ControlOK, NEW f, NEW content, dir' = [dir EXCEPT ![f] = content],
         content = dir[f] \/ ~Conflict(f)
  PROVE  OutputsKept
BY DEF OutputsKept, Conflict, ControlOK

LEMMA FileConcluded ==
  ASSUME ControlOK, ListsOK, NEW error, NEW content, Concluding,
         Report(Current, error, content),
         error = NoError => content.state \in Reported,
         content = dir[Current] \/ ~Conflict(Current)
  PROVE  ListsOK'
<1>0. /\ Len(job.images) \in Nat /\ Files = 1 .. Len(job.images)
      /\ Len(results) \in Nat /\ DOMAIN results = 1 .. Len(results)
      /\ Len(results) <= Len(job.images)
  BY Appended, JobsAssumption DEF ControlOK, Files
<1> DEFINE f == Current
<1>1. f \in Files /\ f = Len(results) + 1 /\ caller = "ppp_batch"
  BY DEF Concluding, ControlOK, Current
<1>2. /\ DOMAIN results' = 1 .. Len(results) + 1
      /\ results'[f].file = f
      /\ results'[f].success = (error = NoError)
      /\ \A k \in 1 .. Len(results) : results'[k] = results[k]
  BY <1>1, Appended DEF Report, ControlOK
<1>3. dir'[f] = content /\ \A g \in Files \ {f} : dir'[g] = dir[g]
  BY <1>1 DEF Report, ControlOK
<1>4. UNCHANGED <<caller, job, lists, crashes>> /\ Files' = Files
  BY DEF Report, Files
<1> HIDE DEF f
<1>5. Concluded'
  <2>1. \A k \in 1 .. Len(results) : k \in Files \ {f}
    BY <1>0, <1>1
  <2>2. \A k \in 1 .. Len(results) :
           /\ results'[k].file = k
           /\ results'[k].success \in BOOLEAN
           /\ results'[k].success => dir'[k].state \in Reported
    BY <1>0, <1>1, <1>2, <1>3, <2>1 DEF ListsOK, Concluded
  <2>3. /\ results'[f].file = f
        /\ results'[f].success \in BOOLEAN
        /\ results'[f].success => dir'[f].state \in Reported
    BY <1>2, <1>3
  <2>4. \A k \in DOMAIN results' : k \in 1 .. Len(results) \/ k = f
    BY <1>0, <1>1, <1>2
  <2>. QED  BY <1>1, <1>4, <2>2, <2>3, <2>4 DEF Concluded
<1>6. OutputsKept
  BY KeptBut DEF Report
<1>7. /\ ListsTyped'
      /\ ~OfThisRun("good")' /\ ~OfThisRun("exceptions")'
  BY <1>1, <1>4 DEF ListsOK, ListsTyped, Listed, OfThisRun
<1>8. ListsTruthful'
  <2>1. /\ ~job'.overwrite => \A g \in job'.exists : dir'[g].state = "old"
        /\ ~job'.overwrite /\ lists.good.state = "whole" =>
             \A g \in lists.good.files : dir'[g].state \in Reported
    BY <1>4, <1>6, OldKept
  <2>. QED  BY <1>4, <1>7, <2>1 DEF ListsTruthful, Reported
<1>. QED  BY <1>1, <1>4, <1>5, <1>7, <1>8 DEF ListsOK, Listed

LEMMA GoodListed ==
  ASSUME ControlOK, ListsOK, WriteGoodList  PROVE ListsOK'
<1>0. /\ Len(job.images) \in Nat /\ Files = 1 .. Len(job.images)
      /\ Len(results) \in Nat /\ DOMAIN results = 1 .. Len(results)
      /\ Len(results) <= Len(job.images)
  BY Appended, JobsAssumption DEF ControlOK, Files
<1>1. /\ caller = "ppp_batch" /\ caller' = "listing"
      /\ UNCHANGED <<job, results, dir, crashes>> /\ Files' = Files
      /\ Len(results) = Len(job.images)
  BY <1>0 DEF WriteGoodList, WriteList, Files, Current
<1>2. \A k \in Files : /\ results[k].file = k
                       /\ results[k].success \in BOOLEAN
                       /\ results[k].success => dir[k].state \in Reported
  BY <1>0, <1>1 DEF ListsOK, Concluded
<1>3. Good' = Good /\ Good \subseteq Files /\ \A f \in Good : dir[f].state \in Reported
  BY <1>1, <1>2 DEF Good
<1>4. { results[k].file : k \in {i \in Files : results[i].success} } = Good
  BY <1>2 DEF Good
<1>5. \/ lists' = [lists EXCEPT !["good"] = List("whole", Good, crashes)]
      \/ lists' = lists
      \/ lists' = [lists EXCEPT !["good"] = List("torn", {}, crashes)]
  BY <1>4 DEF WriteGoodList, WriteList, Leave
<1>6. Concluded'
  BY <1>0, <1>1, <1>2 DEF Concluded
<1>7. ~OfThisRun("exceptions") /\ lists'.exceptions = lists.exceptions
  BY <1>1, <1>5 DEF ListsOK, Listed, ListsTyped
<1>8. ~OfThisRun("exceptions")'
  BY <1>1, <1>7 DEF OfThisRun
<1>9. \/ lists'.good = List("whole", Good, crashes)
      \/ lists'.good = lists.good
      \/ lists'.good = List("torn", {}, crashes)
  BY <1>5 DEF ListsOK, ListsTyped
<1>10. ListsTyped'
  <2>1. DOMAIN lists' = {"good", "exceptions"}
    BY <1>5 DEF ListsOK, ListsTyped
  <2>2. lists'.good.run \in Nat /\ lists'.good.run <= crashes
    BY <1>9 DEF ListsOK, ListsTyped, List
  <2>3. lists'.good.state = "whole" => lists'.good.files \subseteq Files
    BY <1>3, <1>9 DEF ListsOK, ListsTyped, List
  <2>. QED  BY <1>1, <1>7, <2>1, <2>2, <2>3 DEF ListsOK, ListsTyped
<1>11. OfThisRun("good")' => lists'.good = List("whole", Good, crashes)
  <2>1. ~OfThisRun("good")
    BY <1>1 DEF ListsOK, Listed
  <2>. QED  BY <1>1, <1>9, <2>1 DEF OfThisRun, List
<1>12. OfThisRun("good")' => lists'.good.files = Good
  BY <1>11 DEF List
<1>13. lists'.good.state = "whole" /\ (job.overwrite => OfThisRun("good")') =>
         \A f \in lists'.good.files : dir[f].state \in Reported
  <2>1. CASE OfThisRun("good")'
    BY <1>3, <1>12, <2>1
  <2>2. CASE ~OfThisRun("good")' /\ ~job.overwrite /\ lists'.good.state = "whole"
    <3>1. lists'.good = lists.good
      BY <1>1, <1>9, <2>2 DEF OfThisRun, List
    <3>. QED  BY <2>2, <3>1 DEF ListsOK, ListsTruthful, Reported
  <2>. QED  BY <2>1, <2>2
<1>14. ListsTruthful'
  <2>1. ~job.overwrite => \A f \in job.exists : dir[f].state = "old"
    BY DEF ListsOK, ListsTruthful
  <2>. QED  BY <1>1, <1>8, <1>13, <2>1 DEF ListsTruthful, Reported
<1>. QED  BY <1>1, <1>3, <1>6, <1>8, <1>10, <1>12, <1>14 DEF ListsOK, Listed

LEMMA ExceptionsListed ==
  ASSUME ControlOK, ListsOK, WriteExceptionList  PROVE ListsOK'
<1>0. /\ Len(job.images) \in Nat /\ Files = 1 .. Len(job.images)
      /\ Len(results) \in Nat /\ DOMAIN results = 1 .. Len(results)
  BY Appended, JobsAssumption DEF ControlOK, Files
<1>1. /\ caller = "listing" /\ caller' = "stopped"
      /\ UNCHANGED <<job, results, dir, crashes>> /\ Files' = Files
      /\ Len(results) = Len(job.images)
  BY DEF WriteExceptionList, WriteList, Files, ListsOK, Concluded
<1>2. \A k \in Files : results[k].file = k /\ results[k].success \in BOOLEAN
  BY <1>0, <1>1 DEF ListsOK, Concluded
<1>3. { results[k].file : k \in {i \in Files : ~results[i].success} } = Files \ Good
  BY <1>2 DEF Good
<1>4. \/ lists' = [lists EXCEPT !["exceptions"] = List("whole", Files \ Good, crashes)]
      \/ lists' = lists
      \/ lists' = [lists EXCEPT !["exceptions"] = List("torn", {}, crashes)]
  BY <1>3 DEF WriteExceptionList, WriteList, Leave
<1>5. lists'.good = lists.good /\ DOMAIN lists' = {"good", "exceptions"}
  BY <1>4 DEF ListsOK, ListsTyped
<1>6. \/ lists'.exceptions = List("whole", Files \ Good, crashes)
      \/ lists'.exceptions = lists.exceptions
      \/ lists'.exceptions = List("torn", {}, crashes)
  BY <1>4 DEF ListsOK, ListsTyped
<1>7. ListsTyped'
  <2>1. lists'.exceptions.run \in Nat /\ lists'.exceptions.run <= crashes
    BY <1>6 DEF ListsOK, ListsTyped, List
  <2>. QED  BY <1>1, <1>5, <2>1 DEF ListsOK, ListsTyped
<1>8. OfThisRun("exceptions")' => lists'.exceptions.files = Files \ Good
  <2>1. ~OfThisRun("exceptions")
    BY <1>1 DEF ListsOK, Listed
  <2>. QED  BY <1>1, <1>6, <2>1 DEF OfThisRun, List
<1>9. OfThisRun("good")' = OfThisRun("good")
  BY <1>1, <1>5 DEF OfThisRun
<1>10. OfThisRun("good") => lists.good.files = Good /\ Good \subseteq Files
  BY <1>1 DEF ListsOK, Listed, Good
<1>11. ListsTruthful'
  <2>1. lists.good.state = "whole" /\ (job.overwrite => OfThisRun("good")) =>
          \A f \in lists.good.files : dir[f].state \in Reported
    BY DEF ListsOK, ListsTruthful, Reported
  <2>2. ~job.overwrite => \A f \in job.exists : dir[f].state = "old"
    BY DEF ListsOK, ListsTruthful
  <2>. QED  BY <1>1, <1>5, <1>8, <1>9, <1>10, <2>1, <2>2 DEF ListsTruthful, Reported
<1>. QED  BY <1>1, <1>7, <1>11 DEF ListsOK, Listed, Concluded

LEMMA ListsKilled ==
  ASSUME ControlOK, ListsOK, Kill  PROVE ListsOK'
<1>1. /\ caller' = "ppp_batch" /\ job' = job /\ crashes' = crashes + 1
      /\ DOMAIN results' = {} /\ Files' = Files
  BY DEF Kill, Files
<1>2. OutputsKept
  <2>1. CASE UNCHANGED dir
    BY <2>1 DEF OutputsKept
  <2>2. CASE ~Conflict(Current) /\ dir' = [dir EXCEPT ![Current] = Torn]
    BY <2>2, KeptBut
  <2>. QED  BY <2>1, <2>2 DEF Kill
<1>3. \/ lists' = lists
      \/ \E which \in {"good", "exceptions"} :
           lists' = [lists EXCEPT ![which] = List("torn", {}, crashes)]
  BY DEF Kill, Leave
<1>4. /\ DOMAIN lists' = {"good", "exceptions"}
      /\ \A which \in {"good", "exceptions"} :
           \/ lists'[which] = lists[which]
           \/ lists'[which] = List("torn", {}, crashes)
  BY <1>3 DEF ListsOK, ListsTyped
<1>5. \A which \in {"good", "exceptions"} :
        /\ lists'[which].run \in Nat /\ lists'[which].run <= crashes
        /\ lists'[which].state = "whole" => lists'[which] = lists[which]
  BY <1>4 DEF ListsOK, ListsTyped, List
<1>6. crashes \in Nat
  BY DEF ListsOK, ListsTyped
<1>7. ListsTyped'
  BY <1>1, <1>4, <1>5, <1>6 DEF ListsOK, ListsTyped
<1>8. ~OfThisRun("good")' /\ ~OfThisRun("exceptions")'
  BY <1>1, <1>5, <1>6 DEF OfThisRun
<1>9. Concluded'
  BY <1>1 DEF Concluded
<1>10. ListsTruthful'
  <2>1. /\ ~job'.overwrite => \A f \in job'.exists : dir'[f].state = "old"
        /\ ~job'.overwrite /\ lists.good.state = "whole" =>
             \A f \in lists.good.files : dir'[f].state \in Reported
    BY <1>1, <1>2, OldKept
  <2>. QED  BY <1>5, <1>8, <2>1 DEF ListsTruthful, Reported
<1>. QED  BY <1>1, <1>7, <1>8, <1>9, <1>10 DEF ListsOK, Listed

LEMMA ListsNext ==
  ASSUME ControlOK, ListsOK, [Next]_vars  PROVE ListsOK'
<1>0. ASSUME UNCHANGED <<caller, job, results, dir, lists, crashes>>  PROVE ListsOK'
  BY <1>0 DEF ListsOK, ListsTyped, Concluded, Listed, Good, ListsTruthful, OfThisRun, Files
<1>1. CASE NextPage \/ (RunPipeline /\ UNCHANGED callerVars) \/ Done \/ UNCHANGED vars
  BY <1>0, <1>1 DEF NextPage, Done, vars, callerVars
<1>2. CASE \E goOn \in BOOLEAN : CountPage(goOn)
  <2>1. /\ UNCHANGED <<job, dir, lists, crashes>>
        /\ caller' \notin {"ppp_batch", "listing"}
    BY <1>2 DEF CountPage
  <2>. QED
    BY <2>1 DEF ListsOK, ListsTyped, Concluded, Listed, ListsTruthful, OfThisRun, Files
<1>3. CASE RefuseFile
  <2>1. IF work.success THEN "exists" # NoError ELSE "failed" # NoError
    BY DEF NoError
  <2>. QED  BY <1>3, <2>1, FileConcluded DEF RefuseFile
<1>4. CASE \E ok \in BOOLEAN : WriteFile(ok)
  <2>1. "empty" # NoError /\ "write" # NoError
    BY DEF NoError
  <2>2. /\ \A img : Output("whole", img).state \in Reported
        /\ Unflushed.state \in Reported
    BY DEF Output, Reported, Unflushed
  <2>. QED  BY <1>4, <2>1, <2>2, FileConcluded DEF WriteFile
<1>. QED
  BY <1>1, <1>2, <1>3, <1>4, GoodListed, ExceptionsListed, ListsKilled DEF Next

-----------------------------------------------------------------------------
(* Counters.                                                               *)

LEMMA CountsInit ==
  ASSUME Init  PROVE CountsOK
<1>1. /\ results = <<>> /\ batch = NoBatch /\ caller # "stopped"
      /\ DOMAIN results = {} /\ Len(results) = 0
  BY DEF Init
<1>2. Failed = {} /\ Blank = {} /\ Cardinality({}) = 0
  BY <1>1, FS_EmptySet DEF Failed, Blank
<1>3. ~Cancelled /\ FirstError
  BY <1>1, <1>2 DEF Cancelled, FirstError, NoBatch
<1>. QED  BY <1>1, <1>2, <1>3 DEF CountsOK, NoBatch, BatchMembers

\* One more page: a set that is counted gains one when it gains the page.
LEMMA PageCounted ==
  ASSUME NEW n \in Nat, NEW S, S \subseteq 1 .. n
  PROVE  /\ Cardinality(S) \in Nat
         /\ Cardinality(S \cup {n + 1}) = Cardinality(S) + 1
<1>1. IsFiniteSet(S)
  <2>1. IsFiniteSet(1 .. n)
    BY FS_Interval
  <2>. QED  BY <2>1, FS_Subset
<1>2. Cardinality(S) \in Nat
  BY <1>1, FS_CardinalityType
<1>3. n + 1 \notin S
  OBVIOUS
<1>. QED  BY <1>1, <1>2, <1>3, FS_AddElement

LEMMA CountsNext ==
  ASSUME ControlOK, CountsOK, [Next]_vars  PROVE CountsOK'
<1>0. /\ Len(job.images) \in Nat /\ Files = 1 .. Len(job.images)
      /\ Len(results) \in Nat /\ DOMAIN results = 1 .. Len(results)
      /\ Len(results) <= Len(job.images)
  BY Appended, JobsAssumption DEF ControlOK, Files
<1>1. CASE UNCHANGED callerVars
  BY <1>1 DEF callerVars, CountsOK, Cancelled, FirstError, Failed, Blank
<1>2. CASE \E goOn \in BOOLEAN : CountPage(goOn)
  <2>1. PICK goOn \in BOOLEAN : CountPage(goOn)
    BY <1>2
  <2>2. /\ caller = "run_batch" /\ pc = "done"
        /\ results' = Append(results, work) /\ job' = job
        /\ caller' = IF goOn /\ Current < Len(job.images) THEN caller ELSE "stopped"
    BY <2>1 DEF CountPage
  <2> DEFINE n == Len(results)
  <2>3. Page(work) /\ Current = n + 1 /\ n + 1 <= Len(job.images)
    BY <1>0, <2>2 DEF ControlOK, Current
  <2>4. /\ Len(results') = n + 1 /\ DOMAIN results' = 1 .. n + 1
        /\ results'[n + 1] = work
        /\ \A k \in 1 .. n : results'[k] = results[k]
    BY <2>2, Appended DEF ControlOK
  <2>5. /\ \A k \in 1 .. n : Page(results[k])
        /\ BatchMembers \subseteq DOMAIN batch
        /\ batch.succeeded \in Nat /\ batch.failed \in Nat /\ batch.blank \in Nat
        /\ batch.success \in BOOLEAN
        /\ batch.succeeded + batch.failed = n
        /\ batch.failed = Cardinality(Failed)
        /\ batch.blank = Cardinality(Blank)
        /\ batch.success <=> Failed = {}
        /\ FirstError
    BY <1>0, <2>2 DEF CountsOK
  <2>6. /\ batch'.succeeded = IF work.success THEN batch.succeeded + 1 ELSE batch.succeeded
        /\ batch'.failed = IF work.success THEN batch.failed ELSE batch.failed + 1
        /\ batch'.blank = IF work.blank THEN batch.blank + 1 ELSE batch.blank
        /\ batch'.success = (batch.success /\ work.success /\ goOn)
        /\ batch'.error = IF ~goOn THEN <<"cancelled", n>>
                          ELSE IF ~work.success /\ batch.error = <<>> THEN <<"page", n>>
                          ELSE batch.error
        /\ BatchMembers \subseteq DOMAIN batch'
    <3> DEFINE counted ==
                 [batch EXCEPT
                    !.succeeded = IF work.success THEN @ + 1 ELSE @,
                    !.failed = IF work.success THEN @ ELSE @ + 1,
                    !.blank = IF work.blank THEN @ + 1 ELSE @,
                    !.error = IF ~work.success /\ @ = <<>> THEN <<"page", n>> ELSE @,
                    !.success = @ /\ work.success]
    <3>1. batch' = IF goOn THEN counted
                   ELSE [counted EXCEPT !.error = <<"cancelled", n>>, !.success = FALSE]
      <4>1. Current - 1 = n
        BY <1>0, <2>3
      <4>. QED  BY <2>1, <4>1 DEF CountPage
    <3>2. /\ counted.succeeded = IF work.success THEN batch.succeeded + 1 ELSE batch.succeeded
          /\ counted.failed = IF work.success THEN batch.failed ELSE batch.failed + 1
          /\ counted.blank = IF work.blank THEN batch.blank + 1 ELSE batch.blank
          /\ counted.success = (batch.success /\ work.success)
          /\ counted.error = IF ~work.success /\ batch.error = <<>> THEN <<"page", n>>
                             ELSE batch.error
          /\ BatchMembers \subseteq DOMAIN counted
      BY <2>5 DEF BatchMembers
    <3> HIDE DEF counted
    <3>. QED  BY <2>5, <3>1, <3>2 DEF BatchMembers
  <2>7. Failed' = IF ~work.success THEN Failed \cup {n + 1} ELSE Failed
    BY <1>0, <2>4 DEF Failed
  <2>8. Blank' = IF work.blank THEN Blank \cup {n + 1} ELSE Blank
    BY <1>0, <2>4 DEF Blank
  <2>9. Failed \subseteq 1 .. n /\ Blank \subseteq 1 .. n
    BY <1>0 DEF Failed, Blank
  <2>10. batch'.failed = Cardinality(Failed') /\ batch'.blank = Cardinality(Blank')
    <3>0. n \in Nat
      BY <1>0
    <3> HIDE DEF n
    <3>1. /\ Cardinality(Failed \cup {n + 1}) = batch.failed + 1
          /\ Cardinality(Blank \cup {n + 1}) = batch.blank + 1
      <4>1. Cardinality(Failed \cup {n + 1}) = Cardinality(Failed) + 1
        BY <2>9, <3>0, PageCounted
      <4>2. Cardinality(Blank \cup {n + 1}) = Cardinality(Blank) + 1
        BY <2>9, <3>0, PageCounted
      <4>. QED  BY <2>5, <4>1, <4>2
    <3>2. batch'.failed = Cardinality(Failed')
      BY <2>5, <2>6, <2>7, <3>1
    <3>3. batch'.blank = Cardinality(Blank')
      BY <2>5, <2>6, <2>8, <3>1
    <3>. QED  BY <3>2, <3>3
  <2>11. Cancelled' <=> ~goOn
    <3>1. CASE ~goOn
      BY <2>6, <3>1 DEF Cancelled
    <3>2. CASE goOn
      BY <2>2, <2>6, <3>2 DEF Cancelled, CountsOK
    <3>. QED  BY <3>1, <3>2
  <2>12. ~Cancelled' => FirstError'
    <3>1. SUFFICES ASSUME goOn  PROVE FirstError'
      BY <2>11
    <3>2. CASE work.success
      BY <2>5, <2>6, <2>7, <3>1, <3>2 DEF FirstError
    <3>3. CASE ~work.success /\ Failed = {}
      <4>1. batch'.error = <<"page", (n + 1) - 1>>
        BY <1>0, <2>5, <2>6, <3>1, <3>3 DEF FirstError
      <4>2. Failed' = {n + 1}
        BY <2>7, <3>3
      <4>. QED  BY <4>1, <4>2 DEF FirstError
    <3>4. CASE ~work.success /\ Failed # {}
      <4>1. PICK m \in Failed : /\ \A k \in Failed : m <= k
                                /\ batch.error = <<"page", m - 1>>
        BY <2>5, <3>4 DEF FirstError
      <4>2. batch.error # <<>>
        BY <4>1
      <4>3. \A k \in Failed' : m <= k
        BY <1>0, <2>7, <2>9, <4>1
      <4>4. m \in Failed' /\ batch'.error = <<"page", m - 1>>
        BY <2>6, <2>7, <3>1, <4>1, <4>2
      <4>. QED  BY <4>3, <4>4 DEF FirstError
    <3>. QED  BY <3>2, <3>3, <3>4
  <2>13. batch'.success <=> Failed' = {} /\ ~Cancelled'
    BY <2>5, <2>6, <2>7, <2>11
  <2>14. \A k \in DOMAIN results' : Page(results'[k])
    <3>1. \A k \in 1 .. n + 1 : k \in 1 .. n \/ k = n + 1
      BY <1>0
    <3>. QED  BY <2>3, <2>4, <2>5, <3>1
  <2>15. /\ batch'.succeeded \in Nat /\ batch'.failed \in Nat /\ batch'.blank \in Nat
         /\ batch'.succeeded + batch'.failed = Len(results')
    <3>1. CASE work.success
      <4>1. batch'.succeeded = batch.succeeded + 1 /\ batch'.failed = batch.failed
        BY <2>6, <3>1
      <4>2. batch'.blank \in Nat
        BY <2>5, <2>6
      <4>. QED  BY <1>0, <2>4, <2>5, <4>1, <4>2
    <3>2. CASE ~work.success
      <4>1. batch'.succeeded = batch.succeeded /\ batch'.failed = batch.failed + 1
        BY <2>6, <3>2
      <4>2. batch'.blank \in Nat
        BY <2>5, <2>6
      <4>. QED  BY <1>0, <2>4, <2>5, <4>1, <4>2
    <3>. QED  BY <3>1, <3>2
  <2>16. caller' = "stopped" /\ ~Cancelled' => Len(results') = Len(job'.images)
    BY <1>0, <2>2, <2>3, <2>4, <2>11
  <2>17. caller' = "run_batch" => ~Cancelled'
    BY <2>2, <2>11
  <2>18. batch'.success \in BOOLEAN /\ caller' \notin {"ppp_batch", "listing"}
    BY <2>2, <2>6
  <2>. QED
    BY <2>6, <2>10, <2>12, <2>13, <2>14, <2>15, <2>16, <2>17, <2>18 DEF CountsOK
<1>3. ASSUME caller \in {"ppp_batch", "listing"}, UNCHANGED batch,
             caller' \in {"ppp_batch", "listing", "stopped"}
      PROVE  CountsOK'
  BY <1>3 DEF CountsOK
<1>4. CASE RefuseFile \/ \E ok \in BOOLEAN : WriteFile(ok)
  BY <1>3, <1>4 DEF RefuseFile, WriteFile, Concluding, Report
<1>5. CASE WriteGoodList \/ WriteExceptionList \/ Kill
  BY <1>3, <1>5 DEF WriteGoodList, WriteExceptionList, WriteList, Kill
<1>. QED
  BY <1>1, <1>2, <1>4, <1>5 DEF Next, NextPage, Done, vars

-----------------------------------------------------------------------------
(* The theorems.                                                           *)

LEMMA BatchInvariant == Spec => []BatchInv
<1>1. Init => BatchInv
  BY ControlInit, CountsInit, ListsInit DEF BatchInv
<1>2. BatchInv /\ [Next]_vars => BatchInv'
  BY ControlNext, CountsNext, ListsNext DEF BatchInv
<1>. QED  BY <1>1, <1>2, PTL DEF Spec

\* The lists of ppp_batch are true, however many writes fail, its lists' own
\* included, and however often the tool is killed and started again: the output of
\* a good file is whole, but for one that its writer reported and the disk then
\* refused; without --overwrite that stays so and nothing that was there is
\* written over; and the two lists of one run share out the files.
THEOREM ListsTrue == Spec => []ListsTruthful
<1>1. BatchInv => ListsTruthful
  BY DEF BatchInv, ListsOK
<1>. QED  BY <1>1, BatchInvariant, PTL

\* BatchResult agrees with its pages, whatever the steps do to them and wherever
\* the callback cancels the batch.
THEOREM BatchTrue == Spec => []BatchAccounts
<1>1. ASSUME BatchInv  PROVE BatchAccounts
  <2>1. SUFFICES ASSUME batch # NoBatch  PROVE BatchAccounts
    BY DEF BatchAccounts
  <2>2. /\ Len(results) \in Nat /\ DOMAIN results = 1 .. Len(results)
    BY <1>1, Appended DEF BatchInv, ControlOK
  <2>3. Failed \in SUBSET Int
    BY <2>2 DEF Failed
  <2>4. /\ \A k \in DOMAIN results : Page(results[k])
        /\ batch.succeeded + batch.failed = Len(results)
        /\ batch.failed = Cardinality(Failed)
        /\ batch.blank = Cardinality(Blank)
        /\ batch.success <=> Failed = {} /\ ~Cancelled
        /\ ~Cancelled => FirstError
        /\ caller = "stopped" /\ ~Cancelled => Len(results) = Len(job.images)
    BY <1>1, <2>1 DEF BatchInv, CountsOK
  <2>5. ~Cancelled /\ Failed # {} => batch.error = <<"page", Min(Failed) - 1>>
    BY <2>3, <2>4, MinIs DEF FirstError
  <2>6. Cardinality(CollectImages(results, TRUE) \ CollectImages(results, FALSE)) <= batch.blank
    <3>1. CollectImages(results, TRUE) \ CollectImages(results, FALSE) \subseteq Blank
      BY DEF CollectImages, Blank
    <3>2. IsFiniteSet(Blank)
      <4>1. IsFiniteSet(1 .. Len(results)) /\ Blank \subseteq 1 .. Len(results)
        BY <2>2, FS_Interval DEF Blank
      <4>. QED  BY <4>1, FS_Subset
    <3>. QED  BY <2>4, <3>1, <3>2, FS_Subset
  <2>. QED  BY <2>4, <2>5, <2>6 DEF BatchAccounts, Failed, Cancelled
<1>. QED  BY <1>1, BatchInvariant, PTL
-----------------------------------------------------------------------------
(* What each step makes of the page in work.                               *)

\* The image of a page before it is positioned.
Sheet(img) == IsImage(img) /\ ~IsEmptyImage(img) /\ img.dpi.x > 0 /\ img.dpi.y > 0

Turned(img, rotation) ==
  CASE rotation = "none" -> img
    [] rotation = "cw90" -> RotateCW90(img)
    [] rotation = "ccw90" -> RotateCCW90(img)
    [] rotation = "180" -> Rotate180(img)

\* The content of an image, or the whole of it.
ContentOf(img, p) ==
  LET d == DetectSubimage(img, p.subimage).bounds
  IN  IF IsEmptyRect(d) THEN FullRect(img) ELSE d

CutOf(img, r) == Crop(img, r.left, r.top, Width(r), Height(r))

\* The positioned page and the place of its content.
Positioned(st, p, n) ==
  ApplyMargins(st.img, st.bounds, p.margins[PageSet(n, p.odd_even_mode)],
               ResolveCanvas(p.canvas, Presets, st.img), p.keep_outside_subimage)

LEMMA LoggedMembers ==
  ASSUME NEW st, Page(st), NEW name, NEW applied
  PROVE  LET new == Logged(st, name, applied)
         IN  /\ new.img = st.img /\ new.bounds = st.bounds /\ new.cut = st.cut
             /\ new.content = st.content /\ new.placed = st.placed
BY DEF Page, Members, Logged

LEMMA ImageReplaced ==
  ASSUME NEW st, Page(st), NEW img
  PROVE  LET new == [st EXCEPT !.img = img]
         IN  /\ Page(new) /\ new.img = img /\ new.bounds = st.bounds /\ new.cut = st.cut
             /\ new.content = st.content /\ new.placed = st.placed
BY DEF Page, Members

LEMMA CleaningImages ==
  ASSUME NEW st, Page(st), NEW p, NEW n
  PROVE  /\ RotateStep(st, p).img = Turned(st.img, p.rotation)
         /\ DropoutStep(st, p).img
              = IF p.color_dropout.enabled /\ p.color_dropout.color # "none"
                THEN ColorDropout(st.img, p.color_dropout) ELSE st.img
         /\ EdgeStep(st, p, n).img
              = IF p.edge_cleanup.enabled
                THEN EdgeCleanup(st.img, p.edge_cleanup.sets[PageSet(n, p.odd_even_mode)])
                ELSE st.img
         /\ DeskewStep(st, p).img
              = IF p.deskew.enabled THEN ApplyDeskew(st.img, p.deskew, Angles, NoSkew).image
                ELSE st.img
         /\ HoleStep(st, p, n).img
              = IF p.hole_cleanup.enabled /\ st.img.format = "BW1"
                THEN HoleCleanup(st.img, p.hole_cleanup.sets[PageSet(n, p.odd_even_mode)])
                ELSE st.img
         /\ DespeckleStep(st, p).img
              = IF p.despeckle.mode # "none" /\ st.img.format = "BW1"
                THEN Despeckle(st.img, p.despeckle) ELSE st.img
<1>1. ASSUME NEW img, NEW name, NEW applied
      PROVE  Logged([st EXCEPT !.img = img], name, applied).img = img
  <2> DEFINE new == [st EXCEPT !.img = img]
  <2>1. Page(new) /\ new.img = img
    BY ImageReplaced
  <2> HIDE DEF new
  <2>2. Logged(new, name, applied).img = img
    BY <2>1, LoggedMembers
  <2>. QED  BY <2>2 DEF new
<1>2. \A name, applied : Logged(st, name, applied).img = st.img
  BY LoggedMembers
<1>3. RotateStep(st, p).img = Turned(st.img, p.rotation)
  <2> DEFINE t == Turned(st.img, p.rotation)
             b == p.rotation # "none"
  <2>1. RotateStep(st, p) = Logged([st EXCEPT !.img = t], "rotate", b)
    BY DEF RotateStep, Turned
  <2> HIDE DEF t, b
  <2>2. \A name, applied : Logged([st EXCEPT !.img = t], name, applied).img = t
    BY <1>1
  <2>3. RotateStep(st, p).img = t
    BY <2>1, <2>2, Zenon
  <2>. QED  BY <2>3 DEF t
<1>4. DropoutStep(st, p).img
        = IF p.color_dropout.enabled /\ p.color_dropout.color # "none"
          THEN ColorDropout(st.img, p.color_dropout) ELSE st.img
  <2> DEFINE t == ColorDropout(st.img, p.color_dropout)
             b == p.color_dropout.enabled /\ p.color_dropout.color # "none"
  <2>1. DropoutStep(st, p)
          = IF b THEN Logged([st EXCEPT !.img = t], "color_dropout", TRUE) ELSE st
    BY DEF DropoutStep
  <2> HIDE DEF t, b
  <2>2. \A name, applied : Logged([st EXCEPT !.img = t], name, applied).img = t
    BY <1>1
  <2>3. DropoutStep(st, p).img = IF b THEN t ELSE st.img
    BY <2>1, <2>2, Zenon
  <2>. QED  BY <2>3 DEF t, b
<1>5. EdgeStep(st, p, n).img
        = IF p.edge_cleanup.enabled
          THEN EdgeCleanup(st.img, p.edge_cleanup.sets[PageSet(n, p.odd_even_mode)]) ELSE st.img
  <2> DEFINE t == IF p.edge_cleanup.enabled
                  THEN EdgeCleanup(st.img, p.edge_cleanup.sets[PageSet(n, p.odd_even_mode)])
                  ELSE st.img
  <2>1. EdgeStep(st, p, n) = Logged([st EXCEPT !.img = t], "edge_cleanup", p.edge_cleanup.enabled)
    BY DEF EdgeStep
  <2> HIDE DEF t
  <2>2. \A name, applied : Logged([st EXCEPT !.img = t], name, applied).img = t
    BY <1>1
  <2>3. EdgeStep(st, p, n).img = t
    BY <2>1, <2>2, Zenon
  <2>. QED  BY <2>3 DEF t
<1>6. DeskewStep(st, p).img
        = IF p.deskew.enabled THEN ApplyDeskew(st.img, p.deskew, Angles, NoSkew).image ELSE st.img
  <2> DEFINE d == ApplyDeskew(st.img, p.deskew, Angles, NoSkew)
             t == d.image
             c == d.corrected
  <2>1. DeskewStep(st, p) = IF p.deskew.enabled THEN Logged([st EXCEPT !.img = t], "deskew", c)
                            ELSE Logged(st, "deskew", FALSE)
    BY DEF DeskewStep
  <2> HIDE DEF d, t, c
  <2>2. \A name, applied : Logged([st EXCEPT !.img = t], name, applied).img = t
    BY <1>1
  <2>3. DeskewStep(st, p).img = IF p.deskew.enabled THEN t ELSE st.img
    BY <1>2, <2>1, <2>2, Zenon
  <2>. QED  BY <2>3 DEF t, d
<1>7. HoleStep(st, p, n).img
        = IF p.hole_cleanup.enabled /\ st.img.format = "BW1"
          THEN HoleCleanup(st.img, p.hole_cleanup.sets[PageSet(n, p.odd_even_mode)]) ELSE st.img
  BY <1>1 DEF HoleStep
<1>8. DespeckleStep(st, p).img
        = IF p.despeckle.mode # "none" /\ st.img.format = "BW1"
          THEN Despeckle(st.img, p.despeckle) ELSE st.img
  BY <1>1 DEF DespeckleStep
<1>. QED  BY <1>3, <1>4, <1>5, <1>6, <1>7, <1>8

LEMMA WholeMembers ==
  ASSUME NEW st, Page(st)
  PROVE  LET r == IF IsEmptyRect(st.bounds) THEN FullRect(st.img) ELSE st.bounds
             new == WholeIfEmpty(st)
         IN  new.img = st.img /\ new.bounds = r /\ new.cut = CutOf(st.img, r) /\ Page(new)
<1> DEFINE r == IF IsEmptyRect(st.bounds) THEN FullRect(st.img) ELSE st.bounds
           c == CutOf(st.img, r)
           new == [st EXCEPT !.bounds = r, !.cut = c]
<1>1. WholeIfEmpty(st) = new
  BY DEF WholeIfEmpty, CutOf
<1> HIDE DEF r, c
<1>2. new.img = st.img /\ new.bounds = r /\ new.cut = c /\ Page(new)
  BY DEF Page, Members
<1>. QED  BY <1>1, <1>2 DEF r, c

LEMMA DetectingImages ==
  ASSUME NEW st, Page(st), NEW p
  PROVE  /\ LET new == WholeIfEmpty(DetectStep(st, p))
            IN  /\ new.img = st.img /\ new.bounds = ContentOf(st.img, p)
                /\ new.cut = CutOf(st.img, ContentOf(st.img, p))
         /\ LET new == WholeIfEmpty([st EXCEPT !.bounds = DetectSubimage(st.img, p.subimage).bounds])
            IN  /\ new.img = st.img /\ new.bounds = ContentOf(st.img, p) /\ Page(new)
<1> DEFINE d == DetectSubimage(st.img, p.subimage).bounds
           found == [st EXCEPT !.bounds = d]
<1>1. DetectStep(st, p) = Logged(found, "detect_subimage", TRUE)
  BY DEF DetectStep
<1>2. ContentOf(st.img, p) = IF IsEmptyRect(d) THEN FullRect(st.img) ELSE d
  BY DEF ContentOf
<1> HIDE DEF d
<1>3. Page(found) /\ found.img = st.img /\ found.bounds = d
  BY DEF Page, Members
<1> HIDE DEF found
<1>4. /\ Page(DetectStep(st, p)) /\ DetectStep(st, p).img = st.img
      /\ DetectStep(st, p).bounds = d
  <2>1. ASSUME NEW name, NEW applied
        PROVE  LET new == Logged(found, name, applied)
               IN  Page(new) /\ new.img = found.img /\ new.bounds = found.bounds
    BY <1>3, LoggedMembers, LoggedPage
  <2>2. LET new == DetectStep(st, p)
        IN  Page(new) /\ new.img = found.img /\ new.bounds = found.bounds
    BY <1>1, <2>1, Zenon
  <2>. QED  BY <1>3, <2>2
<1>5. /\ WholeIfEmpty(DetectStep(st, p)).img = st.img
      /\ WholeIfEmpty(DetectStep(st, p)).bounds = ContentOf(st.img, p)
      /\ WholeIfEmpty(DetectStep(st, p)).cut = CutOf(st.img, ContentOf(st.img, p))
  BY <1>2, <1>4, WholeMembers
<1>6. /\ WholeIfEmpty(found).img = st.img
      /\ WholeIfEmpty(found).bounds = ContentOf(st.img, p)
      /\ Page(WholeIfEmpty(found))
  BY <1>2, <1>3, WholeMembers
<1>. QED  BY <1>5, <1>6 DEF found, d

LEMMA BlankImages ==
  ASSUME NEW st, Page(st), NEW p
  PROVE  LET new == BlankStep(st, p)
         IN  new.img = st.img /\ new.bounds = st.bounds /\ new.cut = st.cut
<1>1. \A b \in BOOLEAN : LET new == [st EXCEPT !.blank = b]
                         IN  /\ Page(new) /\ new.img = st.img /\ new.bounds = st.bounds
                             /\ new.cut = st.cut
  BY DEF Page, Members
<1> DEFINE b == p.blank_page.enabled /\ DetectBlankPage(st.img, p.blank_page)
           seen == [st EXCEPT !.blank = b]
<1>2. b \in BOOLEAN
  OBVIOUS
<1>3. BlankStep(st, p) = Logged(seen, "blank_page", p.blank_page.enabled)
  BY Zenon DEF BlankStep
<1> HIDE DEF b
<1>4. Page(seen) /\ seen.img = st.img /\ seen.bounds = st.bounds /\ seen.cut = st.cut
  BY <1>1, <1>2
<1> HIDE DEF seen
<1>5. ASSUME NEW applied
      PROVE  LET new == Logged(seen, "blank_page", applied)
             IN  new.img = st.img /\ new.bounds = st.bounds /\ new.cut = st.cut
  BY <1>4, LoggedMembers
<1>. QED  BY <1>3, <1>5, Zenon

LEMMA MarginImages ==
  ASSUME NEW st, Page(st), NEW p, NEW n
  PROVE  LET new == MarginStep(CanvasStep(st, p), p, n)
             at == Positioned(st, p, n)
         IN  /\ new.bounds = st.bounds /\ new.cut = st.cut
             /\ ~p.position_image => new.img = st.img /\ new.content = st.content
             /\ p.position_image => /\ new.img = at.image /\ new.content = at.content
                                    /\ new.placed = <<at.content.left, at.content.top>>
<1> DEFINE c == ResolveCanvas(p.canvas, Presets, st.img)
           framed == [st EXCEPT !.canvas = c]
           at == Positioned(st, p, n)
           placed == [framed EXCEPT !.img = at.image, !.content = at.content,
                                    !.placed = <<at.content.left, at.content.top>>]
<1>1. CanvasStep(st, p) = framed
  BY DEF CanvasStep
<1> HIDE DEF c
<1>2. /\ Page(framed) /\ framed.img = st.img /\ framed.bounds = st.bounds
      /\ framed.cut = st.cut /\ framed.content = st.content /\ framed.canvas = c
  BY DEF Page, Members
<1> HIDE DEF framed
<1>3. at = ApplyMargins(framed.img, framed.bounds, p.margins[PageSet(n, p.odd_even_mode)],
                        framed.canvas, p.keep_outside_subimage)
  BY <1>2 DEF Positioned, c
<1> HIDE DEF at
<1>4. MarginStep(framed, p, n)
        = IF p.position_image THEN Logged(placed, "margins", TRUE)
          ELSE Logged(framed, "margins", FALSE)
  BY <1>3 DEF MarginStep
<1>5. /\ Page(placed) /\ placed.img = at.image /\ placed.content = at.content
      /\ placed.placed = <<at.content.left, at.content.top>>
      /\ placed.bounds = framed.bounds /\ placed.cut = framed.cut
  BY <1>2 DEF Page, Members
<1> HIDE DEF placed
<1> DEFINE new == MarginStep(framed, p, n)
<1>6. CASE p.position_image
  <2>1. new = Logged(placed, "margins", TRUE)
    BY <1>4, <1>6
  <2> HIDE DEF new
  <2>4. ASSUME NEW name, NEW applied
        PROVE  LET u == Logged(placed, name, applied)
               IN  /\ u.img = placed.img /\ u.bounds = placed.bounds /\ u.cut = placed.cut
                   /\ u.content = placed.content /\ u.placed = placed.placed
    BY <1>5, LoggedMembers
  <2>2. /\ new.img = placed.img /\ new.bounds = placed.bounds /\ new.cut = placed.cut
        /\ new.content = placed.content /\ new.placed = placed.placed
    BY <2>1, <2>4, Zenon
  <2>3. /\ new.bounds = st.bounds /\ new.cut = st.cut
        /\ new.img = at.image /\ new.content = at.content
        /\ new.placed = <<at.content.left, at.content.top>>
    BY <1>2, <1>5, <2>2
  <2>. QED  BY <1>1, <1>6, <2>3 DEF new, at
<1>7. CASE ~p.position_image
  <2>1. new = Logged(framed, "margins", FALSE)
    BY <1>4, <1>7
  <2> HIDE DEF new
  <2>3. ASSUME NEW name, NEW applied
        PROVE  LET u == Logged(framed, name, applied)
               IN  /\ u.img = framed.img /\ u.bounds = framed.bounds /\ u.cut = framed.cut
                   /\ u.content = framed.content
    BY <1>2, LoggedMembers
  <2>2. /\ new.img = framed.img /\ new.bounds = framed.bounds /\ new.cut = framed.cut
        /\ new.content = framed.content
    BY <2>1, <2>3, Zenon
  <2>. QED  BY <1>1, <1>2, <1>7, <2>2 DEF new
<1>. QED  BY <1>6, <1>7

-----------------------------------------------------------------------------
(* Where the content is, from the margins to the resize.                   *)

\* The content of the page in work is at the place the margins gave it.
PlacedAt(st) ==
  LET x == st.placed[1]
      y == st.placed[2]
  IN  /\ IsImage(st.cut) /\ ~IsEmptyImage(st.cut)
      /\ st.content = Rect(x, y, x + st.cut.w, y + st.cut.h)
      /\ \A p \in RectPixels(FullRect(st.img)) \cap RectPixels(st.content) :
           p \in st.img.ink <=> <<p[1] - x, p[2] - y>> \in st.cut.ink

\* What is detected is a part of the page, and what is cut is that part.
LEMMA ContentBoxed ==
  ASSUME NEW img, IsImage(img), ~IsEmptyImage(img), NEW p
  PROVE  LET r == ContentOf(img, p)
         IN  /\ Boxed(r, FullRect(img)) /\ r \in Rects
             /\ IsImage(CutOf(img, r)) /\ ~IsEmptyImage(CutOf(img, r))
             /\ CutOf(img, r).w = Width(r) /\ CutOf(img, r).h = Height(r)
             /\ \A q \in Int \X Int :
                  q \in CutOf(img, r).ink <=>
                    /\ q \in RectPixels(Rect(0, 0, Width(r), Height(r)))
                    /\ <<q[1] + r.left, q[2] + r.top>> \in img.ink
<1> DEFINE r == ContentOf(img, p)
           d == DetectSubimage(img, p.subimage).bounds
<1>1. d = NoRect \/ Boxed(d, FullRect(img))
  BY SubimageBoxed
<1>2. r = IF IsEmptyRect(d) THEN FullRect(img) ELSE d
  BY DEF ContentOf
<1> HIDE DEF d, r
<1>3. Boxed(FullRect(img), FullRect(img)) /\ FullRect(img) \in Rects
  BY FullTyped
<1>4. IsEmptyRect(NoRect)
  BY DEF IsEmptyRect, NoRect, Rect
<1>5. Boxed(r, FullRect(img)) /\ r \in Rects
  BY <1>1, <1>2, <1>3, <1>4 DEF Boxed
<1>6. /\ r.left \in Int /\ r.top \in Int /\ Width(r) \in Int /\ Height(r) \in Int
      /\ Width(r) > 0 /\ Height(r) > 0
  BY <1>3, <1>5, BoxedShape
<1>7. IsImage(CutOf(img, r))
  BY <1>6, CropTyped DEF CutOf
<1>8. /\ CutOf(img, r).w = Width(r) /\ CutOf(img, r).h = Height(r)
      /\ \A q \in Int \X Int :
           q \in CutOf(img, r).ink <=>
             /\ q \in RectPixels(Rect(0, 0, Width(r), Height(r)))
             /\ <<q[1] + r.left, q[2] + r.top>> \in img.ink
  BY <1>5, CropInside DEF CutOf
<1>9. ~IsEmptyImage(CutOf(img, r))
  BY <1>6, <1>8 DEF IsEmptyImage
<1>. QED  BY <1>5, <1>7, <1>8, <1>9 DEF r

\* A page positioned from the content detected on it has the content in place,
\* whether it is the content that is copied or the page around it.
LEMMA MarginsPlace ==
  ASSUME NEW img, IsImage(img), ~IsEmptyImage(img), NEW p,
         NEW sheet, IsImage(sheet), ~IsEmptyImage(sheet),
         NEW x \in Int, NEW y \in Int, NEW keepOutside
  PROVE  LET r == ContentOf(img, p)
             cut == CutOf(img, r)
             placed == IF keepOutside THEN Blit(sheet, img, x - r.left, y - r.top)
                       ELSE Blit(sheet, cut, x, y)
         IN  /\ IsImage(placed) /\ placed.w = sheet.w /\ placed.h = sheet.h
             /\ placed.dpi = sheet.dpi
             /\ \A q \in RectPixels(FullRect(placed))
                          \cap RectPixels(Rect(x, y, x + cut.w, y + cut.h)) :
                  q \in placed.ink <=> <<q[1] - x, q[2] - y>> \in cut.ink
<1> DEFINE r == ContentOf(img, p)
           cut == CutOf(img, r)
           whole == Blit(sheet, img, x - r.left, y - r.top)
           part == Blit(sheet, cut, x, y)
           Holds(new) == /\ IsImage(new) /\ new.w = sheet.w /\ new.h = sheet.h
                         /\ new.dpi = sheet.dpi
                         /\ \A q \in RectPixels(FullRect(new))
                                       \cap RectPixels(Rect(x, y, x + cut.w, y + cut.h)) :
                              q \in new.ink <=> <<q[1] - x, q[2] - y>> \in cut.ink
<1>1. /\ Boxed(r, FullRect(img)) /\ r \in Rects
      /\ IsImage(cut) /\ cut.w = Width(r) /\ cut.h = Height(r)
      /\ \A q \in Int \X Int :
           q \in cut.ink <=> /\ q \in RectPixels(Rect(0, 0, Width(r), Height(r)))
                             /\ <<q[1] + r.left, q[2] + r.top>> \in img.ink
  BY ContentBoxed
<1> HIDE DEF cut, r
<1>2. FullRect(img) \in Rects /\ FullRect(sheet) \in Rects /\ FullRect(cut) \in Rects
  BY <1>1, FullTyped
<1>3. /\ r.left \in Int /\ r.top \in Int /\ r.right \in Int /\ r.bottom \in Int
      /\ 0 <= r.left /\ r.right <= img.w /\ 0 <= r.top /\ r.bottom <= img.h
      /\ Width(r) = r.right - r.left /\ Height(r) = r.bottom - r.top
  BY <1>1, <1>2, BoxedShape, FullTyped
<1>4. img.w \in Int /\ img.h \in Int /\ cut.w \in Int /\ cut.h \in Int
  BY <1>1, SizeTyped
<1>5. \A new : new.w = sheet.w /\ new.h = sheet.h => FullRect(new) = FullRect(sheet)
  BY DEF FullRect
<1>6. ASSUME NEW q, q \in RectPixels(FullRect(sheet)), q \in RectPixels(Rect(x, y, x + cut.w, y + cut.h))
      PROVE  /\ q \in Int \X Int /\ q[1] \in Int /\ q[2] \in Int
             /\ x <= q[1] /\ q[1] < x + Width(r) /\ y <= q[2] /\ q[2] < y + Height(r)
  <2>1. q \in Int \X Int
    BY <1>2, <1>6 DEF RectPixels, Rects
  <2>2. Rect(x, y, x + cut.w, y + cut.h) \in Rects
    <3>1. x + cut.w \in Int /\ y + cut.h \in Int
      BY <1>4
    <3>. QED  BY <3>1, RectTyped, Zenon
  <2>. QED  BY <1>1, <1>4, <1>6, <2>1, <2>2, PixelOf DEF Rect
<1>7. Holds(whole)
  <2>1. /\ IsImage(whole) /\ whole.w = sheet.w /\ whole.h = sheet.h /\ whole.dpi = sheet.dpi
        /\ \A q \in RectPixels(FullRect(sheet)) :
             q \in whole.ink <=>
               LET o == <<q[1] - (x - r.left), q[2] - (y - r.top)>>
               IN  IF o \in RectPixels(FullRect(img)) THEN o \in img.ink ELSE q \in sheet.ink
    <3>1. x - r.left \in Int /\ y - r.top \in Int
      BY <1>3
    <3>. QED  BY <3>1, BlitTyped
  <2>2. ASSUME NEW q \in RectPixels(FullRect(sheet)) \cap RectPixels(Rect(x, y, x + cut.w, y + cut.h))
        PROVE  q \in whole.ink <=> <<q[1] - x, q[2] - y>> \in cut.ink
    <3> DEFINE o == <<q[1] - (x - r.left), q[2] - (y - r.top)>>
               c == <<q[1] - x, q[2] - y>>
    <3>1. /\ q[1] \in Int /\ q[2] \in Int
          /\ x <= q[1] /\ q[1] < x + Width(r) /\ y <= q[2] /\ q[2] < y + Height(r)
      BY <1>6
    <3>2. o \in Int \X Int /\ c \in Int \X Int
      BY <1>3, <3>1
    <3>3. o \in RectPixels(FullRect(img))
      BY <1>2, <1>3, <1>4, <3>1, <3>2, PixelOf, FullTyped
    <3>4. c \in RectPixels(Rect(0, 0, Width(r), Height(r)))
      BY <1>3, <3>1, <3>2 DEF RectPixels, Rect
    <3>5. <<c[1] + r.left, c[2] + r.top>> = o
      BY <1>3, <3>1
    <3>6. q \in whole.ink <=> o \in img.ink
      BY <2>1, <3>3
    <3> HIDE DEF o, c
    <3>7. c \in cut.ink <=> o \in img.ink
      BY <1>1, <3>2, <3>4, <3>5
    <3>. QED  BY <3>6, <3>7 DEF c
  <2> HIDE DEF whole
  <2>. QED  BY <1>5, <2>1, <2>2
<1>8. Holds(part)
  <2>1. /\ IsImage(part) /\ part.w = sheet.w /\ part.h = sheet.h /\ part.dpi = sheet.dpi
        /\ \A q \in RectPixels(FullRect(sheet)) :
             q \in part.ink <=>
               LET o == <<q[1] - x, q[2] - y>>
               IN  IF o \in RectPixels(FullRect(cut)) THEN o \in cut.ink ELSE q \in sheet.ink
    BY <1>1, BlitTyped
  <2>2. ASSUME NEW q \in RectPixels(FullRect(sheet)) \cap RectPixels(Rect(x, y, x + cut.w, y + cut.h))
        PROVE  q \in part.ink <=> <<q[1] - x, q[2] - y>> \in cut.ink
    <3> DEFINE c == <<q[1] - x, q[2] - y>>
    <3>1. /\ q[1] \in Int /\ q[2] \in Int
          /\ x <= q[1] /\ q[1] < x + Width(r) /\ y <= q[2] /\ q[2] < y + Height(r)
      BY <1>6
    <3>2. c \in Int \X Int
      BY <3>1
    <3>3. c \in RectPixels(FullRect(cut))
      BY <1>1, <1>2, <1>3, <1>4, <3>1, <3>2, PixelOf, FullTyped
    <3>. QED  BY <2>1, <3>3
  <2> HIDE DEF part
  <2>. QED  BY <1>5, <2>1, <2>2
<1> HIDE DEF whole, part
<1>. QED  BY <1>7, <1>8 DEF whole, part, cut, r

\* The movement limit moves the page and its content together.
LEMMA LimitImages ==
  ASSUME NEW st, Page(st), NEW p
  PROVE  LET new == LimitStep(st, p)
         IN  \/ /\ new.img = st.img /\ new.content = st.content
                /\ new.bounds = st.bounds /\ new.cut = st.cut /\ new.placed = st.placed
             \/ LET shift == CheckMovementLimit(<<st.bounds.left, st.bounds.top>>,
                                                <<st.content.left, st.content.top>>,
                                                p.movement_limit, st.img.dpi).shift
                    blank == Image(st.img.w, st.img.h, st.img.format, st.img.dpi)
                IN  /\ new.img = Blit(blank, st.img, shift[1], shift[2])
                    /\ new.content = Offset(st.content, shift[1], shift[2])
                    /\ new.bounds = st.bounds /\ new.cut = st.cut /\ new.placed = st.placed
<1> DEFINE ml == CheckMovementLimit(<<st.bounds.left, st.bounds.top>>,
                                    <<st.content.left, st.content.top>>,
                                    p.movement_limit, st.img.dpi)
           blank == Image(st.img.w, st.img.h, st.img.format, st.img.dpi)
           t == Blit(blank, st.img, ml.shift[1], ml.shift[2])
           c == Offset(st.content, ml.shift[1], ml.shift[2])
           moved == [st EXCEPT !.img = t, !.content = c]
           limited == p.movement_limit.enabled /\ ~IsEmptyRect(st.content)
           new == LimitStep(st, p)
<1>1. new = IF limited THEN Logged(IF ml.clamped THEN moved ELSE st, "movement_limit", ml.clamped)
            ELSE st
  BY DEF LimitStep
<1> HIDE DEF t, c, ml, limited, new
<1>2. /\ Page(moved) /\ moved.img = t /\ moved.content = c
      /\ moved.bounds = st.bounds /\ moved.cut = st.cut /\ moved.placed = st.placed
  BY DEF Page, Members
<1> HIDE DEF moved
<1>3. CASE limited /\ ml.clamped
  <2>1. new = Logged(moved, "movement_limit", ml.clamped)
    BY <1>1, <1>3
  <2>2. /\ new.img = moved.img /\ new.content = moved.content /\ new.bounds = moved.bounds
        /\ new.cut = moved.cut /\ new.placed = moved.placed
    BY <1>2, <2>1 DEF Page, Members, Logged
  <2>. QED  BY <1>2, <2>2 DEF new, t, c, ml
<1>4. CASE limited /\ ~ml.clamped
  <2>1. new = Logged(st, "movement_limit", ml.clamped)
    BY <1>1, <1>4
  <2>2. /\ new.img = st.img /\ new.content = st.content /\ new.bounds = st.bounds
        /\ new.cut = st.cut /\ new.placed = st.placed
    BY <2>1 DEF Page, Members, Logged
  <2>. QED  BY <2>2 DEF new
<1>5. CASE ~limited
  BY <1>1, <1>5 DEF new
<1>. QED  BY <1>3, <1>4, <1>5

LEMMA ShiftTyped ==
  ASSUME NEW config \in MovementLimitConfig, NEW dpi \in [x : Int, y : Int],
         NEW a \in Int, NEW b \in Int, NEW c \in Int, NEW d \in Int
  PROVE  LET shift == CheckMovementLimit(<<a, b>>, <<c, d>>, config, dpi).shift
         IN  shift[1] \in Int /\ shift[2] \in Int
<1>1. /\ config.max_horizontal \in Measurement /\ config.max_vertical \in Measurement
      /\ dpi.x \in Int /\ dpi.y \in Int
  BY DEF MovementLimitConfig
<1> DEFINE maxX == ToPixels(config.max_horizontal, dpi.x)
           maxY == ToPixels(config.max_vertical, dpi.y)
<1>2. maxX \in Int /\ maxY \in Int
  BY <1>1, PixelsOf
<1> HIDE DEF maxX, maxY
<1>3. CheckMovementLimit(<<a, b>>, <<c, d>>, config, dpi).shift
        = << (IF c - a > maxX THEN maxX ELSE IF c - a < -maxX THEN -maxX ELSE c - a) - (c - a),
             (IF d - b > maxY THEN maxY ELSE IF d - b < -maxY THEN -maxY ELSE d - b) - (d - b) >>
  BY DEF CheckMovementLimit, maxX, maxY
<1>. QED  BY <1>2, <1>3

\* A content that is in place and still whole on the canvas after the movement
\* limit is the content that was detected.
LEMMA LimitKeepsContent ==
  ASSUME NEW st, PlacedAt(st), IsImage(st.img), ~IsEmptyImage(st.img),
         NEW new, new.cut = st.cut, new.placed = st.placed, st.content \in Rects,
         \/ new.img = st.img /\ new.content = st.content
         \/ \E dx, dy \in Int :
              /\ new.img = Blit(Image(st.img.w, st.img.h, st.img.format, st.img.dpi), st.img, dx, dy)
              /\ new.content = Offset(st.content, dx, dy),
         Inside(new.content, FullRect(new.img)),
         Inside(Offset(Rect(0, 0, new.cut.w, new.cut.h), new.placed[1], new.placed[2]),
                FullRect(new.img))
  PROVE  CutOf(new.img, new.content).ink = new.cut.ink
<1> DEFINE x == st.placed[1]
           y == st.placed[2]
           w == st.cut.w
           h == st.cut.h
           cut == st.cut
           at == Rect(x, y, x + w, y + h)
<1>1. /\ IsImage(cut) /\ ~IsEmptyImage(cut) /\ st.content = at
      /\ \A q \in RectPixels(FullRect(st.img)) \cap RectPixels(st.content) :
           q \in st.img.ink <=> <<q[1] - x, q[2] - y>> \in cut.ink
  BY DEF PlacedAt
<1>2. w \in Int /\ h \in Int /\ w > 0 /\ h > 0
  BY <1>1, SizeTyped DEF IsEmptyImage
<1>3. x \in Int /\ y \in Int
  <2>1. st.content.left = x /\ st.content.top = y
    BY <1>1 DEF Rect
  <2>. QED  BY <2>1 DEF Rects
<1>4. cut.ink \in SUBSET (Int \X Int) /\ cut.ink \subseteq RectPixels(Rect(0, 0, w, h))
  BY <1>1, ImageShape DEF FullRect
<1> HIDE DEF x, y, w, h, cut
\* the content whole on a page, at a place of its own
<1>5. ASSUME NEW img, IsImage(img), NEW l \in Int, NEW t \in Int,
             0 <= l, 0 <= t, l + w <= img.w, t + h <= img.h,
             \A c \in RectPixels(Rect(0, 0, w, h)) :
                <<c[1] + l, c[2] + t>> \in img.ink <=> c \in cut.ink
      PROVE  CutOf(img, Rect(l, t, l + w, t + h)).ink = cut.ink
  <2> DEFINE r == Rect(l, t, l + w, t + h)
  <2>1. l + w \in Int /\ t + h \in Int /\ l < l + w /\ t < t + h
    BY <1>2
  <2>2. /\ r \in Rects /\ r.left = l /\ r.top = t /\ r.right = l + w /\ r.bottom = t + h
    BY <1>5, <2>1 DEF Rect, Rects
  <2>3. Boxed(r, FullRect(img))
    BY <1>5, <2>1, <2>2, FullTyped, SizeTyped DEF Boxed, IsEmptyRect, Inside
  <2>4. Width(r) = w /\ Height(r) = h
    BY <1>2, <2>1, <2>2 DEF Width, Height
  <2> HIDE DEF r
  <2>5. \A c \in Int \X Int :
          c \in CutOf(img, r).ink <=> /\ c \in RectPixels(Rect(0, 0, w, h))
                                     /\ <<c[1] + l, c[2] + t>> \in img.ink
    BY <1>5, <2>2, <2>3, <2>4, CropInside DEF CutOf
  <2>6. CutOf(img, r).ink \in SUBSET (Int \X Int)
    <3>1. IsImage(CutOf(img, r))
      BY <1>2, <1>5, <2>2, <2>4, CropTyped DEF CutOf
    <3>. QED  BY <3>1, ImageShape
  <2>7. \A c \in Int \X Int : c \in CutOf(img, r).ink <=> c \in cut.ink
    BY <1>4, <1>5, <2>5
  <2>. QED  BY <1>4, <2>6, <2>7 DEF r
<1>6. ASSUME NEW c \in RectPixels(Rect(0, 0, w, h))
      PROVE  c \in Int \X Int /\ c[1] \in 0 .. w - 1 /\ c[2] \in 0 .. h - 1 /\ c = <<c[1], c[2]>>
  BY <1>2 DEF RectPixels, Rect
<1>7. /\ FullRect(st.img) \in Rects /\ st.img.w \in Int /\ st.img.h \in Int
      /\ FullRect(st.img).left = 0 /\ FullRect(st.img).top = 0
      /\ FullRect(st.img).right = st.img.w /\ FullRect(st.img).bottom = st.img.h
  BY FullTyped, SizeTyped
\* what is in place on the page before the limit
<1>8. ASSUME 0 <= x, 0 <= y, x + w <= st.img.w, y + h <= st.img.h,
             NEW c \in RectPixels(Rect(0, 0, w, h))
      PROVE  /\ <<c[1] + x, c[2] + y>> \in RectPixels(FullRect(st.img))
             /\ <<c[1] + x, c[2] + y>> \in st.img.ink <=> c \in cut.ink
  <2> DEFINE q == <<c[1] + x, c[2] + y>>
  <2>1. /\ c[1] \in Int /\ c[2] \in Int /\ c = <<c[1], c[2]>>
        /\ 0 <= c[1] /\ c[1] < w /\ 0 <= c[2] /\ c[2] < h
    BY <1>2, <1>6
  <2>2. q \in Int \X Int /\ q[1] = c[1] + x /\ q[2] = c[2] + y
    BY <1>3, <2>1
  <2>3. x + w \in Int /\ y + h \in Int
    BY <1>2, <1>3
  <2>4. at \in Rects /\ at.left = x /\ at.top = y /\ at.right = x + w /\ at.bottom = y + h
    BY <1>3, <2>3 DEF Rect, Rects
  <2> HIDE DEF q, at
  <2>5. q \in RectPixels(at)
    <3>1. x <= q[1] /\ q[1] < x + w /\ y <= q[2] /\ q[2] < y + h
      BY <1>2, <1>3, <2>1, <2>2
    <3>. QED  BY <2>2, <2>4, <3>1, PixelOf
  <2>6. q \in RectPixels(FullRect(st.img))
    <3>1. 0 <= q[1] /\ q[1] < st.img.w /\ 0 <= q[2] /\ q[2] < st.img.h
      BY <1>2, <1>3, <1>7, <1>8, <2>1, <2>2
    <3>. QED  BY <1>7, <2>2, <3>1, PixelOf
  <2>7. <<q[1] - x, q[2] - y>> = c
    BY <1>3, <2>1, <2>2
  <2>8. q \in st.img.ink <=> <<q[1] - x, q[2] - y>> \in cut.ink
    BY <1>1, <2>5, <2>6 DEF at
  <2>. QED  BY <2>6, <2>7, <2>8 DEF q
<1>9. CASE new.img = st.img /\ new.content = st.content
  <2>1. at.left = x /\ at.top = y /\ at.right = x + w /\ at.bottom = y + h
    BY DEF Rect
  <2>2. 0 <= x /\ 0 <= y /\ x + w <= st.img.w /\ y + h <= st.img.h
    BY <1>1, <1>2, <1>3, <1>7, <1>9, <2>1 DEF Inside
  <2>3. \A c \in RectPixels(Rect(0, 0, w, h)) :
          <<c[1] + x, c[2] + y>> \in st.img.ink <=> c \in cut.ink
    BY <1>8, <2>2
  <2>4. CutOf(st.img, at).ink = cut.ink
    BY <1>3, <1>5, <2>2, <2>3
  <2>. QED  BY <1>1, <1>9, <2>4 DEF cut
<1>10. ASSUME NEW dx \in Int, NEW dy \in Int,
              new.img = Blit(Image(st.img.w, st.img.h, st.img.format, st.img.dpi), st.img, dx, dy),
              new.content = Offset(st.content, dx, dy)
       PROVE  CutOf(new.img, new.content).ink = cut.ink
  <2> DEFINE blank == Image(st.img.w, st.img.h, st.img.format, st.img.dpi)
  <2>1. /\ IsImage(blank) /\ blank.w = st.img.w /\ blank.h = st.img.h /\ blank.ink = {}
    <3>1. /\ st.img.w \in Nat /\ st.img.h \in Nat /\ st.img.format \in Formats
          /\ st.img.dpi \in [x : Int, y : Int]
      BY ImageShape
    <3>. QED  BY <3>1, BlankTyped
  <2> HIDE DEF blank
  <2>2. /\ IsImage(new.img) /\ new.img.w = st.img.w /\ new.img.h = st.img.h
        /\ \A q \in RectPixels(FullRect(st.img)) :
             q \in new.img.ink <=>
               LET o == <<q[1] - dx, q[2] - dy>>
               IN  o \in RectPixels(FullRect(st.img)) /\ o \in st.img.ink
    <3>1. LET u == Blit(blank, st.img, dx, dy)
          IN  /\ IsImage(u) /\ u.w = blank.w /\ u.h = blank.h
              /\ \A q \in RectPixels(FullRect(blank)) :
                   q \in u.ink <=>
                     LET o == <<q[1] - dx, q[2] - dy>>
                     IN  IF o \in RectPixels(FullRect(st.img)) THEN o \in st.img.ink
                         ELSE q \in blank.ink
      BY <1>10, <2>1, BlitTyped
    <3>2. FullRect(blank) = FullRect(st.img)
      BY <2>1 DEF FullRect
    <3>. QED  BY <1>10, <2>1, <3>1, <3>2 DEF blank
  <2>3. FullRect(new.img) = FullRect(st.img)
    BY <2>2 DEF FullRect
  <2> DEFINE l == x + dx
             t == y + dy
  <2>4. l \in Int /\ t \in Int
    BY <1>3, <1>10
  <2>5. new.content = Rect(l, t, l + w, t + h)
    <3>1. (x + w) + dx = l + w /\ (y + h) + dy = t + h
      BY <1>2, <1>3, <1>10
    <3>2. at.left = x /\ at.top = y /\ at.right = x + w /\ at.bottom = y + h
      BY DEF Rect
    <3> HIDE DEF at, l, t
    <3>3. Offset(at, dx, dy) = Rect(x + dx, y + dy, (x + w) + dx, (y + h) + dy)
      BY <3>2 DEF Offset
    <3>. QED  BY <1>1, <1>10, <3>1, <3>3 DEF at, l, t
  <2>6. 0 <= l /\ 0 <= t /\ l + w <= new.img.w /\ t + h <= new.img.h
    <3>1. /\ new.content.left = l /\ new.content.top = t
          /\ new.content.right = l + w /\ new.content.bottom = t + h
      BY <2>5 DEF Rect
    <3>2. Inside(new.content, FullRect(st.img))
      BY <2>3
    <3> HIDE DEF l, t
    <3>. QED  BY <1>7, <2>2, <3>1, <3>2 DEF Inside
  <2>7. 0 <= x /\ 0 <= y /\ x + w <= st.img.w /\ y + h <= st.img.h
    <3>1. Inside(Offset(Rect(0, 0, w, h), x, y), FullRect(st.img))
      BY <2>3 DEF w, h, x, y
    <3>2. /\ Offset(Rect(0, 0, w, h), x, y).left = 0 + x
          /\ Offset(Rect(0, 0, w, h), x, y).top = 0 + y
          /\ Offset(Rect(0, 0, w, h), x, y).right = w + x
          /\ Offset(Rect(0, 0, w, h), x, y).bottom = h + y
      BY DEF Offset, Rect
    <3>. QED  BY <1>2, <1>3, <1>7, <3>1, <3>2 DEF Inside
  <2>8. ASSUME NEW c \in RectPixels(Rect(0, 0, w, h))
        PROVE  <<c[1] + l, c[2] + t>> \in new.img.ink <=> c \in cut.ink
    <3> DEFINE q == <<c[1] + l, c[2] + t>>
               o == <<c[1] + x, c[2] + y>>
    <3>1. /\ c[1] \in Int /\ c[2] \in Int
          /\ 0 <= c[1] /\ c[1] < w /\ 0 <= c[2] /\ c[2] < h
      BY <1>2, <1>6
    <3>2. <<q[1] - dx, q[2] - dy>> = o
      BY <1>3, <1>10, <3>1
    <3>3. q \in RectPixels(FullRect(st.img))
      <4>1. q \in Int \X Int /\ q[1] = c[1] + l /\ q[2] = c[2] + t
        BY <2>4, <3>1
      <4> HIDE DEF q, l, t
      <4>2. 0 <= q[1] /\ q[1] < st.img.w /\ 0 <= q[2] /\ q[2] < st.img.h
        BY <1>2, <1>7, <2>2, <2>4, <2>6, <3>1, <4>1
      <4>. QED  BY <1>7, <4>1, <4>2, PixelOf
    <3>4. o \in RectPixels(FullRect(st.img)) /\ (o \in st.img.ink <=> c \in cut.ink)
      BY <1>8, <2>7
    <3> HIDE DEF q, o
    <3>5. q \in new.img.ink <=> o \in RectPixels(FullRect(st.img)) /\ o \in st.img.ink
      BY <2>2, <3>2, <3>3
    <3>. QED  BY <3>4, <3>5 DEF q
  <2> HIDE DEF l, t
  <2>9. CutOf(new.img, Rect(l, t, l + w, t + h)).ink = cut.ink
    BY <1>5, <2>2, <2>4, <2>6, <2>8
  <2>. QED  BY <2>5, <2>9
<1>. QED  BY <1>9, <1>10 DEF cut

-----------------------------------------------------------------------------
(* The page in work is an image all along.                                 *)

LEMMA ResizeImages ==
  ASSUME NEW st, Page(st), NEW p, NEW n
  PROVE  LET new == ApplyResize(st.img, st.bounds, p.resize, Presets, n, p.odd_even_mode)
         IN  ResizeStep(st, p, n).img
               = IF p.resize.enabled /\ ~IsEmptyImage(new) THEN new ELSE st.img
<1> DEFINE t == ApplyResize(st.img, st.bounds, p.resize, Presets, n, p.odd_even_mode)
           enlarged == [st EXCEPT !.img = t]
           empty == IsEmptyImage(t)
           new == ResizeStep(st, p, n)
<1>1. new = IF p.resize.enabled
            THEN IF empty THEN Logged(st, "resize", FALSE) ELSE Logged(enlarged, "resize", TRUE)
            ELSE st
  BY DEF ResizeStep, RefitPage
<1> HIDE DEF t, empty, new
<1>2. Page(enlarged) /\ enlarged.img = t
  BY ImageReplaced
<1> HIDE DEF enlarged
<1>3. CASE p.resize.enabled /\ ~empty
  <2>1. new = Logged(enlarged, "resize", TRUE)
    BY <1>1, <1>3
  <2>2. new.img = t
    BY <1>2, <2>1 DEF Page, Members, Logged
  <2>. QED  BY <1>3, <2>2 DEF new, t, empty
<1>4. CASE p.resize.enabled /\ empty
  <2>1. new = Logged(st, "resize", FALSE)
    BY <1>1, <1>4
  <2>2. new.img = st.img
    BY <2>1 DEF Page, Members, Logged
  <2>. QED  BY <1>4, <2>2 DEF new, t, empty
<1>5. CASE ~p.resize.enabled
  BY <1>1, <1>5 DEF new
<1>. QED  BY <1>3, <1>4, <1>5

\* Until the margins no step gives the content a place.
LEMMA ContentKept ==
  ASSUME NEW st, Page(st), NEW p, NEW n
  PROVE  /\ RotateStep(st, p).content = st.content
         /\ DropoutStep(st, p).content = st.content
         /\ EdgeStep(st, p, n).content = st.content
         /\ DeskewStep(st, p).content = st.content
         /\ HoleStep(st, p, n).content = st.content
         /\ DespeckleStep(st, p).content = st.content
         /\ WholeIfEmpty(DetectStep(st, p)).content = st.content
         /\ BlankStep(st, p).content = st.content
<1>1. ASSUME NEW img, NEW name, NEW applied
      PROVE  Logged([st EXCEPT !.img = img], name, applied).content = st.content
  BY DEF Page, Members, Logged
<1>2. ASSUME NEW r, NEW name, NEW applied
      PROVE  Logged([st EXCEPT !.bounds = r], name, applied).content = st.content
  BY DEF Page, Members, Logged
<1>3. ASSUME NEW b, NEW name, NEW applied
      PROVE  Logged([st EXCEPT !.blank = b], name, applied).content = st.content
  BY DEF Page, Members, Logged
<1>4. ASSUME NEW name, NEW applied
      PROVE  Logged(st, name, applied).content = st.content
  BY DEF Page, Members, Logged
<1>5. RotateStep(st, p).content = st.content
  BY <1>1 DEF RotateStep
<1>6. DropoutStep(st, p).content = st.content
  BY <1>1 DEF DropoutStep
<1>7. EdgeStep(st, p, n).content = st.content
  BY <1>1 DEF EdgeStep
<1>8. DeskewStep(st, p).content = st.content
  BY <1>1, <1>4 DEF DeskewStep
<1>9. HoleStep(st, p, n).content = st.content
  BY <1>1 DEF HoleStep
<1>10. DespeckleStep(st, p).content = st.content
  BY <1>1 DEF DespeckleStep
<1>11. WholeIfEmpty(DetectStep(st, p)).content = st.content
  <2>1. DetectStep(st, p).content = st.content
    BY <1>2 DEF DetectStep
  <2>2. "content" \in DOMAIN DetectStep(st, p)
    BY DEF DetectStep, Logged, Page, Members
  <2>. QED  BY <2>1, <2>2 DEF WholeIfEmpty
<1>12. BlankStep(st, p).content = st.content
  BY <1>3 DEF BlankStep
<1>. QED  BY <1>5, <1>6, <1>7, <1>8, <1>9, <1>10, <1>11, <1>12

\* What keeps the size and the resolution of a sheet is one.
LEMMA SheetKept ==
  ASSUME NEW img, Sheet(img), NEW new, IsImage(new),
         new.w = img.w, new.h = img.h, new.dpi = img.dpi
  PROVE  Sheet(new)
BY DEF Sheet, IsEmptyImage

LEMMA SheetSteps ==
  ASSUME NEW st, Page(st), Sheet(st.img), NEW p \in ProcessingProfile, NEW n
  PROVE  /\ Sheet(RotateStep(st, p).img) /\ Sheet(DropoutStep(st, p).img)
         /\ Sheet(EdgeStep(st, p, n).img) /\ Sheet(DeskewStep(st, p).img)
         /\ Sheet(HoleStep(st, p, n).img) /\ Sheet(DespeckleStep(st, p).img)
<1> DEFINE img == st.img
<1>1. /\ Sheet(img) /\ IsImage(img) /\ ~IsEmptyImage(img) /\ img.dpi.x > 0 /\ img.dpi.y > 0
  BY DEF Sheet
<1>2. Sheet(Turned(img, p.rotation))
  <2>1. p.rotation \in {"none", "cw90", "ccw90", "180"}
    BY DEF ProcessingProfile
  <2> HIDE DEF img
  <2>2. /\ Swapped(img.dpi).x = img.dpi.y /\ Swapped(img.dpi).y = img.dpi.x
    BY DEF Swapped
  <2>3. Sheet(RotateCW90(img)) /\ Sheet(RotateCCW90(img))
    BY <1>1, <2>2, TurnsTyped DEF Sheet, IsEmptyImage
  <2>4. Sheet(Rotate180(img))
    BY <1>1, TurnsTyped, SheetKept
  <2>. QED  BY <1>1, <2>1, <2>3, <2>4 DEF Turned
<1> HIDE DEF img
<1>3. ASSUME NEW config  PROVE Sheet(ColorDropout(img, config))
  BY <1>1, DropoutTyped, SheetKept
<1>4. ASSUME NEW config
      PROVE  /\ Sheet(EdgeCleanup(img, config)) /\ Sheet(HoleCleanup(img, config))
             /\ Sheet(Despeckle(img, config))
  BY <1>1, CleanupsTyped, SheetKept
<1>5. ASSUME NEW config  PROVE Sheet(ApplyDeskew(img, config, Angles, NoSkew).image)
  <2>1. LET new == ApplyDeskew(img, config, Angles, NoSkew).image
        IN  IsImage(new) /\ ~IsEmptyImage(new) /\ new.dpi = img.dpi
    BY <1>1, DeskewTyped, SettingsAssumption
  <2>. QED  BY <1>1, <2>1 DEF Sheet
<1>6. Sheet(RotateStep(st, p).img)
  BY <1>2, CleaningImages DEF img
<1>7. Sheet(DropoutStep(st, p).img)
  <2>1. DropoutStep(st, p).img
          = IF p.color_dropout.enabled /\ p.color_dropout.color # "none"
            THEN ColorDropout(img, p.color_dropout) ELSE img
    BY CleaningImages DEF img
  <2>. QED  BY <1>1, <1>3, <2>1
<1>8. Sheet(EdgeStep(st, p, n).img)
  <2>1. EdgeStep(st, p, n).img
          = IF p.edge_cleanup.enabled
            THEN EdgeCleanup(img, p.edge_cleanup.sets[PageSet(n, p.odd_even_mode)]) ELSE img
    BY CleaningImages DEF img
  <2>. QED  BY <1>1, <1>4, <2>1
<1>9. Sheet(DeskewStep(st, p).img)
  <2>1. DeskewStep(st, p).img
          = IF p.deskew.enabled THEN ApplyDeskew(img, p.deskew, Angles, NoSkew).image ELSE img
    BY CleaningImages DEF img
  <2>. QED  BY <1>1, <1>5, <2>1
<1>10. Sheet(HoleStep(st, p, n).img)
  <2>1. HoleStep(st, p, n).img
          = IF p.hole_cleanup.enabled /\ img.format = "BW1"
            THEN HoleCleanup(img, p.hole_cleanup.sets[PageSet(n, p.odd_even_mode)]) ELSE img
    BY CleaningImages DEF img
  <2>. QED  BY <1>1, <1>4, <2>1
<1>11. Sheet(DespeckleStep(st, p).img)
  <2>1. DespeckleStep(st, p).img
          = IF p.despeckle.mode # "none" /\ img.format = "BW1"
            THEN Despeckle(img, p.despeckle) ELSE img
    BY CleaningImages DEF img
  <2>. QED  BY <1>1, <1>4, <2>1
<1>. QED  BY <1>6, <1>7, <1>8, <1>9, <1>10, <1>11

\* An image that begins has a resolution, and a sheet keeps its own.
LEMMA WithDpiSheet ==
  ASSUME NEW image, IsImage(image), ~IsEmptyImage(image), NEW p \in ProcessingProfile
  PROVE  /\ Sheet(WithDpi(image, p))
         /\ Sheet(image) => WithDpi(image, p) = image
<1> DEFINE n == IF p.detected_dpi > 0 THEN p.detected_dpi ELSE DefaultDpi
           dpi == [x |-> n, y |-> n]
           new == [image EXCEPT !.dpi = dpi]
<1>1. n \in Int /\ n > 0
  BY SettingsAssumption DEF ProcessingProfile
<1>2. WithDpi(image, p) = IF image.dpi.x > 0 /\ image.dpi.y > 0 THEN image ELSE new
  BY DEF WithDpi
<1> HIDE DEF n
<1>3. dpi \in [x : Int, y : Int] /\ dpi.x > 0 /\ dpi.y > 0
  BY <1>1
<1> HIDE DEF dpi
<1>4. /\ DOMAIN image = {"w", "h", "format", "dpi", "ink", "tint"}
      /\ image.w \in Nat /\ image.h \in Nat /\ image.format \in Formats
      /\ image.ink \subseteq RectPixels(Rect(0, 0, image.w, image.h))
      /\ image.tint \subseteq image.ink
  BY ImageShape DEF FullRect
<1>5. /\ DOMAIN new = DOMAIN image /\ new = [k \in DOMAIN new |-> new[k]]
      /\ new.w = image.w /\ new.h = image.h /\ new.format = image.format
      /\ new.ink = image.ink /\ new.tint = image.tint /\ new.dpi = dpi
  BY <1>4
<1> HIDE DEF new
<1>6. IsImage(new)
  BY <1>3, <1>4, <1>5, Repainted
<1>7. Sheet(new)
  BY <1>3, <1>5, <1>6 DEF Sheet, IsEmptyImage
<1>. QED  BY <1>2, <1>7 DEF Sheet

\* The margins: the page is positioned with its content, empty, or left alone.
LEMMA PositioningKeeps ==
  ASSUME NEW st, Page(st), Sheet(st.img), st.content \in Rects, NEW p \in ProcessingProfile,
         st.bounds = ContentOf(st.img, p), st.cut = CutOf(st.img, st.bounds), NEW n
  PROVE  LET new == MarginStep(CanvasStep(st, p), p, n)
         IN  /\ IsImage(new.img) /\ (IsEmptyImage(new.img) \/ Sheet(new.img))
             /\ new.bounds \in Rects /\ new.content \in Rects
             /\ p.position_image /\ ~IsEmptyImage(new.img) => PlacedAt(new)
<1> DEFINE new == MarginStep(CanvasStep(st, p), p, n)
           at == Positioned(st, p, n)
           r == st.bounds
           cut == CutOf(st.img, r)
<1>1. /\ IsImage(st.img) /\ ~IsEmptyImage(st.img) /\ st.img.dpi.x > 0 /\ st.img.dpi.y > 0
  BY DEF Sheet
<1>2. /\ r \in Rects /\ IsImage(cut) /\ ~IsEmptyImage(cut)
      /\ cut.w = Width(r) /\ cut.h = Height(r)
  BY <1>1, ContentBoxed
<1>3. /\ new.bounds = r /\ new.cut = cut
      /\ ~p.position_image => new.img = st.img /\ new.content = st.content
      /\ p.position_image => /\ new.img = at.image /\ new.content = at.content
                             /\ new.placed = <<at.content.left, at.content.top>>
  BY MarginImages
<1> HIDE DEF new
<1>4. CASE ~p.position_image
  BY <1>1, <1>2, <1>3, <1>4 DEF new
<1>5. CASE p.position_image
  <2> DEFINE m == p.margins[PageSet(n, p.odd_even_mode)]
             canvas == ResolveCanvas(p.canvas, Presets, st.img)
             keep == p.keep_outside_subimage
  <2>1. m \in MarginConfig
    <3>1. p.margins \in MarginConfig \X MarginConfig
      BY DEF ProcessingProfile
    <3>2. PageSet(n, p.odd_even_mode) \in {1, 2}
      BY DEF PageSet
    <3>. QED  BY <3>1, <3>2
  <2>2. canvas[1] \in Int /\ canvas[2] \in Int
    <3>1. p.canvas \in CanvasConfig(Presets)
      BY DEF ProcessingProfile
    <3>. QED  BY <1>1, <3>1, CanvasTyped, SettingsAssumption
  <2>3. at = ApplyMargins(st.img, r, m, canvas, keep)
    BY DEF Positioned
  <2> HIDE DEF m, canvas, keep, at
  <2>4. \/ at.image = NoImage /\ at.content = NoRect
        \/ \E x, y \in Int : \E sheet :
             /\ IsImage(sheet) /\ ~IsEmptyImage(sheet) /\ sheet.dpi = st.img.dpi
             /\ at.content = Rect(x, y, x + Width(r), y + Height(r))
             /\ at.image = IF keep THEN Blit(sheet, st.img, x - r.left, y - r.top)
                           ELSE Blit(sheet, cut, x, y)
    <3>1. ApplyMargins(st.img, r, m, canvas, keep) = at
      BY <2>3
    <3>2. cut = Crop(st.img, r.left, r.top, Width(r), Height(r))
      BY DEF CutOf
    <3> HIDE DEF r, cut
    <3>3. PlacedOnPage(ApplyMargins(st.img, r, m, canvas, keep), st.img, r, keep)
      BY <1>1, <1>2, <2>1, <2>2, MarginsTyped
    <3>4. PlacedOnPage(at, st.img, r, keep)
      BY <3>1, <3>3
    <3>. QED  BY <3>2, <3>4, Zenon DEF PlacedOnPage
  <2>5. CASE at.image = NoImage /\ at.content = NoRect
    <3>1. IsImage(new.img) /\ IsEmptyImage(new.img)
      BY <1>3, <1>5, <2>5, NoImageTyped
    <3>2. new.content \in Rects
      BY <1>3, <1>5, <2>5 DEF NoRect, Rect, Rects
    <3>. QED  BY <1>2, <1>3, <3>1, <3>2 DEF new
  <2>6. ASSUME NEW x \in Int, NEW y \in Int, NEW sheet,
               IsImage(sheet), ~IsEmptyImage(sheet), sheet.dpi = st.img.dpi,
               at.content = Rect(x, y, x + Width(r), y + Height(r)),
               at.image = IF keep THEN Blit(sheet, st.img, x - r.left, y - r.top)
                          ELSE Blit(sheet, cut, x, y)
        PROVE  /\ Sheet(new.img) /\ new.content \in Rects /\ PlacedAt(new)
    <3> DEFINE where == Rect(x, y, x + cut.w, y + cut.h)
    <3>1. at.content = where
      BY <1>2, <2>6
    <3>2. /\ IsImage(at.image) /\ at.image.w = sheet.w /\ at.image.h = sheet.h
          /\ at.image.dpi = sheet.dpi
          /\ \A q \in RectPixels(FullRect(at.image)) \cap RectPixels(where) :
               q \in at.image.ink <=> <<q[1] - x, q[2] - y>> \in cut.ink
      BY <1>1, <2>6, MarginsPlace
    <3>3. Sheet(new.img)
      BY <1>1, <1>3, <1>5, <2>6, <3>2 DEF Sheet, IsEmptyImage
    <3>4. /\ where \in Rects /\ where.left = x /\ where.top = y
      <4>1. cut.w \in Int /\ cut.h \in Int
        BY <1>2, SizeTyped
      <4> HIDE DEF cut
      <4>. QED  BY <2>6, <4>1 DEF Rect, Rects
    <3>5. /\ new.placed[1] = x /\ new.placed[2] = y /\ new.content = where
          /\ new.img = at.image /\ new.cut = cut
      BY <1>3, <1>5, <3>1, <3>4
    <3> HIDE DEF cut
    <3>6. PlacedAt(new)
      BY <1>2, <3>2, <3>5 DEF PlacedAt
    <3>. QED  BY <3>3, <3>4, <3>5, <3>6
  <2> HIDE DEF cut
  <2>7. CASE \E x, y \in Int : \E sheet :
             /\ IsImage(sheet) /\ ~IsEmptyImage(sheet) /\ sheet.dpi = st.img.dpi
             /\ at.content = Rect(x, y, x + Width(r), y + Height(r))
             /\ at.image = IF keep THEN Blit(sheet, st.img, x - r.left, y - r.top)
                           ELSE Blit(sheet, cut, x, y)
    <3>1. Sheet(new.img) /\ new.content \in Rects /\ PlacedAt(new)
      BY <2>6, <2>7
    <3>. QED  BY <1>2, <1>3, <3>1 DEF new, Sheet
  <2>. QED  BY <2>4, <2>5, <2>7
<1>. QED  BY <1>4, <1>5

\* The movement limit: the page stays a sheet, and the content that was in place
\* is found where the result says.
LEMMA LimitingKeeps ==
  ASSUME NEW st, Page(st), IsImage(st.img), IsEmptyImage(st.img) \/ Sheet(st.img),
         st.bounds \in Rects, st.content \in Rects, NEW p \in ProcessingProfile
  PROVE  LET new == LimitStep(st, p)
         IN  /\ IsImage(new.img) /\ (IsEmptyImage(new.img) \/ Sheet(new.img))
             /\ new.bounds \in Rects /\ new.content \in Rects
             /\ /\ ~IsEmptyImage(st.img) => PlacedAt(st)
                /\ ~IsEmptyImage(new.img)
                /\ Inside(new.content, FullRect(new.img))
                /\ Inside(Offset(Rect(0, 0, new.cut.w, new.cut.h),
                                  new.placed[1], new.placed[2]), FullRect(new.img))
                => CutOf(new.img, new.content).ink = new.cut.ink
<1> DEFINE new == LimitStep(st, p)
           blank == Image(st.img.w, st.img.h, st.img.format, st.img.dpi)
           shift == CheckMovementLimit(<<st.bounds.left, st.bounds.top>>,
                                       <<st.content.left, st.content.top>>,
                                       p.movement_limit, st.img.dpi).shift
           kept == new.img = st.img /\ new.content = st.content
           Moved(dx, dy) == /\ new.img = Blit(blank, st.img, dx, dy)
                            /\ new.content = Offset(st.content, dx, dy)
<1>1. /\ new.bounds = st.bounds /\ new.cut = st.cut /\ new.placed = st.placed
      /\ kept \/ Moved(shift[1], shift[2])
  BY LimitImages
<1>2. shift[1] \in Int /\ shift[2] \in Int
  <2>1. p.movement_limit \in MovementLimitConfig
    BY DEF ProcessingProfile
  <2>2. st.img.dpi \in [x : Int, y : Int]
    BY ImageShape
  <2>3. /\ st.bounds.left \in Int /\ st.bounds.top \in Int
        /\ st.content.left \in Int /\ st.content.top \in Int
    BY DEF Rects
  <2>. QED  BY <2>1, <2>2, <2>3, ShiftTyped
<1> HIDE DEF new, shift
<1>3. /\ IsImage(new.img) /\ (IsEmptyImage(new.img) \/ Sheet(new.img))
      /\ new.content \in Rects
      /\ ~IsEmptyImage(new.img) => ~IsEmptyImage(st.img)
  <2>1. CASE kept
    BY <2>1
  <2>2. CASE Moved(shift[1], shift[2])
    <3>1. IsImage(blank) /\ blank.w = st.img.w /\ blank.h = st.img.h /\ blank.dpi = st.img.dpi
      <4>1. /\ st.img.w \in Nat /\ st.img.h \in Nat /\ st.img.format \in Formats
            /\ st.img.dpi \in [x : Int, y : Int]
        BY ImageShape
      <4>. QED  BY <4>1, BlankTyped
    <3> HIDE DEF blank
    <3>2. /\ IsImage(new.img) /\ new.img.w = blank.w /\ new.img.h = blank.h
          /\ new.img.dpi = blank.dpi
      BY <1>2, <2>2, <3>1, BlitTyped
    <3>3. new.content \in Rects
      BY <1>2, <2>2, OffsetTyped
    <3>4. IsEmptyImage(new.img) <=> IsEmptyImage(st.img)
      BY <3>1, <3>2 DEF IsEmptyImage
    <3>5. Sheet(st.img) => Sheet(new.img)
      BY <3>1, <3>2, SheetKept
    <3>. QED  BY <3>2, <3>3, <3>4, <3>5
  <2>. QED  BY <1>1, <2>1, <2>2
<1>4. ASSUME ~IsEmptyImage(st.img) => PlacedAt(st), ~IsEmptyImage(new.img),
             Inside(new.content, FullRect(new.img)),
             Inside(Offset(Rect(0, 0, new.cut.w, new.cut.h), new.placed[1], new.placed[2]),
                    FullRect(new.img))
      PROVE  CutOf(new.img, new.content).ink = new.cut.ink
  <2>1. PlacedAt(st) /\ ~IsEmptyImage(st.img)
    BY <1>3, <1>4
  <2>2. \/ new.img = st.img /\ new.content = st.content
        \/ \E dx, dy \in Int :
             /\ new.img = Blit(Image(st.img.w, st.img.h, st.img.format, st.img.dpi), st.img, dx, dy)
             /\ new.content = Offset(st.content, dx, dy)
    BY <1>1, <1>2
  <2>. QED  BY <1>1, <1>4, <2>1, <2>2, LimitKeepsContent
<1>. QED  BY <1>1, <1>3, <1>4 DEF new

LEMMA ResizingKeeps ==
  ASSUME NEW st, Page(st), IsImage(st.img), IsEmptyImage(st.img) \/ Sheet(st.img),
         st.bounds \in Rects, NEW p \in ProcessingProfile, NEW n
  PROVE  IsImage(ResizeStep(st, p, n).img)
<1> DEFINE new == ApplyResize(st.img, st.bounds, p.resize, Presets, n, p.odd_even_mode)
<1>1. p.resize \in ResizeConfig(Presets)
  BY DEF ProcessingProfile
<1>2. ~IsEmptyImage(st.img) => st.img.dpi.x >= 0 /\ st.img.dpi.y >= 0
  BY SizeTyped DEF Sheet
<1>3. IsImage(new)
  BY <1>1, <1>2, ResizedTyped, SettingsAssumption
<1>4. ResizeStep(st, p, n).img = IF p.resize.enabled /\ ~IsEmptyImage(new) THEN new ELSE st.img
  BY ResizeImages
<1> HIDE DEF new
<1>. QED  BY <1>3, <1>4

-----------------------------------------------------------------------------
(* The page in work, step by step.                                         *)

Early == { "rotate", "color_dropout", "edges_before", "deskew", "hole_cleanup", "despeckle",
           "edges_after", "detect_subimage", "blank_page", "margins" }
Late == {"movement_limit", "resize"}

PictureOK ==
  /\ profile = job.profile
  /\ IsImage(work.img)
  /\ pc \in Early => Sheet(work.img) /\ work.content \in Rects
  /\ pc \in Late => /\ IsEmptyImage(work.img) \/ Sheet(work.img)
                    /\ work.content \in Rects /\ work.bounds \in Rects
  /\ pc \in {"blank_page", "margins"} =>
       /\ work.bounds = ContentOf(work.img, profile)
       /\ work.cut = CutOf(work.img, work.bounds)

Arrived ==
  pc = "movement_limit" /\ profile.position_image /\ ~IsEmptyImage(work.img) => PlacedAt(work)

DirOK ==
  \A f \in Files : /\ dir[f].state \in {"absent", "old", "torn", "unflushed", "whole"}
                   /\ dir[f].state = "whole" <=> ~IsEmptyImage(dir[f].image)

PictureInv == PictureOK /\ Arrived /\ ContentArrives

LEMMA ProfileTyped ==
  ASSUME ControlOK, PictureOK  PROVE profile \in ProcessingProfile
BY JobsAssumption DEF ControlOK, PictureOK

\* Nothing is said of a page that is not in work.
LEMMA PictureElsewhere ==
  ASSUME profile' = job'.profile, IsImage(work'.img), pc' \notin Early, pc' \notin Late
  PROVE  PictureInv'
BY DEF PictureInv, PictureOK, Arrived, ContentArrives, Early, Late

LEMMA PictureEarly ==
  ASSUME profile' = job'.profile, Sheet(work'.img), work'.content \in Rects,
         pc' \in Early \ {"blank_page", "margins"}
  PROVE  PictureInv'
BY DEF PictureInv, PictureOK, Arrived, ContentArrives, Early, Late, Sheet

LEMMA PictureInit ==
  ASSUME Init  PROVE PictureInv
<1>1. work.img = NoImage
  BY DEF Init, NoWork
<1>. QED
  BY <1>1, NoImageTyped DEF Init, PictureInv, PictureOK, Arrived, ContentArrives, Early, Late

LEMMA PictureCleaned ==
  ASSUME ControlOK, PictureOK, job' = job,
         Rotating \/ Dropping \/ CleaningEdgesFirst \/ Deskewing \/ CleaningHoles
           \/ Despeckling \/ CleaningEdgesLast
  PROVE  PictureInv'
<1>1. /\ profile \in ProcessingProfile /\ Page(work) /\ profile = job.profile
  BY ProfileTyped DEF ControlOK, PictureOK
<1>2. Sheet(work.img) /\ work.content \in Rects
  BY DEF PictureOK, Early, Rotating, Dropping, CleaningEdgesFirst, Deskewing, CleaningHoles,
         Despeckling, CleaningEdgesLast, Step
<1>3. /\ profile' = profile
      /\ pc' \in Early \ {"blank_page", "margins"}
      /\ work' \in {RotateStep(work, profile), DropoutStep(work, profile),
                    EdgeStep(work, profile, page), DeskewStep(work, profile),
                    HoleStep(work, profile, page), DespeckleStep(work, profile), work}
  BY DEF Early, Rotating, Dropping, CleaningEdgesFirst, Deskewing, CleaningHoles,
         Despeckling, CleaningEdgesLast, Step
<1>4. \A st \in {RotateStep(work, profile), DropoutStep(work, profile),
                 EdgeStep(work, profile, page), DeskewStep(work, profile),
                 HoleStep(work, profile, page), DespeckleStep(work, profile), work} :
        Sheet(st.img) /\ st.content \in Rects
  BY <1>1, <1>2, SheetSteps, ContentKept
<1>5. Sheet(work'.img) /\ work'.content \in Rects
  BY <1>3, <1>4
<1>6. profile' = job'.profile
  BY <1>1, <1>3
<1>. QED  BY <1>3, <1>5, <1>6, PictureEarly

LEMMA PictureDetected ==
  ASSUME ControlOK, PictureOK, job' = job, Detecting \/ LookingBlank
  PROVE  PictureInv'
<1>1. Page(work) /\ profile = job.profile
  BY DEF ControlOK, PictureOK
<1>2. Sheet(work.img) /\ work.content \in Rects
  BY DEF PictureOK, Early, Detecting, LookingBlank, Step
<1>3. profile' = profile /\ pc' \in {"blank_page", "margins"}
  BY DEF Detecting, LookingBlank, Step
<1>4. /\ work'.img = work.img /\ work'.content = work.content
      /\ work'.bounds = ContentOf(work.img, profile)
      /\ work'.cut = CutOf(work.img, ContentOf(work.img, profile))
  <2>1. CASE Detecting
    <3>1. work' = WholeIfEmpty(DetectStep(work, profile))
      BY <2>1 DEF Detecting, Step
    <3>2. /\ WholeIfEmpty(DetectStep(work, profile)).img = work.img
          /\ WholeIfEmpty(DetectStep(work, profile)).bounds = ContentOf(work.img, profile)
          /\ WholeIfEmpty(DetectStep(work, profile)).cut
               = CutOf(work.img, ContentOf(work.img, profile))
      BY <1>1, DetectingImages
    <3>3. WholeIfEmpty(DetectStep(work, profile)).content = work.content
      BY <1>1, ContentKept
    <3>. QED  BY <3>1, <3>2, <3>3
  <2>2. CASE LookingBlank
    <3>1. work' = BlankStep(work, profile) /\ pc = "blank_page"
      BY <2>2 DEF LookingBlank, Step
    <3>2. work.bounds = ContentOf(work.img, profile) /\ work.cut = CutOf(work.img, work.bounds)
      BY <3>1 DEF PictureOK
    <3>. QED  BY <1>1, <3>1, <3>2, BlankImages, ContentKept
  <2>. QED  BY <2>1, <2>2
<1>5. /\ Sheet(work'.img) /\ IsImage(work'.img) /\ work'.content \in Rects
      /\ work'.bounds = ContentOf(work'.img, profile')
      /\ work'.cut = CutOf(work'.img, work'.bounds)
  BY <1>2, <1>3, <1>4 DEF Sheet
<1>6. profile' = job'.profile
  BY <1>1, <1>3
<1>. QED  BY <1>3, <1>5, <1>6 DEF PictureInv, PictureOK, Arrived, ContentArrives, Late

LEMMA PicturePositioned ==
  ASSUME ControlOK, PictureOK, job' = job, Positioning
  PROVE  PictureInv'
<1>1. /\ profile \in ProcessingProfile /\ Page(work) /\ profile = job.profile
  BY ProfileTyped DEF ControlOK, PictureOK
<1>2. /\ pc' = "movement_limit" /\ profile' = profile
      /\ work' = MarginStep(CanvasStep(work, profile), profile, page)
  BY DEF Positioning, Step
<1>3. /\ Sheet(work.img) /\ work.content \in Rects
      /\ work.bounds = ContentOf(work.img, profile)
      /\ work.cut = CutOf(work.img, work.bounds)
  BY DEF PictureOK, Early, Positioning, Step
<1>4. /\ IsImage(work'.img) /\ (IsEmptyImage(work'.img) \/ Sheet(work'.img))
      /\ work'.bounds \in Rects /\ work'.content \in Rects
      /\ profile.position_image /\ ~IsEmptyImage(work'.img) => PlacedAt(work')
  BY <1>1, <1>2, <1>3, PositioningKeeps
<1>. QED  BY <1>1, <1>2, <1>4 DEF PictureInv, PictureOK, Arrived, ContentArrives, Early, Late

LEMMA PictureLimited ==
  ASSUME ControlOK, PictureOK, Arrived, job' = job, Limiting
  PROVE  PictureInv'
<1>1. /\ profile \in ProcessingProfile /\ Page(work) /\ profile = job.profile
  BY ProfileTyped DEF ControlOK, PictureOK
<1>2. /\ pc = "movement_limit" /\ pc' = "resize" /\ profile' = profile
      /\ work' = LimitStep(work, profile)
  BY DEF Limiting, Step
<1>3. /\ IsImage(work.img) /\ (IsEmptyImage(work.img) \/ Sheet(work.img))
      /\ work.bounds \in Rects /\ work.content \in Rects
  BY <1>2 DEF PictureOK, Late
<1>4. /\ IsImage(work'.img) /\ (IsEmptyImage(work'.img) \/ Sheet(work'.img))
      /\ work'.bounds \in Rects /\ work'.content \in Rects
      /\ /\ ~IsEmptyImage(work.img) => PlacedAt(work)
         /\ ~IsEmptyImage(work'.img)
         /\ Inside(work'.content, FullRect(work'.img))
         /\ Inside(Offset(Rect(0, 0, work'.cut.w, work'.cut.h),
                           work'.placed[1], work'.placed[2]), FullRect(work'.img))
         => CutOf(work'.img, work'.content).ink = work'.cut.ink
  BY <1>1, <1>2, <1>3, LimitingKeeps
<1>5. profile.position_image => (~IsEmptyImage(work.img) => PlacedAt(work))
  BY <1>2 DEF Arrived
<1>6. ContentArrives'
  BY <1>2, <1>4, <1>5 DEF ContentArrives, CutOf
<1>7. PictureOK' /\ Arrived'
  BY <1>1, <1>2, <1>4 DEF PictureOK, Arrived, Early, Late
<1>. QED  BY <1>6, <1>7 DEF PictureInv

LEMMA PictureResized ==
  ASSUME ControlOK, PictureOK, job' = job, Resizing
  PROVE  PictureInv'
<1>1. /\ profile \in ProcessingProfile /\ Page(work) /\ profile = job.profile
  BY ProfileTyped DEF ControlOK, PictureOK
<1>2. /\ pc = "resize" /\ pc' = "done" /\ profile' = profile
      /\ work' = ResizeStep(work, profile, page)
  BY DEF Resizing, Step
<1>3. /\ IsImage(work.img) /\ (IsEmptyImage(work.img) \/ Sheet(work.img))
      /\ work.bounds \in Rects
  BY <1>2 DEF PictureOK, Late
<1>4. IsImage(work'.img)
  BY <1>1, <1>2, <1>3, ResizingKeeps
<1>. QED  BY <1>1, <1>2, <1>4, PictureElsewhere DEF Early, Late

LEMMA PictureNext ==
  ASSUME ControlOK, PictureInv, [Next]_vars  PROVE PictureInv'
<1>0. PictureOK /\ Arrived /\ ContentArrives
  BY DEF PictureInv
<1>1. CASE NextPage
  <2>1. /\ job' = job /\ profile' = job.profile
        /\ Begin(job.images[Current], job.profile, PageIndex) /\ Current \in Files
    BY <1>1 DEF NextPage, callerVars, Begin
  <2> DEFINE image == job.images[Current]
  <2>2. IsImage(image) /\ job.profile \in ProcessingProfile
    BY <2>1, JobsAssumption DEF ControlOK, Files
  <2>3. CASE IsEmptyImage(image)
    <3>1. pc' = "done" /\ work'.img = NoImage
      BY <2>1, <2>3 DEF Begin, NoWork
    <3>. QED  BY <2>1, <3>1, NoImageTyped, PictureElsewhere DEF Early, Late
  <2>4. CASE ~IsEmptyImage(image)
    <3>1. pc' = "rotate" /\ work' = Started(image, job.profile)
      BY <2>1, <2>4 DEF Begin
    <3> HIDE DEF image
    <3>2. work'.img = WithDpi(image, job.profile) /\ work'.content = NoRect
      BY <3>1 DEF Started, NoWork
    <3>3. Sheet(work'.img)
      BY <2>2, <2>4, <3>2, WithDpiSheet
    <3>4. work'.content \in Rects
      BY <3>2 DEF NoRect, Rect, Rects
    <3>. QED  BY <2>1, <3>1, <3>3, <3>4, PictureEarly DEF Early
  <2>. QED  BY <2>3, <2>4
<1>2. CASE RunPipeline /\ UNCHANGED callerVars
  <2>1. job' = job
    BY <1>2 DEF callerVars
  <2>. QED
    BY <1>0, <1>2, <2>1, PictureCleaned, PictureDetected, PicturePositioned, PictureLimited,
       PictureResized
       DEF RunPipeline
<1>3. ASSUME pc' = "idle", UNCHANGED <<profile, job, work>>  PROVE PictureInv'
  BY <1>0, <1>3, PictureElsewhere DEF PictureOK, Early, Late
<1>4. CASE \E goOn \in BOOLEAN : CountPage(goOn)
  BY <1>3, <1>4 DEF CountPage
<1>5. CASE RefuseFile
  BY <1>3, <1>5 DEF RefuseFile, Report
<1>6. CASE \E ok \in BOOLEAN : WriteFile(ok)
  BY <1>3, <1>6 DEF WriteFile, Report
<1>7. CASE WriteGoodList \/ WriteExceptionList
  BY <1>3, <1>7 DEF WriteGoodList, WriteExceptionList, WriteList, pageVars
<1>8. CASE Kill
  <2>1. work'.img = NoImage /\ pc' = "idle" /\ UNCHANGED <<profile, job>>
    BY <1>8 DEF Kill, NoWork
  <2>. QED  BY <1>0, <2>1, NoImageTyped, PictureElsewhere DEF PictureOK, Early, Late
<1>9. CASE Done \/ UNCHANGED vars
  <2>1. UNCHANGED <<profile, page, pc, work, job>>
    BY <1>9 DEF Done, vars, pageVars, callerVars
  <2>. QED  BY <1>0, <2>1 DEF PictureInv, PictureOK, Arrived, ContentArrives
<1>. QED
  BY <1>1, <1>2, <1>4, <1>5, <1>6, <1>7, <1>8, <1>9 DEF Next

LEMMA OutputStates ==
  \A state, image : Output(state, image).state = state /\ Output(state, image).image = image
BY DEF Output

LEMMA DirInit ==
  ASSUME Init  PROVE DirOK
<1>1. \A f \in Files : dir[f] = Output("old", NoImage) \/ dir[f] = Output("absent", NoImage)
  BY DEF Init, Absent
<1>. QED  BY <1>1, OutputStates, NoImageTyped DEF DirOK

LEMMA DirNext ==
  ASSUME ControlOK, DirOK, [Next]_vars  PROVE DirOK'
<1>1. job' = job /\ Files' = Files
  BY DEF Next, NextPage, callerVars, CountPage, RefuseFile, WriteFile, Report, WriteGoodList,
         WriteExceptionList, WriteList, Kill, Done, vars, Files
<1>2. ASSUME NEW f, NEW content, dir' = [dir EXCEPT ![f] = content],
             \/ content = dir[f] \/ content = Torn \/ content = Unflushed
             \/ \E image : content = Output("whole", image) /\ ~IsEmptyImage(image)
      PROVE  DirOK'
  <2>1. /\ Torn.state = "torn" /\ IsEmptyImage(Torn.image)
        /\ Unflushed.state = "unflushed" /\ IsEmptyImage(Unflushed.image)
    BY OutputStates, NoImageTyped DEF Torn, Unflushed
  <2>2. SUFFICES ASSUME NEW g \in Files
                 PROVE  /\ dir'[g].state \in {"absent", "old", "torn", "unflushed", "whole"}
                        /\ dir'[g].state = "whole" <=> ~IsEmptyImage(dir'[g].image)
    BY <1>1 DEF DirOK
  <2>3. dir'[g] = IF g = f THEN content ELSE dir[g]
    BY <1>2, <2>2 DEF ControlOK
  <2>4. /\ dir[g].state \in {"absent", "old", "torn", "unflushed", "whole"}
        /\ dir[g].state = "whole" <=> ~IsEmptyImage(dir[g].image)
    BY <2>2 DEF DirOK
  <2>5. CASE g # f
    BY <2>3, <2>4, <2>5
  <2>6. CASE g = f
    BY <1>2, <2>1, <2>3, <2>4, <2>6, OutputStates
  <2>. QED  BY <2>5, <2>6
<1>3. CASE UNCHANGED dir
  BY <1>1, <1>3 DEF DirOK
<1>4. CASE NextPage \/ (RunPipeline /\ UNCHANGED callerVars)
             \/ WriteGoodList \/ WriteExceptionList
             \/ (\E goOn \in BOOLEAN : CountPage(goOn)) \/ Done \/ UNCHANGED vars
  BY <1>3, <1>4 DEF NextPage, callerVars, CountPage, WriteGoodList, WriteExceptionList, WriteList, Done,
                      vars
<1>5. CASE RefuseFile
  BY <1>2, <1>5 DEF RefuseFile, Report
<1>6. ASSUME NEW ok \in BOOLEAN, WriteFile(ok)  PROVE DirOK'
  <2> DEFINE applied == \E k \in DOMAIN work.steps : work.steps[k].applied
             output == IF applied THEN work.img ELSE job.images[Current]
  <2> HIDE DEF output
  <2>1. \/ dir' = [dir EXCEPT ![Current] = dir[Current]]
        \/ dir' = [dir EXCEPT ![Current] = Torn]
        \/ dir' = [dir EXCEPT ![Current] = Unflushed]
        \/ dir' = [dir EXCEPT ![Current] = Output("whole", output)] /\ ~IsEmptyImage(output)
    BY <1>6 DEF WriteFile, Report, output
  <2>. QED  BY <1>2, <2>1
<1>7. CASE Kill
  BY <1>2, <1>3, <1>7 DEF Kill
<1>. QED  BY <1>4, <1>5, <1>6, <1>7 DEF Next

-----------------------------------------------------------------------------
(* A step run alone.                                                       *)

\* What a step makes of the image does not depend on what else is known of the
\* page, except where the content is.
LEMMA SameImages ==
  ASSUME NEW st, Page(st), NEW u, Page(u), st.img = u.img, NEW p, NEW n
  PROVE  /\ RotateStep(st, p).img = RotateStep(u, p).img
         /\ DropoutStep(st, p).img = DropoutStep(u, p).img
         /\ DeskewStep(st, p).img = DeskewStep(u, p).img
         /\ HoleStep(st, p, n).img = HoleStep(u, p, n).img
         /\ DespeckleStep(st, p).img = DespeckleStep(u, p).img
         /\ st.bounds = u.bounds =>
              MarginStep(CanvasStep(st, p), p, n).img = MarginStep(CanvasStep(u, p), p, n).img
<1> DEFINE img == st.img
           turned == Turned(img, p.rotation)
           dropped == IF p.color_dropout.enabled /\ p.color_dropout.color # "none"
                      THEN ColorDropout(img, p.color_dropout) ELSE img
           deskewed == IF p.deskew.enabled
                       THEN ApplyDeskew(img, p.deskew, Angles, NoSkew).image ELSE img
           filled == IF p.hole_cleanup.enabled /\ img.format = "BW1"
                     THEN HoleCleanup(img, p.hole_cleanup.sets[PageSet(n, p.odd_even_mode)])
                     ELSE img
           spotless == IF p.despeckle.mode # "none" /\ img.format = "BW1"
                       THEN Despeckle(img, p.despeckle) ELSE img
<1>1. /\ RotateStep(st, p).img = turned /\ DropoutStep(st, p).img = dropped
      /\ DeskewStep(st, p).img = deskewed /\ HoleStep(st, p, n).img = filled
      /\ DespeckleStep(st, p).img = spotless
  <2>1. RotateStep(st, p).img = Turned(st.img, p.rotation)
    BY CleaningImages
  <2>2. DropoutStep(st, p).img
           = IF p.color_dropout.enabled /\ p.color_dropout.color # "none"
             THEN ColorDropout(st.img, p.color_dropout) ELSE st.img
    BY CleaningImages
  <2>3. DeskewStep(st, p).img
           = IF p.deskew.enabled THEN ApplyDeskew(st.img, p.deskew, Angles, NoSkew).image
             ELSE st.img
    BY CleaningImages
  <2>4. HoleStep(st, p, n).img
           = IF p.hole_cleanup.enabled /\ st.img.format = "BW1"
             THEN HoleCleanup(st.img, p.hole_cleanup.sets[PageSet(n, p.odd_even_mode)])
             ELSE st.img
    BY CleaningImages
  <2>5. DespeckleStep(st, p).img
           = IF p.despeckle.mode # "none" /\ st.img.format = "BW1"
             THEN Despeckle(st.img, p.despeckle) ELSE st.img
    BY CleaningImages
  <2>. QED  BY <2>1, <2>2, <2>3, <2>4, <2>5
<1>2. /\ RotateStep(u, p).img = turned /\ DropoutStep(u, p).img = dropped
      /\ DeskewStep(u, p).img = deskewed /\ HoleStep(u, p, n).img = filled
      /\ DespeckleStep(u, p).img = spotless
  <2>1. RotateStep(u, p).img = Turned(u.img, p.rotation)
    BY CleaningImages
  <2>2. DropoutStep(u, p).img
           = IF p.color_dropout.enabled /\ p.color_dropout.color # "none"
             THEN ColorDropout(u.img, p.color_dropout) ELSE u.img
    BY CleaningImages
  <2>3. DeskewStep(u, p).img
           = IF p.deskew.enabled THEN ApplyDeskew(u.img, p.deskew, Angles, NoSkew).image
             ELSE u.img
    BY CleaningImages
  <2>4. HoleStep(u, p, n).img
           = IF p.hole_cleanup.enabled /\ u.img.format = "BW1"
             THEN HoleCleanup(u.img, p.hole_cleanup.sets[PageSet(n, p.odd_even_mode)])
             ELSE u.img
    BY CleaningImages
  <2>5. DespeckleStep(u, p).img
           = IF p.despeckle.mode # "none" /\ u.img.format = "BW1"
             THEN Despeckle(u.img, p.despeckle) ELSE u.img
    BY CleaningImages
  <2>6. u.img = img
    OBVIOUS
  <2>. QED  BY <2>1, <2>2, <2>3, <2>4, <2>5, <2>6
<1> HIDE DEF turned, dropped, deskewed, filled, spotless
<1>6. ASSUME st.bounds = u.bounds
      PROVE  MarginStep(CanvasStep(st, p), p, n).img = MarginStep(CanvasStep(u, p), p, n).img
  <2>1. Positioned(st, p, n) = Positioned(u, p, n)
    BY <1>6 DEF Positioned
  <2>. QED  BY <2>1, MarginImages
<1>. QED  BY <1>1, <1>2, <1>6

LEMMA AloneStarts ==
  ASSUME NEW img, Sheet(img), NEW p \in ProcessingProfile
  PROVE  Page(Started(img, p)) /\ Started(img, p).img = img
<1>1. WithDpi(img, p) = img
  BY WithDpiSheet DEF Sheet
<1>2. Page(NoWork)
  BY DEF NoWork, Page, Members
<1>3. Started(img, p) = [NoWork EXCEPT !.img = img]
  BY <1>1 DEF Started
<1>. QED  BY <1>2, <1>3, ImageReplaced

\* A step run alone on the image of the page in work.
LEMMA RunAloneImages ==
  ASSUME NEW st, Page(st), Sheet(st.img), NEW p \in ProcessingProfile, NEW n
  PROVE  /\ RunStep(st.img, p, "rotate", n).img = RotateStep(st, p).img
         /\ RunStep(st.img, p, "color_dropout", n).img = DropoutStep(st, p).img
         /\ RunStep(st.img, p, "deskew", n).img = DeskewStep(st, p).img
         /\ RunStep(st.img, p, "hole_cleanup", n).img = HoleStep(st, p, n).img
         /\ RunStep(st.img, p, "despeckle", n).img = DespeckleStep(st, p).img
         /\ st.bounds = ContentOf(st.img, p) =>
              RunStep(st.img, p, "margins", n).img = MarginStep(CanvasStep(st, p), p, n).img
<1> DEFINE u == Started(st.img, p)
           found == WholeIfEmpty([u EXCEPT !.bounds = DetectSubimage(u.img, p.subimage).bounds])
           dropped == DropoutStep(u, p)
<1>1. ~IsEmptyImage(st.img)
  BY DEF Sheet
<1>2. Page(u) /\ u.img = st.img
  BY AloneStarts
<1>3. /\ RunStep(st.img, p, "rotate", n) = RotateStep(u, p)
      /\ RunStep(st.img, p, "color_dropout", n)
           = IF dropped = u THEN Logged(u, "color_dropout", FALSE) ELSE dropped
      /\ RunStep(st.img, p, "deskew", n) = DeskewStep(u, p)
      /\ RunStep(st.img, p, "hole_cleanup", n) = HoleStep(u, p, n)
      /\ RunStep(st.img, p, "despeckle", n) = DespeckleStep(u, p)
      /\ RunStep(st.img, p, "margins", n) = MarginStep(CanvasStep(found, p), p, n)
  BY <1>1 DEF RunStep
<1>4. found.img = u.img /\ found.bounds = ContentOf(u.img, p) /\ Page(found)
  BY <1>2, DetectingImages
<1> HIDE DEF u, found, dropped
<1>5. RunStep(st.img, p, "color_dropout", n).img = DropoutStep(st, p).img
  <2>1. Logged(u, "color_dropout", FALSE).img = u.img
    BY <1>2 DEF Page, Members, Logged
  <2>2. RunStep(st.img, p, "color_dropout", n).img = dropped.img
    BY <1>3, <2>1
  <2>. QED  BY <1>2, <2>2, SameImages DEF dropped
<1>6. st.bounds = ContentOf(st.img, p) =>
        RunStep(st.img, p, "margins", n).img = MarginStep(CanvasStep(st, p), p, n).img
  BY <1>2, <1>3, <1>4, SameImages
<1>7. /\ RunStep(st.img, p, "rotate", n).img = RotateStep(st, p).img
      /\ RunStep(st.img, p, "deskew", n).img = DeskewStep(st, p).img
      /\ RunStep(st.img, p, "hole_cleanup", n).img = HoleStep(st, p, n).img
      /\ RunStep(st.img, p, "despeckle", n).img = DespeckleStep(st, p).img
  BY <1>2, <1>3, SameImages
<1>. QED  BY <1>5, <1>6, <1>7

\* Where the page in work goes from a step of the pipeline.
LEMMA StepsTaken ==
  ASSUME [Next]_vars, pc # "idle", pc # "done", pc' # "idle"
  PROVE  RunPipeline \/ UNCHANGED vars
BY DEF Next, NextPage, CountPage, RefuseFile, WriteFile, Concluding, WriteGoodList,
       WriteExceptionList, WriteList, Kill, Done

-----------------------------------------------------------------------------
(* The theorems about the page.                                            *)

LEMMA PageInvariant == Spec => [](ControlOK /\ PictureInv /\ DirOK)
<1>1. Init => ControlOK /\ PictureInv /\ DirOK
  BY ControlInit, PictureInit, DirInit
<1>2. ControlOK /\ PictureInv /\ DirOK /\ [Next]_vars => (ControlOK /\ PictureInv /\ DirOK)'
  BY ControlNext, PictureNext, DirNext
<1>. QED  BY <1>1, <1>2, PTL DEF Spec

\* The page in work is an image whatever the steps do to it: its ink is on it and
\* its tint is ink; an output is whole exactly when it holds a page.
THEOREM PagesTyped == Spec => []PagesTypeOK
<1>1. ASSUME ControlOK, PictureInv, DirOK  PROVE PagesTypeOK
  <2>1. /\ work.img.ink \subseteq RectPixels(FullRect(work.img))
        /\ work.img.tint \subseteq work.img.ink /\ work.img.format \in Formats
    BY <1>1, ImageShape DEF PictureInv, PictureOK
  <2>. QED  BY <1>1, <2>1 DEF ControlOK, DirOK, PagesTypeOK
<1>. QED  BY <1>1, PageInvariant, PTL

\* On every page that is about to be turned, opening only removes and is
\* idempotent, closing keeps what is away from the border, and turns compose.
THEOREM MorphologyHolds == Spec => []MorphologyLaws
<1>1. ASSUME PictureInv  PROVE MorphologyLaws
  <2> DEFINE img == work.img
             inner == RectPixels(Rect(1, 1, img.w - 1, img.h - 1))
  <2>1. IsImage(img)
    BY <1>1 DEF PictureInv, PictureOK
  <2> HIDE DEF img
  <2>2. /\ RotateCCW90(RotateCW90(img)) = img
        /\ Rotate180(img) = RotateCW90(RotateCW90(img))
    BY <2>1, TurnsCompose
  <2>3. ASSUME NEW e
        PROVE  LET opened == MorphOpen(img, e, 1)
               IN  /\ opened.ink \subseteq img.ink
                   /\ MorphOpen(opened, e, 1) = opened
                   /\ img.format = "BW1" => img.ink \cap inner \subseteq MorphClose(img, e, 1).ink
    <3>1. CASE img.format = "BW1"
      <4>1. /\ MorphOpen(img, e, 1) = Opened(img, e)
            /\ MorphOpen(Opened(img, e), e, 1) = Opened(Opened(img, e), e)
            /\ MorphClose(img, e, 1) = ErodeOnce(DilateOnce(img, e), e)
        BY <3>1, RoundsOfPages
      <4>2. /\ Opened(img, e).ink \subseteq img.ink
            /\ Opened(Opened(img, e), e) = Opened(img, e)
        BY <2>1, OpeningRemoves
      <4>3. img.ink \cap inner \subseteq ErodeOnce(DilateOnce(img, e), e).ink
        BY <2>1, ClosingKeeps
      <4>. QED  BY <4>1, <4>2, <4>3
    <3>2. CASE img.format # "BW1"
      <4>1. MorphOpen(img, e, 1) = img
        BY <3>2, RoundsOfPages
      <4>. QED  BY <3>2, <4>1
    <3>. QED  BY <3>1, <3>2
  <2>. QED  BY <2>2, <2>3 DEF MorphologyLaws, img
<1>. QED  BY <1>1, PageInvariant, PTL

\* The detected content arrives whole where the result says, for any margins, any
\* movement limit and any canvas, unless one of the two places leaves the canvas.
THEOREM ContentFound == Spec => []ContentArrives
<1>1. PictureInv => ContentArrives
  BY DEF PictureInv
<1>. QED  BY <1>1, PageInvariant, PTL

\* For any profile hole cleanup removes only what lies in the strips, although it
\* clears the boxes of components, and edge cleanup removes all that does.
THEOREM CleanupInStrips == Spec => [][CleanupConfined]_vars
<1> DEFINE removed == work.img.ink \ work'.img.ink
           Holes == pc = "hole_cleanup" /\ pc' # "idle" =>
                      removed \subseteq StripPixels(profile.hole_cleanup.sets)
           Borders == pc \in {"edges_before", "edges_after"} /\ pc' # "idle" /\ removed # {} =>
                        removed = work.img.ink \cap StripPixels(profile.edge_cleanup.sets)
<1>1. ASSUME ControlOK, PictureInv, [Next]_vars  PROVE Holes
  <2> DEFINE edges == profile.hole_cleanup.sets[PageSet(page, profile.odd_even_mode)]
  <2>1. SUFFICES ASSUME pc = "hole_cleanup", pc' # "idle", work' # work
                 PROVE  removed \subseteq StripPixels(profile.hole_cleanup.sets)
    OBVIOUS
  <2>2. work' = HoleStep(work, profile, page)
    BY <1>1, <2>1, StepsTaken
       DEF vars, pageVars, RunPipeline, Rotating, Dropping, CleaningEdgesFirst, Deskewing,
           CleaningHoles, Despeckling, CleaningEdgesLast, Detecting, LookingBlank, Positioning,
           Limiting, Resizing, Step
  <2>3. Page(work) /\ IsImage(work.img) /\ profile \in ProcessingProfile
    BY <1>1, ProfileTyped DEF ControlOK, PictureInv, PictureOK
  <2>4. work'.img = work.img \/ work'.img = HoleCleanup(work.img, edges)
    BY <2>2, <2>3, CleaningImages
  <2>5. /\ edges.top \in Measurement /\ edges.bottom \in Measurement
        /\ edges.left \in Measurement /\ edges.right \in Measurement
    <3>1. profile.hole_cleanup.sets \in EdgeValues \X EdgeValues
      BY <2>3 DEF ProcessingProfile, HoleCleanupConfig, EdgeSets
    <3>2. PageSet(page, profile.odd_even_mode) \in {1, 2}
      BY DEF PageSet
    <3>3. edges \in EdgeValues
      BY <3>1, <3>2
    <3>. QED  BY <3>3 DEF EdgeValues
  <2>6. StripPixels(profile.hole_cleanup.sets)
          = UNION { RectPixels(s) : s \in Strips(work.img, EdgePixels(edges, work.img.dpi)) }
    BY DEF StripPixels
  <2> HIDE DEF edges
  <2>7. work.img.ink \ HoleCleanup(work.img, edges).ink \subseteq StripPixels(profile.hole_cleanup.sets)
    BY <2>3, <2>5, <2>6, HolesInStrips
  <2>. QED  BY <2>4, <2>7
<1>2. ASSUME ControlOK, PictureInv, [Next]_vars  PROVE Borders
  <2> DEFINE edges == profile.edge_cleanup.sets[PageSet(page, profile.odd_even_mode)]
             strips == Strips(work.img, EdgePixels(edges, work.img.dpi))
  <2>1. SUFFICES ASSUME pc \in {"edges_before", "edges_after"}, pc' # "idle", removed # {}
                 PROVE  removed = work.img.ink \cap StripPixels(profile.edge_cleanup.sets)
    OBVIOUS
  <2>2. work' = EdgeStep(work, profile, page)
    BY <1>2, <2>1, StepsTaken
       DEF vars, pageVars, RunPipeline, Rotating, Dropping, CleaningEdgesFirst, Deskewing,
           CleaningHoles, Despeckling, CleaningEdgesLast, Detecting, LookingBlank, Positioning,
           Limiting, Resizing, Step
  <2>3. Page(work) /\ IsImage(work.img)
    BY <1>2 DEF ControlOK, PictureInv, PictureOK
  <2>4. work'.img = work.img \/ work'.img = EdgeCleanup(work.img, edges)
    BY <2>2, <2>3, CleaningImages
  <2>5. work'.img = Cleared(work.img, strips)
    BY <2>1, <2>4 DEF EdgeCleanup
  <2>6. StripPixels(profile.edge_cleanup.sets) = UNION { RectPixels(s) : s \in strips }
    BY DEF StripPixels
  <2> HIDE DEF edges, strips
  <2>7. work'.img.ink = work.img.ink \ UNION { RectPixels(s) : s \in strips }
    BY <2>3, <2>5, ClearedTyped
  <2>. QED  BY <2>6, <2>7
<1> HIDE DEF removed, Holes, Borders
<1>3. ASSUME ControlOK, PictureInv, [Next]_vars  PROVE CleanupConfined
  BY <1>1, <1>2, <1>3 DEF CleanupConfined, removed, Holes, Borders
<1>. QED  BY <1>3, PageInvariant, PTL DEF Spec

\* run_step, which knows only the image it is given, makes of it what the pipeline
\* makes of the page at that step, for any profile and any page.
THEOREM AloneAgrees == Spec => [][StepsAgree]_vars
<1>1. ASSUME ControlOK, PictureInv, [Next]_vars
      PROVE  [StepsAgree]_vars
  <2>1. SUFFICES ASSUME pc \in RunAlone, pc' # "idle", ~UNCHANGED vars
                 PROVE  RunStep(work.img, profile, pc, page).img = work'.img
    BY Zenon DEF StepsAgree
  <2>2. RunPipeline
    BY <1>1, <2>1, StepsTaken DEF RunAlone
  <2>3. /\ Page(work) /\ Sheet(work.img) /\ profile \in ProcessingProfile
        /\ pc = "margins" => work.bounds = ContentOf(work.img, profile)
    BY <1>1, <2>1, ProfileTyped DEF ControlOK, PictureInv, PictureOK, RunAlone, Early
  <2>4. /\ RunStep(work.img, profile, "rotate", page).img = RotateStep(work, profile).img
        /\ RunStep(work.img, profile, "color_dropout", page).img = DropoutStep(work, profile).img
        /\ RunStep(work.img, profile, "deskew", page).img = DeskewStep(work, profile).img
        /\ RunStep(work.img, profile, "hole_cleanup", page).img
             = HoleStep(work, profile, page).img
        /\ RunStep(work.img, profile, "despeckle", page).img = DespeckleStep(work, profile).img
        /\ work.bounds = ContentOf(work.img, profile) =>
             RunStep(work.img, profile, "margins", page).img
               = MarginStep(CanvasStep(work, profile), profile, page).img
    BY <2>3, RunAloneImages
  <2>5. \/ pc = "rotate" /\ work' = RotateStep(work, profile)
        \/ pc = "color_dropout" /\ work' = DropoutStep(work, profile)
        \/ pc = "deskew" /\ work' = DeskewStep(work, profile)
        \/ pc = "hole_cleanup" /\ work' = HoleStep(work, profile, page)
        \/ pc = "despeckle" /\ work' = DespeckleStep(work, profile)
        \/ pc = "margins" /\ work' = MarginStep(CanvasStep(work, profile), profile, page)
    BY <2>1, <2>2
       DEF RunAlone, RunPipeline, Rotating, Dropping, CleaningEdgesFirst, Deskewing,
           CleaningHoles, Despeckling, CleaningEdgesLast, Detecting, LookingBlank, Positioning,
           Limiting, Resizing, Step
  <2>. QED  BY <2>3, <2>4, <2>5
<1>. QED  BY <1>1, PageInvariant, PTL DEF Spec

\* A step of the pipeline cleans only where it should, and is the same alone.
THEOREM StepsTrue == Spec => StepsExact
<1>1. [CleanupConfined]_vars /\ [StepsAgree]_vars => [CleanupConfined /\ StepsAgree]_vars
  OBVIOUS
<1>. QED  BY <1>1, CleanupInStrips, AloneAgrees, PTL DEF StepsExact
=============================================================================
