----------------------------- MODULE PageBatch ------------------------------
(***************************************************************************)
(* The two callers of the page pipeline: run_batch, the library's loop     *)
(* over images with a progress callback that may cancel it, and ppp_batch, *)
(* the tool that processes the files of a directory, writes the pages to   *)
(* an output directory and ends with a list of good files and a list of    *)
(* exceptions.  The tool may be killed and started again; the disk may     *)
(* refuse a write after some of it, and also once the writer has reported  *)
(* that it is done.                                                        *)
(***************************************************************************)
EXTENDS Pipeline

CONSTANTS
    Jobs,         \* the batches: [images, profile, overwrite, exists]
    MaxCrashes,   \* bound: how often the tool is killed
    MaxFaults     \* bound: how many writes fail

ASSUME JobsAssumption ==
    \A b \in Jobs : /\ Len(b.images) \in Nat /\ DOMAIN b.images = 1 .. Len(b.images)
                    /\ b.exists \subseteq DOMAIN b.images
                    /\ \A k \in DOMAIN b.images : IsImage(b.images[k])
                    /\ b.profile \in ProcessingProfile

VARIABLES
    caller,      \* "run_batch", "ppp_batch", "listing" (between its lists) or "stopped"
    job,         \* the batch at work, a member of Jobs
    results,     \* the results so far, in order
    batch,       \* BatchResult of run_batch
    dir,         \* file index -> its output: absent, old, torn, unflushed or a whole page
    lists,       \* the files of the good and of the exception list, with the run they are of
    crashes, faults

callerVars == <<caller, job, results, batch, dir, lists, crashes, faults>>
vars == <<pageVars, callerVars>>

NoError == "none"
Output(state, image) == [state |-> state, image |-> image]
Absent == Output("absent", NoImage)
Torn == Output("torn", NoImage)
\* torn as well, by a writer that reported the page as written
Unflushed == Output("unflushed", NoImage)
List(state, files, run) == [state |-> state, files |-> files, run |-> run]
NoLists == [good |-> List("absent", {}, 0), exceptions |-> List("absent", {}, 0)]
NoBatch == [succeeded |-> 0, failed |-> 0, blank |-> 0, success |-> TRUE, error |-> <<>>]

Files == DOMAIN job.images
Current == Len(results) + 1

\* ppp_batch runs every file as page 0
PageIndex == IF caller = "run_batch" THEN Current - 1 ELSE 0

Init ==
    /\ job \in Jobs
    /\ caller \in {"run_batch", "ppp_batch"}
    /\ profile = job.profile /\ page = 0 /\ pc = "idle" /\ work = NoWork
    /\ results = <<>> /\ batch = NoBatch /\ lists = NoLists
    /\ dir = [f \in Files |-> IF f \in job.exists THEN Output("old", NoImage) ELSE Absent]
    /\ crashes = 0 /\ faults = 0

NextPage ==
    /\ pc = "idle" /\ caller # "stopped" /\ Current \in Files
    /\ Begin(job.images[Current], job.profile, PageIndex)
    /\ UNCHANGED callerVars

---------------------------------------------------------------------------
(* run_batch *)

\* mutant: a later error replaces the first
CountPageLastError(goOn) ==
    /\ caller = "run_batch" /\ pc = "done"
    /\ pc' = "idle"
    /\ results' = Append(results, work)
    /\ batch' = [batch EXCEPT
                   !.succeeded = IF work.success THEN @ + 1 ELSE @,
                   !.failed = IF work.success THEN @ ELSE @ + 1,
                   !.blank = IF work.blank THEN @ + 1 ELSE @,
                   !.error = IF ~goOn THEN <<"cancelled", Current - 1>>
                             ELSE IF work.success THEN @ ELSE <<"page", Current - 1>>,
                   !.success = @ /\ work.success /\ goOn]
    /\ caller' = IF goOn /\ Current < Len(job.images) THEN caller ELSE "stopped"
    /\ UNCHANGED <<profile, page, work, job, dir, lists, crashes, faults>>

\* the counters, the first error and, when the callback says stop, the
\* cancellation in its place
CountPage(goOn) ==
    LET n == Current - 1
        counted ==
            [batch EXCEPT
                !.succeeded = IF work.success THEN @ + 1 ELSE @,
                !.failed = IF work.success THEN @ ELSE @ + 1,
                !.blank = IF work.blank THEN @ + 1 ELSE @,
                !.error = IF ~work.success /\ @ = <<>> THEN <<"page", n>> ELSE @,
                !.success = @ /\ work.success]
    IN  /\ caller = "run_batch" /\ pc = "done"
        /\ pc' = "idle"
        /\ results' = Append(results, work)
        /\ batch' = IF goOn THEN counted
                    ELSE [counted EXCEPT !.error = <<"cancelled", n>>, !.success = FALSE]
        /\ caller' = IF goOn /\ Current < Len(job.images) THEN caller ELSE "stopped"
        /\ UNCHANGED <<profile, page, work, job, dir, lists, crashes, faults>>

\* the pages worth keeping; their images are returned in the pages' order
CollectImages(pages, includeBlank) ==
    { k \in DOMAIN pages :
        pages[k].success /\ (includeBlank \/ ~pages[k].blank) /\ ~IsEmptyImage(pages[k].img) }

---------------------------------------------------------------------------
(* ppp_batch.  A file that cannot be read is an empty image, and its page    *)
(* is done before it began.                                                *)

Report(f, error, content) ==
    /\ pc' = "idle"
    /\ results' = Append(results, [file |-> f, success |-> error = NoError, error |-> error])
    /\ dir' = [dir EXCEPT ![f] = content]
    /\ UNCHANGED <<profile, page, work, caller, job, batch, lists, crashes>>

Concluding == caller = "ppp_batch" /\ pc = "done"
Conflict(f) == dir[f] # Absent /\ ~job.overwrite

\* the file is unreadable, its page failed, or its output is there already
RefuseFile ==
    LET f == Current
    IN  /\ Concluding
        /\ ~work.success \/ Conflict(f)
        /\ Report(f, IF work.success THEN "exists" ELSE "failed", dir[f])
        /\ UNCHANGED faults

\* mutant: the result of the write is not looked at
WriteFileUnchecked(ok) ==
    LET f == Current
    IN  /\ Concluding
        /\ work.success /\ ~Conflict(f)
        /\ Report(f, NoError, IF IsEmptyImage(work.img) THEN dir[f]
                              ELSE IF ok THEN Output("whole", work.img) ELSE Torn)
        /\ faults' = IF ok THEN faults ELSE faults + 1
        /\ faults' <= MaxFaults

\* No step applied: the original is copied; otherwise the page is written, in
\* place, by write_tiff or write_bmp.  A write that fails leaves what was there,
\* if it could not begin, or a part of the file; the writers look at the stream
\* before it is flushed, so that they may report the page they left in part.
WriteFile(ok) ==
    LET f == Current
        applied == \E k \in DOMAIN work.steps : work.steps[k].applied
        output == IF applied THEN work.img ELSE job.images[f]
    IN  /\ Concluding
        /\ work.success /\ ~Conflict(f)
        /\ IF IsEmptyImage(output) THEN ok /\ Report(f, "empty", dir[f])
           ELSE IF ok THEN Report(f, NoError, Output("whole", output))
           ELSE \/ \E left \in {dir[f], Torn} : Report(f, "write", left)
                \/ applied /\ Report(f, NoError, Unflushed)
        /\ faults' = IF ok THEN faults ELSE faults + 1
        /\ faults' <= MaxFaults

\* A list is written in place; one that fails is warned of and nothing more, and
\* leaves what was there, if it cannot be opened, or a part of it.
Leave(which, list) == lists' = [lists EXCEPT ![which] = list]
WriteList(which, files) ==
    /\ pc = "idle"
    /\ \/ Leave(which, List("whole", files, crashes)) /\ UNCHANGED faults
       \/ /\ faults < MaxFaults /\ faults' = faults + 1
          /\ \/ UNCHANGED lists
             \/ Leave(which, List("torn", {}, crashes))
    /\ UNCHANGED <<pageVars, job, results, batch, dir, crashes>>

\* after the last file
WriteGoodList ==
    /\ caller = "ppp_batch" /\ Current \notin Files
    /\ caller' = "listing"
    /\ WriteList("good", { results[k].file : k \in {i \in Files : results[i].success} })

WriteExceptionList ==
    /\ caller = "listing"
    /\ caller' = "stopped"
    /\ WriteList("exceptions", { results[k].file : k \in {i \in Files : ~results[i].success} })

\* killed between or during two writes, and started again on the same
\* directories: a write under way leaves a part of the file
Kill ==
    /\ caller \in {"ppp_batch", "listing"} /\ crashes < MaxCrashes
    /\ crashes' = crashes + 1
    /\ caller' = "ppp_batch"
    /\ results' = <<>> /\ pc' = "idle" /\ work' = NoWork
    /\ \/ UNCHANGED <<dir, lists>>
       \/ /\ Concluding /\ work.success /\ ~Conflict(Current)
          /\ dir' = [dir EXCEPT ![Current] = Torn]
          /\ UNCHANGED lists
       \/ /\ pc = "idle" /\ Current \notin Files
          /\ Leave(IF caller = "listing" THEN "exceptions" ELSE "good", List("torn", {}, crashes))
          /\ UNCHANGED dir
    /\ UNCHANGED <<profile, page, job, batch, faults>>

Done == caller = "stopped" /\ UNCHANGED vars

Next ==
    \/ NextPage
    \/ RunPipeline /\ UNCHANGED callerVars
    \/ \E goOn \in BOOLEAN : CountPage(goOn)
    \/ RefuseFile
    \/ \E ok \in BOOLEAN : WriteFile(ok)
    \/ WriteGoodList
    \/ WriteExceptionList
    \/ Kill
    \/ Done

Spec == Init /\ [][Next]_vars

---------------------------------------------------------------------------
(* Properties *)

\* One type invariant for the page in work and its callers.
PagesTypeOK ==
    /\ work.img.ink \subseteq RectPixels(FullRect(work.img))
    /\ work.img.tint \subseteq work.img.ink
    /\ work.img.format \in Formats
    /\ caller \in {"run_batch", "ppp_batch", "listing", "stopped"}
    /\ Len(results) <= Len(job.images)
    /\ \A f \in Files : dir[f].state \in {"absent", "old", "torn", "unflushed", "whole"}
    /\ \A f \in Files : dir[f].state = "whole" <=> ~IsEmptyImage(dir[f].image)

\* The one-pass labelling of spans (find_components: the window of the
\* previous row, the early exit, the clipping to a region) finds exactly the
\* connected components of the pixels, for both connectivities and in a
\* region; band_rects groups the boxes it finds by overlap; and single-pixel
\* despeckle, which clears the boxes of components, removes the isolated pixels
\* and only those.
ComponentsExact ==
    /\ pc \in {"rotate", "detect_subimage"} =>
        LET ink == work.img.ink
            spans == SpansFromBitmap(ink)
            full == FullRect(work.img)
            part == Rect(1, 0, work.img.w, work.img.h - 1)
            found == FindComponents(spans, full, 4)
            boxes == [k \in DOMAIN found |-> found[k].bounds]
        IN  /\ AreComponentsOf(found, ink, 4)
            /\ AreComponentsOf(FindComponents(spans, full, 8), ink, 8)
            /\ AreComponentsOf(FindComponents(spans, part, 4), ink \cap RectPixels(part), 4)
            /\ \A d \in {"horizontal", "vertical"} : AreBandsOf(BandRects(boxes, d), boxes, d)
    /\ pc = "despeckle" /\ profile.despeckle.mode = "single_pixel" /\ work.img.format = "BW1" =>
        LET ink == work.img.ink
        IN  ink \ Despeckle(work.img, profile.despeckle).ink
              = { p \in ink : \A q \in ink : Neighbours(4, p, q) => p = q }

\* Opening never adds and is idempotent; closing, which erodes against the
\* border of the image, loses nothing away from the border; the quarter turns
\* undo one another and four of them are none.
MorphologyLaws ==
    pc = "rotate" =>
        LET img == work.img
            inner == RectPixels(Rect(1, 1, img.w - 1, img.h - 1))
        IN  /\ \A e \in {"cross", "square"} :
                 LET opened == MorphOpen(img, e, 1)
                 IN  /\ opened.ink \subseteq img.ink
                     /\ MorphOpen(opened, e, 1) = opened
                     /\ img.format = "BW1" =>
                          img.ink \cap inner \subseteq MorphClose(img, e, 1).ink
            /\ RotateCCW90(RotateCW90(img)) = img
            /\ Rotate180(img) = RotateCW90(RotateCW90(img))

\* the strips along the edges of the page in work, for a pair of edge sets
StripPixels(sets) ==
    LET edges == EdgePixels(sets[PageSet(page, profile.odd_even_mode)], work.img.dpi)
    IN  UNION { RectPixels(s) : s \in Strips(work.img, edges) }

\* a step removes what lies in the configured strips, some of it when it looks
\* for holes, all of it when it cleans the edges
CleanupConfined ==
    LET removed == work.img.ink \ work'.img.ink
    IN  /\ pc = "hole_cleanup" /\ pc' # "idle" =>
                removed \subseteq StripPixels(profile.hole_cleanup.sets)
        /\ pc \in {"edges_before", "edges_after"} /\ pc' # "idle" /\ removed # {} =>
                removed = work.img.ink \cap StripPixels(profile.edge_cleanup.sets)

\* the steps of the pipeline that run_step knows under the same name
RunAlone == {"rotate", "color_dropout", "deskew", "hole_cleanup", "despeckle", "margins"}

\* a step makes of the page what run_step makes of it
StepsAgree ==
    LET alone == RunStep(work.img, profile, pc, page)
    IN  pc \in RunAlone /\ pc' # "idle" => alone.img = work'.img

\* A step does to the page what it is asked for and nothing else: what hole
\* cleanup removes, which clears the boxes of components, lies in the configured
\* strips, and edge cleanup leaves nothing in them; and run_step, which starts
\* from an image, detects the content anew where it needs it and knows nothing of
\* the steps before, makes of the page what the pipeline's step makes of it.
StepsExact == [][CleanupConfined /\ StepsAgree]_vars

\* The detected content arrives whole at the place the result names, through
\* margins and the movement limit, unless one of the two places is not
\* entirely on the canvas.
ContentArrives ==
    pc = "resize" /\ profile.position_image /\ ~IsEmptyImage(work.img)
      /\ Inside(work.content, FullRect(work.img))
      /\ Inside(Offset(Rect(0, 0, work.cut.w, work.cut.h),
                       work.placed[1], work.placed[2]), FullRect(work.img)) =>
        LET r == work.content
        IN  Crop(work.img, r.left, r.top, Width(r), Height(r)).ink = work.cut.ink

\* Deskew does not leave a page more skewed than it was.
DeskewStraightens ==
    [][pc = "deskew" /\ pc' # "idle" /\ Last(work'.steps).applied =>
         Abs(DetectSkewAngle(work'.img, Angles, 90, NoSkew).deg)
           <= Abs(DetectSkewAngle(work.img, Angles, 90, NoSkew).deg)]_vars

\* BatchResult agrees with its pages: every page before the end or the
\* cancellation is counted once, success means none failed and none was left,
\* and the error is the cancellation or else the first failing page.
BatchAccounts ==
    batch # NoBatch =>
        LET failed == { k \in DOMAIN results : ~results[k].success }
            cancelled == batch.error # <<>> /\ batch.error[1] = "cancelled"
        IN  /\ batch.succeeded + batch.failed = Len(results)
            /\ batch.failed = Cardinality(failed)
            /\ batch.success <=> failed = {} /\ ~cancelled
            /\ caller = "stopped" /\ ~cancelled => Len(results) = Len(job.images)
            /\ ~cancelled /\ failed # {} => batch.error = <<"page", Min(failed) - 1>>
            /\ Cardinality(CollectImages(results, TRUE) \ CollectImages(results, FALSE))
                 <= batch.blank

OfThisRun(which) == lists[which].state = "whole" /\ lists[which].run = crashes

\* The lists of ppp_batch are true, through crashes, restarts and failed writes,
\* its own lists' included: the outputs of the good files are whole pages, but
\* for those whose writer reported a page that the disk then refused; without
\* --overwrite the good list of a run that came before stays true; the two
\* lists of one run share out the files; and without --overwrite an output
\* that was there is still there.
ListsTruthful ==
    /\ lists.good.state = "whole" /\ (job.overwrite => OfThisRun("good")) =>
         \A f \in lists.good.files : dir[f].state \in {"whole", "unflushed"}
    /\ OfThisRun("good") /\ OfThisRun("exceptions") =>
         /\ lists.good.files \cup lists.exceptions.files = Files
         /\ lists.good.files \cap lists.exceptions.files = {}
    /\ ~job.overwrite => \A f \in job.exists : dir[f].state = "old"
=============================================================================
