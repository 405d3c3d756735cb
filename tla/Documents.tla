------------------------------ MODULE Documents ------------------------------
(***************************************************************************)
(* A file of the program's own formats: profiles and job lists as JSON,    *)
(* pages as TIFF, BMP or PDF, strips under each compression, and policy    *)
(* files.  A document is written in place of what the file held, and read  *)
(* back; a write may be cut short by a full disk or the end of the process.*)
(***************************************************************************)
EXTENDS JsonText, PdfFile, PolicyText

CONSTANTS
    Docs,          \* what may be saved first
    Again,         \* what may be saved over it
    Cuts(_, _)     \* of a document and its content: where a write may stop

VARIABLES
    disk,     \* the file: the document it was written from, its content, and
              \* whether that is cut
    report,   \* what the last save returned
    got       \* what the last load returned, as a sequence of one result

vars == <<disk, report, got>>

NoFile == [exists |-> FALSE]

---------------------------------------------------------------------------
(* Documents: [kind, v] with the options of the kind *)

Dialect(kind) == IF kind = "jobs" THEN "job" ELSE "profile"

\* a text may hold a member its reader does not know, put in by another hand
WithMember(text, extra) ==
    IF extra = <<>> THEN text
    ELSE <<text[1], <<"string", <<"unknown">>>>, <<":">>>> \o extra \o <<<<",">>>> \o Tail(text)

Content(doc) ==
    CASE doc.kind = "profile" -> WithMember(Write("profile", "profile", doc.v), doc.extra)
      [] doc.kind = "jobs" -> Write("job", "jobs", doc.v)
      [] doc.kind = "job" -> WithMember(Write("job", "job_record", doc.v), doc.extra)
      [] doc.kind = "tiff" /\ Len(doc.v) = 1 -> BuildTiff(doc.v[1], doc.options)
      [] doc.kind = "tiff" -> MultiPage(doc.v, doc.options)
      [] doc.kind = "bmp" -> WriteBmp(doc.v[1], <<PerInch(0), PerInch(0)>>)
      [] doc.kind = "pdf" -> WriteMultipagePdf(doc.v)
      [] doc.kind = "packbits" -> PackBitsEncode(doc.v)
      [] doc.kind = "lzw" -> LzwEncode(doc.v)
      [] doc.kind = "policy" -> doc.v

\* what is there of a cut file; the table of a PDF comes last
Prefix(doc, content, n) ==
    CASE doc.kind \in {"tiff", "bmp"} -> [content EXCEPT !.size = n]
      [] doc.kind = "pdf" ->
           [content EXCEPT !.at = [o \in { x \in DOMAIN @ : x < n } |-> @[o]], !.xref = <<>>]
      [] OTHER -> SubSeq(content, 1, n)

\* a sequence of one result
Loaded(doc, content) ==
    CASE doc.kind = "profile" -> Read("profile", "profile", content)
      [] doc.kind = "jobs" -> Read("job", "jobs", content)
      [] doc.kind = "job" -> Read("job", "job_record", content)
      [] doc.kind = "tiff" ->
           <<[page \in 1 .. Len(Structure(content)) |-> ReadTiffImage(content, page)]>>
      [] doc.kind = "bmp" -> <<ReadBmp(content)>>
      [] doc.kind = "pdf" -> <<content>>
      [] doc.kind = "packbits" -> <<PackBitsDecode(content, Len(doc.v))>>
      [] doc.kind = "lzw" -> <<LzwDecode(content, Len(doc.v))>>
      [] doc.kind = "policy" -> <<LoadPolicyStack(content)>>

\* what the program writes of these: strips are parts of a file, policies are
\* written by hand
Written == {"profile", "jobs", "job", "tiff", "bmp", "pdf"}

\* the writers that flush before they look at the stream: the others, and the
\* file repository that does not look at all, may report a write that the disk
\* then refuses
Flushed == {"profile", "jobs", "pdf"}

\* write_output refuses a page where there is a file, if it is to report it
Refused(doc) == doc.kind \in {"tiff", "bmp", "pdf"} /\ disk.exists /\ doc.conflict = "Report"

---------------------------------------------------------------------------
(* Actions *)

Init == disk = NoFile /\ report = FALSE /\ got = <<>>

\* what a save leaves does not depend on what was there: to bound the states,
\* only the documents of Again are saved over, and only with each other
Candidates ==
    CASE ~disk.exists -> Docs
      [] disk.exists /\ disk.doc \in Again -> Again
      [] OTHER -> {}

Hold(doc, content, cut) ==
    disk' = [exists |-> TRUE, doc |-> doc, content |-> content, cut |-> cut]

Save(doc) ==
    /\ doc \in Candidates
    /\ ~Refused(doc)
    /\ Hold(doc, Content(doc), FALSE)
    /\ report' = TRUE
    /\ got' = <<>>

Refuse(doc) ==
    /\ doc \in Candidates
    /\ Refused(doc)
    /\ report' = FALSE
    /\ got' = <<>>
    /\ UNCHANGED disk

SaveCut(doc) ==
    /\ doc \in Candidates
    /\ doc.kind \in Written
    /\ disk.exists => ~disk.cut
    /\ ~Refused(doc)
    /\ \E content \in {Content(doc)} :
         \E n \in Cuts(doc, content) : Hold(doc, Prefix(doc, content, n), TRUE)
    /\ report' \in (IF doc.kind \in Flushed THEN {FALSE} ELSE BOOLEAN)
    /\ got' = <<>>

Load ==
    /\ disk.exists
    /\ got = <<>>
    /\ got' = <<[result |-> Loaded(disk.doc, disk.content)]>>
    /\ UNCHANGED <<disk, report>>

Next == (\E doc \in Candidates : Save(doc) \/ Refuse(doc) \/ SaveCut(doc)) \/ Load

Spec == Init /\ [][Next]_vars

---------------------------------------------------------------------------
(* Properties *)

IsRead(kinds) == disk.exists /\ disk.doc.kind \in kinds /\ got # <<>>
Result == got[1].result

\* resolutions: within 1/78 dpi; whole, and what is left of the other one without
\* its fraction
Abs(n) == IF n < 0 THEN -n ELSE n
Near(a, b) == 78 * Abs(a[1] * b[2] - b[1] * a[2]) < a[2] * b[2]
IsWholePart(a, b) == a[2] = 1 /\ a[1] * b[2] <= b[1] /\ b[1] < (a[1] + 1) * b[2]
SamePage(read, p) == [read EXCEPT !.dpi = p.dpi] = p

\* PackBits gives back every strip; LZW gives back a strip if and only if the
\* writer's codes are as wide throughout as those the reader expects
CodecsExact ==
    /\ IsRead({"packbits"}) => Result = <<disk.doc.v>>
    /\ IsRead({"lzw"}) => (Result = <<disk.doc.v>> <=> ~LzwOutOfStep(disk.doc.v))

\* A whole file of pages is read back page by page: every page of a TIFF whose
\* compression and photometric interpretation the two sides agree on, with the
\* whole dots per inch of its resolution, whatever the pages before it; the page
\* of a BMP, at 96 dpi if it had no resolution, to half a pixel per metre, which
\* is less than 1/78 dpi; and in a PDF every object is where the table says
PagesReadBack ==
    LET pages == SelectSeq(disk.doc.v, LAMBDA p : ~IsNothing(p))
        p == disk.doc.v[1]
    IN  /\ IsRead({"tiff"}) /\ ~disk.cut =>
             /\ Len(Result[1]) = Len(pages)
             /\ \A i \in DOMAIN pages :
                  ReadsBack(pages[i], disk.doc.options) =>
                    /\ SamePage(Result[1][i], pages[i])
                    /\ \A k \in 1 .. 2 : IsWholePart(Result[1][i].dpi[k], pages[i].dpi[k])
        /\ IsRead({"bmp"}) /\ ~disk.cut =>
             /\ SamePage(Result[1], p)
             /\ \A k \in 1 .. 2 : Near(Result[1].dpi[k], Assumed(p.dpi[k]))
        /\ IsRead({"pdf"}) /\ ~disk.cut => PdfFinds(disk.content, disk.doc.v)

\* A profile and a list of jobs come back as they were, doubles to six digits
\* and times to the microsecond, also when there is a member the reader does
\* not know (a job's reader refuses one that is a fraction); a profile that
\* holds a control character without a short escape is refused, never changed.
\* A stack of policies says what all its lines in their order say.
TextReadsBack ==
    /\ IsRead({"profile"}) /\ ~disk.cut =>
         Result = IF Controlled("profile", disk.doc.v) THEN Nothing
                  ELSE <<Kept("profile", disk.doc.v)>>
    /\ IsRead({"jobs"}) /\ ~disk.cut => Result = <<Kept("jobs", disk.doc.v)>>
    /\ IsRead({"job"}) /\ ~disk.cut =>
         Result = IF \E i \in DOMAIN disk.doc.extra :
                       disk.doc.extra[i][1] = "number" /\ disk.doc.extra[i][2] % Unit # 0
                  THEN Nothing ELSE <<Kept("job_record", disk.doc.v)>>
    /\ IsRead({"policy"}) =>
         LET files == FoldLeft(LAMBDA all, s : all \o FilesOf(s), <<>>, disk.doc.v)
         IN  Result = <<ParsePolicyStream(FoldLeft(LAMBDA lines, f : lines \o f.lines,
                                                   <<>>, files))>>

\* A file whose writing was cut never passes for another document: a text or
\* a bitmap is refused, of a TIFF no page is read or those that are read have
\* the pixels they had.  A text or a PDF that was cut is reported.
TornNeverWhole ==
    /\ disk.exists /\ disk.cut /\ report => disk.doc.kind \notin Flushed
    /\ IsRead({"profile", "jobs", "job"}) /\ disk.cut => Result = Nothing
    /\ IsRead({"bmp"}) /\ disk.cut => IsNothing(Result[1])
    /\ IsRead({"tiff"}) /\ disk.cut =>
         LET pages == SelectSeq(disk.doc.v, LAMBDA p : ~IsNothing(p))
         IN  \A i \in DOMAIN Result[1] :
               \/ IsNothing(Result[1][i])
               \/ ~ReadsBack(pages[i], disk.doc.options)
               \/ Result[1][i].rows = pages[i].rows

\* what write_output puts out for a page is read back as that page, but for the
\* fraction of its resolution
OutputReadsBack ==
    IsRead({"tiff"}) /\ Len(disk.doc.v) = 1 /\ ~disk.cut => SamePage(Result[1][1], disk.doc.v[1])
=============================================================================
