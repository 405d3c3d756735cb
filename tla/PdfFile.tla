------------------------------- MODULE PdfFile ------------------------------
(***************************************************************************)
(* The PDF writer (pdf_writer.cpp).  A document is the sequence of its     *)
(* objects as they are written and the table of their offsets, which an    *)
(* object's number indexes; lengths stand for the text.  Three objects     *)
(* come first; each page has a page, an image and a content object, whose  *)
(* numbers are given out in that order and which are written in another.   *)
(***************************************************************************)
EXTENDS BmpFile

CatalogId == 1
PagesId == 2
InfoId == 3
PageId(i) == 3 * i + 1
ImageId(i) == 3 * i + 2
ContentId(i) == 3 * i + 3

HeaderLength == 15

\* rows without padding; the alpha channel is dropped
PdfSamples(format) == IF format = "RGBA32" THEN 3 ELSE Samples[format]
WithoutAlpha(row) == SelectSeq([i \in DOMAIN row |-> <<i, row[i]>>], LAMBDA x : x[1] % 4 # 0)
GetPdfImageData(p) ==
    IF p.format = "RGBA32"
    THEN [r \in DOMAIN p.rows |-> [i \in 1 .. 3 * p.w |-> WithoutAlpha(p.rows[r])[i][2]]]
    ELSE p.rows

PdfObject(id, kind, refs, length, content) ==
    [id |-> id, kind |-> kind, refs |-> refs, length |-> length, content |-> content]

\* in points, at 72 dpi when the image has no resolution
PageSize(p) ==
    LET Dpi(i) == IF IsGiven(p.dpi[i]) THEN p.dpi[i] ELSE PerInch(72)
        Points(n, i) == << n * 72 * Dpi(i)[2], Dpi(i)[1] >>
    IN  << Points(p.w, 1), Points(Len(p.rows), 2) >>

\* page i, counted from one: image, content, page
PageObjects(p, i) ==
    << PdfObject(ImageId(i), "image", <<>>, 100 + Len(p.rows) * RowBytes(p),
                 [data |-> GetPdfImageData(p), decode |-> p.format = "BW1"]),
       PdfObject(ContentId(i), "content", <<>>, 60, PageSize(p)),
       PdfObject(PageId(i), "page", <<PagesId, ContentId(i), ImageId(i)>>, 90, PageSize(p)) >>

ObjectsOf(pictures) ==
    << PdfObject(CatalogId, "catalog", <<PagesId>>, 50, 0),
       PdfObject(PagesId, "pages", [i \in DOMAIN pictures |-> PageId(i)],
                 40 + 6 * Len(pictures), Len(pictures)),
       PdfObject(InfoId, "info", <<>>, 30, 0) >>
    \o FoldLeftDomain(LAMBDA all, i : all \o PageObjects(pictures[i], i), <<>>, pictures)

\* begin_obj notes the offset of an object under its number; xref lists the
\* offsets in the order of the numbers
BeginObj(builder, object) ==
    [length |-> builder.length + object.length,
     offsets |-> [id \in 1 .. Max({Len(builder.offsets), object.id}) |->
                    IF id = object.id THEN builder.length
                    ELSE IF id <= Len(builder.offsets) THEN builder.offsets[id] ELSE 0],
     at |-> (builder.length :> object) @@ builder.at]

\* an empty image refuses the document
BuildPdf(pictures) ==
    LET empty == [length |-> HeaderLength, offsets |-> <<>>, at |-> <<>>]
        all == FoldLeft(BeginObj, empty, ObjectsOf(pictures))
    IN  [at |-> all.at, xref |-> all.offsets, startxref |-> all.length, root |-> CatalogId]

WriteMultipagePdf(pictures) ==
    IF pictures = <<>> \/ \E i \in DOMAIN pictures : IsNothing(pictures[i])
    THEN [at |-> <<>>, xref |-> <<>>, startxref |-> 0, root |-> 0]
    ELSE BuildPdf(pictures)

---------------------------------------------------------------------------
\* a reader that looks objects up by number through the table finds each of
\* them, and the pages in order with the pixels of their images
PdfFinds(file, pictures) ==
    LET Get(id) == file.at[file.xref[id]]
        root == Get(file.root)
        pages == Get(root.refs[1])
    IN  /\ \A id \in DOMAIN file.xref : file.xref[id] \in DOMAIN file.at /\ Get(id).id = id
        /\ root.kind = "catalog" /\ pages.kind = "pages"
        /\ Len(pages.refs) = Len(pictures)
        /\ \A i \in DOMAIN pictures :
             LET page == Get(pages.refs[i])
                 image == Get(page.refs[3])
             IN  /\ page.kind = "page" /\ page.refs[1] = PagesId
                 /\ Get(page.refs[2]).kind = "content"
                 /\ image.kind = "image"
                 /\ pictures[i].format # "RGBA32" => image.content.data = pictures[i].rows
=============================================================================
