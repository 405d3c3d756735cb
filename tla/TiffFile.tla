------------------------------ MODULE TiffFile ------------------------------
(***************************************************************************)
(* TIFF files of one or several pages: what the writer lays out            *)
(* (tiff_writer.cpp), what the reader finds in it (tiff.cpp and            *)
(* read_tiff_image) and the options the output writer chooses              *)
(* (output_writer.cpp).  A file is its size and the chunks in it by their  *)
(* offset: strips, directories and the values too long for a directory     *)
(* entry.  The data of a page is a sequence of rows: sets of black columns *)
(* for BW1, sequences of bytes otherwise.                                  *)
(***************************************************************************)
EXTENDS TiffCodecs, TLC

Samples == [BW1 |-> 1, Gray8 |-> 1, RGB24 |-> 3, RGBA32 |-> 4]

Picture(format, w, dpi, rows) == [format |-> format, w |-> w, dpi |-> dpi, rows |-> rows]
\* a resolution in dots per inch is a fraction, a numerator and a denominator
PerInch(n) == <<n, 1>>
IsGiven(resolution) == resolution[1] > 0
NoPicture == Picture("BW1", 0, <<PerInch(0), PerInch(0)>>, <<>>)
IsNothing(p) == p.w = 0 \/ p.rows = <<>>

---------------------------------------------------------------------------
(* The strip *)

RowBytes(p) ==
    IF p.format = "BW1" THEN (p.w + LiteralBits - 1) \div LiteralBits
    ELSE p.w * Samples[p.format]

\* LiteralBits columns to a byte, the leftmost in the highest bit
PackRow(row, n) ==
    [b \in 1 .. n |-> ValueOf([i \in 1 .. LiteralBits |->
                                 IF (b - 1) * LiteralBits + i - 1 \in row THEN 1 ELSE 0])]
UnpackRow(bytes, w) ==
    { x \in 0 .. w - 1 : BitsOf(bytes[(x \div LiteralBits) + 1], LiteralBits)[(x % LiteralBits) + 1] = 1 }

StripOf(p) ==
    FoldLeft(LAMBDA s, row : s \o (IF p.format = "BW1" THEN PackRow(row, RowBytes(p)) ELSE row),
             <<>>, p.rows)

Compressions == {"none", "packbits", "lzw", "group4"}

\* data and length in bytes; Group 4 leaves other formats uncompressed
Compress(p, compression) ==
    LET strip == StripOf(p)
        InBytes(bits) == [data |-> bits, length |-> Len(bits) \div 8]
        AsIs(s) == [data |-> s, length |-> Len(s)]
    IN  CASE compression = "packbits" -> AsIs(PackBitsEncode(strip))
          [] compression = "lzw" -> InBytes(LzwEncode(strip))
          [] compression = "group4" /\ p.format = "BW1" -> InBytes(Group4Encode(p.rows, p.w))
          [] OTHER -> AsIs(strip)

---------------------------------------------------------------------------
(* build_tiff: header, strip, directory, long values, each on a word        *)
(* boundary.  The entries are the fields of the directory; those of long    *)
(* are offsets.                                                             *)

EvenUp(n) == n + (n % 2)

LongValues(p) ==
    (IF IsGiven(p.dpi[1]) THEN <<"XResolution">> ELSE <<>>)
    \o (IF IsGiven(p.dpi[2]) THEN <<"YResolution">> ELSE <<>>) \o <<"Software">>
LongSize(tag) == IF tag = "Software" THEN 11 ELSE 8

\* the fraction of a resolution is dropped
Truncated(resolution) == PerInch(resolution[1] \div resolution[2])

LaidOut(p, options, strip) ==
    LET ifdAt == EvenUp(8 + strip.length)
        long == LongValues(p)
        entries == 10 + Len(long)
        ifdEnd == ifdAt + 2 + 12 * entries + 4
        LongAt(k) == ifdEnd + FoldLeft(LAMBDA n, t : n + EvenUp(LongSize(t)), 0,
                                       SubSeq(long, 1, k - 1))
        values == [XResolution |-> Truncated(p.dpi[1]), YResolution |-> Truncated(p.dpi[2]),
                   Software |-> "PPP Modern"]
        photometric == IF p.format \in {"RGB24", "RGBA32"} THEN "RGB"
                       ELSE IF p.format = "BW1" /\ options.photometric = "RGB" THEN "WhiteIsZero"
                       ELSE options.photometric
        ifd == [ImageWidth |-> p.w, ImageLength |-> Len(p.rows), Format |-> p.format,
                Compression |-> options.compression, Photometric |-> photometric,
                StripOffsets |-> 8, StripByteCounts |-> strip.length,
                long |-> [t \in ToSet(long) |->
                            LongAt(CHOOSE k \in DOMAIN long : long[k] = t)],
                size |-> 2 + 12 * entries + 4, next |-> 0]
    IN  [ifd |-> ifdAt,
         size |-> LongAt(Len(long) + 1),
         at |-> (8 :> strip.data) @@ (ifdAt :> ifd)
                @@ [o \in { ifd.long[t] : t \in ToSet(long) } |->
                      values[CHOOSE t \in ToSet(long) : ifd.long[t] = o]]]
BuildTiff(p, options) == LaidOut(p, options, Compress(p, options.compression))

\* mutant: the long values are not moved
RelocatedStripOnly(ifd, base) == [ifd EXCEPT !.StripOffsets = @ + base]

\* the offsets of a page moved behind what is there already
Relocated(ifd, base) ==
    [ifd EXCEPT !.StripOffsets = @ + base, !.long = [t \in DOMAIN @ |-> @[t] + base]]

RECURSIVE LastIfd(_, _)
LastIfd(file, offset) ==
    IF file.at[offset].next = 0 THEN offset ELSE LastIfd(file, file.at[offset].next)

AppendPage(file, page) ==
    LET last == LastIfd(file, file.ifd)
        base == file.size
        moved == [o \in { x + base : x \in DOMAIN page.at } |->
                    IF o = page.ifd + base THEN Relocated(page.at[page.ifd], base)
                    ELSE page.at[o - base]]
    IN  [file EXCEPT !.size = base + page.size,
                     !.at = [@ EXCEPT ![last].next = page.ifd + base] @@ moved]

\* write_multipage_tiff leaves empty images out.  With an empty first image
\* the second is appended to nothing, which reads beyond an empty buffer.
Empty == [ifd |-> 0, size |-> 0, at |-> <<>>]
Undefined == [ifd |-> -1, size |-> 0, at |-> <<>>]
MultiPage(pictures, options) ==
    LET Joined(file, tiff, k) ==
            IF k = 1 THEN tiff
            ELSE IF file = Empty THEN Undefined
            ELSE AppendPage(file, tiff)
        Add(file, k) ==
            IF IsNothing(pictures[k]) \/ file = Undefined THEN file
            ELSE Joined(file, BuildTiff(pictures[k], options), k)
    IN  FoldLeft(Add, Empty, [k \in DOMAIN pictures |-> k])

---------------------------------------------------------------------------
(* The reader.  Structure::read rejects a file whose chain of directories   *)
(* is not whole, and skips an entry whose value is beyond the end.          *)

Unreadable == <<>>

RECURSIVE Directories(_, _)
Directories(file, offset) ==
    LET ifd == file.at[offset]
        rest == Directories(file, ifd.next)
        kept == { t \in DOMAIN ifd.long : ifd.long[t] + LongSize(t) <= file.size }
        read == [ifd EXCEPT !.long = [t \in kept |-> @[t]]]
    IN  IF offset + 2 > file.size \/ offset + ifd.size > file.size THEN Unreadable
        ELSE IF ifd.next = 0 THEN <<read>>
        ELSE IF rest = Unreadable THEN Unreadable
        ELSE <<read>> \o rest

Structure(file) == IF file.size < 8 THEN Unreadable ELSE Directories(file, file.ifd)

\* what is at an offset of the file: a wrong offset finds something else
Junk == PerInch(-1)
ValueAt(file, offset) == IF offset \in DOMAIN file.at THEN file.at[offset] ELSE Junk

InvertRow(row, w) == (0 .. w - 1) \ row

\* the rows of a strip of n bytes each; one that is not there is blank
RowsOf(strip, ifd, n) ==
    LET bytes(r) == SubSeq(strip, (r - 1) * n + 1, r * n)
        blank == IF ifd.Format = "BW1" THEN {} ELSE [i \in 1 .. n |-> 0]
    IN  [r \in 1 .. ifd.ImageLength |->
           IF Len(strip) < r * n THEN blank
           ELSE IF ifd.Format = "BW1" THEN UnpackRow(bytes(r), ifd.ImageWidth)
           ELSE bytes(r)]

Decompress(data, ifd, n) ==
    CASE ifd.Compression = "none" -> RowsOf(data, ifd, n)
      [] ifd.Compression = "packbits" -> RowsOf(PackBitsDecode(data, n * ifd.ImageLength), ifd, n)
      [] ifd.Compression = "lzw" -> RowsOf(LzwDecode(data, n * ifd.ImageLength), ifd, n)
      [] ifd.Compression = "group4" -> Group4Decode(data, ifd.ImageWidth, ifd.ImageLength)

ReadPage(file, ifd) ==
    LET Dpi(t) == IF t \in DOMAIN ifd.long THEN ValueAt(file, ifd.long[t]) ELSE PerInch(0)
        shape == Picture(ifd.Format, ifd.ImageWidth, <<Dpi("XResolution"), Dpi("YResolution")>>, <<>>)
        inverted == ifd.Format = "BW1" /\ ifd.Photometric = "BlackIsZero"
        Shown(rows) == IF inverted THEN [r \in DOMAIN rows |-> InvertRow(rows[r], ifd.ImageWidth)]
                       ELSE rows
    IN  IF ifd.StripOffsets + ifd.StripByteCounts > file.size THEN NoPicture
        ELSE IF ifd.StripOffsets \notin DOMAIN file.at THEN NoPicture
        ELSE IF ifd.Compression = "group4" /\ ifd.Format # "BW1" THEN NoPicture
        ELSE [shape EXCEPT !.rows =
                Shown(Decompress(file.at[ifd.StripOffsets], ifd, RowBytes(shape)))]

ReadTiffImage(file, page) ==
    LET ifds == Structure(file)
    IN  IF page > Len(ifds) THEN NoPicture ELSE ReadPage(file, ifds[page])

---------------------------------------------------------------------------
(* The output writer *)

SelectTiffCompression(format, raster) ==
    CASE raster = "raw" -> "none"
      [] raster = "lzw" -> "lzw"
      [] OTHER -> IF format = "BW1" THEN "group4" ELSE "lzw"

SelectTiffPhotometric(format) ==
    CASE format = "BW1" -> "WhiteIsZero"
      [] format = "Gray8" -> "BlackIsZero"
      [] OTHER -> "RGB"

Selected(format, raster) ==
    [compression |-> SelectTiffCompression(format, raster),
     photometric |-> SelectTiffPhotometric(format)]

\* the pages of one file are all written with the options of the first
SelectedForAll(pictures, raster) == Selected(pictures[1].format, raster)

---------------------------------------------------------------------------
(* Where writer and reader agree. *)

\* the whole of a row is one white and one black run, which may be empty: the
\* one pair of runs that the writer's single prefix announces
PairRow(row, w) == Len(RunsOf(row, w)) = 2

ReadsBack(p, options) ==
    LET strip == StripOf(p)
    IN  /\ p.format = "BW1" => options.photometric # "BlackIsZero"
        /\ options.compression = "lzw" => ~LzwOutOfStep(strip)
        /\ options.compression = "group4" =>
             p.format = "BW1" /\ \A r \in DOMAIN p.rows : PairRow(p.rows[r], p.w)
=============================================================================
