------------------------------- MODULE BmpFile ------------------------------
(***************************************************************************)
(* BMP files: the writer and the reader of uncompressed bitmaps (bmp.cpp). *)
(* A picture is that of TiffFile.  The rows of a file are stored from the  *)
(* bottom unless its height is negative, padded to four bytes, with the    *)
(* channels of a pixel in the order blue, green, red; a palette of two     *)
(* colours says which bit is black.                                        *)
(***************************************************************************)
EXTENDS TiffFile

BitsPerPixel == [BW1 |-> 1, Gray8 |-> 8, RGB24 |-> 24, RGBA32 |-> 32]

BmpStride(w, bpp) == 4 * ((w * bpp + 31) \div 32)

\* whole pixels per metre of a resolution, 96 to the inch if it is not given,
\* and the resolution they are; an inch in a metre is 39.3701
Rounded(n, d) == (2 * n + d) \div (2 * d)
Assumed(dpi) == IF IsGiven(dpi) THEN dpi ELSE PerInch(96)
\* mutant: the fraction is dropped
DpiToPpmTruncated(dpi) == (Assumed(dpi)[1] * 393701) \div (Assumed(dpi)[2] * 10000)
DpiToPpm(dpi) == Rounded(Assumed(dpi)[1] * 393701, Assumed(dpi)[2] * 10000)
PpmToDpi(ppm) == IF ppm <= 0 THEN PerInch(96) ELSE <<ppm * 10000, 393701>>

\* red and blue change places, which is the same both ways
SwapChannels(row, format) ==
    LET n == Samples[format]
        Swap(i) == CASE (i - 1) % n = 0 -> i + 2
                     [] (i - 1) % n = 2 -> i - 2
                     [] OTHER -> i
    IN  IF format \in {"RGB24", "RGBA32"} THEN [i \in DOMAIN row |-> row[Swap(i)]] ELSE row

PaletteSize(format) == CASE format = "BW1" -> 8 [] format = "Gray8" -> 1024 [] OTHER -> 0

\* options may give a resolution of their own
WriteBmp(p, options) ==
    LET Dpi(i) == IF IsGiven(options[i]) THEN options[i] ELSE p.dpi[i]
        start == 14 + 40 + PaletteSize(p.format)
        stride == BmpStride(p.w, BitsPerPixel[p.format])
        h == Len(p.rows)
    IN  [size |-> start + stride * h,
         header |-> [format |-> p.format, width |-> p.w, height |-> h,
                     ppm |-> <<DpiToPpm(Dpi(1)), DpiToPpm(Dpi(2))>>],
         start |-> start, stride |-> stride, black_first |-> FALSE,
         rows |-> [r \in 1 .. h |-> SwapChannels(p.rows[h + 1 - r], p.format)]]

\* mutant: the pixels are not looked for
IsWholeHeader(file, h) == file.size >= 14 + 40 /\ file.start < file.size

\* the headers and all the rows are there
IsWhole(file, h) ==
    /\ file.size >= 14 + 40
    /\ file.start < file.size
    /\ file.start + h * file.stride <= file.size

\* a file from elsewhere may store the rows from the top and black first
ReadBmp(file) ==
    LET hd == file.header
        h == IF hd.height < 0 THEN -hd.height ELSE hd.height
        Source(r) == IF hd.height < 0 THEN r ELSE h + 1 - r
        Row(r) == SwapChannels(file.rows[Source(r)], hd.format)
        Bit(r) == IF file.black_first /\ hd.format = "BW1" THEN InvertRow(Row(r), hd.width)
                  ELSE Row(r)
    IN  IF ~IsWhole(file, h) \/ hd.width <= 0 \/ h <= 0 THEN NoPicture
        ELSE Picture(hd.format, hd.width, <<PpmToDpi(hd.ppm[1]), PpmToDpi(hd.ppm[2])>>,
                     [r \in 1 .. h |-> Bit(r)])
=============================================================================
