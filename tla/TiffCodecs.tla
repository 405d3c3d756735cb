----------------------------- MODULE TiffCodecs -----------------------------
(***************************************************************************)
(* The three compressions of the TIFF writer and the reader's inverses     *)
(* (tiff_writer.cpp): PackBits and LZW on sequences of bytes, Group 4 on   *)
(* rows of black and white pixels.  LZW and Group 4 streams are sequences  *)
(* of bits.  The widths are parameters, so that their limits are reached   *)
(* with few bytes: the code has LiteralBits = 8, MaxBits = 12, MaxRun = 128. *)
(***************************************************************************)
EXTENDS Integers, Sequences, SequencesExt, FiniteSetsExt

CONSTANTS
    LiteralBits,  \* bits of a byte
    MaxBits,      \* bits of the longest LZW code
    MaxRun        \* longest run or literal of PackBits

BitsOf(v, n) == [i \in 1 .. n |-> (v \div 2^(n - i)) % 2]
ValueOf(bits) == FoldLeft(LAMBDA v, b : 2 * v + b, 0, bits)

\* the last byte is filled with zeros
Flush(bits) == bits \o [i \in 1 .. (-Len(bits)) % 8 |-> 0]

---------------------------------------------------------------------------
(* PackBits.  A control n >= 0 is followed by n + 1 bytes, a negative one by *)
(* the byte that is repeated 1 - n times; -MaxRun is skipped.              *)

\* mutant: one byte more than a control can count
RunFromTooLong(data, i) ==
    Min({ j \in i .. Len(data) : j = Len(data) \/ data[j] # data[j + 1] \/ j - i = MaxRun }) - i + 1

\* the length of the run of equal bytes at i, at most MaxRun
RunFrom(data, i) ==
    Min({ j \in i .. Len(data) :
            j = Len(data) \/ data[j] # data[j + 1] \/ j - i = MaxRun - 1 }) - i + 1

\* the literal at i ends before the next three equal bytes
LiteralFrom(data, i) ==
    Min({Len(data) + 1, i + MaxRun}
        \cup { j \in i + 1 .. Len(data) - 2 :
                 data[j] = data[j + 1] /\ data[j] = data[j + 2] }) - i

RECURSIVE PackBitsFrom(_, _)
PackBitsFrom(data, i) ==
    LET run == RunFrom(data, i)
        literal == LiteralFrom(data, i)
    IN  IF i > Len(data) THEN <<>>
        ELSE IF run >= 2 THEN <<1 - run, data[i]>> \o PackBitsFrom(data, i + run)
        ELSE <<literal - 1>> \o SubSeq(data, i, i + literal - 1)
             \o PackBitsFrom(data, i + literal)

PackBitsEncode(data) == PackBitsFrom(data, 1)

RECURSIVE UnpackFrom(_, _, _, _)
UnpackFrom(packed, i, out, expected) ==
    LET n == packed[i]
    IN  IF i > Len(packed) \/ Len(out) >= expected THEN out
        ELSE IF n >= 0
        THEN UnpackFrom(packed, i + n + 2,
                        out \o SubSeq(packed, i + 1, Min({i + n + 1, Len(packed)})), expected)
        ELSE IF n = -MaxRun THEN UnpackFrom(packed, i + 1, out, expected)
        ELSE UnpackFrom(packed, i + 2,
                        IF i = Len(packed) THEN out
                        ELSE out \o [k \in 1 .. 1 - n |-> packed[i + 1]], expected)

PackBitsDecode(packed, expected) == UnpackFrom(packed, 1, <<>>, expected)

---------------------------------------------------------------------------
(* LZW *)

Clear == 2^LiteralBits
EOI == Clear + 1
FirstCode == Clear + 2
StartBits == LiteralBits + 1
MaxCode == 2^MaxBits - 1

\* the test of both sides, on the code the next entry will get
Widened(size, next) == IF next > 2^size /\ size < MaxBits THEN size + 1 ELSE size

\* the writer's dictionary: entry k stands for code FirstCode + k - 1 and is
\* the code it extends with a byte
LzwStep(st, k) ==
    LET known == { c \in DOMAIN st.dict : st.dict[c] = <<st.w, k>> }
        written == st.bits \o BitsOf(st.w, st.size)
        grown == Append(st.dict, <<st.w, k>>)
    IN  IF known # {} THEN [st EXCEPT !.w = FirstCode + Max(known) - 1]
        ELSE IF FirstCode + Len(st.dict) <= MaxCode
        THEN [w |-> k, dict |-> grown, bits |-> written, codes |-> st.codes + 1,
              size |-> Widened(st.size, FirstCode + Len(grown))]
        ELSE [w |-> k, dict |-> <<>>, bits |-> written \o BitsOf(Clear, st.size),
              codes |-> st.codes + 1, size |-> StartBits]

LzwEnd(data) ==
    FoldLeft(LzwStep, [w |-> Head(data), dict |-> <<>>, codes |-> 1, size |-> StartBits,
                       bits |-> BitsOf(Clear, StartBits)], Tail(data))

LzwEncode(data) ==
    LET st == LzwEnd(data)
    IN  IF data = <<>> THEN Flush(BitsOf(Clear, StartBits) \o BitsOf(EOI, StartBits))
        ELSE Flush(st.bits \o BitsOf(st.w, st.size) \o BitsOf(EOI, st.size))

\* the reader's dictionary: code c is entry c + 1, the clear and the end code
\* are without a string
LzwStart ==
    [c \in 1 .. FirstCode |-> IF c <= Clear THEN <<c - 1>> ELSE <<>>]

\* -1 at the end of the stream
ReadCode(bits, pos, size) ==
    IF pos + size - 1 > Len(bits) THEN -1 ELSE ValueOf(SubSeq(bits, pos, pos + size - 1))

\* The reader adds the entry of a code when it has read the next one: it is
\* one entry behind the writer, and widens its codes one code later.  A code
\* that only a stream out of step can hold indexes past the dictionary or an
\* empty string: what that reads is not defined, and the result is <<>> here.
RECURSIVE LzwRead(_, _, _)
LzwRead(bits, st, expected) ==
    LET code == ReadCode(bits, st.pos, st.size)
        size0 == Len(st.dict)
        known == code < size0 /\ st.dict[code + 1] # <<>>
        old == IF st.old < size0 THEN st.dict[st.old + 1] ELSE <<>>
        string == IF known THEN st.dict[code + 1] ELSE Append(old, Head(old))
        grown == IF size0 <= MaxCode THEN Append(st.dict, Append(old, Head(string))) ELSE st.dict
        next == [st EXCEPT !.pos = @ + st.size, !.dict = grown, !.old = code,
                           !.size = IF size0 <= MaxCode THEN Widened(@, size0 + 1) ELSE @,
                           !.out = @ \o string]
        first == ReadCode(bits, st.pos + st.size, StartBits)
        restart == [st EXCEPT !.pos = @ + st.size + StartBits, !.dict = LzwStart, !.old = first,
                              !.size = StartBits, !.out = @ \o LzwStart[first + 1]]
    IN  IF code < 0 \/ code = EOI THEN st.out
        ELSE IF code = Clear
        THEN IF first < 0 \/ first = EOI THEN st.out
             ELSE IF first >= FirstCode THEN <<>>
             ELSE LzwRead(bits, restart, expected)
        ELSE IF st.old >= size0 \/ (~known /\ old = <<>>) THEN <<>>
        ELSE IF Len(next.out) >= expected THEN next.out
        ELSE LzwRead(bits, next, expected)

LzwDecode(bits, expected) ==
    LET first == ReadCode(bits, StartBits + 1, StartBits)
    IN  IF ReadCode(bits, 1, StartBits) # Clear \/ first < 0 \/ first = EOI \/ first >= FirstCode
        THEN <<>>
        ELSE LzwRead(bits, [pos |-> 2 * StartBits + 1, size |-> StartBits, old |-> first,
                            dict |-> LzwStart, out |-> LzwStart[first + 1]], expected)

\* the writer has left the first width by the last code but one, where the
\* reader still has it
LzwOutOfStep(data) ==
    data # <<>> /\ LzwEnd(data).codes >= 2^StartBits - FirstCode + 2

---------------------------------------------------------------------------
(* Group 4.  A row is the set of its black columns, counted from zero; only *)
(* the code words of the runs that the instances use are listed.            *)

WhiteCode ==
    (0 :> <<0, 0, 1, 1, 0, 1, 0, 1>>) @@ (1 :> <<0, 0, 0, 1, 1, 1>>) @@ (2 :> <<0, 1, 1, 1>>)
    @@ (3 :> <<1, 0, 0, 0>>) @@ (4 :> <<1, 0, 1, 1>>) @@ (5 :> <<1, 1, 0, 0>>)
    @@ (64 :> <<1, 1, 0, 1, 1>>) @@ (128 :> <<1, 0, 0, 1, 0>>)
BlackCode ==
    (0 :> <<0, 0, 0, 0, 1, 1, 0, 1, 1, 1>>) @@ (1 :> <<0, 1, 0>>) @@ (2 :> <<1, 1>>)
    @@ (3 :> <<1, 0>>) @@ (4 :> <<0, 1, 1>>) @@ (5 :> <<0, 0, 1, 1>>)
    @@ (64 :> <<0, 0, 0, 0, 0, 0, 1, 1, 1, 1>>)
    @@ (128 :> <<0, 0, 0, 0, 1, 1, 0, 0, 1, 0, 0, 0>>)
RunCode(white) == IF white THEN WhiteCode ELSE BlackCode

\* make-up codes up to 2560, then a terminating code
RECURSIVE EncodeRun(_, _)
EncodeRun(run, white) ==
    LET makeup == (Min({run, 2560}) \div 64) * 64
    IN  IF run < 64 THEN RunCode(white)[run]
        ELSE RunCode(white)[makeup] \o EncodeRun(run - makeup, white)

\* the changes of colour along a row that starts white
Changes(row, w) ==
    SetToSortSeq({ x \in 0 .. w - 1 : (x \in row) # (x - 1 \in row) }, <)

\* the runs of a row, the white ones first; a row that starts black has a
\* white run of length zero
RunsOf(row, w) ==
    LET ends == Changes(row, w) \o <<w>>
    IN  [k \in DOMAIN ends |-> ends[k] - (IF k = 1 THEN 0 ELSE ends[k - 1])]

Horizontal == <<0, 0, 1>>
EndOfBlock == BitsOf(1, 12) \o BitsOf(1, 12)

\* every row is one horizontal prefix and all its runs
EncodeRow(row, w) ==
    LET runs == RunsOf(row, w)
    IN  FoldLeftDomain(LAMBDA bits, k : bits \o EncodeRun(runs[k], k % 2 = 1),
                       Horizontal, runs)

Group4Encode(rows, w) ==
    Flush(FoldLeft(LAMBDA bits, row : bits \o EncodeRow(row, w), <<>>, rows) \o EndOfBlock)

\* the coding modes of the reader: a vertical mode moves by dx from b1
Modes ==
    { [code |-> <<1>>, kind |-> "vertical", dx |-> 0],
      [code |-> <<0, 1, 1>>, kind |-> "vertical", dx |-> 1],
      [code |-> <<0, 1, 0>>, kind |-> "vertical", dx |-> -1],
      [code |-> <<0, 0, 0, 0, 1, 1>>, kind |-> "vertical", dx |-> 2],
      [code |-> <<0, 0, 0, 0, 1, 0>>, kind |-> "vertical", dx |-> -2],
      [code |-> <<0, 0, 0, 0, 0, 1, 1>>, kind |-> "vertical", dx |-> 3],
      [code |-> <<0, 0, 0, 0, 0, 1, 0>>, kind |-> "vertical", dx |-> -3],
      [code |-> Horizontal, kind |-> "horizontal", dx |-> 0],
      [code |-> <<0, 0, 0, 1>>, kind |-> "pass", dx |-> 0] }

StartsAt(code, bits, pos) ==
    /\ pos + Len(code) - 1 <= Len(bits)
    /\ SubSeq(bits, pos, pos + Len(code) - 1) = code

\* the length of a run and the position behind it; the length is -1 when no
\* code word fits
RECURSIVE DecodeRun(_, _, _)
DecodeRun(bits, pos, white) ==
    LET words == { run \in DOMAIN RunCode(white) : StartsAt(RunCode(white)[run], bits, pos) }
        Longer(run, rest) ==
            IF rest.run < 0 THEN rest ELSE [run |-> run + rest.run, pos |-> rest.pos]
        Found(run, after) ==
            IF run < 64 THEN [run |-> run, pos |-> after]
            ELSE Longer(run, DecodeRun(bits, after, white))
        Word(run) == Found(run, pos + Len(RunCode(white)[run]))
    IN  IF words = {} THEN [run |-> -1, pos |-> Min({pos + 13, Len(bits) + 1})]
        ELSE Word(CHOOSE run \in words : TRUE)

\* b1 and b2: the first change of the reference row right of a0 to the colour
\* that a0 does not have, and the change after it
NextChanges(reference, w, a0, color) ==
    LET all == Changes(reference, w) \o <<w>>
        right == { i \in DOMAIN all : all[i] > a0 /\ i % 2 # color }
        i == Min(right)
    IN  IF right = {} THEN <<w, w>>
        ELSE << all[i], IF i < Len(all) THEN all[i + 1] ELSE w >>

\* st with the columns from .. to of its last row painted in its colour
Painted(st, from, to, color, w) ==
    IF color = 1 THEN [st EXCEPT !.rows[Len(st.rows)] = @ \cup (from .. Min({to, w}) - 1)]
    ELSE st

\* b is b1 and b2
Vertical(st, dx, b, w) ==
    LET a1 == Max({0, Min({w, b[1] + dx})})
    IN  [Painted(st, Max({st.a0, 0}), a1, st.color, w) EXCEPT !.a0 = a1, !.color = 1 - @]
Pass(st, b, w) == [Painted(st, Max({st.a0, 0}), b[2], st.color, w) EXCEPT !.a0 = b[2]]

\* the two runs behind a horizontal prefix, or -1
RunPair(bits, st) ==
    LET Second(r) == IF r.run < 0 THEN <<r, r>> ELSE <<r, DecodeRun(bits, r.pos, st.color # 0)>>
    IN  Second(DecodeRun(bits, st.pos, st.color = 0))
TwoRuns(st, runs, w) ==
    LET start == Max({st.a0, 0})
        middle == start + runs[1].run
        end == middle + runs[2].run
        painted == IF st.color = 1 THEN Painted(st, start, middle, 1, w)
                   ELSE Painted(st, middle, end, 1, w)
    IN  [painted EXCEPT !.pos = runs[2].pos, !.a0 = end]

\* st is the last of its rows under way: its black columns so far, a0 and its
\* colour (0 is white); a stream that ends or a mode it does not know leaves
\* the rest of the rows white
RECURSIVE Group4Read(_, _, _, _)
Group4Read(bits, st, w, h) ==
    LET y == Len(st.rows)
        modes == { m \in Modes : StartsAt(m.code, bits, st.pos) }
        rest == st.rows \o [k \in 1 .. h - y |-> {}]
        Pair(s, runs) ==
            IF \E k \in 1 .. 2 : runs[k].run < 0 THEN rest
            ELSE Group4Read(bits, TwoRuns(s, runs, w), w, h)
        Coded(m, s, b) ==
            CASE m.kind = "vertical" -> Group4Read(bits, Vertical(s, m.dx, b, w), w, h)
              [] m.kind = "pass" -> Group4Read(bits, Pass(s, b, w), w, h)
              [] m.kind = "horizontal" -> Pair(s, RunPair(bits, s))
        Mode(m) ==
            Coded(m, [st EXCEPT !.pos = @ + Len(m.code)],
                  NextChanges(IF y = 1 THEN {} ELSE st.rows[y - 1], w, st.a0, st.color))
    IN  IF st.a0 >= w
        THEN IF y = h THEN st.rows
             ELSE Group4Read(bits, [st EXCEPT !.a0 = -1, !.color = 0,
                                              !.rows = Append(@, {})], w, h)
        ELSE IF modes = {} THEN rest
        ELSE Mode(CHOOSE m \in modes : TRUE)

Group4Decode(bits, w, h) ==
    Group4Read(bits, [pos |-> 1, a0 |-> -1, color |-> 0, rows |-> <<{}>>], w, h)
=============================================================================
