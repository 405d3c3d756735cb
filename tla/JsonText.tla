------------------------------- MODULE JsonText -------------------------------
(***************************************************************************)
(* The JSON writers and readers of profiles (processing_config_io.cpp) and *)
(* of job records (job_serialization.cpp), on the members that             *)
(* ProfileSchema lists.  A text is a sequence of tokens: the punctuation,  *)
(* literals, numbers, and strings as they stand between their quotes.  The *)
(* two files have each a writer and a reader of their own, which differ in *)
(* the escapes they know: d is the dialect, "profile" or "job".            *)
(*                                                                         *)
(* A string is a sequence of characters, of which only those that are      *)
(* escaped matter: the others are any symbol.                              *)
(***************************************************************************)
EXTENDS ProfileSchema, Integers, SequencesExt, FiniteSetsExt

CONSTANTS
    Unit,            \* a double is counted in fractions 1 / Unit
    Digits,          \* the digits of a written double: six in the code
    PerMicro,        \* ticks of the clock in a microsecond
    MicrosPerSecond

---------------------------------------------------------------------------
(* Strings *)

\* the control characters with a short escape of their own, and another
Controls == {"newline", "return", "tab", "backspace", "formfeed", "bell"}

\* the character an escape letter stands for, where the reader knows it
ProfileEscapes ==
    [quote |-> "quote", backslash |-> "backslash", slash |-> "slash",
     n |-> "newline", r |-> "return", t |-> "tab"]
JobEscapes == ProfileEscapes @@ [b |-> "backspace", f |-> "formfeed"]

\* a control character without a short form is written as four hex digits,
\* which stand here as the character itself behind a u
EscapeProfileChar(c) ==
    CASE c \in {"quote", "backslash"} -> <<"backslash", c>>
      [] c = "newline" -> <<"backslash", "n">>
      [] c = "return" -> <<"backslash", "r">>
      [] c = "tab" -> <<"backslash", "t">>
      [] c \in {"backspace", "formfeed", "bell"} -> <<"backslash", "u", c>>
      [] OTHER -> <<c>>
EscapeJobChar(c) ==
    CASE c = "backspace" -> <<"backslash", "b">>
      [] c = "formfeed" -> <<"backslash", "f">>
      [] OTHER -> EscapeProfileChar(c)
Escape(d, s) ==
    FoldLeft(LAMBDA raw, c : raw \o (IF d = "job" THEN EscapeJobChar(c)
                                     ELSE EscapeProfileChar(c)), <<>>, s)

\* one character of a string; mode is what the one before it announces
UnescapeChar(d, st, c) ==
    LET known == IF d = "job" THEN JobEscapes ELSE ProfileEscapes
        Add(x) == [st EXCEPT !.v = Append(@, x), !.mode = "plain"]
    IN  CASE ~st.ok -> st
          [] st.mode = "hex" -> Add(c)
          [] st.mode = "escape" /\ c \in DOMAIN known -> Add(known[c])
          [] st.mode = "escape" /\ c = "u" /\ d = "job" -> [st EXCEPT !.mode = "hex"]
          [] st.mode = "plain" /\ c = "backslash" -> [st EXCEPT !.mode = "escape"]
          [] st.mode = "plain" /\ c \notin Controls -> Add(c)
          [] OTHER -> [st EXCEPT !.ok = FALSE]

ParseString(d, raw) ==
    LET end == FoldLeft(LAMBDA st, c : UnescapeChar(d, st, c),
                        [ok |-> TRUE, v |-> <<>>, mode |-> "plain"], raw)
    IN  [ok |-> end.ok /\ end.mode = "plain", v |-> end.v]

---------------------------------------------------------------------------
(* Numbers and times *)

\* a double keeps its first digits; the last is rounded
RoundedTo(n, digits) ==
    LET a == IF n < 0 THEN -n ELSE n
        p == 10 ^ Min({ e \in 0 .. 9 - digits : a < 10 ^ (digits + e) \/ e = 9 - digits })
        r == ((2 * a + p) \div (2 * p)) * p
    IN  IF n < 0 THEN -r ELSE r

\* the time in ticks and its text, seconds and microseconds: both are cut
FormatTime(t) ==
    LET second == PerMicro * MicrosPerSecond
    IN  << t \div second, (t % second) \div PerMicro >>
ParseTime(text) == (text[1] * MicrosPerSecond + text[2]) * PerMicro

---------------------------------------------------------------------------
(* Writing *)

Separated(parts) ==
    FoldLeftDomain(LAMBDA text, i : (IF i = 1 THEN <<>> ELSE text \o <<<<",">>>>) \o parts[i],
                   <<>>, parts)

RECURSIVE Write(_, _, _)
Write(d, kind, v) ==
    LET String(s) == <<<<"string", Escape(d, s)>>>>
        Time(t) == <<<<"time", FormatTime(t)>>>>
        Null == <<<<"null">>>>
        Members == [i \in DOMAIN Writers[kind] |->
                      LET m == Writers[kind][i]
                      IN  <<<<"string", <<m[1]>>>>, <<":">>>> \o Write(d, m[2], v[m[1]])]
        Array(parts) == <<<<"[">>>> \o Separated(parts) \o <<<<"]">>>>
    IN  CASE kind \in DOMAIN Writers -> <<<<"{">>>> \o Separated(Members) \o <<<<"}">>>>
          [] kind \in DOMAIN Pairs -> Array([i \in 1 .. 2 |-> Write(d, Pairs[kind], v[i])])
          [] kind = "jobs" -> Array([i \in DOMAIN v |-> Write(d, "job_record", v[i])])
          [] kind = "strings" -> Array([i \in DOMAIN v |-> String(v[i])])
          [] kind = "string" -> String(v)
          [] kind = "optional_string" -> IF v = <<>> THEN Null ELSE String(v[1])
          [] kind = "time" -> Time(v)
          [] kind = "optional_time" -> IF v = <<>> THEN Null ELSE Time(v[1])
          [] kind \in {"int", "count", "byte"} -> <<<<"number", v * Unit>>>>
          [] kind = "double" -> <<<<"number", RoundedTo(v, Digits)>>>>
          [] kind = "bool" -> <<<<IF v THEN "true" ELSE "false">>>>
          [] kind \in DOMAIN EnumText -> <<<<"string", <<EnumText[kind][v]>>>>>>

---------------------------------------------------------------------------
(* Reading.  The result is a value and the position behind it; position 0  *)
(* is a text that is refused.                                              *)

Fail == [pos |-> 0, v |-> <<>>]

Is(text, pos, token) == pos \in DOMAIN text /\ text[pos][1] = token

\* where a value of any kind ends; the two readers skip numbers differently
RECURSIVE SkipValue(_, _, _), SkipItems(_, _, _, _)
SkipValue(d, text, pos) ==
    LET Opens(t, close) == Is(text, pos, t)
        whole == d = "profile" \/ text[pos][2] % Unit = 0
    IN  CASE Is(text, pos, "{") -> IF Is(text, pos + 1, "}") THEN pos + 2
                                   ELSE SkipItems(d, text, pos + 1, "}")
          [] Is(text, pos, "[") -> IF Is(text, pos + 1, "]") THEN pos + 2
                                   ELSE SkipItems(d, text, pos + 1, "]")
          [] Is(text, pos, "number") -> IF whole THEN pos + 1 ELSE 0
          [] Is(text, pos, "string") -> IF ParseString(d, text[pos][2]).ok THEN pos + 1 ELSE 0
          [] \E t \in {"true", "false", "null", "time"} : Is(text, pos, t) -> pos + 1
          [] OTHER -> 0
SkipItems(d, text, pos, close) ==
    LET start == IF close = "]" THEN pos
                 ELSE IF Is(text, pos, "string") /\ Is(text, pos + 1, ":") THEN pos + 2 ELSE 0
        after == IF start = 0 THEN 0 ELSE SkipValue(d, text, start)
    IN  CASE after = 0 -> 0
          [] Is(text, after, close) -> after + 1
          [] Is(text, after, ",") -> SkipItems(d, text, after + 1, close)
          [] OTHER -> 0

\* what a structure holds before it is read
RECURSIVE Fresh(_)
Fresh(kind) ==
    CASE kind \in DOMAIN Readers -> [k \in DOMAIN Readers[kind] |-> Fresh(Readers[kind][k])]
      [] kind \in DOMAIN Pairs -> [i \in 1 .. 2 |-> Fresh(Pairs[kind])]
      [] kind \in DOMAIN EnumText -> CHOOSE e \in DOMAIN EnumText[kind] : TRUE
      [] kind = "bool" -> FALSE
      [] kind \in {"int", "count", "byte", "double", "time"} -> 0
      [] OTHER -> <<>>

\* a job and its payload need a source path
Complete(kind, v) ==
    CASE kind = "job_payload" -> v.source_path # <<>>
      [] kind = "job_record" -> v.payload.source_path # <<>>
      [] OTHER -> TRUE

\* what a string says for a kind: itself, or the value of an enumeration
Named(kind, s, pos) ==
    CASE ~s.ok -> Fail
      [] kind = "string" -> [pos |-> pos, v |-> s.v]
      [] kind = "optional_string" -> [pos |-> pos, v |-> <<s.v>>]
      [] kind \in DOMAIN EnumValue /\ Len(s.v) = 1 /\ s.v[1] \in DOMAIN EnumValue[kind]
         -> [pos |-> pos, v |-> EnumValue[kind][s.v[1]]]
      [] OTHER -> Fail

\* Parse reads a value of a kind; the nested structures of a profile keep
\* what they hold where a member is missing, a job's payload starts afresh.
\* ParseMembers and ParseItems are its loops.
RECURSIVE Parse(_, _, _, _, _), ParseMembers(_, _, _, _, _), ParseItems(_, _, _, _, _, _)
Parse(d, text, pos, kind, old) ==
    LET token == text[pos]
        Leaf(v) == [pos |-> pos + 1, v |-> v]
        Integer == Is(text, pos, "number") /\ token[2] % Unit = 0
        Struct(members) ==
            IF members.pos # 0 /\ Complete(kind, members.v) THEN members ELSE Fail
        fresh == IF kind = "job_payload" THEN Fresh(kind) ELSE old
    IN  CASE kind \in DOMAIN Readers /\ Is(text, pos, "{")
             -> Struct(IF Is(text, pos + 1, "}") THEN [pos |-> pos + 2, v |-> fresh]
                       ELSE ParseMembers(d, text, pos + 1, kind, fresh))
          [] kind \in DOMAIN Pairs /\ Is(text, pos, "[")
             -> ParseItems(d, text, pos + 1, Pairs[kind], old, 1)
          [] kind \in {"strings", "jobs"} /\ Is(text, pos, "[")
             -> IF Is(text, pos + 1, "]") THEN [pos |-> pos + 2, v |-> <<>>]
                ELSE ParseItems(d, text, pos + 1,
                                IF kind = "jobs" THEN "job_record" ELSE "string", <<>>, 1)
          [] kind \in {"string", "optional_string"} \cup DOMAIN EnumValue
             /\ Is(text, pos, "string") -> Named(kind, ParseString(d, token[2]), pos + 1)
          [] kind = "time" /\ Is(text, pos, "time") -> Leaf(ParseTime(token[2]))
          [] kind = "optional_time" /\ Is(text, pos, "time") -> Leaf(<<ParseTime(token[2])>>)
          [] kind \in {"optional_string", "optional_time"} /\ Is(text, pos, "null") -> Leaf(<<>>)
          [] kind = "int" /\ Integer -> Leaf(token[2] \div Unit)
          [] kind = "count" /\ Integer /\ token[2] >= 0 -> Leaf(token[2] \div Unit)
          [] kind = "byte" /\ Integer -> Leaf((token[2] \div Unit) % 256)
          [] kind = "double" /\ Is(text, pos, "number") -> Leaf(token[2])
          [] kind = "bool" /\ (Is(text, pos, "true") \/ Is(text, pos, "false"))
             -> Leaf(token[1] = "true")
          [] OTHER -> Fail

ParseMembers(d, text, pos, kind, v) ==
    LET More(r, next) ==
            CASE r.pos = 0 -> Fail
              [] Is(text, r.pos, "}") -> [pos |-> r.pos + 1, v |-> next]
              [] Is(text, r.pos, ",") -> ParseMembers(d, text, r.pos + 1, kind, next)
              [] OTHER -> Fail
        Known(name, r) == More(r, [v EXCEPT ![name] = r.v])
        Member(name) ==
            IF name \in DOMAIN Readers[kind]
            THEN Known(name, Parse(d, text, pos + 2, Readers[kind][name], v[name]))
            ELSE More([pos |-> SkipValue(d, text, pos + 2), v |-> <<>>], v)
    IN  IF Is(text, pos, "string") /\ Is(text, pos + 1, ":")
        THEN Member(ParseString(d, text[pos][2]).v[1])
        ELSE Fail

\* an array into old, which for a pair holds its two structures
ParseItems(d, text, pos, kind, old, i) ==
    LET pair == Len(old) = 2 /\ kind \notin {"string", "job_record"}
        More(r, next) ==
            CASE r.pos = 0 -> Fail
              [] Is(text, r.pos, "]") /\ (pair => i = 2) -> [pos |-> r.pos + 1, v |-> next]
              [] Is(text, r.pos, ",") /\ (pair => i = 1)
                 -> ParseItems(d, text, r.pos + 1, kind, next, i + 1)
              [] OTHER -> Fail
        Item(r) == More(r, IF pair THEN [old EXCEPT ![i] = r.v] ELSE Append(old, r.v))
    IN  Item(Parse(d, text, pos, kind, IF pair THEN old[i] ELSE Fresh(kind)))

\* a whole document: nothing may follow it
Nothing == <<>>
Read(d, kind, text) ==
    LET Whole(r) == IF r.pos = Len(text) + 1 THEN <<r.v>> ELSE Nothing
    IN  Whole(Parse(d, text, 1, kind, Fresh(kind)))

---------------------------------------------------------------------------
(* What reading back should give *)

\* doubles are rounded, times cut to microseconds
RECURSIVE Kept(_, _)
Kept(kind, v) ==
    CASE kind \in DOMAIN Readers -> [k \in DOMAIN v |-> Kept(Readers[kind][k], v[k])]
      [] kind \in DOMAIN Pairs -> [i \in 1 .. 2 |-> Kept(Pairs[kind], v[i])]
      [] kind = "jobs" -> [i \in DOMAIN v |-> Kept("job_record", v[i])]
      [] kind = "double" -> RoundedTo(v, Digits)
      [] kind = "time" -> v - (v % PerMicro)
      [] kind = "optional_time" -> [i \in DOMAIN v |-> v[i] - (v[i] % PerMicro)]
      [] OTHER -> v

\* a control character that the writer escapes with u
RECURSIVE Controlled(_, _)
Controlled(kind, v) ==
    CASE kind \in DOMAIN Readers -> \E k \in DOMAIN v : Controlled(Readers[kind][k], v[k])
      [] kind \in DOMAIN Pairs -> \E i \in 1 .. 2 : Controlled(Pairs[kind], v[i])
      [] kind = "string" -> \E i \in DOMAIN v : v[i] \in {"backspace", "formfeed", "bell"}
      [] OTHER -> FALSE
===============================================================================
