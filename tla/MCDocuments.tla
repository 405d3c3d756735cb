----------------------------- MODULE MCDocuments -----------------------------
(***************************************************************************)
(* Small documents of every kind for TLC: profiles that differ from the    *)
(* defaults in one member, a few lists of jobs, pages of up to five        *)
(* columns and two rows, short strips, and stacks of short policies.       *)
(***************************************************************************)
EXTENDS Documents

---------------------------------------------------------------------------
Strings == { <<>>, <<"a", "quote", "n">>, <<"backslash", "n">>, <<"newline", "tab", "return">>,
             <<"bell", "a">>, <<"formfeed">> }
Doubles == {25, -7, 1234564, 1234567}

\* the values of a kind that differ in one leaf from a fresh one
RECURSIVE Variants(_)
Variants(kind) ==
    LET fresh == Fresh(kind)
    IN  CASE kind \in DOMAIN Readers ->
               UNION { { [fresh EXCEPT ![k] = v] : v \in Variants(Readers[kind][k]) }
                       : k \in DOMAIN fresh }
          [] kind \in DOMAIN Pairs ->
               UNION { { [fresh EXCEPT ![i] = v] : v \in Variants(Pairs[kind]) } : i \in 1 .. 2 }
          [] kind \in DOMAIN EnumText -> DOMAIN EnumText[kind]
          [] kind = "bool" -> BOOLEAN
          [] kind = "int" -> {3, -2}
          [] kind = "count" -> {0, 7}
          [] kind = "byte" -> {0, 255}
          [] kind = "double" -> Doubles
          [] kind = "string" -> Strings
          [] kind = "optional_string" -> { <<s>> : s \in Strings }
          [] kind = "strings" -> { <<s, <<"b">>>> : s \in Strings }
          [] kind = "time" -> {5, 8}
          [] kind = "optional_time" -> { <<t>> : t \in {5, 8} }

Extras == { <<<<"null">>>>, <<<<"number", 5>>>>, <<<<"number", Unit>>>>, <<<<"string", <<"a">>>>>>,
            <<<<"{">>, <<"string", <<"x">>>>, <<":">>, <<"[">>, <<"true">>, <<",">>, <<"number", 5>>,
              <<"]">>, <<"}">>>> }

Profile(v, extra) == [kind |-> "profile", v |-> v, extra |-> extra]
FreshProfile == Profile(Fresh("profile"), <<>>)
Profiles ==
    { Profile(v, <<>>) : v \in Variants("profile") }
    \cup { Profile(Fresh("profile"), extra) : extra \in Extras }

FreshJob == [Fresh("job_record") EXCEPT !.payload.source_path = <<"a">>, !.id = <<"j">>]
JobVariants ==
    UNION { { [FreshJob EXCEPT ![k] = v] : v \in Variants(Readers["job_record"][k]) }
            : k \in DOMAIN FreshJob \ {"payload"} }
    \cup { [FreshJob EXCEPT !.payload.tags = v] : v \in Variants("strings") }
    \cup { [FreshJob EXCEPT !.payload.profile_name = v] : v \in Variants("optional_string") }
JobLists == [kind : {"jobs"}, v : {<<>>} \cup { <<j, FreshJob>> : j \in JobVariants }]
Jobs == [kind : {"job"}, v : {FreshJob}, extra : Extras \cup {<<>>}]

---------------------------------------------------------------------------
Bytes == {0, 3, 5}
BWRows(w) == { {}, 0 .. w - 1, {0}, {w - 1}, {0, 2} \cap (0 .. w - 1) }
PixelRows(format, w) ==
    { [i \in 1 .. w * Samples[format] |-> b] : b \in Bytes }
    \cup { [i \in 1 .. w * Samples[format] |-> (i * b) % 8] : b \in Bytes }
Rows(format, w) == IF format = "BW1" THEN BWRows(w) ELSE PixelRows(format, w)
None == PerInch(0)
Fine == <<PerInch(300), PerInch(200)>>
Screen == <<PerInch(72), None>>
\* resolutions that are not whole, and less than one
Fractions == <<<<145, 2>>, <<1, 3>>>>
Dpis == { <<None, None>>, Fine, Screen, Fractions }
Pictures ==
    UNION { { Picture(f, w, dpi, <<r1>>) : dpi \in Dpis, r1 \in Rows(f, w) }
            \cup { Picture(f, w, Fine, <<r1, r2>>) : r1 \in Rows(f, w), r2 \in Rows(f, w) }
            : f \in DOMAIN Samples, w \in {2, 5} }
Empties == Picture("BW1", 0, <<None, None>>, <<>>)

SomePages ==
    << Picture("BW1", 5, Fine, <<{}, {0, 3}>>), Picture("BW1", 5, Screen, <<0 .. 4>>),
       Picture("Gray8", 2, <<None, None>>, <<<<1, 2>>, <<3, 3>>>>),
       Picture("RGB24", 1, Fractions, <<<<1, 2, 3>>>>), Empties >>
PageLists ==
    { <<SomePages[i], SomePages[j]>> : i \in 1 .. 4, j \in 1 .. 5 }
    \cup { <<SomePages[i], SomePages[j], SomePages[k]>> : i \in {1, 3}, j \in 1 .. 5, k \in 1 .. 3 }
Options == [compression : Compressions, photometric : {"WhiteIsZero", "BlackIsZero"}]

TiffDoc(v, options) == [kind |-> "tiff", v |-> v, options |-> options, conflict |-> "Overwrite"]
PagesDoc(kind, v) == [kind |-> kind, v |-> v, conflict |-> "Overwrite"]
PageDocs ==
    { TiffDoc(<<p>>, o) : p \in Pictures, o \in Options }
    \cup { TiffDoc(<<p>>, Selected(p.format, raster)) : p \in Pictures, raster \in {"raw", "lzw", "jpeg"} }
    \cup { TiffDoc(ps, o) : ps \in PageLists, o \in Options }
    \cup { TiffDoc(ps, SelectedForAll(ps, raster)) : ps \in PageLists, raster \in {"raw", "jpeg"} }
    \cup { PagesDoc("bmp", <<p>>) : p \in Pictures }
    \cup { PagesDoc("pdf", ps) :
             ps \in { qs \in PageLists : \A i \in DOMAIN qs : ~IsNothing(qs[i]) } }
    \cup { PagesDoc("pdf", <<p>>) : p \in Pictures }

---------------------------------------------------------------------------
Strips(values, n) == UNION { [1 .. k -> values] : k \in 1 .. n }
Codecs ==
    [kind : {"packbits"}, v : Strips({0, 1}, 11) \cup Strips({0, 1, 2}, 6)]
    \cup [kind : {"lzw"},
          v : Strips({0, 1}, 9)
              \cup { [i \in 1 .. n |-> ((i * i * k) + (i \div 3)) % 8] : n \in 1 .. 30, k \in 0 .. 7 }]

---------------------------------------------------------------------------
Lines ==
    { <<>>, <<<<"within", 5>>, <<"priority", 7>>>>, <<<<"priority", 3>>, <<"minutes", 1>>, <<"#">>>>,
      <<<<"overdue", 9>>>>, <<<<"overdue-priority", 8>>, <<"escalate-overdue", 0>>>>,
      <<<<"escalate-overdue", 1>>>>, <<<<"no-overdue-escalation">>>>, <<<<"within", 5>>>>,
      <<<<"owner", BadValue>>>>, <<<<"#">>, <<"within", 5>>>>,
      <<<<"overdue", BadValue>>>>, <<<<"owner">>, <<"overdue", 6>>>> }
File(name, lines) == [name |-> name, candidate |-> TRUE, lines |-> lines]
Single(lines) == [directory |-> FALSE, entries |-> {File(1, lines)}]
Directory(a, b, c) ==
    [directory |-> TRUE,
     entries |-> {File(2, <<a>>), File(1, <<b>>),
                  [name |-> 3, candidate |-> FALSE, lines |-> <<c>>]}]
Policies ==
    [kind : {"policy"},
     v : { <<Directory(a, b, c), Single(<<c, a>>)>> : a \in Lines, b \in Lines, c \in Lines }]

---------------------------------------------------------------------------
MCDocs == Profiles \cup JobLists \cup Jobs \cup PageDocs \cup Codecs \cup Policies

OnePage == TiffDoc(<<SomePages[3]>>, Selected("Gray8", "jpeg"))
TwoPages == TiffDoc(<<SomePages[3], SomePages[4]>>, Selected("Gray8", "jpeg"))
MCAgain ==
    { FreshProfile, TwoPages, [OnePage EXCEPT !.conflict = "Report"],
      PagesDoc("bmp", <<SomePages[1]>>), PagesDoc("pdf", <<SomePages[4]>>) }

\* a few documents: every place, of a profile every seventh
MCCuts(doc, content) ==
    IF doc \notin MCAgain \cup { [kind |-> "jobs", v |-> <<FreshJob, FreshJob>>],
                               [kind |-> "job", v |-> FreshJob, extra |-> <<>>] } THEN {}
    ELSE IF doc.kind \in {"tiff", "bmp"} THEN 0 .. content.size - 1
    ELSE IF doc.kind = "pdf" THEN {0, 20, content.startxref}
    ELSE { n \in 0 .. Len(content) - 1 : doc.kind = "profile" => n % 7 = 0 }

\* the pages as the output writer chooses their options
MCOutput ==
    { TiffDoc(<<p>>, Selected(p.format, raster)) : p \in Pictures, raster \in {"raw", "jpeg"} }
MCNone == {}
=============================================================================
