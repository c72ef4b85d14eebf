------------------------------ MODULE MCArchive ------------------------------
EXTENDS Archive

\* An entry of a file to build: its name, what it holds and how.
Part(name, bytes)   == [name |-> name, bytes |-> bytes, method |-> "store", lies |-> FALSE]
Packed(name, bytes) == [Part(name, bytes) EXCEPT !.method = "deflate"]
Lying(name, bytes)  == [Part(name, bytes) EXCEPT !.lies = TRUE]

DataOf(part) == IF part.method = "deflate" THEN <<"deflated">> \o part.bytes ELSE part.bytes
Gap == 1      \* what a local header's extra field takes

\* An archive of these parts: its data in this order, its directory in another,
\* each field in `saturate` (and each that must be) moved to a zip64 record.
Build(list, reversed, saturate) ==
    LET offset(i) == SumOf([j \in 1 .. i - 1 |-> 2 + Gap + Len(DataOf(list[j]))])
        fields(i) == <<Len(list[i].bytes) + (IF list[i].lies THEN 1 ELSE 0),
                       Len(DataOf(list[i])), offset(i)>>
        wide(i) == {k \in 1 .. 3 : <<"usize", "csize", "at">>[k] \in saturate \/ fields(i)[k] >= MaxField}
        base(i, k) == IF k \in wide(i) THEN MaxField ELSE fields(i)[k]
        extra(i) == LET ks == SetToSortSeq(wide(i), <) IN [k \in DOMAIN ks |-> fields(i)[ks[k]]]
        record(i) == [name |-> list[i].name, at |-> base(i, 3), csize |-> base(i, 2),
                      usize |-> base(i, 1), crc |-> list[i].bytes, extra |-> extra(i),
                      encrypted |-> ToSet(list[i].bytes) \intersect {"secret"} # {},
                      method |-> list[i].method]
        count == Len(list)
        cdOffset == offset(count + 1)
        narrow(field, value, sentinel) == IF field \in saturate \/ value >= sentinel THEN sentinel ELSE value
    IN  [state |-> "zip",
         sound |-> \A i \in DOMAIN list : ~list[i].lies,
         blocks |-> [at \in {offset(i) : i \in DOMAIN list} |->
                        [extra |-> Gap, bytes |-> DataOf(list[CHOOSE i \in DOMAIN list : offset(i) = at])]],
         directory |-> [i \in DOMAIN list |-> record(IF reversed THEN count + 1 - i ELSE i)],
         end |-> [total |-> narrow("total", count, MaxCount),
                  cdSize |-> narrow("cdSize", count, MaxField),
                  cdOffset |-> narrow("cdOffset", cdOffset, MaxField)],
         end64 |-> IF saturate # {} \/ count >= MaxCount \/ cdOffset >= MaxField
                   THEN [total |-> count, cdSize |-> count, cdOffset |-> cdOffset]
                   ELSE Absent,
         size |-> cdOffset + count + 1]

RawFile == [state |-> "raw", bytes |-> <<"half">>, size |-> 1]

Types == Part("types", <<"x">>)
Mesh  == Packed("model", <<"mesh">>)

\* A project of the Bambu lineage whose parts refer to the one removed.
Referring == {<<Part("types", <<a, "x">>), Part("deep", <<b>>), Part("cut", <<"c">>),
                Part("project", <<"p">>)>> : a, b \in References}

Projects ==
    {<<Types, Mesh>>,
     <<Types, Packed("prusa", <<"stamp 1", "p">>), Mesh>>,
     <<Types, Part("cura", <<"x">>), Part("model", <<"mesh">>)>>,
     <<Part("prusa", <<"p">>), Part("slice", <<"bbl">>), Mesh>>,
     <<Part("slice", <<"acnext", "bbl">>), Part("project", <<"p">>), Types>>,
     <<Part("slice", <<"orca">>), Mesh, Part("thumb", <<"t">>)>>,
     <<Part("slice", <<"bbl">>), Lying("rels", <<"plain">>), Mesh>>,
     <<Part("project", <<"p">>), Part("model", <<"secret">>)>>,
     <<Part("project", <<"p">>), Lying("model", <<"mesh">>)>>,
     <<Part("rels", <<"up", "sibling">>), Part("cut", <<"c">>), Part("slice", <<"x">>)>>,
     <<Part("model", <<"a", "thumb", "b">>), Part("thumb", <<"b">>)>>}

\* Survivors whose offsets, sizes and number reach the sentinels.
Wide(n) == <<Part("project", <<"p">>), Part("types", [i \in 1 .. n |-> "x"]), Part("model", <<"mesh">>)>>
Long(n) == <<Part("project", <<"p">>), Part("thumb", [i \in 1 .. n |-> "x"])>>
Many == <<Part("project", <<"p">>), Part("types", <<>>), Part("rels", <<>>), Part("model", <<>>),
          Part("thumb", <<>>), Part("deep", <<>>)>>

Fields == {{}, {"usize", "csize"}, {"csize", "at"}, {"usize", "at", "total"}, {"cdSize", "cdOffset"}}

MCInputs ==
    {Build(list, r, {}) : list \in Referring, r \in BOOLEAN}
        \union {Build(list, r, sat) : list \in Projects, r \in BOOLEAN, sat \in Fields}
        \union {Build(Wide(n), FALSE, {}) : n \in 20 .. 27}
        \union {Build(Long(n), FALSE, {}) : n \in 25 .. 30}
        \union {Build(Many, r, {}) : r \in BOOLEAN}
        \union {Build(Tail(Many) \o <<Part("cut", <<"c">>)>>, TRUE, {"total"}), RawFile}

MCSwaps(file) ==
    {RawFile,
     Build(<<Types, Mesh>>, FALSE, {}),
     Build(<<Part("cut", <<"c">>), Part("project", <<"p">>), Part("types", <<"plain", "y", "y">>),
             Part("deep", <<"x">>)>>, FALSE, {})}

\* A list like the file's own, as a slicer might write it again.
ListOf(file) ==
    [i \in DOMAIN EntriesOf(file) |-> Part(EntriesOf(file)[i].name, BytesOf(file, EntriesOf(file)[i]))]

Restamped(list) ==
    [i \in DOMAIN list |->
        IF list[i].name = "prusa" /\ list[i].bytes # <<>> /\ list[i].bytes[1] = "stamp 1"
        THEN [list[i] EXCEPT !.bytes = <<"stamp 2">> \o Tail(list[i].bytes)] ELSE list[i]]

MCSaves(file) ==
    IF ~Reads(file) THEN {file, RawFile}
    ELSE LET list == ListOf(file)
             packed == [i \in DOMAIN list |-> [list[i] EXCEPT !.method = "deflate"]]
             touched == {Tail(list), list \o <<Part("thumb", <<"new">>)>>,
                         list \o <<Part("prusa", <<"stamp 1">>)>>,
                         <<Part("model", <<"a">>), Part("thumb", <<"b", "model", "a", "thumb", "b">>)>>,
                         <<Part("model", <<"a", "thumb", "b", "thumb", "b">>)>>,
                         [list EXCEPT ![1] = Part(list[1].name, <<"edited">>)]}
         IN  {file, RawFile}
                \union {Build(l, r, {}) : l \in {list, packed, Restamped(list)}, r \in BOOLEAN}
                \union {Build(l, FALSE, {}) : l \in touched}
                \union {Build(list \o <<Lying("slice", <<"x">>)>>, FALSE, {})}
=============================================================================
