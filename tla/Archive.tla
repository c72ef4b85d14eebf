------------------------------- MODULE Archive -------------------------------
(***************************************************************************)
(* A 3MF as an archive: reading a directory (files/zip.rs), telling what    *)
(* the file is (classify.rs), removing a slicer's configuration by writing  *)
(* a new archive (strip3mf.rs over zip_write.rs) and telling whether a      *)
(* slicer changed what it was given (entry_hash.rs).  One strip runs while  *)
(* another program may put another file in the input's place, so every step *)
(* that opens the path again is an action of its own.                       *)
(*                                                                          *)
(* Scale: a header, a directory record and a name take one unit of length;  *)
(* MaxField and MaxCount are the 32 and 16 bit sentinels.                   *)
(***************************************************************************)
EXTENDS Integers, Sequences, FiniteSets, SequencesExt

CONSTANTS Inputs,     \* the archives a strip may be given
          Swaps(_),   \* what another program may put in the place of one
          Saves(_),   \* what a slicer may leave of a project it was given
          MaxField, MaxCount,
          MaxSwaps    \* bounds how often the input is replaced

\* What the constants are: MCParts assumes it of its instance.
ArchiveAssumption ==
    MaxField \in Nat /\ MaxCount \in Nat \ {0} /\ MaxSwaps \in Nat

VARIABLES input,    \* the file at the input path
          swaps,    \* how often it was replaced
          stage,    \* where the strip stands
          class,    \* what the input classified as
          held,     \* the archive opened to look for references
          removed,  \* the names to leave out
          replace,  \* the parts to write instead, by name
          parts,    \* the referencing entries not looked at yet
          plan,     \* the entries to write
          source,   \* the archive the data is copied from
          out,      \* the file at the output path
          outcome,  \* the strip's answer
          launched, \* the hash and the digests recorded of the output
          verdict   \* whether what came back had changed

vars == <<input, swaps, stage, class, held, removed, replace, parts, plan, source, out,
          outcome, launched, verdict>>

Absent  == [state |-> "absent"]
Unknown == "unknown"
NoPart  == "no part"

SumOf(seq) == FoldLeft(LAMBDA a, b : a + b, 0, seq)
NamesOf(entries) == {entries[i].name : i \in DOMAIN entries}

-----------------------------------------------------------------------------
(* Names and references.  A name is its path; a reference is a spelling.    *)

PathOf == [types |-> <<"types">>, rels |-> <<"_rels", "rels">>, model |-> <<"3D", "model">>,
           thumb |-> <<"M", "thumb">>, cura |-> <<"Cura", "x">>, prusa |-> <<"M", "prusa">>,
           slice |-> <<"M", "slice">>, project |-> <<"M", "project">>, cut |-> <<"M", "cut">>,
           deep |-> <<"M", "_rels", "rels">>]
EntryNames == DOMAIN PathOf

\* A part of a _rels directory, or the content types.
IsReferencing(name) ==
    LET path == PathOf[name]
    IN  name = "types" \/ (Len(path) >= 2 /\ path[Len(path) - 1] = "_rels")

\* How a reference is written: the element around it and its text.
Spelling ==
    [plain   |-> [shape |-> "element",  text |-> <<"/", "M", "/", "cut">>],
     up      |-> [shape |-> "element",  text |-> <<"..", "/", ".", "/", "M", "/", "cut">>],
     sibling |-> [shape |-> "element",  text |-> <<"cut">>],
     charref |-> [shape |-> "element",  text |-> <<"/", "M", "&slash;", "cut">>],
     percent |-> [shape |-> "element",  text |-> <<"/", "M", "%slash", "cut", "#", "x">>],
     odd     |-> [shape |-> "unmatched", text |-> <<"/", "M", "/", "cut">>],
     outside |-> [shape |-> "external", text |-> <<"/", "M", "/", "cut">>],
     web     |-> [shape |-> "element",  text |-> <<"scheme", "M", "/", "cut">>],
     other   |-> [shape |-> "element",  text |-> <<"/", "3D", "/", "model">>]]
References == DOMAIN Spelling

Mapped(text, from, to) == [i \in DOMAIN text |-> IF text[i] = from THEN to ELSE text[i]]
Before(text, marks) ==
    LET at == {i \in DOMAIN text : text[i] \in marks}
    IN  IF at = {} THEN text ELSE SubSeq(text, 1, (CHOOSE i \in at : \A j \in at : i <= j) - 1)

\* As if the fragment came off before the character references (which hold a #).
FragmentFirst(name, text) ==
    LET decoded == Mapped(Before(text, {"#", "?", "&slash;"}), "%slash", "/")
        named   == {n \in EntryNames : PathOf[n] = SelectSeq(decoded, LAMBDA t : t # "/")}
    IN  IF named = {} THEN NoPart ELSE CHOOSE n \in named : TRUE

\* resolve_part_name: character references come off before the fragment, the
\* percent escapes after it; then the path relative to the _rels directory's.
ResolvePartName(name, text) ==
    LET literal == Mapped(text, "&slash;", "/")
        decoded == Mapped(Before(literal, {"#", "?"}), "%slash", "/")
        path    == PathOf[name]
        absolute == decoded # <<>> /\ decoded[1] = "/"
        base    == IF absolute \/ Len(path) < 2 THEN <<>> ELSE SubSeq(path, 1, Len(path) - 2)
        walk(at, segment) ==
            CASE segment \in {"/", "."} -> at
              [] segment = ".." -> IF at = <<>> THEN at ELSE Front(at)
              [] OTHER -> Append(at, segment)
        reached == FoldLeft(walk, base, decoded)
        named   == {n \in EntryNames : PathOf[n] = reached}
    IN  IF (literal # <<>> /\ literal[1] = "scheme") \/ named = {} THEN NoPart
        ELSE CHOOSE n \in named : TRUE

IsReference(byte) == byte \in References

\* repair_references: elements the pattern matches are dropped when they name a
\* removed part; only a relationship can be external, and then it is left.
RepairReferences(name, bytes, gone) ==
    SelectSeq(bytes, LAMBDA byte :
        ~(/\ IsReference(byte)
          /\ \/ Spelling[byte].shape = "element"
             \/ Spelling[byte].shape = "external" /\ name = "types"
          /\ ResolvePartName(name, Spelling[byte].text) \in gone))

\* dangling_reference: whatever stands around it, on the text to be written.
Dangling(name, bytes, gone) ==
    \E i \in DOMAIN bytes : /\ IsReference(bytes[i])
                            /\ ResolvePartName(name, Spelling[bytes[i]].text) \in gone

-----------------------------------------------------------------------------
(* Reading.  A file is its blocks by offset, its directory and its size.    *)

Saturated(value) == value = MaxField

\* As if the extra field held the compressed size first.
SizesCompressedFirst(record) ==
    LET before(n) == Cardinality({i \in 1 .. n : Saturated(<<record.csize, record.usize, record.at>>[i])})
        take(n, base) == IF Saturated(base) THEN record.extra[before(n)] ELSE base
    IN  [usize |-> take(2, record.usize), csize |-> take(1, record.csize), at |-> take(3, record.at)]

\* apply_zip64_extra: the saturated fields stand in the extra in this order.
Sizes(record) ==
    LET before(n) == Cardinality({i \in 1 .. n : Saturated(<<record.usize, record.csize, record.at>>[i])})
        take(n, base) == IF Saturated(base) THEN record.extra[before(n)] ELSE base
    IN  [usize |-> take(1, record.usize), csize |-> take(2, record.csize), at |-> take(3, record.at)]

SizesAreThere(record) ==
    Cardinality({i \in 1 .. 3 : Saturated(<<record.usize, record.csize, record.at>>[i])})
        <= Len(record.extra)

\* The end record's fields, each taken from the zip64 record where saturated.
EndField(file, field) ==
    LET sentinel == IF field = "total" THEN MaxCount ELSE MaxField
    IN  IF file.end[field] = sentinel THEN file.end64[field] ELSE file.end[field]

NeedsEnd64(file) == file.end.total = MaxCount \/ Saturated(file.end.cdSize) \/ Saturated(file.end.cdOffset)

EntryOf(record) ==
    [name |-> record.name, at |-> Sizes(record).at, csize |-> Sizes(record).csize,
     usize |-> Sizes(record).usize, crc |-> record.crc, encrypted |-> record.encrypted,
     method |-> record.method]

\* read_entries: whether a file's directory is read at all, and as what.
Reads(file) ==
    /\ file.state = "zip"
    /\ NeedsEnd64(file) => file.end64 # Absent
    /\ EndField(file, "cdOffset") + EndField(file, "cdSize") <= file.size
    /\ EndField(file, "total") <= Len(file.directory)
    /\ \A i \in 1 .. EndField(file, "total") : SizesAreThere(file.directory[i])

EntriesOf(file) ==
    IF Reads(file) THEN [i \in 1 .. EndField(file, "total") |-> EntryOf(file.directory[i])] ELSE <<>>

\* data_offset_of: past the block's own header, inside the file.
BlockReads(file, entry) ==
    /\ file.state = "zip"
    /\ entry.at \in DOMAIN file.blocks
    /\ entry.at + 2 + file.blocks[entry.at].extra + entry.csize <= file.size

\* What lies in an entry's range, and what it inflates to: deflated data start
\* with a mark of their own, so a method that is not theirs does not read.
Stored(file, entry) == file.blocks[entry.at].bytes
Inflates(data)      == data # <<>> /\ data[1] = "deflated"
BytesOf(file, entry) ==
    IF entry.method = "deflate" THEN Tail(Stored(file, entry)) ELSE Stored(file, entry)

\* read_entry_from: the range must yield the declared size.
EntryReads(file, entry) ==
    /\ BlockReads(file, entry)
    /\ entry.csize = Len(Stored(file, entry))
    /\ entry.method = "deflate" => Inflates(Stored(file, entry))
    /\ entry.usize = Len(BytesOf(file, entry))

Find(entries, name) == entries[CHOOSE i \in DOMAIN entries :
                           entries[i].name = name /\ \A j \in 1 .. i - 1 : entries[j].name # name]

-----------------------------------------------------------------------------
(* classify_3mf.                                                            *)

Other       == [kind |-> "other", slicer |-> "none"]
Model       == [kind |-> "model", slicer |-> "none"]
Project(s)  == [kind |-> "project", slicer |-> s]

\* The registry of slice_info headers, in its order.
SlicerFromSliceInfo(bytes) ==
    LET has(key) == \E i \in DOMAIN bytes : bytes[i] = key
    IN  CASE has("acnext") -> "anycubic"
          [] ~has("acnext") /\ has("orca") -> "orca"
          [] ~has("acnext") /\ ~has("orca") /\ has("bbl") -> "bambu"
          [] OTHER -> "none"

\* What the names alone say; slice_info has to be read for its slicer.
ClassifyNames(entries) ==
    LET names == NamesOf(entries)
    IN  CASE "cura" \in names -> Project("cura")
          [] "cura" \notin names /\ "prusa" \in names -> Project("prusaslicer")
          [] names \intersect {"cura", "prusa"} = {} /\ "slice" \in names -> Project("read slice")
          [] names \intersect {"cura", "prusa", "slice"} = {} /\ "project" \in names -> Project("none")
          [] OTHER -> Model

SliceInfo(file, entries) ==
    LET entry == Find(entries, "slice")
    IN  IF EntryReads(file, entry) THEN SlicerFromSliceInfo(BytesOf(file, entry)) ELSE "none"

Classify(file) ==
    LET entries == EntriesOf(file)
        answer  == ClassifyNames(entries)
    IN  IF ~Reads(file) THEN Other
        ELSE IF answer.slicer = "read slice" THEN Project(SliceInfo(file, entries))
        ELSE answer

\* strip_set_for.
StripSet(classification) ==
    CASE classification.kind = "model"     -> {}
      [] classification.slicer = "cura"    -> {"cura"}
      [] classification.slicer = "prusaslicer" -> {"prusa"}
      [] OTHER -> {"slice", "project", "cut"}

-----------------------------------------------------------------------------
(* rewrite_zip.                                                             *)

\* Positional order, not the directory's.
Positional(entries) == SortSeq(entries, LAMBDA a, b : a.at < b.at)

CrcOf(bytes) == bytes      \* a checksum tells contents apart

Survivors(entries) == SelectSeq(Positional(entries), LAMBDA e : e.name \notin removed)

Payload(entry) == IF entry.name \in DOMAIN replace
                  THEN [csize |-> Len(replace[entry.name]), usize |-> Len(replace[entry.name]),
                        crc |-> CrcOf(replace[entry.name]), method |-> "store"]
                  ELSE [csize |-> entry.csize, usize |-> entry.usize, crc |-> entry.crc,
                        method |-> entry.method]

\* The plan's records: each at the sum of what is written before it.
Planned(entries) ==
    LET kept == Survivors(entries)
        length(i) == 2 + Payload(kept[i]).csize
    IN  [i \in DOMAIN kept |->
            [from |-> kept[i],
             name |-> kept[i].name, encrypted |-> kept[i].encrypted,
             csize |-> Payload(kept[i]).csize, usize |-> Payload(kept[i]).usize,
             crc |-> Payload(kept[i]).crc, method |-> Payload(kept[i]).method,
             at |-> SumOf([j \in 1 .. i - 1 |-> length(j)])]]

PlannedBytes(p) == SumOf([i \in DOMAIN p |-> 2 + p[i].csize])

\* As if a field as large as the sentinel were still representable.
PlanRefusalPastSentinel(entries) ==
    LET p == Planned(entries)
        bad(i) == p[i].csize > MaxField \/ p[i].usize > MaxField \/ p[i].at > MaxField
    IN  IF DOMAIN replace \ NamesOf(entries) # {} THEN "unreadable"
        ELSE IF \E i \in DOMAIN p : p[i].encrypted THEN "encrypted"
        ELSE IF (\E i \in DOMAIN p : bad(i)) \/ Len(p) > MaxCount \/ PlannedBytes(p) > MaxField
        THEN "unreadable" ELSE "none"

\* The first reason to refuse, in the order the code meets them.
PlanRefusal(entries) ==
    LET p == Planned(entries)
        tooBig(i) == p[i].csize >= MaxField \/ p[i].usize >= MaxField \/ p[i].at >= MaxField
        bad(i) == p[i].encrypted \/ tooBig(i)
        first == CHOOSE i \in DOMAIN p : bad(i) /\ \A j \in 1 .. i - 1 : ~bad(j)
    IN  IF DOMAIN replace \ NamesOf(entries) # {} THEN "unreadable"
        ELSE IF \E i \in DOMAIN p : bad(i)
        THEN IF p[first].encrypted THEN "encrypted" ELSE "unreadable"
        ELSE IF \/ Len(p) >= MaxCount \/ PlannedBytes(p) >= MaxField \/ Len(p) >= MaxField
        THEN "unreadable"
        ELSE "none"

\* What is at the output while it is written and once it is finished.
Partial(blocks, cursor) == [state |-> "partial", blocks |-> blocks, size |-> cursor]

PutBlock(file, bytes) ==
    Partial([at \in DOMAIN file.blocks \union {file.size} |->
                IF at = file.size THEN [extra |-> 0, bytes |-> bytes] ELSE file.blocks[at]],
            file.size + 2 + Len(bytes))

\* A field is cut to its width; `from` is not on the wire.
Record(p) == [name |-> p.name, encrypted |-> p.encrypted, crc |-> p.crc, method |-> p.method,
              extra |-> <<>>,
              csize |-> p.csize % (MaxField + 1), usize |-> p.usize % (MaxField + 1),
              at |-> p.at % (MaxField + 1)]

Finished(file) ==
    [state |-> "zip", blocks |-> file.blocks,
     directory |-> [i \in DOMAIN plan |-> Record(plan[i])],
     end |-> [total |-> Len(plan) % (MaxCount + 1), cdSize |-> Len(plan) % (MaxField + 1),
              cdOffset |-> PlannedBytes(plan) % (MaxField + 1)],
     end64 |-> Absent,
     size |-> file.size + Len(plan) + 1]

-----------------------------------------------------------------------------
(* strip3mf.  Every refusal removes what lies at the output, when it can.   *)

Refuse(reason) == /\ outcome' = reason
                  /\ \/ stage' = "over" /\ out' = Absent
                     \/ stage' = "littered" /\ out # Absent /\ UNCHANGED out

StripVars == <<class, held, removed, replace, parts, plan, source>>

\* The first read of the path: the names.
ClassifyInput ==
    LET answer == ClassifyNames(EntriesOf(input))
    IN  /\ stage = "classify"
        /\ IF ~Reads(input) THEN Refuse("unreadable") /\ UNCHANGED <<class, held>>
           ELSE /\ class' = answer
                /\ held' = input
                /\ stage' = IF answer.slicer = "read slice" THEN "slice" ELSE "open"
                /\ UNCHANGED <<out, outcome>>
        /\ UNCHANGED <<input, swaps, removed, replace, parts, plan, source, launched, verdict>>

\* slice_info is read by opening the path again, at the place just read.
ReadSliceInfo ==
    LET entry == Find(EntriesOf(held), "slice")
    IN  /\ stage = "slice"
        /\ class' = Project(IF EntryReads(input, entry)
                            THEN SlicerFromSliceInfo(BytesOf(input, entry)) ELSE "none")
        /\ stage' = "open"
        /\ UNCHANGED <<input, swaps, held, removed, replace, parts, plan, source, out, outcome,
                       launched, verdict>>

\* strip_into: with nothing to remove the output is a copy.
OpenInput ==
    LET names == NamesOf(EntriesOf(input))
        gone  == StripSet(class) \intersect names
    IN  /\ stage = "open"
        /\ IF ~Reads(input)
           THEN Refuse("unreadable") /\ UNCHANGED <<held, removed, parts>>
           ELSE /\ held' = input
                /\ removed' = gone
                /\ parts' = SelectSeq(EntriesOf(input), LAMBDA e : e.name \notin gone
                                                                 /\ IsReferencing(e.name))
                /\ stage' = IF gone = {} THEN "copy" ELSE "repair"
                /\ UNCHANGED <<out, outcome>>
        /\ UNCHANGED <<input, swaps, class, replace, plan, source, launched, verdict>>

CopyWhole ==
    /\ stage = "copy"
    /\ out' = input
    /\ stage' = "check"
    /\ UNCHANGED <<input, swaps, StripVars, outcome, launched, verdict>>

\* One referencing part: read, repaired, and refused if a reference is left.
RepairPart ==
    LET entry    == Head(parts)
        original == BytesOf(held, entry)
        repaired == RepairReferences(entry.name, original, removed)
    IN  /\ stage = "repair" /\ parts # <<>>
        /\ IF ~EntryReads(held, entry)
           THEN Refuse("unreadable") /\ UNCHANGED <<replace, parts>>
           ELSE IF Dangling(entry.name, repaired, removed)
           THEN Refuse("left behind") /\ UNCHANGED <<replace, parts>>
           ELSE /\ parts' = Tail(parts)
                /\ replace' = IF repaired = original THEN replace
                              ELSE [n \in DOMAIN replace \union {entry.name} |->
                                       IF n = entry.name THEN repaired ELSE replace[n]]
                /\ UNCHANGED <<stage, out, outcome>>
        /\ UNCHANGED <<input, swaps, class, held, removed, plan, source, launched, verdict>>

\* rewrite_zip reads the directory again; every check comes before the output.
PlanRewrite ==
    LET entries == EntriesOf(input)
        refusal == PlanRefusal(entries)
    IN  /\ stage = "repair" /\ parts = <<>>
        /\ IF ~Reads(input) THEN Refuse("unreadable") /\ UNCHANGED plan
           ELSE IF refusal # "none" THEN Refuse(refusal) /\ UNCHANGED plan
           ELSE /\ plan' = Planned(entries)
                /\ stage' = "create"
                /\ UNCHANGED <<out, outcome>>
        /\ UNCHANGED <<input, swaps, class, held, removed, replace, parts, source, launched, verdict>>

\* write_archive opens the path once more, then creates the output.
CreateOutput ==
    /\ stage = "create"
    /\ source' = input
    /\ out' = Partial([at \in {} |-> 0], 0)
    /\ stage' = "write"
    /\ UNCHANGED <<input, swaps, class, held, removed, replace, parts, plan, outcome,
                   launched, verdict>>

Written == Cardinality(DOMAIN out.blocks)

\* copy_entry_data: the range must lie in the file and start at a header; what
\* it holds is copied as it is.
Copied(entry) == IF Len(Stored(source, entry)) = entry.csize THEN Stored(source, entry)
                 ELSE [i \in 1 .. entry.csize |-> "torn"]

WriteEntry ==
    LET next  == plan[Written + 1]
        fresh == next.name \in DOMAIN replace
    IN  /\ stage = "write" /\ Written < Len(plan)
        /\ IF fresh \/ BlockReads(source, next.from)
           THEN /\ out' = PutBlock(out, IF fresh THEN replace[next.name] ELSE Copied(next.from))
                /\ UNCHANGED <<stage, outcome>>
           ELSE Refuse("unreadable")
        /\ UNCHANGED <<input, swaps, StripVars, launched, verdict>>

WriteDirectory ==
    /\ stage = "write" /\ Written = Len(plan)
    /\ out' = Finished(out)
    /\ stage' = "check"
    /\ UNCHANGED <<input, swaps, StripVars, outcome, launched, verdict>>

\* A write that fails (a full disk) removes what it had written.
WriteFails ==
    /\ stage \in {"copy", "write"}
    /\ Refuse("unreadable")
    /\ UNCHANGED <<input, swaps, StripVars, launched, verdict>>

\* The result is classified again.
CheckOutput ==
    /\ stage = "check"
    /\ IF Classify(out).kind = "model"
       THEN outcome' = "stripped" /\ stage' = "over" /\ UNCHANGED out
       ELSE Refuse("left behind")
    /\ UNCHANGED <<input, swaps, StripVars, launched, verdict>>

\* Another program puts a file where the input is.
SwapInput ==
    /\ stage \notin {"over", "littered", "launched", "saved"}
    /\ swaps < MaxSwaps
    /\ swaps' = swaps + 1
    /\ input' \in Swaps(input)
    /\ UNCHANGED <<stage, StripVars, out, outcome, launched, verdict>>

-----------------------------------------------------------------------------
(* entry_hash and entry_digests, of the stripped file and of what returns.  *)

\* hashable_bytes: the stamped first line of PrusaSlicer's config is left out.
Hashable(name, bytes) ==
    IF name = "prusa" /\ bytes # <<>> /\ bytes[1] \in {"stamp 1", "stamp 2"} THEN Tail(bytes) ELSE bytes

\* As if nothing marked where a name ends and its content begins.
Unframed(bytes) == bytes

\* A length before what it describes.
Framed(bytes) == <<ToString(Len(bytes))>> \o bytes

Whole(file) == \A i \in DOMAIN EntriesOf(file) : EntryReads(file, EntriesOf(file)[i])

\* Every entry of a name, in the order of the directory, is hashed.
HashInput(file) ==
    LET entries == EntriesOf(file)
        named(n) == SelectSeq(entries, LAMBDA e : e.name = n)
        fed(e) == Framed(<<e.name>>) \o Framed(Hashable(e.name, BytesOf(file, e)))
    IN  FoldLeft(LAMBDA acc, n : acc \o FoldLeft(LAMBDA a, e : a \o fed(e), <<>>, named(n)),
                 <<>>, SetToSeq(NamesOf(entries)))

\* A file whose directory does not parse is hashed as its bytes; one whose
\* entry does not read is an error.
EntryHash(file) ==
    CASE ~Reads(file) -> [ok |-> TRUE, zip |-> FALSE, over |-> file.bytes]
      [] Reads(file) /\ Whole(file) -> [ok |-> TRUE, zip |-> TRUE, over |-> HashInput(file)]
      [] OTHER -> [ok |-> FALSE, zip |-> TRUE, over |-> <<>>]

\* The last entry of a name is its digest; a file that is no archive is its own
\* only entry.
Digests(file) ==
    LET entries == EntriesOf(file)
        last(n) == CHOOSE i \in DOMAIN entries :
                       entries[i].name = n /\ \A j \in i + 1 .. Len(entries) : entries[j].name # n
    IN  IF ~Reads(file) THEN [n \in {"itself"} |-> file.bytes]
        ELSE [n \in NamesOf(entries) |-> Hashable(n, BytesOf(file, entries[last(n)]))]

\* diff_digests.
Diff(before, after) ==
    [added   |-> DOMAIN after \ DOMAIN before,
     removed |-> DOMAIN before \ DOMAIN after,
     changed |-> {n \in DOMAIN before \intersect DOMAIN after : before[n] # after[n]}]

\* A copy is handed to a slicer, its hash and digests recorded: a stripped one,
\* or one as it is.  A copy that cannot be hashed is not launched.
Launch(copy) ==
    /\ out' = copy
    /\ launched' = IF EntryHash(copy).ok
                   THEN [hash |-> EntryHash(copy), digests |-> Digests(copy), file |-> copy]
                   ELSE Absent
    /\ stage' = IF EntryHash(copy).ok THEN "launched" ELSE "refused"
    /\ UNCHANGED <<input, swaps, StripVars, outcome, verdict>>

LaunchStripped == stage = "over" /\ outcome = "stripped" /\ Launch(out)
LaunchAsIs     == stage = "classify" /\ Launch(input)

\* The slicer writes over it: another packaging, other contents, half a file.
Save ==
    /\ stage = "launched"
    /\ out' \in Saves(out)
    /\ stage' = "saved"
    /\ UNCHANGED <<input, swaps, StripVars, outcome, launched, verdict>>

Judge ==
    LET now == EntryHash(out)
    IN  /\ stage = "saved"
        /\ verdict' = IF ~now.ok THEN [answer |-> "not settled", diff |-> Absent]
                      ELSE IF now = launched.hash THEN [answer |-> "same", diff |-> Absent]
                      ELSE [answer |-> "changed", diff |-> Diff(launched.digests, Digests(out))]
        /\ stage' = "judged"
        /\ UNCHANGED <<input, swaps, StripVars, out, outcome, launched>>

Init ==
    /\ input \in Inputs
    /\ swaps = 0
    /\ stage = "classify"
    /\ class = Other
    /\ held = Absent
    /\ removed = {}
    /\ replace = [n \in {} |-> <<>>]
    /\ parts = <<>>
    /\ plan = <<>>
    /\ source = Absent
    /\ out = Absent
    /\ outcome = "none"
    /\ launched = Absent
    /\ verdict = [answer |-> "none", diff |-> Absent]

Next ==
    \/ ClassifyInput \/ ReadSliceInfo \/ OpenInput \/ CopyWhole
    \/ RepairPart \/ PlanRewrite
    \/ CreateOutput \/ WriteEntry \/ WriteDirectory \/ WriteFails
    \/ CheckOutput \/ SwapInput
    \/ LaunchStripped \/ LaunchAsIs \/ Save \/ Judge

Spec == Init /\ [][Next]_vars

-----------------------------------------------------------------------------
(* Properties.                                                              *)

\* A strip answers, and an output is whole, only at the end; only what could not
\* be removed stays half written.
TypeOK ==
    /\ swaps \in 0 .. MaxSwaps
    /\ stage \in {"classify", "slice", "open", "copy", "repair", "create", "write", "check",
                  "over", "littered", "launched", "refused", "saved", "judged"}
    /\ outcome \in {"none", "stripped", "unreadable", "encrypted", "left behind"}
    /\ outcome # "none" => stage \notin {"classify", "slice", "open", "repair", "write", "check"}
    /\ removed \subseteq EntryNames /\ DOMAIN replace \subseteq EntryNames \ removed
    /\ out.state = "partial" => stage \in {"write", "littered"}

\* What an entry of a readable archive holds.
Holds(file, entry) == IF EntryReads(file, entry) THEN BytesOf(file, entry) ELSE <<"unreadable">>

\* The references that mean the part, whatever they are spelled like.
MeansCut(name, byte) == \/ byte \in {"plain", "up", "charref", "percent", "odd", "outside"}
                        \/ byte = "sibling" /\ name = "deep"

\* The directory is read for what it says (read_entries, apply_zip64_extra): a
\* sound archive's entries are its blocks, whichever of its fields the writer
\* chose to saturate.
DirectoryIsRead ==
    input.state = "zip" /\ input.sound =>
        /\ Reads(input)
        /\ {EntriesOf(input)[i].at : i \in DOMAIN EntriesOf(input)} = DOMAIN input.blocks
        /\ \A i \in DOMAIN EntriesOf(input) : EntryReads(input, EntriesOf(input)[i])

\* A stripped file is a model for the same reader, it is never the half of one,
\* and a refusal that could remove its output leaves nothing (strip3mf); with the input left alone, none of
\* its references means a part that was removed.
StrippedIsClean ==
    /\ outcome = "stripped" /\ stage = "over" => Classify(out).kind = "model"
    /\ outcome \notin {"none", "stripped"} /\ stage # "littered" => out = Absent
    /\ outcome = "stripped" /\ stage = "over" /\ swaps = 0 /\ "cut" \in removed =>
          \A i \in DOMAIN EntriesOf(out) :
              LET entry == EntriesOf(out)[i]
                  held_bytes == Holds(out, entry)
              IN  IsReferencing(entry.name) =>
                      \A j \in DOMAIN held_bytes : ~MeansCut(entry.name, held_bytes[j])

\* What rewrite_zip writes reads back without zip64 records: the survivors in
\* the order they stood in the file, whose data are untouched unless their
\* references were repaired, with checksums that are their contents'.
RewriteReadsBack ==
    stage = "check" /\ removed # {} =>
        LET before == SelectSeq(Positional(EntriesOf(held)), LAMBDA e : e.name \notin removed)
            after  == EntriesOf(out)
        IN  /\ Reads(out)
            /\ ~NeedsEnd64(out)
            /\ swaps = 0 =>
                  /\ [i \in DOMAIN after |-> after[i].name] = [i \in DOMAIN before |-> before[i].name]
                  /\ \A i \in DOMAIN after :
                        LET was == Holds(held, before[i])
                            is  == Holds(out, after[i])
                        IN  IF after[i].name \in DOMAIN replace
                            THEN /\ is # was
                                 /\ \A j \in DOMAIN was : was[j] \in References \/ was[j] \in ToSet(is)
                                 /\ after[i].crc = is
                            ELSE is = was /\ after[i].crc = before[i].crc

\* What a file means: what each name holds, in the directory's order, but for
\* the stamp of a PrusaSlicer configuration.
Meaning(file) ==
    LET entries == EntriesOf(file)
        unstamped(e) == SelectSeq(BytesOf(file, e), LAMBDA b : b \notin {"stamp 1", "stamp 2"})
        holdings(n) == LET of == SelectSeq(entries, LAMBDA e : e.name = n)
                       IN  [i \in DOMAIN of |-> unstamped(of[i])]
    IN  [n \in NamesOf(entries) |-> holdings(n)]

\* A file that came back is told "same" exactly when it means what was handed
\* over, however it is packed; half a file is never taken for the same, a file
\* whose entries do not read is not judged, and a change names its entries
\* (entry_hash, diff_digests).
VerdictIsHonest ==
    stage = "judged" =>
        LET before == launched.file
        IN  /\ (verdict.answer = "not settled") <=> (Reads(out) /\ ~Whole(out))
            /\ Reads(before) /\ Reads(out) /\ Whole(out) =>
                  ((verdict.answer = "same") <=> (Meaning(out) = Meaning(before)))
            /\ Reads(before) # Reads(out) => verdict.answer # "same"
            /\ verdict.answer = "changed" /\ Reads(before) /\ Reads(out) =>
                  \A n \in EntryNames :
                      LET was == n \in NamesOf(EntriesOf(before))
                          is  == n \in NamesOf(EntriesOf(out))
                      IN  /\ (n \in verdict.diff.added) <=> (is /\ ~was)
                          /\ (n \in verdict.diff.removed) <=> (was /\ ~is)
                          /\ (n \in verdict.diff.changed) <=>
                                 (was /\ is /\ Last(Meaning(before)[n]) # Last(Meaning(out)[n]))

\* A strip reads what the archive says, leaves out what it must and writes an
\* archive that reads back, or answers why not and leaves nothing it could remove.
StripIsSound == TypeOK /\ DirectoryIsRead /\ StrippedIsClean /\ RewriteReadsBack
=============================================================================
