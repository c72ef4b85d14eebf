--------------------------- MODULE PreviewPipeline ---------------------------
(***************************************************************************)
(* One preview job, from the file to its picture (previews/handlers.rs,     *)
(* embedded.rs, mesh_handler.rs, mesh/*.rs, files/chunks.rs and the chunked *)
(* reader of files/zip.rs).  The embedded picture is tried first, then the  *)
(* mesh is parsed: the file is streamed once (binary STL) or twice (ASCII   *)
(* STL, OBJ, 3MF: a counting pass, an allocation, a filling pass) while     *)
(* another program may overwrite it in place.                               *)
(*                                                                          *)
(* Scale: a vertex has one coordinate and an element one attribute where    *)
(* the formats have three; a binary STL header and record are two bytes.    *)
(***************************************************************************)
EXTENDS Chunks, FiniteSets

CONSTANTS Contents,      \* the files a job may find when it starts
          Edits(_),      \* what another program may write over a file
          ChunkBytes,    \* the chunk sizes a pass may be run with
          MaxMesh,       \* MeshLimits.max_mesh_bytes, in coordinates
          MaxThumbnail,  \* MAX_EMBEDDED_THUMBNAIL_BYTES
          MaxEdits       \* bounds how often the file is overwritten

\* What the constants are: MCParts assumes it of its instance.
PipelineAssumption == MaxMesh \in Nat /\ MaxEdits \in Nat

VARIABLES file,     \* the bytes on disk now
          edits,    \* how often the file was overwritten since the job began
          chunk,    \* the chunk size of this job's passes
          stage,    \* where the job stands
          held,     \* what was read when the file was opened: its size
          pos,      \* bytes the current pass has read
          sink,     \* the state of the sink of the current pass
          counts,   \* what the counting pass found
          built,    \* what the filling pass has written
          seen,     \* the bytes the current pass handed its sink (history)
          outcome   \* the job's answer

vars == <<file, edits, chunk, stage, held, pos, sink, counts, built, seen, outcome>>

HeaderBytes == 2
RecordBytes == 2
NumberOf    == [s \in {"0", "1", "2", "3", "-1", "-2"} |->
                   CASE s = "0" -> 0 [] s = "1" -> 1 [] s = "2" -> 2 [] s = "3" -> 3
                     [] s = "-1" -> -1 [] s = "-2" -> -2]
Coordinates == {"a", "b", "0", "1", "2", "3", "-1", "-2"}    \* finite numbers
NoSink      == [kind |-> "none"]
NoBuilt     == [vertices |-> <<>>, positions |-> <<>>, base |-> 0]
NoCounts    == [vertices |-> 0, triangles |-> 0]

Min2(a, b) == IF a < b THEN a ELSE b

-----------------------------------------------------------------------------
(* The visitors.  Each step yields the new tally, or ok = FALSE.            *)

Good(value) == [ok |-> TRUE, value |-> value]
Bad(value)  == [ok |-> FALSE, value |-> value]

\* Runs a visitor over the events of one push, ending at its first error.
Visit(Step(_, _), start, events) ==
    FoldLeft(LAMBDA acc, event : IF acc.ok THEN Step(acc.value, event) ELSE acc,
             Good(start), events)

Room(b, more, tally) ==
    Len(b.positions) + more <= 3 * tally.triangles

\* STL: the keyword and the tokens after it, one record being the keyword and
\* one token.  Both scans go left to right and do not overlap.
VertexRecords(line) ==
    FoldLeft(LAMBDA acc, token :
                 IF acc.open THEN [records |-> Append(acc.records, token), open |-> FALSE]
                 ELSE [acc EXCEPT !.open = (token = "w")],
             [records |-> <<>>, open |-> FALSE], line).records

VertexStarts(line) == Cardinality({i \in DOMAIN line : line[i] = "w"})

StlCount(tally, line) ==
    IF Len(VertexRecords(line)) # VertexStarts(line) THEN Bad(tally)
    ELSE Good([tally EXCEPT !.vertices = @ + Len(VertexRecords(line))])

StlFill(tally, state, line) ==
    LET write(b, token) ==
            IF token \notin Coordinates \/ Len(b.positions) + 1 > tally.vertices THEN Bad(b)
            ELSE Good([b EXCEPT !.positions = Append(@, token)])
    IN  Visit(write, state, VertexRecords(line))

\* OBJ: a comment may start anywhere on a line.
NormalizeLine(line) ==
    LET hash == {i \in DOMAIN line : line[i] = "#"}
    IN  IF hash = {} THEN line
        ELSE SubSeq(line, 1, (CHOOSE i \in hash : \A j \in hash : i <= j) - 1)

ObjCount(tally, raw) ==
    LET line == NormalizeLine(raw)
    IN  IF line # <<>> /\ line[1] = "v" THEN Good([tally EXCEPT !.vertices = @ + 1])
        ELSE IF line = <<>> \/ line[1] # "f" THEN Good(tally)
        ELSE IF Len(line) - 1 < 3 THEN Bad(tally)
        ELSE Good([tally EXCEPT !.triangles = @ + (Len(line) - 3)])

\* A face index to a place in the vertex list as of this line, 0 if refused.
ResolveVertexIndex(token, count) ==
    LET index == IF token \in DOMAIN NumberOf THEN NumberOf[token] ELSE 0
        place == IF index > 0 THEN index ELSE count + index + 1
    IN  IF index = 0 \/ place < 1 \/ place > count THEN 0 ELSE place

ObjVertex(tally, state, line) ==
    IF Len(line) < 2 \/ line[2] \notin Coordinates \/ Len(state.vertices) + 1 > tally.vertices
    THEN Bad(state)
    ELSE Good([state EXCEPT !.vertices = Append(@, line[2])])

ObjFace(tally, state, line) ==
    LET places == [i \in 1 .. Len(line) - 1 |->
                       ResolveVertexIndex(line[i + 1], Len(state.vertices))]
        fan(b, k) ==
            IF ~Room(b, 3, tally) THEN Bad(b)
            ELSE Good([b EXCEPT !.positions = @ \o <<b.vertices[places[1]],
                                    b.vertices[places[k]], b.vertices[places[k + 1]]>>])
    IN  IF \E i \in DOMAIN places : places[i] = 0 THEN Bad(state)
        ELSE Visit(fan, state, [k \in 1 .. (IF Len(places) > 2 THEN Len(places) - 2 ELSE 0) |-> k + 1])

ObjFill(tally, state, raw) ==
    LET line == NormalizeLine(raw)
    IN  IF line = <<>> THEN Good(state)
        ELSE IF line[1] = "v" THEN ObjVertex(tally, state, line)
        ELSE IF line[1] = "f" THEN ObjFace(tally, state, line)
        ELSE Good(state)

\* 3MF: a tag is "<", its name, white space, its attribute.  Counting decodes
\* nothing.
ModelCount(tally, tag) ==
    Good(IF tag = MeshTag THEN tally
         ELSE IF tag[2] = "v" THEN [tally EXCEPT !.vertices = @ + 1]
         ELSE [tally EXCEPT !.triangles = @ + 1])

ModelFill(tally, state, tag) ==
    LET value == tag[4]
        index == IF value \in DOMAIN NumberOf THEN NumberOf[value] ELSE -1
        local == Len(state.vertices) - state.base
        corner == state.vertices[state.base + index + 1]
    IN  IF tag = MeshTag THEN Good([state EXCEPT !.base = Len(state.vertices)])
        ELSE IF tag[2] = "v"
        THEN IF value \notin Coordinates \/ Len(state.vertices) + 1 > tally.vertices THEN Bad(state)
             ELSE Good([state EXCEPT !.vertices = Append(@, value)])
        ELSE IF ~Room(state, 3, tally) \/ index < 0 \/ index >= local THEN Bad(state)
        ELSE Good([state EXCEPT !.positions = @ \o <<corner, corner, corner>>])

CountStep(ext, tally, event) ==
    CASE ext = "stl" -> StlCount(tally, event)
      [] ext = "obj" -> ObjCount(tally, event)
      [] ext = "3mf" -> ModelCount(tally, event)

FillStep(ext, tally, state, event) ==
    CASE ext = "stl" -> StlFill(tally, state, event)
      [] ext = "obj" -> ObjFill(tally, state, event)
      [] ext = "3mf" -> ModelFill(tally, state, event)

\* BinaryStlSink: whole records go through, at most a part of one is held.
BinaryPush(tally, state, bytes) ==
    LET next(s, byte) ==
            IF s.skip > 0 THEN Good([s EXCEPT !.skip = @ - 1])
            ELSE IF Len(s.pending) + 1 < RecordBytes THEN Good([s EXCEPT !.pending = Append(@, byte)])
            ELSE IF Len(s.positions) = 3 * tally.triangles \/ s.pending[1] \notin Coordinates
            THEN Bad(s)
            ELSE Good([s EXCEPT !.pending = <<>>,
                                !.positions = @ \o [i \in 1 .. 3 |-> s.pending[1]]])
    IN  Visit(next, state, bytes)

CountsFitAnything(ext, tally) ==    \* a bug: the limit is not asked
    /\ (IF ext = "stl" THEN tally.vertices \div 3 ELSE tally.triangles) > 0
    /\ ext = "stl" => tally.vertices % 3 = 0

\* What must hold of the counts before anything is allocated.
CountsFit(ext, tally) ==
    LET triangles == IF ext = "stl" THEN tally.vertices \div 3 ELSE tally.triangles
        table     == IF ext = "stl" THEN 0 ELSE tally.vertices
    IN  /\ triangles > 0
        /\ ext = "stl" => tally.vertices % 3 = 0
        /\ table + 3 * triangles <= MaxMesh

\* What must hold of the arrays before they are a mesh.
FilledExactly(ext, tally, b) ==
    /\ Len(b.positions) = (IF ext = "stl" THEN tally.vertices ELSE 3 * tally.triangles)
    /\ ext = "3mf" => Len(b.vertices) = tally.vertices

\* looks_like_ascii_stl: white space, then the keyword.
LooksLikeAscii(bytes) ==
    \E i \in DOMAIN bytes : bytes[i] = "solid" /\ \A j \in 1 .. i - 1 : bytes[j] = "nl"

\* detect_stl: from the first bytes and the size read at open.
DetectStl(head, size) ==
    LET declared == IF Len(head) >= HeaderBytes /\ head[HeaderBytes] \in {"0", "1", "2", "3"}
                    THEN NumberOf[head[HeaderBytes]] ELSE MaxMesh + 1
    IN  IF size < HeaderBytes THEN [shape |-> "ascii", triangles |-> 0]
        ELSE IF Len(head) < HeaderBytes THEN [shape |-> "refused", triangles |-> 0]
        ELSE IF size = HeaderBytes + RecordBytes * declared
             THEN [shape |-> "binary", triangles |-> declared]
        ELSE [shape |-> IF LooksLikeAscii(head) THEN "ascii" ELSE "refused", triangles |-> 0]

-----------------------------------------------------------------------------
(* The job.                                                                 *)

IsZip(f) == f.ext = "3mf" /\ f.zip

Answer(answer) == /\ outcome' = answer
                  /\ stage' = "over"

\* run of EmbeddedHandler: a whole zip is opened; an entry over the cap or not
\* a picture is passed over, one that cannot be read is an error.
TryEmbedded ==
    /\ stage = "embedded"
    /\ IF ~IsZip(file) \/ file.picture = "absent" \/ file.picture = "text"
          \/ file.pictureBytes > MaxThumbnail
       THEN stage' = "open" /\ UNCHANGED outcome
       ELSE Answer(IF file.picture = "corrupt" THEN "failed" ELSE "embedded")
    /\ UNCHANGED <<file, edits, chunk, held, pos, sink, counts, built, seen>>

\* A pass begins: a fresh sink, at the start of the file.
StartPass(pass, newSink) ==
    /\ stage' = pass
    /\ sink' = newSink
    /\ pos' = 0
    /\ seen' = <<>>

NewSink(ext) == IF ext = "3mf" THEN NewScanner ELSE NewLineSink

\* chunks_from on the entry, for both methods: the size the directory declared
\* must fit the file, and a stored entry is its own output.
EntryOpens(f, h) ==
    f.ext = "3mf" => /\ f.zip
                     /\ h.method \in {"stored", "deflated"}
                     /\ h.method = "stored" => h.packed = h.size

\* read_mesh up to the open file: its size, or the directory with the entry.
OpenMesh ==
    /\ stage = "open"
    /\ IF file.ext = "step" THEN Answer("unsupported") /\ UNCHANGED <<held, pos, sink, seen>>
       ELSE IF file.ext = "3mf" /\ (~file.zip \/ ~file.model)
       THEN Answer("failed") /\ UNCHANGED <<held, pos, sink, seen>>
       ELSE /\ held' = IF file.ext = "3mf"
                       THEN [size |-> file.declared, packed |-> file.packed, method |-> file.method]
                       ELSE [size |-> Len(file.bytes), packed |-> 0, method |-> "plain"]
            /\ IF file.ext = "stl"
               THEN stage' = "sniff" /\ UNCHANGED <<outcome, pos, sink, seen>>
               ELSE IF EntryOpens(file, held')
               THEN StartPass("count", NewSink(file.ext)) /\ UNCHANGED outcome
               ELSE Answer("failed") /\ UNCHANGED <<pos, sink, seen>>
    /\ UNCHANGED <<file, edits, chunk, counts, built>>

\* The head of an STL is read after its size.
Sniff ==
    LET found  == DetectStl(file.bytes, held.size)
        shape  == found.shape
        tally  == [vertices |-> 0, triangles |-> found.triangles]
    IN  /\ stage = "sniff"
        /\ CASE shape = "refused" ->
                  Answer("failed") /\ UNCHANGED <<pos, sink, counts, seen>>
             [] shape = "ascii" ->
                  StartPass("count", NewLineSink) /\ UNCHANGED <<outcome, counts>>
             [] shape = "binary" /\ ~CountsFit("obj", tally) ->
                  Answer("failed") /\ UNCHANGED <<pos, sink, counts, seen>>
             [] shape = "binary" /\ CountsFit("obj", tally) ->
                  /\ StartPass("binary", [skip |-> HeaderBytes, pending |-> <<>>, positions |-> <<>>])
                  /\ counts' = tally
                  /\ UNCHANGED outcome
        /\ UNCHANGED <<file, edits, chunk, held, built>>

Passes == {"count", "fill", "binary"}

\* What one pull yields: the bytes at the position; at the end of a stored
\* entry's range, or of the file, nothing; "failed" where the reader refuses.
Available ==
    IF held.method = "stored" THEN SubSeq(file.bytes, 1, Min2(held.packed, Len(file.bytes)))
    ELSE file.bytes

BufferBytes ==
    Min2(chunk, IF held.method # "plain" THEN held.size + 1
                ELSE IF held.size > 1 THEN held.size ELSE 1)

\* An entry fills the whole buffer until it ends: a part of one was its last.
EntryFinished == held.method # "plain" /\ pos = held.size /\ pos % BufferBytes # 0

PullLength ==
    IF EntryFinished \/ pos >= Len(Available) THEN 0
    ELSE Min2(BufferBytes, Len(Available) - pos)

PullOverflows ==    \* a bug: an entry that ends early is not noticed
    /\ held.method # "plain" /\ ~EntryFinished
    /\ pos + PullLength > held.size \/ ~file.zip

\* pull_chunk of EntryChunks: what was produced against what was declared.
PullRefused ==
    LET produced == pos + PullLength
    IN  /\ held.method # "plain" /\ ~EntryFinished
        /\ \/ produced > held.size
           \/ PullLength < BufferBytes /\ produced # held.size
           \/ ~file.zip        \* the bytes no longer inflate

Pushed(bytes) ==
    IF file.ext = "3mf" THEN PushModel(sink, bytes) ELSE PushLines(sink, bytes)

Ended == IF file.ext = "3mf" THEN EndModel(sink) ELSE EndLines(sink)

\* The events of a push or an end go to the visitor of the pass.
Deliver(result) ==
    LET countStep(tally, event) == CountStep(file.ext, tally, event)
        fillStep(state, event)  == FillStep(file.ext, counts, state, event)
    IN  IF stage = "count" THEN Visit(countStep, counts, result.events)
        ELSE Visit(fillStep, built, result.events)

Took(visited) ==
    IF stage = "count" THEN counts' = visited.value /\ UNCHANGED built
    ELSE built' = visited.value /\ UNCHANGED counts

\* One turn of drain_sink over a text or a model part.
PullChunk ==
    LET bytes   == SubSeq(Available, pos + 1, pos + PullLength)
        result  == Pushed(bytes)
        visited == Deliver(result)
    IN  /\ stage \in {"count", "fill"}
        /\ \/ PullRefused
           \/ PullLength > 0
        /\ IF PullRefused
           THEN Answer("failed") /\ UNCHANGED <<pos, sink, counts, built, seen>>
           ELSE /\ pos' = pos + PullLength
                /\ seen' = seen \o bytes
                /\ sink' = result.sink
                /\ Took(visited)
                /\ IF result.refused \/ ~visited.ok THEN Answer("failed")
                   ELSE UNCHANGED <<stage, outcome>>
        /\ UNCHANGED <<file, edits, chunk, held>>

\* The end of the counting pass: the checks, the allocation, the second stream.
EndCount ==
    LET visited == Deliver(Ended)
    IN  /\ stage = "count"
        /\ PullLength = 0 /\ ~PullRefused
        /\ counts' = visited.value
        /\ IF \/ Ended.refused \/ ~visited.ok
              \/ ~CountsFit(file.ext, visited.value)
              \/ ~EntryOpens(file, held)
           THEN Answer("failed") /\ UNCHANGED <<pos, sink, seen>>
           ELSE StartPass("fill", NewSink(file.ext)) /\ UNCHANGED outcome
        /\ UNCHANGED <<file, edits, chunk, held, built>>

\* The end of the filling pass: the arrays are a mesh, drawn and encoded.
EndFill ==
    LET visited == Deliver(Ended)
    IN  /\ stage = "fill"
        /\ PullLength = 0 /\ ~PullRefused
        /\ built' = visited.value
        /\ Answer(IF Ended.refused \/ ~visited.ok
                     \/ ~FilledExactly(file.ext, counts, visited.value)
                  THEN "failed" ELSE "rasterized")
        /\ UNCHANGED <<file, edits, chunk, held, pos, sink, counts, seen>>

PullBinary ==
    LET bytes == SubSeq(Available, pos + 1, pos + PullLength)
        pushed == BinaryPush(counts, sink, bytes)
    IN  /\ stage = "binary"
        /\ PullLength > 0
        /\ pos' = pos + PullLength
        /\ seen' = seen \o bytes
        /\ sink' = pushed.value
        /\ IF pushed.ok THEN UNCHANGED <<stage, outcome>> ELSE Answer("failed")
        /\ UNCHANGED <<file, edits, chunk, held, counts, built>>

EndBinary ==
    /\ stage = "binary"
    /\ PullLength = 0
    /\ built' = [NoBuilt EXCEPT !.positions = sink.positions]
    /\ Answer(IF sink.skip > 0 \/ sink.pending # <<>>
                 \/ Len(sink.positions) # 3 * counts.triangles
              THEN "failed" ELSE "rasterized")
    /\ UNCHANGED <<file, edits, chunk, held, pos, sink, counts, seen>>

\* Another program writes over the file in place (a rename over its path would
\* leave the open descriptor alone).
Overwrite ==
    /\ stage # "over"
    /\ edits < MaxEdits
    /\ edits' = edits + 1
    /\ file' \in Edits(file)
    /\ UNCHANGED <<chunk, stage, held, pos, sink, counts, built, seen, outcome>>

Init ==
    /\ file \in Contents
    /\ chunk \in ChunkBytes
    /\ edits = 0
    /\ stage = "embedded"
    /\ held = [size |-> 0, packed |-> 0, method |-> "plain"]
    /\ pos = 0
    /\ sink = NoSink
    /\ counts = NoCounts
    /\ built = NoBuilt
    /\ seen = <<>>
    /\ outcome = "none"

Job == \/ TryEmbedded \/ OpenMesh \/ Sniff
       \/ PullChunk \/ EndCount \/ EndFill
       \/ PullBinary \/ EndBinary

Next == Job \/ Overwrite

\* The worker thread runs a job it has started to its end.
Spec == Init /\ [][Next]_vars /\ WF_vars(Job)
-----------------------------------------------------------------------------
(* What a job promises, said of the whole input at once.                    *)

Concat(seqs) == FoldLeft(LAMBDA acc, seq : acc \o seq, <<>>, seqs)

\* The corners of the triangles a text or a model part describes, in order.
StlGeometry(lines) ==
    Concat([n \in DOMAIN lines |->
        LET line == lines[n]
        IN  Concat([i \in DOMAIN line |->
                IF line[i] = "w" /\ i < Len(line) THEN <<line[i + 1]>> ELSE <<>>])])

ObjGeometry(lines) ==
    LET shown == [i \in DOMAIN lines |-> NormalizeLine(lines[i])]
        vertices(i) == SelectSeq(SubSeq(shown, 1, i), LAMBDA l : l # <<>> /\ l[1] = "v")
        corner(i, k) == LET n == NumberOf[shown[i][k]]
                            v == vertices(i)
                        IN  v[IF n > 0 THEN n ELSE Len(v) + 1 + n][2]
    IN  Concat([i \in DOMAIN shown |->
            IF shown[i] = <<>> \/ shown[i][1] # "f" THEN <<>>
            ELSE Concat([k \in 1 .. Len(shown[i]) - 3 |->
                            <<corner(i, 2), corner(i, k + 2), corner(i, k + 3)>>])])

ModelGeometry(elements) ==
    LET objectOf(i) == {j \in 1 .. i : elements[j] = MeshTag}
        first(i)    == CHOOSE j \in objectOf(i) \union {0} : \A k \in objectOf(i) : k <= j
        own(i)      == SelectSeq(SubSeq(elements, first(i) + 1, i), LAMBDA e : e[2] = "v")
        corner(i)   == own(i)[NumberOf[elements[i][4]] + 1][4]
    IN  Concat([i \in DOMAIN elements |->
                   IF elements[i][2] = "t" THEN <<corner(i), corner(i), corner(i)>> ELSE <<>>])

BinaryGeometry(bytes) ==
    Concat([i \in 1 .. (Len(bytes) - HeaderBytes) \div RecordBytes |->
               LET c == bytes[HeaderBytes + RecordBytes * (i - 1) + 1] IN <<c, c, c>>])

Geometry(ext, binary, bytes) ==
    CASE binary      -> BinaryGeometry(bytes)
      [] ~binary /\ ext = "stl" -> StlGeometry(WholeLines(bytes))
      [] ~binary /\ ext = "obj" -> ObjGeometry(WholeLines(bytes))
      [] ~binary /\ ext = "3mf" -> ModelGeometry(WholeModel(bytes, <<>>).events)

\* The answer of the buffered parsers: one push of the whole input.
TextVerdict(ext, lines) ==
    LET countStep(tally, event) == CountStep(ext, tally, event)
        counted == Visit(countStep, NoCounts, lines)
        fillStep(state, event) == FillStep(ext, counted.value, state, event)
        filled  == Visit(fillStep, NoBuilt, lines)
    IN  IF /\ counted.ok /\ CountsFit(ext, counted.value)
           /\ filled.ok /\ FilledExactly(ext, counted.value, filled.value)
        THEN "rasterized" ELSE "failed"

EntryYields(f) ==
    /\ f.zip /\ f.model
    /\ Len(f.bytes) = f.declared
    /\ \/ f.method = "deflated"
       \/ f.method = "stored" /\ f.packed = f.declared

MeshVerdict(f) ==
    LET size  == Len(f.bytes)
        found == DetectStl(f.bytes, size)
        tally == [vertices |-> 0, triangles |-> found.triangles]
        whole == WholeModel(f.bytes, <<>>)
    IN  CASE f.ext = "step" -> "unsupported"
          [] f.ext = "3mf" ->
               IF EntryYields(f) /\ ~whole.refused THEN TextVerdict("3mf", whole.events)
               ELSE "failed"
          [] f.ext = "stl" /\ found.shape = "refused" -> "failed"
          [] f.ext = "stl" /\ found.shape = "binary" ->
               IF CountsFit("obj", tally) /\ \A i \in 1 .. found.triangles :
                      f.bytes[HeaderBytes + RecordBytes * (i - 1) + 1] \in Coordinates
               THEN "rasterized" ELSE "failed"
          [] f.ext = "obj" \/ (f.ext = "stl" /\ found.shape = "ascii") ->
               TextVerdict(f.ext, WholeLines(f.bytes))

\* The embedded picture wins; one that is there and unreadable fails the job.
JobVerdict(f) ==
    IF f.zip /\ f.picture \in {"png", "corrupt"} /\ f.pictureBytes <= MaxThumbnail
    THEN IF f.picture = "png" THEN "embedded" ELSE "failed"
    ELSE MeshVerdict(f)

HasLongLine(f) == f.ext \in {"stl", "obj"}
                  /\ \E i \in DOMAIN WholeLines(f.bytes) : Len(WholeLines(f.bytes)[i]) > MaxLineChars

-----------------------------------------------------------------------------
(* Properties.                                                              *)

Stages == {"embedded", "open", "sniff", "count", "fill", "binary", "over"}

\* Types: and no sink holds more than its bound between two chunks.
TypeOK ==
    /\ stage \in Stages
    /\ outcome \in {"none", "embedded", "rasterized", "unsupported", "failed"}
    /\ (stage = "over") = (outcome # "none")
    /\ edits \in 0 .. MaxEdits
    /\ pos \in Nat /\ held.size \in Nat
    /\ counts.vertices \in Nat /\ counts.triangles \in Nat
    /\ stage \in {"count", "fill"} /\ file.ext = "3mf" => Len(sink.buffer) < WindowBytes
    /\ stage \in {"count", "fill"} /\ file.ext # "3mf" =>
           Len(sink.carry) <= MaxLineChars /\ Len(sink.pending) <= 1
    /\ stage = "binary" => Len(sink.pending) < RecordBytes

\* A picture drawn from a file shows exactly the geometry of the bytes the
\* drawing pass read, and as many triangles as the array was sized for: a file
\* overwritten between or inside the passes, a chunk boundary inside a line, a
\* tag, a comment or a record never loses, adds or shifts a triangle
\* (threemf.rs: "the one failure this parser must not produce").
MeshIsWhatWasRead ==
    outcome = "rasterized" =>
        LET binary == "skip" \in DOMAIN sink
        IN  /\ built.positions = Geometry(file.ext, binary, seen)
            /\ FilledExactly(IF binary THEN "binary" ELSE file.ext, counts, built)

\* A file nobody touches gets the verdict of the parser that sees it in one
\* piece, whatever the chunk size: only a file that has a line over the limit
\* may be refused because of where its chunks end.
VerdictIgnoresChunks ==
    stage = "over" /\ edits = 0 =>
        \/ outcome = JobVerdict(file)
        \/ outcome = "failed" /\ HasLongLine(file)

\* Nothing is written past what was counted, and nothing counted past the
\* limit is allocated for, however the file changes under the passes.
AllocationIsBounded ==
    /\ Len(built.vertices) + Len(built.positions) <= MaxMesh
    /\ stage = "binary" => Len(sink.positions) <= MaxMesh

\* No byte over an entry's declared size reaches a parser, and a mesh is only
\* built from an entry that yielded all of it.
EntryKeepsToItsSize ==
    file.ext = "3mf" /\ seen # <<>> =>
        /\ Len(seen) <= held.size
        /\ outcome = "rasterized" => Len(seen) = held.size

\* No picture shows what was not read, however the file changes under the job.
MeshIsSound == MeshIsWhatWasRead /\ AllocationIsBounded /\ EntryKeepsToItsSize

\* No verdict depends on where a chunk ends, and no sink outgrows its bound.
ParseIsSound == TypeOK /\ VerdictIgnoresChunks
=============================================================================
