------------------------------- MODULE Chunks -------------------------------
(***************************************************************************)
(* The two sinks a file is streamed through, as pure operators over byte    *)
(* sequences: the line splitter of files/chunks.rs and the window scanner   *)
(* of previews/mesh/threemf.rs.  A byte is a symbol.  One character takes   *)
(* two bytes, "c1" then "c2"; the markers of the scanner keep what matters  *)
(* about them (a tag name must be followed by white space "_", the opening  *)
(* and the closing of a comment can overlap) at a length of two bytes.      *)
(***************************************************************************)
EXTENDS Integers, Sequences, SequencesExt

CONSTANTS MaxLineChars,    \* MAX_LINE_CHARS
          WindowBytes,     \* WINDOW_BYTES
          MarkerLookahead  \* MARKER_LOOKAHEAD

\* What the constants are: MCParts assumes it of its instance.
ChunksAssumption ==
    /\ MaxLineChars \in Nat \ {0}
    /\ MarkerLookahead \in Nat
    /\ WindowBytes \in Nat /\ WindowBytes > MarkerLookahead

-----------------------------------------------------------------------------
(* LineSink: pending holds the head of a character the last chunk ended in, *)
(* carry the incomplete last line.                                          *)

NewLineSink == [pending |-> <<>>, carry |-> <<>>]

\* One more byte of [text, pending]: an incomplete character is held back, a
\* malformed one becomes one replacement character.
DecodeByte(state, byte) ==
    LET broken == state.pending # <<>> /\ byte # "c2"
        text   == IF broken THEN Append(state.text, "?") ELSE state.text
    IN  IF byte = "c1" THEN [text |-> text, pending |-> <<byte>>]
        ELSE [text    |-> Append(text, IF byte # "c2" THEN byte
                                       ELSE IF state.pending = <<>> THEN "?" ELSE "c"),
              pending |-> <<>>]

Decode(pending, chunk) ==
    FoldLeft(DecodeByte, [text |-> <<>>, pending |-> pending], chunk)

\* The lines of a text that continues `carry`; the last one is unfinished.
SplitLines(carry, text) ==
    FoldLeft(LAMBDA lines, char :
                 IF char = "nl" THEN Append(lines, <<>>)
                 ELSE [lines EXCEPT ![Len(lines)] = Append(@, char)],
             <<carry>>, text)

PushLines(sink, chunk) ==
    LET decoded == Decode(sink.pending, chunk)
        lines   == SplitLines(sink.carry, decoded.text)
    IN  [sink    |-> [pending |-> decoded.pending, carry |-> Last(lines)],
         events  |-> Front(lines),
         refused |-> Len(Last(lines)) > MaxLineChars]

\* The final segment is visited even when it is empty; a character cut short
\* by the end of the file becomes one replacement character.
EndLines(sink) ==
    [sink    |-> NewLineSink,
     events  |-> <<sink.carry \o (IF sink.pending = <<>> THEN <<>> ELSE <<"?">>)>>,
     refused |-> FALSE]

-----------------------------------------------------------------------------
(* ModelScanner and scan_window.                                            *)

MeshTag       == <<"<", "m">>
VertexTag     == <<"<", "v">>
TriangleTag   == <<"<", "t">>
CommentStart  == <<"<", "-">>
CommentEnd    == <<"-", ">">>
Nowhere       == 0     \* positions count from 1

\* The first place at or after `from` where the marker lies whole in bytes.
IndexOf(bytes, marker, from) ==
    LET at == {i \in from .. Len(bytes) - Len(marker) + 1 :
                   SubSeq(bytes, i, i + Len(marker) - 1) = marker}
    IN  IF at = {} THEN Nowhere ELSE CHOOSE i \in at : \A j \in at : i <= j

\* The same for an element start, which white space must follow.
IndexOfTag(bytes, marker, from) ==
    LET at == {i \in from .. Len(bytes) - Len(marker) :
                   /\ SubSeq(bytes, i, i + Len(marker) - 1) = marker
                   /\ bytes[i + Len(marker)] = "_"}
    IN  IF at = {} THEN Nowhere ELSE CHOOSE i \in at : \A j \in at : i <= j

\* The place each of the four cursors stands at when it resumes from `from`.
Cursor(bytes, kind, from) ==
    CASE kind = "mesh"     -> IndexOf(bytes, MeshTag, from)
      [] kind = "comment"  -> IndexOf(bytes, CommentStart, from)
      [] kind = "vertex"   -> IndexOfTag(bytes, VertexTag, from)
      [] kind = "triangle" -> IndexOfTag(bytes, TriangleTag, from)

MarkerKinds == {"mesh", "comment", "vertex", "triangle"}

TrustedEnd(bytes, last) == Len(bytes)    \* a bug: the whole window is trusted

\* How much of a window may be acted on.
SafeEnd(bytes, last) ==
    IF last THEN Len(bytes)
    ELSE IF Len(bytes) > MarkerLookahead THEN Len(bytes) - MarkerLookahead ELSE 0

ConsumedToLimit(limit, processed) == limit    \* a bug: a comment's tail comes back

\* What is left to discard when no marker remains.
ConsumedTo(limit, processed) == IF processed > limit THEN processed ELSE limit

RECURSIVE ScanFrom(_, _, _, _, _)
\* cursors: where each marker kind was found; processed: bytes definitely done.
ScanFrom(bytes, last, cursors, processed, events) ==
    LET limit  == SafeEnd(bytes, last)
        found  == {kind \in MarkerKinds : cursors[kind] # Nowhere}
        stop(consumed, entered) ==
            [events |-> events, consumed |-> consumed, entered |-> entered, refused |-> FALSE]
        refuse == [events |-> events, consumed |-> 0, entered |-> FALSE, refused |-> TRUE]
    IN  IF found = {} THEN stop(ConsumedTo(limit, processed), FALSE)
        ELSE LET kind == CHOOSE k \in found : \A l \in found : cursors[k] <= cursors[l]
                 next == cursors[kind]
                 gt   == IndexOf(bytes, <<">">>, next)
                 close == IndexOf(bytes, CommentEnd, next + Len(CommentStart))
                 past == close + Len(CommentEnd) - 1
             IN  CASE next > limit -> stop(next - 1, FALSE)
                   [] next <= limit /\ kind = "comment" /\ close = Nowhere ->
                        IF last THEN refuse ELSE stop(next - 1, TRUE)
                   [] next <= limit /\ kind = "comment" /\ close # Nowhere ->
                        ScanFrom(bytes, last,
                                 [k \in MarkerKinds |->
                                     IF cursors[k] # Nowhere /\ cursors[k] <= past
                                     THEN Cursor(bytes, k, past + 1) ELSE cursors[k]],
                                 past, events)
                   [] next <= limit /\ kind = "mesh" ->
                        ScanFrom(bytes, last,
                                 [cursors EXCEPT !.mesh = Cursor(bytes, kind, next + Len(MeshTag))],
                                 next + Len(MeshTag) - 1, Append(events, MeshTag))
                   [] next <= limit /\ kind \in {"vertex", "triangle"} /\ gt = Nowhere ->
                        IF last THEN refuse ELSE stop(next - 1, FALSE)
                   [] next <= limit /\ kind \in {"vertex", "triangle"} /\ gt # Nowhere ->
                        ScanFrom(bytes, last,
                                 [cursors EXCEPT ![kind] = Cursor(bytes, kind, gt + 1)],
                                 gt, Append(events, SubSeq(bytes, next, gt)))

ScanWindow(bytes, last) ==
    IF SafeEnd(bytes, last) = 0
    THEN [events |-> <<>>, consumed |-> 0, entered |-> FALSE, refused |-> FALSE]
    ELSE ScanFrom(bytes, last, [kind \in MarkerKinds |-> Cursor(bytes, kind, 1)], 0, <<>>)

NewScanner == [buffer |-> <<>>, inComment |-> FALSE, commentFrom |-> 1]

DropFront(bytes, count) == SubSeq(bytes, count + 1, Len(bytes))

KeepEverything(bytes) == bytes    \* a bug: the comment is buffered

\* Inside a comment all but the bytes a straddling close could need are dropped.
KeepForClose(bytes) ==
    LET keep == Len(CommentEnd) - 1
    IN  IF Len(bytes) > keep THEN DropFront(bytes, Len(bytes) - keep) ELSE bytes

RECURSIVE Drain(_, _, _)
Drain(scanner, last, events) ==
    LET answer(s, refused) == [sink |-> s, events |-> events, refused |-> refused]
        close == IndexOf(scanner.buffer, CommentEnd, scanner.commentFrom)
    IN  IF scanner.inComment /\ close = Nowhere
        THEN answer([scanner EXCEPT !.buffer = KeepForClose(@), !.commentFrom = 1], last)
        ELSE LET buffer == IF scanner.inComment
                           THEN DropFront(scanner.buffer, close + Len(CommentEnd) - 1)
                           ELSE scanner.buffer
                 scan  == ScanWindow(buffer, last)
                 rest  == DropFront(buffer, scan.consumed)
                 seen  == events \o scan.events
             IN  IF scan.entered
                 THEN Drain([buffer |-> rest, inComment |-> TRUE,
                             commentFrom |-> Len(CommentStart) + 1], last, seen)
                 ELSE [sink    |-> [buffer |-> rest, inComment |-> FALSE, commentFrom |-> 1],
                       events  |-> seen,
                       refused |-> scan.refused \/ (~last /\ Len(rest) = WindowBytes)]

\* The chunk is copied into the window, which is scanned whenever it is full.
PushModel(scanner, chunk) ==
    FoldLeft(LAMBDA acc, byte :
                 LET filled == [acc.sink EXCEPT !.buffer = Append(@, byte)]
                 IN  IF acc.refused THEN acc
                     ELSE IF Len(filled.buffer) = WindowBytes
                          THEN Drain(filled, FALSE, acc.events)
                          ELSE [acc EXCEPT !.sink = filled],
             [sink |-> scanner, events |-> <<>>, refused |-> FALSE], chunk)

EndModel(scanner) == Drain(scanner, TRUE, <<>>)

-----------------------------------------------------------------------------
(* What the two sinks promise, over the whole input at once.                *)

WholeText(bytes) == LET decoded == Decode(<<>>, bytes)
                    IN  decoded.text \o (IF decoded.pending = <<>> THEN <<>> ELSE <<"?">>)

WholeLines(bytes) == SplitLines(<<>>, WholeText(bytes))

RECURSIVE WholeModel(_, _)
\* The elements of a model part in document order, "refused" when a comment or
\* a tag is not closed or a tag is wider than the window.
WholeModel(bytes, events) ==
    LET starts(marker) == Len(bytes) >= Len(marker) /\ SubSeq(bytes, 1, Len(marker)) = marker
        close == IndexOf(bytes, CommentEnd, Len(CommentStart) + 1)
        gt    == IndexOf(bytes, <<">">>, 1)
    IN  CASE bytes = <<>> -> [events |-> events, refused |-> FALSE]
          [] starts(CommentStart) ->
               IF close = Nowhere THEN [events |-> events, refused |-> TRUE]
               ELSE WholeModel(DropFront(bytes, close + Len(CommentEnd) - 1), events)
          [] starts(MeshTag) -> WholeModel(DropFront(bytes, Len(MeshTag)), Append(events, MeshTag))
          [] starts(Append(VertexTag, "_")) \/ starts(Append(TriangleTag, "_")) ->
               IF gt = Nowhere \/ gt > WindowBytes THEN [events |-> events, refused |-> TRUE]
               ELSE WholeModel(DropFront(bytes, gt), Append(events, SubSeq(bytes, 1, gt)))
          [] OTHER -> WholeModel(Tail(bytes), events)
=============================================================================
