------------------------- MODULE MCPreviewPipeline -------------------------
(* A small library of files for PreviewPipeline: every text of up to MaxParts *)
(* parts over a few lines, records or elements that matter.                   *)
EXTENDS PreviewPipeline

CONSTANT MaxParts

Lists(parts) == UNION {[1 .. n -> parts] : n \in 0 .. MaxParts}

PlainFile(ext, bytes) ==
    [ext |-> ext, bytes |-> bytes, zip |-> FALSE, model |-> FALSE, declared |-> 0, packed |-> 0,
     method |-> "plain", picture |-> "absent", pictureBytes |-> 0]

ObjParts ==
    {<<"v", "a", "nl">>, <<"v", "b">>, <<"nl">>, <<"v", "NaN", "nl">>,
     <<"f", "1", "-1", "2", "nl">>, <<"f", "1", "2", "-2", "2", "nl">>, <<"f", "3", "1", "#", "1">>,
     <<"#", "c1", "c2", "nl">>, <<"#", "c1", "nl", "c2">>, <<"#", "x", "x", "x", "x", "x", "x", "nl">>}

ObjFiles == {PlainFile("obj", <<"v", "b", "nl">> \o Concat(parts)) : parts \in Lists(ObjParts)}

StlParts ==
    {<<"w", "a", "nl", "w", "b">>, <<"nl">>, <<"w", "b", "nl">>, <<"w", "nl", "a", "nl">>,
     <<"w", "NaN", "nl">>, <<"w", "a", "w", "b", "nl">>, <<"x", "c1", "c2", "nl">>}

AsciiFiles == {PlainFile("stl", <<"nl", "solid", "nl">> \o Concat(parts)) : parts \in Lists(StlParts)}

BinaryParts == {<<"a", "x">>, <<"b", "nl">>, <<"NaN", "x">>, <<"x">>}

BinaryFiles ==
    {PlainFile("stl", <<head, count>> \o Concat(parts)) :
        head \in {"solid", "x"}, count \in {"0", "1", "2"}, parts \in Lists(BinaryParts)}

ModelParts ==
    {<<"<", "m", ">">>, <<"<", "v", "_", "a", ">">>, <<"<", "t", "_", "0", ">">>,
     <<"<", "t", "_", "1", ">">>, <<"<", "-", "x", "<", "m", "-", ">">>,
     <<"<", "-", ">", "x", "x", "x", "<", "v", "_", "b", ">", "x", "-", ">">>,
     <<"<", "v", ">">>, <<"<", "v", "_", "b", "x", "x", "x", ">">>, <<"x">>}

\* No "<" stands inside a tag, as XML has it; only the last one may be left open.
ModelEnds == {<<>>, <<"<", "v", "_", "a">>, <<"<", "-", "x">>}

ModelFile(bytes) ==
    [ext |-> "3mf", bytes |-> bytes, zip |-> TRUE, model |-> TRUE, declared |-> Len(bytes),
     packed |-> Len(bytes), method |-> "deflated", picture |-> "absent", pictureBytes |-> 0]

Model(parts) == <<"<", "m", ">", "<", "v", "_", "b", ">">> \o Concat(parts)

ModelFiles == {ModelFile(Model(parts) \o end) : parts \in Lists(ModelParts), end \in ModelEnds}

\* One good model, and what an archive can say of it.
Sample == ModelFile(Model(<<<<"<", "t", "_", "0", ">">>>>))

Archives ==
    {[Sample EXCEPT !.declared = d, !.packed = p, !.method = m] :
        d \in 12 .. 14, p \in 12 .. 14, m \in {"stored", "deflated", "odd"}}
    \union {[Sample EXCEPT !.picture = p, !.pictureBytes = b] :
        p \in {"png", "text", "corrupt"}, b \in 1 .. 2}
    \union {[Sample EXCEPT !.zip = FALSE], [Sample EXCEPT !.model = FALSE],
            PlainFile("step", <<"x">>)}

MCContents == ObjFiles \union AsciiFiles \union BinaryFiles \union ModelFiles \union Archives

\* A program writes another good file of the format, or cuts the one it has.
MCEdits(f) ==
    {[f EXCEPT !.bytes = SubSeq(@, 1, Len(@) \div 2)], [f EXCEPT !.zip = FALSE]}
    \union
    CASE f.ext = "obj" -> {[f EXCEPT !.bytes = <<"v", "a", "nl", "f", "1", "1", "1", "nl">>]}
      [] f.ext = "stl" -> {[f EXCEPT !.bytes = <<"x", "1", "b", "x">>],
                           [f EXCEPT !.bytes = Concat([i \in 1 .. 6 |-> <<"w", "b", "nl">>])]}
      [] f.ext = "3mf" -> {[f EXCEPT !.bytes = Model(<<<<"<", "t", "_", "0", ">">>>>)],
                           [f EXCEPT !.bytes = @ \o <<"<", "t", "_", "0", ">">>]}
      [] OTHER -> {}
=============================================================================
