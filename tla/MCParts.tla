------------------------------- MODULE MCParts -------------------------------
(* The parts whose instances are small enough to share a run: the queue of    *)
(* pictures, with two processes at work or one; the job that draws a picture; *)
(* the rewrite that strips a file for a slicer; the limiter of attempts; and  *)
(* how pages and addresses are read.  They keep no state in common, so a      *)
(* behaviour is one of any of them while the others rest in an initial state. *)
EXTENDS MCPreviewQueue

CONSTANTS
  MaxLineChars, WindowBytes, MarkerLookahead, MaxMesh, MaxThumbnail, MaxEdits, MaxParts,
  ChunkBytes, Meshes, Edits(_),
  Inputs, Swaps(_), Saves(_), MaxField, MaxCount, MaxSwaps,
  Texts, Special, Digits, Decoded, AppOrigin,
  Keys, Limit, Window, Cap, Batch, Second, MaxTime, MaxTries, MaxSetBacks, k1, k2, k3

VARIABLES part,
  file, edits, chunk, pass, mesh, pos, sink, counts, built, seen, outcome,
  input, swaps, stage, class, held, removed, replace, parts, plan, source, out, answer,
  launched, verdict,
  url, previous,
  clock, asked, buckets, order, nextSeq, lastSweep, reply, setBacks, tries

(* Two processes, whose handlers draw whatever they are given.                 *)
Two == INSTANCE PreviewQueue WITH Outcome <- AllReady
Mesh == INSTANCE MCPreviewPipeline WITH Contents <- Meshes, stage <- pass, held <- mesh
Strip == INSTANCE MCArchive WITH outcome <- answer
Pages == INSTANCE MCSites
Limiter == INSTANCE MCRateLimiter WITH
  Requests <- Runs, MaxAttempts <- MaxTries, answer <- reply, attempts <- tries

ASSUME ChunksAssumption == Mesh!ChunksAssumption
ASSUME PipelineAssumption == Mesh!PipelineAssumption
ASSUME ArchiveAssumption == Strip!ArchiveAssumption
ASSUME RulesAssumption == Limiter!RulesAssumption

(* The values of the constants, as the MC modules of the parts have them.      *)
Unchanged(f) == {}
MeshValues == INSTANCE MCPreviewPipeline WITH
  Contents <- {}, Edits <- Unchanged, stage <- pass, held <- mesh
StripValues == INSTANCE MCArchive WITH
  Inputs <- {}, Swaps <- Unchanged, Saves <- Unchanged, outcome <- answer
PagesValues == INSTANCE MCSites WITH
  Texts <- {}, Special <- {}, Digits <- {}, Decoded <- {}, AppOrigin <- None
LimiterValues == INSTANCE MCRateLimiter WITH
  Limit <- {}, Window <- {}, Requests <- Runs, MaxAttempts <- MaxTries, answer <- reply,
  attempts <- tries

PartsMeshes == MeshValues!MCContents
PartsEdits(f) == MeshValues!MCEdits(f)
PartsInputs == StripValues!MCInputs
PartsSwaps(f) == StripValues!MCSwaps(f)
PartsSaves(f) == StripValues!MCSaves(f)
PartsTexts == PagesValues!MCTexts
PartsSpecial == PagesValues!MCSpecial
PartsDigits == PagesValues!MCDigits
PartsDecoded == PagesValues!MCDecoded
PartsAppOrigin == PagesValues!MCAppOrigin
PartsLimit == LimiterValues!MCLimit
PartsWindow == LimiterValues!MCWindow

meshVars == <<file, edits, chunk, pass, mesh, pos, sink, counts, built, seen, outcome>>
stripVars == <<input, swaps, stage, class, held, removed, replace, parts, plan, source, out,
               answer, launched, verdict>>
pagesVars == <<url, previous>>
limiterVars == <<clock, asked, buckets, order, nextSeq, lastSweep, reply, setBacks, tries>>

(* A part that rests does so in one of its initial states (which TLC finds    *)
(* fastest when the part that does not is looked at last).                    *)
QueueRests ==
  pv = [f \in Files |-> NoPreview] /\ \A f \in Files : row[f].by = ClassifierVersion
PartsInit ==
  /\ part \in {"one instant", "shared queue", "own queue", "mesh", "strip", "pages", "limiter"}
  /\ Init /\ Pages!Init /\ Limiter!Init
  /\ part \in {"one instant", "shared queue", "own queue"} \/ QueueRests
  /\ \/ /\ part # "strip" /\ input = Strip!RawFile /\ Strip!Init
        /\ part = "mesh" \/ (file = Mesh!Sample /\ chunk = 2)
        /\ Mesh!Init
     \/ part = "strip" /\ file = Mesh!Sample /\ chunk = 2 /\ Mesh!Init /\ Strip!Init

(* Two processes: with a clock that stands still, so that every claim has one  *)
(* stamp; or with leases that lapse and files that stay, until two claims of   *)
(* the row share a stamp (what may follow is what the first of the two shows). *)
SharedQueue ==
  /\ \/ part = "one instant" /\ now' = now
     \/ part = "shared queue" /\ TokensApart /\ Files \subseteq present
  /\ Two!Next /\ \A f \in Files : disk'[f] <= 2
  /\ UNCHANGED <<part, meshVars, stripVars, pagesVars, limiterVars>>
OwnQueue ==
  /\ part = "own queue" /\ Next
  /\ \A r \in Runs \ {r1} : pc'[r] = pc[r] /\ stamp'[r] = stamp[r] /\ job'[r] = job[r]
  /\ UNCHANGED <<part, meshVars, stripVars, pagesVars, limiterVars>>
MeshPart ==
  part = "mesh" /\ Mesh!Next /\ UNCHANGED <<part, vars, stripVars, pagesVars, limiterVars>>
StripPart ==
  part = "strip" /\ Strip!Next /\ UNCHANGED <<part, vars, meshVars, pagesVars, limiterVars>>
(* Two visits make a pair: a third one would only meet the same pairs again.  *)
PagesPart ==
  /\ part = "pages" /\ previous = Pages!StartUrl /\ Pages!Next
  /\ UNCHANGED <<part, vars, meshVars, stripVars, limiterVars>>

LimiterPart ==
  /\ part = "limiter" /\ Limiter!Next
  /\ UNCHANGED <<part, vars, meshVars, stripVars, pagesVars>>

PartsSpec ==
  PartsInit /\ [][SharedQueue \/ OwnQueue \/ MeshPart \/ StripPart \/ PagesPart \/ LimiterPart]_
                 <<part, vars, meshVars, stripVars, pagesVars, limiterVars>>

(* What each part promises, looked at while it is the one at work.            *)
HashIsCurrent == part # "one instant" => RecordedHashIsCurrent
OwnPictureIsCurrent == part = "own queue" => ServedPictureIsCurrent
MeshIsSound == part = "mesh" => Mesh!MeshIsSound
ParseIsSound == part = "mesh" => Mesh!ParseIsSound
StripIsSound == part = "strip" => Strip!StripIsSound
VerdictIsHonest == part = "strip" => Strip!VerdictIsHonest
ReadingsAgree == part = "pages" => Pages!ReadingsAgree
LimiterIsHonest == part = "limiter" => Limiter!LimiterIsHonest
KeepsTheBudget ==
  Limiter!Budget!Init
    /\ [][part = "limiter" => [Limiter!Budget!Next]_(Limiter!Budget!vars)]_limiterVars

PartsSymmetry == Symmetry \cup Permutations({k1, k3})
=============================================================================
