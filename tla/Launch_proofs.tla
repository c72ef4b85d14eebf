---------------------------- MODULE Launch_proofs ----------------------------
(* Proofs about Launch, for any number of commands at once, any products,     *)
(* installs, files and libraries, and whatever slicers.json is started from.  *)
(*                                                                            *)
(* The invariant follows a launch from stage to stage: what it has decided by *)
(* then (TaskInv), what its directory holds (DirInv) and what its process was *)
(* started with and who watches it (ChildInv).                                *)
EXTENDS Launch, FiniteSetTheorems, SequenceTheorems, WellFoundedInduction, TLAPS

-----------------------------------------------------------------------------
(* What is read of slicers.json: every binding is to a row of its product.    *)
Configs ==
  {c \in [rows : RowsOf(Paths), bind : Binds, default : Slicers \cup {None}] :
     \A s \in DOMAIN c.bind : c.bind[s] \in DOMAIN c.rows /\ SlicerOf[c.bind[s]] = s}
Reads == [config : Configs, writable : BOOLEAN]

(* What a detection may find: executables of the product they are found for.  *)
Findings ==
  {f \in UNION {[D -> Paths] : D \in SUBSET Keyed} :
     \A i \in DOMAIN f : ExeOf[f[i]] = SlicerOf[i]}

Plans == [inPlace : BOOLEAN, stripped : BOOLEAN,
          author : {f.author : f \in Files} \cup {f.holds : f \in Files}]

Ops == {"idle", "scan", "remove", "bind", "default", "reset", "add", "open"}
Stages == {"idle", "load", "detect", "save",
           "claim", "run", "asking", "waiting", "unclaim", "land",
           "mode", "source", "choose", "resolve", "redetect", "rewrite", "key", "prepare",
           "download", "copy", "record", "spawn", "launched"}
Modes == {"as-is", "new"}
Tasks ==
  [op : Ops, at : Stages, slicer : Slicers \cup {None}, install : Installs \cup {None},
   read : Reads \cup {None}, found : Findings \cup {None}, path : Paths \cup {None},
   file : Files \cup {None}, mode : Modes \cup {None}, remote : BOOLEAN \cup {None},
   source : Libraries \cup Slicers \cup {None}, key : Libraries \cup {None},
   plan : Plans \cup {None}, answer : Answers \cup {None}]

Said == {"prompts", "geometry only", "may discard", "geometry data", "version",
         "nothing comes back"}
Children ==
  [slicer : Slicers, install : Installs, path : Paths, file : Files, plan : Plans,
   remote : BOOLEAN, mode : Modes, exited : BOOLEAN, says : SUBSET Said,
   watch : {"none", "set", "done", "gone"}, told : Nat]

Base ==
  /\ stored \in Stores /\ rows \in Seq([id : Keyed, path : Paths]) /\ present \subseteq Paths
  /\ stored \notin Stored => stored.rows \in RowsOf(Paths)
  /\ opened \in Libraries \cup {None} /\ pickingFor \in Slicers \cup {None}
  /\ flight = None \/ flight \in [leader : Workers, answer : {None}, about : Slicers]
  /\ ops \in 0..MaxOps /\ events \in 0..MaxEvents
Types ==
  /\ Base /\ work \in [Workers -> Tasks]
  /\ dirs \in [Workers -> Dirs \cup {None}] /\ child \in [Workers -> Children \cup {None}]

-----------------------------------------------------------------------------
(* The stages of a launch, by what is known from each of them on.             *)
Copied   == {"download", "copy"}
Prepared == Copied \cup {"record", "spawn", "launched"}
Vetted   == {"key", "prepare"} \cup Prepared
Chosen   == {"resolve", "redetect", "rewrite"} \cup Vetted
Sourced  == {"choose"} \cup Chosen
Opening  == {"mode", "source"} \cup Sourced

(* What a command has established when it is at a stage.                      *)
EditInv(t) ==
  /\ t.op = "remove" => t.install \in Installs
  /\ t.op \in {"bind", "add"} => t.slicer \in Slicers
  /\ t.at = "load" => t.op \in {"scan", "remove", "bind", "default", "add"}
  /\ t.at = "detect" => t.op = "scan" /\ t.read \in Reads
  /\ t.at = "save" =>
       \/ t.op = "reset"
       \/ t.op \in {"scan", "remove", "bind", "default", "add"} /\ t.read \in Reads
  /\ t.at = "save" /\ t.op = "scan" /\ t.read.writable => t.found \in Findings
  /\ t.at \in {"load", "save"} /\ t.op = "add" => t.path \in Paths
  /\ t.at = "waiting" => t.op = "add"
OpenInv(t) ==
  /\ t.op = "open" <=> t.at \in Opening
  /\ t.op = "open" => t.file \in Files /\ t.mode \in Modes /\ t.answer = None
  /\ t.at \in {"source"} \cup Sourced => t.remote \in BOOLEAN
  /\ t.at \in Sourced => t.source \in Libraries
  /\ t.at \in Chosen =>
       t.slicer \in Slicers /\ t.install \in Installs /\ SlicerOf[t.install] = t.slicer
  /\ t.at \in {"redetect", "rewrite"} => t.read \in Reads /\ t.install \in DOMAIN t.read.config.rows
  /\ t.at = "rewrite" => t.found \in Findings
  /\ t.at \in Vetted =>
       t.path \in Paths /\ (t.install \in Keyed => ExeOf[t.path] = SlicerOf[t.install])
  /\ t.at \in Prepared => (t.mode = "as-is" => t.file.kind = "project")
  /\ t.at \in {"record", "spawn"} => t.plan = Plan(t)
TaskInv(t) ==
  /\ t.at = "idle" => t.op = "idle" /\ t.file = None
  /\ EditInv(t) /\ OpenInv(t)

(* What is in the launch directory of a command.                              *)
Explains(d, s) == d # None /\ d.holds = "copy" /\ d.record # None /\ d.record.slicer = s
DirInv(t, d) ==
  /\ d # None => t.at \in {"idle"} \cup Prepared
  /\ t.at \in Copied => ~InPlace(t)
  /\ t.at \in Copied \cup {"record"} => d # None /\ d.record = None
  /\ t.at = "record" => d.holds = "copy" /\ ~t.plan.inPlace
  /\ t.at = "spawn" => IF t.plan.inPlace THEN d = None ELSE Explains(d, t.slicer)
  /\ t.at = "idle" /\ d # None =>
       t.answer \in {"launched", "crashed"} \/ (t.answer = "unrecorded" /\ d.record = None)

(* What a process was started with, and what its watcher has heard.           *)
Started(c) ==
  /\ SlicerOf[c.install] = c.slicer /\ (c.install \in Keyed => ExeOf[c.path] = c.slicer)
  /\ c.plan.inPlace => /\ ~c.remote /\ (c.mode = "new" => c.file.ext # "3mf")
                       /\ c.mode = "as-is" => c.file.kind = "project"
  /\ c.slicer = "anycubic" /\ c.file.holds \in {"bambu", "orca"} /\ ~c.plan.stripped
       /\ ~(c.plan.inPlace /\ c.file.author # c.file.holds) => "may discard" \in c.says
Told(c) ==
  /\ c.watch \in {"none", "set"} => c.told = 0
  /\ c.watch = "set" => ~c.exited
  /\ c.watch = "done" => c.told = 1
  /\ c.told <= 1
ChildInv(t, d, c) ==
  /\ c # None \/ t.at = "launched" =>
       /\ c \in Children /\ t.at \in {"idle", "launched"} /\ Started(c) /\ Told(c)
       /\ ~c.plan.inPlace /\ (t.at = "launched" \/ t.answer # "failed") => Explains(d, c.slicer)
       /\ t.at = "idle" /\ t.answer = "launched" /\ d # None => c.watch # "none"
  /\ t.at = "launched" => c.watch = "none" /\ (c.plan.inPlace => d = None)

WorkerInv(t, d, c) == TaskInv(t) /\ DirInv(t, d) /\ ChildInv(t, d, c)

(* Whoever waits for the dialog waits for a flight.                           *)
FlightInv == \A w \in Workers : work[w].at = "waiting" => flight # None

Inv ==
  /\ Types /\ FlightInv
  /\ \A w \in Workers : WorkerInv(work[w], dirs[w], child[w])

-----------------------------------------------------------------------------
(* Configurations.                                                            *)

LEMMA RowsElim ==
  ASSUME NEW H, NEW f \in RowsOf(H)
  PROVE  DOMAIN f \in SUBSET Installs /\ f \in [DOMAIN f -> [hint : H, missing : BOOLEAN]]
BY DEF RowsOf

LEMMA RowsIntro ==
  ASSUME NEW H, NEW D \in SUBSET Installs, NEW f \in [D -> [hint : H, missing : BOOLEAN]]
  PROVE  f \in RowsOf(H)
BY DEF RowsOf

LEMMA BindsElim ==
  ASSUME NEW b \in Binds
  PROVE  DOMAIN b \in SUBSET Slicers /\ b \in [DOMAIN b -> Installs]
BY DEF Binds

LEMMA BindsIntro ==
  ASSUME NEW D \in SUBSET Slicers, NEW b \in [D -> Installs]
  PROVE  b \in Binds
BY DEF Binds

LEMMA ConfigElim ==
  ASSUME NEW c \in Configs
  PROVE  /\ c.rows \in RowsOf(Paths) /\ c.bind \in Binds /\ c.default \in Slicers \cup {None}
         /\ c = [rows |-> c.rows, bind |-> c.bind, default |-> c.default]
         /\ \A s \in DOMAIN c.bind : c.bind[s] \in DOMAIN c.rows /\ SlicerOf[c.bind[s]] = s
BY DEF Configs

LEMMA ConfigIntro ==
  ASSUME NEW rs \in RowsOf(Paths), NEW b \in Binds, NEW d \in Slicers \cup {None},
         \A s \in DOMAIN b : b[s] \in DOMAIN rs /\ SlicerOf[b[s]] = s
  PROVE  [rows |-> rs, bind |-> b, default |-> d] \in Configs
BY DEF Configs

LEMMA EmptyIsAConfig == Empty \in Configs
<1>1. [i \in {} |-> None] \in RowsOf(Paths)
  <2>1. [i \in {} |-> None] \in [{} -> [hint : Paths, missing : BOOLEAN]] OBVIOUS
  <2> QED BY <2>1, RowsIntro
<1>2. [s \in {} |-> None] \in Binds
  <2>1. [s \in {} |-> None] \in [{} -> Installs] OBVIOUS
  <2> QED BY <2>1, BindsIntro
<1>3. QED BY <1>1, <1>2, ConfigIntro DEF Empty

LEMMA ReadIsARead ==
  ASSUME NEW f \in Stores
  PROVE  ReadConfig(f) \in Reads
<1>1. CASE f.state # "v1"
  BY <1>1, EmptyIsAConfig DEF ReadConfig, Reads
<1>2. CASE f.state = "v1"
  <2> DEFINE good  == {i \in DOMAIN f.rows : f.rows[i].hint # None}
             bound == {s \in DOMAIN f.bind : f.bind[s] \in good /\ SlicerOf[f.bind[s]] = s}
             rs == Restrict(f.rows, good)
             b  == Restrict(f.bind, bound)
  <2>1. f.rows \in RowsOf(Paths \cup {None}) /\ f.bind \in Binds /\ f.default \in Slicers \cup {None}
    BY DEF Stores
  <2>2. DOMAIN f.rows \in SUBSET Installs
        /\ f.rows \in [DOMAIN f.rows -> [hint : Paths \cup {None}, missing : BOOLEAN]]
    BY <2>1, RowsElim
  <2>3. DOMAIN f.bind \in SUBSET Slicers /\ f.bind \in [DOMAIN f.bind -> Installs]
    BY <2>1, BindsElim
  <2>4. rs \in [good -> [hint : Paths, missing : BOOLEAN]]
    <3>1. ASSUME NEW i \in good PROVE f.rows[i] \in [hint : Paths, missing : BOOLEAN]
      BY <2>2
    <3> QED BY <3>1 DEF Restrict
  <2>5. b \in [bound -> Installs] /\ \A s \in bound : b[s] = f.bind[s]
    BY <2>3 DEF Restrict
  <2>6. good \in SUBSET Installs /\ bound \in SUBSET Slicers BY <2>2, <2>3
  <2>7. rs \in RowsOf(Paths) /\ b \in Binds BY <2>4, <2>5, <2>6, RowsIntro, BindsIntro
  <2>8. DOMAIN rs = good /\ DOMAIN b = bound BY <2>4, <2>5
  <2>9. \A s \in DOMAIN b : b[s] \in DOMAIN rs /\ SlicerOf[b[s]] = s BY <2>5, <2>8
  <2>10. ReadConfig(f) = [writable |-> TRUE,
                          config |-> [rows |-> rs, bind |-> b, default |-> f.default]]
    BY <1>2 DEF ReadConfig
  <2> HIDE DEF rs, b
  <2>11. [rows |-> rs, bind |-> b, default |-> f.default] \in Configs
    BY <2>1, <2>7, <2>9, ConfigIntro
  <2> QED BY <2>10, <2>11 DEF Reads
<1>3. QED BY <1>1, <1>2

(* ReadConfig: what is written of a configuration reads back as it was.       *)
LEMMA WrittenReads ==
  ASSUME NEW c \in Configs
  PROVE  Written(c) \in Stores /\ ReadConfig(Written(c)) = [writable |-> TRUE, config |-> c]
<1> DEFINE f == Written(c)
           good  == {i \in DOMAIN f.rows : f.rows[i].hint # None}
           bound == {s \in DOMAIN f.bind : f.bind[s] \in good /\ SlicerOf[f.bind[s]] = s}
<1>1. /\ f.state = "v1" /\ f.rows = c.rows /\ f.bind = c.bind /\ f.default = c.default
      /\ f = [state |-> "v1", rows |-> c.rows, bind |-> c.bind, default |-> c.default]
  BY DEF Written
<1>2. /\ c.rows \in RowsOf(Paths) /\ c.bind \in Binds /\ c.default \in Slicers \cup {None}
      /\ c = [rows |-> c.rows, bind |-> c.bind, default |-> c.default]
      /\ \A s \in DOMAIN c.bind : c.bind[s] \in DOMAIN c.rows /\ SlicerOf[c.bind[s]] = s
  BY ConfigElim
<1>3. DOMAIN c.rows \in SUBSET Installs
      /\ c.rows \in [DOMAIN c.rows -> [hint : Paths, missing : BOOLEAN]]
  BY <1>2, RowsElim
<1>4. DOMAIN c.bind \in SUBSET Slicers /\ c.bind \in [DOMAIN c.bind -> Installs]
  BY <1>2, BindsElim
<1>5. f \in Stores
  <2>1. c.rows \in [DOMAIN c.rows -> [hint : Paths \cup {None}, missing : BOOLEAN]] BY <1>3
  <2>2. c.rows \in RowsOf(Paths \cup {None}) BY <1>3, <2>1, RowsIntro
  <2> QED BY <1>1, <1>2, <2>2 DEF Stores
<1>6. good = DOMAIN c.rows BY <1>1, <1>3, NoneAssumption
<1>7. bound = DOMAIN c.bind BY <1>1, <1>2, <1>6
<1>8. Restrict(f.rows, good) = c.rows BY <1>1, <1>3, <1>6 DEF Restrict
<1>9. Restrict(f.bind, bound) = c.bind BY <1>1, <1>4, <1>7 DEF Restrict
<1>10. ReadConfig(f) = [writable |-> TRUE,
          config |-> [rows |-> Restrict(f.rows, good), bind |-> Restrict(f.bind, bound),
                      default |-> f.default]]
  BY <1>1 DEF ReadConfig
<1> HIDE DEF f, good, bound
<1>11. ReadConfig(f) = [writable |-> TRUE, config |-> c]
  BY <1>1, <1>2, <1>8, <1>9, <1>10
<1>12. QED BY <1>5, <1>11 DEF f

(* auto_bind adds bindings to usable installs of the product, and no others.  *)
LEMMA AutoBindAdds ==
  ASSUME NEW rs \in RowsOf(Paths), NEW b \in Binds, NEW among \in SUBSET Slicers,
         \A s \in DOMAIN b : b[s] \in DOMAIN rs /\ SlicerOf[b[s]] = s
  PROVE  LET a == AutoBind(b, rs, among)
         IN  /\ a \in Binds
             /\ \A s \in DOMAIN b : s \in DOMAIN a /\ a[s] = b[s]
             /\ \A s \in DOMAIN a : a[s] \in DOMAIN rs /\ SlicerOf[a[s]] = s
<1> DEFINE only == {s \in among \ DOMAIN b : Cardinality(Usable(rs, s)) = 1}
           pick(s) == CHOOSE i \in Usable(rs, s) : TRUE
           a == AutoBind(b, rs, among)
<1>1. a = [s \in DOMAIN b \cup only |-> IF s \in DOMAIN b THEN b[s] ELSE pick(s)]
  BY DEF AutoBind
<1>2. DOMAIN b \in SUBSET Slicers /\ b \in [DOMAIN b -> Installs] BY BindsElim
<1>3. DOMAIN rs \in SUBSET Installs BY RowsElim
<1>4. ASSUME NEW s \in only PROVE pick(s) \in DOMAIN rs /\ SlicerOf[pick(s)] = s
  <2>1. Usable(rs, s) # {} BY FS_EmptySet
  <2>2. pick(s) \in Usable(rs, s) BY <2>1
  <2> QED BY <2>2 DEF Usable
<1> HIDE DEF pick
<1>5. DOMAIN b \cup only \in SUBSET Slicers BY <1>2
<1>6. \A s \in only : s \notin DOMAIN b OBVIOUS
<1> HIDE DEF only, a
<1>7. a \in [DOMAIN b \cup only -> Installs] BY <1>1, <1>2, <1>3, <1>4
<1>8. a \in Binds BY <1>5, <1>7, BindsIntro
<1>9. \A s \in DOMAIN b : s \in DOMAIN a /\ a[s] = b[s] BY <1>1
<1>10. \A s \in DOMAIN a : a[s] \in DOMAIN rs /\ SlicerOf[a[s]] = s
  BY <1>1, <1>4
<1>11. QED BY <1>8, <1>9, <1>10 DEF a

LEMMA MergeIsAConfig ==
  ASSUME NEW c \in Configs, NEW found \in Findings
  PROVE  LET new == MergeDetected(c, found)
         IN  /\ new \in Configs /\ new.default = c.default
             /\ \A s \in DOMAIN c.bind : s \in DOMAIN new.bind /\ new.bind[s] = c.bind[s]
             /\ DOMAIN c.rows \subseteq DOMAIN new.rows
             /\ \A i \in Manual \cap DOMAIN c.rows : new.rows[i] = c.rows[i]
<1> DEFINE row(i) == IF i \in DOMAIN found THEN [hint |-> found[i], missing |-> FALSE]
                     ELSE IF i \in Manual THEN c.rows[i]
                     ELSE [c.rows[i] EXCEPT !.missing = TRUE]
           D == DOMAIN c.rows \cup DOMAIN found
           merged == [i \in D |-> row(i)]
           b == AutoBind(c.bind, merged, Slicers)
           new == MergeDetected(c, found)
<1>1. /\ c.rows \in RowsOf(Paths) /\ c.bind \in Binds /\ c.default \in Slicers \cup {None}
      /\ c = [rows |-> c.rows, bind |-> c.bind, default |-> c.default]
      /\ \A s \in DOMAIN c.bind : c.bind[s] \in DOMAIN c.rows /\ SlicerOf[c.bind[s]] = s
  BY ConfigElim
<1>2. DOMAIN c.rows \in SUBSET Installs
      /\ c.rows \in [DOMAIN c.rows -> [hint : Paths, missing : BOOLEAN]]
  BY <1>1, RowsElim
<1>3. DOMAIN found \in SUBSET Keyed /\ found \in [DOMAIN found -> Paths] BY DEF Findings
<1>4. \A i \in D : row(i) \in [hint : Paths, missing : BOOLEAN] BY <1>2, <1>3
<1>5. \A i \in Manual \cap DOMAIN c.rows : row(i) = c.rows[i] BY <1>3, LaunchAssumption
<1>6. D \in SUBSET Installs BY <1>2, <1>3 DEF Installs
<1> HIDE DEF row
<1>7. merged \in RowsOf(Paths)
  <2>1. merged \in [D -> [hint : Paths, missing : BOOLEAN]] BY <1>4
  <2> HIDE DEF D, merged
  <2> QED BY <1>6, <2>1, RowsIntro
<1>8. DOMAIN merged = D /\ \A i \in D : merged[i] = row(i) OBVIOUS
<1>9. new = [c EXCEPT !.rows = merged, !.bind = b] BY DEF MergeDetected, row
<1> HIDE DEF merged, new
<1>10. \A s \in DOMAIN c.bind : c.bind[s] \in DOMAIN merged /\ SlicerOf[c.bind[s]] = s
  BY <1>1, <1>8
<1>11. /\ b \in Binds
       /\ \A s \in DOMAIN c.bind : s \in DOMAIN b /\ b[s] = c.bind[s]
       /\ \A s \in DOMAIN b : b[s] \in DOMAIN merged /\ SlicerOf[b[s]] = s
  BY <1>1, <1>7, <1>10, AutoBindAdds
<1> HIDE DEF b
<1>12. new = [rows |-> merged, bind |-> b, default |-> c.default] BY <1>1, <1>9
<1>13. new \in Configs BY <1>1, <1>7, <1>11, <1>12, ConfigIntro
<1>14. new.rows = merged /\ new.bind = b /\ new.default = c.default BY <1>12
<1>15. \A i \in Manual \cap DOMAIN c.rows : new.rows[i] = c.rows[i]
  BY <1>5, <1>8, <1>14
<1>16. DOMAIN c.rows \subseteq DOMAIN new.rows BY <1>8, <1>14
<1>17. QED BY <1>11, <1>13, <1>14, <1>15, <1>16 DEF new

LEMMA WithManualIsAConfig ==
  ASSUME NEW c \in Configs, NEW h \in Manual, h \notin DOMAIN c.rows, NEW path \in Paths
  PROVE  LET new == WithManual(c, h, path)
         IN  /\ new \in Configs /\ new.default = c.default
             /\ \A s \in DOMAIN c.bind : s \in DOMAIN new.bind /\ new.bind[s] = c.bind[s]
             /\ DOMAIN c.rows \subseteq DOMAIN new.rows
             /\ \A i \in DOMAIN c.rows : new.rows[i] = c.rows[i]
<1> DEFINE row(j) == IF j = h THEN [hint |-> path, missing |-> FALSE] ELSE c.rows[j]
           D == DOMAIN c.rows \cup {h}
           added == [j \in D |-> row(j)]
           b == AutoBind(c.bind, added, {SlicerOf[h]})
           new == WithManual(c, h, path)
<1>1. /\ c.rows \in RowsOf(Paths) /\ c.bind \in Binds /\ c.default \in Slicers \cup {None}
      /\ c = [rows |-> c.rows, bind |-> c.bind, default |-> c.default]
      /\ \A s \in DOMAIN c.bind : c.bind[s] \in DOMAIN c.rows /\ SlicerOf[c.bind[s]] = s
  BY ConfigElim
<1>2. DOMAIN c.rows \in SUBSET Installs
      /\ c.rows \in [DOMAIN c.rows -> [hint : Paths, missing : BOOLEAN]]
  BY <1>1, RowsElim
<1>3. \A i \in D : row(i) \in [hint : Paths, missing : BOOLEAN] BY <1>2
<1>4. \A i \in DOMAIN c.rows : row(i) = c.rows[i] OBVIOUS
<1>5. D \in SUBSET Installs BY <1>2 DEF Installs
<1>6. {SlicerOf[h]} \in SUBSET Slicers BY LaunchAssumption DEF Installs
<1>7. new = [c EXCEPT !.rows = added, !.bind = b] BY DEF WithManual
<1> HIDE DEF row
<1>8. added \in RowsOf(Paths)
  <2>1. added \in [D -> [hint : Paths, missing : BOOLEAN]] BY <1>3
  <2> HIDE DEF D, added
  <2> QED BY <1>5, <2>1, RowsIntro
<1>9. DOMAIN added = D /\ \A i \in D : added[i] = row(i) OBVIOUS
<1> HIDE DEF added, new
<1>10. \A s \in DOMAIN c.bind : c.bind[s] \in DOMAIN added /\ SlicerOf[c.bind[s]] = s
  BY <1>1, <1>9
<1>11. /\ b \in Binds
       /\ \A s \in DOMAIN c.bind : s \in DOMAIN b /\ b[s] = c.bind[s]
       /\ \A s \in DOMAIN b : b[s] \in DOMAIN added /\ SlicerOf[b[s]] = s
  BY <1>1, <1>6, <1>8, <1>10, AutoBindAdds
<1> HIDE DEF b
<1>12. new = [rows |-> added, bind |-> b, default |-> c.default] BY <1>1, <1>7
<1>13. new \in Configs BY <1>1, <1>8, <1>11, <1>12, ConfigIntro
<1>14. new.rows = added /\ new.bind = b /\ new.default = c.default BY <1>12
<1>15. QED BY <1>4, <1>9, <1>11, <1>13, <1>14 DEF new

LEMMA WithoutIsAConfig ==
  ASSUME NEW c \in Configs, NEW h
  PROVE  WithoutInstall(c, h) \in Configs
<1> DEFINE D == DOMAIN c.rows \ {h}
           B == {s \in DOMAIN c.bind : c.bind[s] # h}
           rs == Restrict(c.rows, D)
           b  == Restrict(c.bind, B)
<1>1. /\ c.rows \in RowsOf(Paths) /\ c.bind \in Binds /\ c.default \in Slicers \cup {None}
      /\ c = [rows |-> c.rows, bind |-> c.bind, default |-> c.default]
      /\ \A s \in DOMAIN c.bind : c.bind[s] \in DOMAIN c.rows /\ SlicerOf[c.bind[s]] = s
  BY ConfigElim
<1>2. DOMAIN c.rows \in SUBSET Installs
      /\ c.rows \in [DOMAIN c.rows -> [hint : Paths, missing : BOOLEAN]]
  BY <1>1, RowsElim
<1>3. DOMAIN c.bind \in SUBSET Slicers /\ c.bind \in [DOMAIN c.bind -> Installs]
  BY <1>1, BindsElim
<1>4. rs \in [D -> [hint : Paths, missing : BOOLEAN]] BY <1>2 DEF Restrict
<1>5. b \in [B -> Installs] /\ \A s \in B : b[s] = c.bind[s] BY <1>3 DEF Restrict
<1>6. D \in SUBSET Installs /\ B \in SUBSET Slicers BY <1>2, <1>3
<1>7. WithoutInstall(c, h) = [c EXCEPT !.rows = rs, !.bind = b] BY DEF WithoutInstall
<1>8. \A s \in B : b[s] \in D /\ SlicerOf[b[s]] = s BY <1>1, <1>5
<1> HIDE DEF rs, b, D, B
<1>9. rs \in RowsOf(Paths) /\ b \in Binds BY <1>4, <1>5, <1>6, RowsIntro, BindsIntro
<1>10. WithoutInstall(c, h) = [rows |-> rs, bind |-> b, default |-> c.default] BY <1>1, <1>7
<1>11. \A s \in DOMAIN b : b[s] \in DOMAIN rs /\ SlicerOf[b[s]] = s BY <1>4, <1>5, <1>8
<1>12. QED BY <1>1, <1>9, <1>10, <1>11, ConfigIntro

LEMMA BoundIsAConfig ==
  ASSUME NEW c \in Configs, NEW s \in Slicers, NEW i \in Installs \cup {None},
         i # None => i \in DOMAIN c.rows /\ SlicerOf[i] = s
  PROVE  Bound(c, s, i) \in Configs
<1> DEFINE b == IF i = None THEN Restrict(c.bind, DOMAIN c.bind \ {s})
                ELSE [t \in DOMAIN c.bind \cup {s} |-> IF t = s THEN i ELSE c.bind[t]]
<1>1. /\ c.rows \in RowsOf(Paths) /\ c.bind \in Binds /\ c.default \in Slicers \cup {None}
      /\ c = [rows |-> c.rows, bind |-> c.bind, default |-> c.default]
      /\ \A t \in DOMAIN c.bind : c.bind[t] \in DOMAIN c.rows /\ SlicerOf[c.bind[t]] = t
  BY ConfigElim
<1>2. DOMAIN c.bind \in SUBSET Slicers /\ c.bind \in [DOMAIN c.bind -> Installs]
  BY <1>1, BindsElim
<1>3. Bound(c, s, i) = [c EXCEPT !.bind = b] BY <1>1 DEF Bound
<1>4. b \in Binds /\ \A t \in DOMAIN b : b[t] \in DOMAIN c.rows /\ SlicerOf[b[t]] = t
  <2>1. CASE i = None
    <3> DEFINE B == DOMAIN c.bind \ {s}
    <3>1. b \in [B -> Installs] /\ \A t \in B : b[t] = c.bind[t] BY <1>2, <2>1 DEF Restrict
    <3>2. B \in SUBSET Slicers BY <1>2
    <3>3. \A t \in B : b[t] \in DOMAIN c.rows /\ SlicerOf[b[t]] = t BY <1>1, <3>1
    <3> HIDE DEF b, B
    <3> QED BY <3>1, <3>2, <3>3, BindsIntro
  <2>2. CASE i # None
    <3> DEFINE B == DOMAIN c.bind \cup {s}
    <3>1. b \in [B -> Installs] BY <1>2, <2>2
    <3>2. B \in SUBSET Slicers BY <1>2
    <3>3. \A t \in B : b[t] \in DOMAIN c.rows /\ SlicerOf[b[t]] = t BY <1>1, <2>2
    <3> HIDE DEF b, B
    <3> QED BY <3>1, <3>2, <3>3, BindsIntro
  <2>3. QED BY <2>1, <2>2
<1> HIDE DEF b
<1>5. Bound(c, s, i) = [rows |-> c.rows, bind |-> b, default |-> c.default] BY <1>1, <1>3
<1>6. QED BY <1>1, <1>4, <1>5, ConfigIntro

LEMMA PreferredIsAConfig ==
  ASSUME NEW c \in Configs, NEW s \in Slicers \cup {None}
  PROVE  Preferred(c, s) \in Configs
<1>1. /\ c.rows \in RowsOf(Paths) /\ c.bind \in Binds
      /\ c = [rows |-> c.rows, bind |-> c.bind, default |-> c.default]
      /\ \A t \in DOMAIN c.bind : c.bind[t] \in DOMAIN c.rows /\ SlicerOf[c.bind[t]] = t
  BY ConfigElim
<1>2. Preferred(c, s) = [rows |-> c.rows, bind |-> c.bind, default |-> s]
  BY <1>1 DEF Preferred
<1>3. QED BY <1>1, <1>2, ConfigIntro

(* What a launch that re-resolved its install writes: the row alone is new.   *)
Resolved(c, i, row) == [c EXCEPT !.rows[i] = row]
LEMMA ResolvedIsAConfig ==
  ASSUME NEW c \in Configs, NEW i \in DOMAIN c.rows, NEW row \in [hint : Paths, missing : BOOLEAN]
  PROVE  LET new == Resolved(c, i, row)
         IN  /\ new \in Configs /\ new.default = c.default /\ new.bind = c.bind
             /\ DOMAIN new.rows = DOMAIN c.rows /\ new.rows[i] = row
             /\ \A j \in DOMAIN c.rows \ {i} : new.rows[j] = c.rows[j]
<1> DEFINE rs == [c.rows EXCEPT ![i] = row]
           new == Resolved(c, i, row)
<1>1. /\ c.rows \in RowsOf(Paths) /\ c.bind \in Binds /\ c.default \in Slicers \cup {None}
      /\ c = [rows |-> c.rows, bind |-> c.bind, default |-> c.default]
      /\ \A s \in DOMAIN c.bind : c.bind[s] \in DOMAIN c.rows /\ SlicerOf[c.bind[s]] = s
  BY ConfigElim
<1>2. DOMAIN c.rows \in SUBSET Installs
      /\ c.rows \in [DOMAIN c.rows -> [hint : Paths, missing : BOOLEAN]]
  BY <1>1, RowsElim
<1>3. rs \in [DOMAIN c.rows -> [hint : Paths, missing : BOOLEAN]] BY <1>2
<1>4. DOMAIN rs = DOMAIN c.rows /\ rs[i] = row /\ \A j \in DOMAIN c.rows \ {i} : rs[j] = c.rows[j]
  BY <1>2
<1>5. new = [c EXCEPT !.rows = rs] BY DEF Resolved
<1> HIDE DEF rs, new
<1>6. new = [rows |-> rs, bind |-> c.bind, default |-> c.default] BY <1>1, <1>5
<1>7. rs \in RowsOf(Paths) BY <1>2, <1>3, RowsIntro
<1>8. \A s \in DOMAIN c.bind : c.bind[s] \in DOMAIN rs /\ SlicerOf[c.bind[s]] = s BY <1>1, <1>4
<1>9. new \in Configs BY <1>1, <1>6, <1>7, <1>8, ConfigIntro
<1>10. new.rows = rs /\ new.bind = c.bind /\ new.default = c.default BY <1>6
<1>11. QED BY <1>4, <1>9, <1>10 DEF new

-----------------------------------------------------------------------------
(* A task stays one when one of its fields is set.                            *)

LEMMA SetAt     == \A t \in Tasks : \A v \in Stages : [t EXCEPT !.at = v] \in Tasks
BY DEF Tasks
LEMMA SetOp     == \A t \in Tasks : \A v \in Ops : [t EXCEPT !.op = v] \in Tasks
BY DEF Tasks
LEMMA SetSlicer == \A t \in Tasks : \A v \in Slicers \cup {None} : [t EXCEPT !.slicer = v] \in Tasks
BY DEF Tasks
LEMMA SetInstall ==
  \A t \in Tasks : \A v \in Installs \cup {None} : [t EXCEPT !.install = v] \in Tasks
BY DEF Tasks
LEMMA SetRead   == \A t \in Tasks : \A v \in Reads \cup {None} : [t EXCEPT !.read = v] \in Tasks
BY DEF Tasks
LEMMA SetFound  == \A t \in Tasks : \A v \in Findings \cup {None} : [t EXCEPT !.found = v] \in Tasks
BY DEF Tasks
LEMMA SetPath   == \A t \in Tasks : \A v \in Paths \cup {None} : [t EXCEPT !.path = v] \in Tasks
BY DEF Tasks
LEMMA SetFile   == \A t \in Tasks : \A v \in Files \cup {None} : [t EXCEPT !.file = v] \in Tasks
BY DEF Tasks
LEMMA SetMode   == \A t \in Tasks : \A v \in Modes \cup {None} : [t EXCEPT !.mode = v] \in Tasks
BY DEF Tasks
LEMMA SetRemote == \A t \in Tasks : \A v \in BOOLEAN : [t EXCEPT !.remote = v] \in Tasks
BY DEF Tasks
LEMMA SetSource ==
  \A t \in Tasks : \A v \in Libraries \cup Slicers \cup {None} : [t EXCEPT !.source = v] \in Tasks
BY DEF Tasks
LEMMA SetKey    == \A t \in Tasks : \A v \in Libraries \cup {None} : [t EXCEPT !.key = v] \in Tasks
BY DEF Tasks
LEMMA SetPlan   == \A t \in Tasks : \A v \in Plans \cup {None} : [t EXCEPT !.plan = v] \in Tasks
BY DEF Tasks
LEMMA SetAnswer == \A t \in Tasks : \A v \in Answers \cup {None} : [t EXCEPT !.answer = v] \in Tasks
BY DEF Tasks

-----------------------------------------------------------------------------
(* Steps of one worker.                                                       *)

LEMMA PlanIsOf ==
  ASSUME NEW r, NEW t, r.remote = t.remote, r.mode = t.mode, r.file = t.file
  PROVE  InPlace(r) = InPlace(t) /\ Plan(r) = Plan(t)
BY DEF InPlace, Plan, Strips

LEMMA StepOf ==
  ASSUME Inv, Base', flight' = flight \/ flight' # None,
         NEW w \in Workers, NEW r \in Tasks, NEW d \in Dirs \cup {None},
         NEW c \in Children \cup {None},
         work' = [work EXCEPT ![w] = r], dirs' = [dirs EXCEPT ![w] = d],
         child' = [child EXCEPT ![w] = c],
         WorkerInv(r, d, c), r.at = "waiting" => flight' # None
  PROVE  Inv'
<1>1. /\ work \in [Workers -> Tasks] /\ dirs \in [Workers -> Dirs \cup {None}]
      /\ child \in [Workers -> Children \cup {None}]
  BY DEF Inv, Types
<1>2. Types' BY <1>1 DEF Types
<1>3. ASSUME NEW v \in Workers
      PROVE  /\ WorkerInv(work'[v], dirs'[v], child'[v])
             /\ work'[v].at = "waiting" => flight' # None
  <2>1. CASE v = w
    <3>1. work'[v] = r /\ dirs'[v] = d /\ child'[v] = c BY <1>1, <2>1
    <3> QED BY <3>1
  <2>2. CASE v # w
    <3>1. work'[v] = work[v] /\ dirs'[v] = dirs[v] /\ child'[v] = child[v] BY <1>1, <2>2
    <3> QED BY <3>1 DEF Inv, FlightInv
  <2>3. QED BY <2>1, <2>2
<1>4. FlightInv' BY <1>3 DEF FlightInv
<1>5. QED BY <1>2, <1>3, <1>4 DEF Inv

LEMMA WorkStep ==
  ASSUME Inv, Base', flight' = flight \/ flight' # None, NEW w \in Workers, NEW r \in Tasks,
         work' = [work EXCEPT ![w] = r], UNCHANGED disk,
         WorkerInv(r, dirs[w], child[w]), r.at = "waiting" => flight' # None
  PROVE  Inv'
<1>1. dirs \in [Workers -> Dirs \cup {None}] /\ child \in [Workers -> Children \cup {None}]
  BY DEF Inv, Types
<1>2. dirs' = [dirs EXCEPT ![w] = dirs[w]] /\ child' = [child EXCEPT ![w] = child[w]]
  BY <1>1 DEF disk
<1>3. dirs[w] \in Dirs \cup {None} /\ child[w] \in Children \cup {None} BY <1>1
<1>4. QED BY <1>2, <1>3, StepOf

(* What a command that is not at rest and has not prepared anything holds.    *)
LEMMA NothingYet ==
  ASSUME Inv, NEW w \in Workers, work[w].at \notin {"idle"} \cup Prepared
  PROVE  dirs[w] = None /\ child[w] = None
<1>1. WorkerInv(work[w], dirs[w], child[w]) BY DEF Inv
<1>2. QED BY <1>1 DEF WorkerInv, DirInv, ChildInv, Prepared

LEMMA AnyTask ==
  ASSUME Inv, NEW w \in Workers
  PROVE  work[w] \in Tasks /\ TaskInv(work[w]) /\ work \in [Workers -> Tasks]
BY DEF Inv, Types, WorkerInv

(* A step to a stage at which there is no directory and no process.           *)
LEMMA EarlyStep ==
  ASSUME Inv, Base', flight' = flight \/ flight' # None, NEW w \in Workers, NEW r \in Tasks,
         work' = [work EXCEPT ![w] = r], UNCHANGED disk, TaskInv(r),
         work[w].at \notin {"idle"} \cup Prepared, r.at \notin Prepared,
         r.at = "waiting" => flight' # None
  PROVE  Inv'
<1>1. dirs[w] = None /\ child[w] = None BY NothingYet
<1>2. WorkerInv(r, None, None) BY DEF WorkerInv, DirInv, ChildInv, Prepared, Copied
<1>3. QED BY <1>1, <1>2, WorkStep

LEMMA Ended ==
  ASSUME NEW answer \in Answers \cup {None}
  PROVE  LET r == [Idle EXCEPT !.answer = answer]
         IN  /\ r \in Tasks /\ TaskInv(r) /\ r.at = "idle" /\ r.answer = answer
             /\ r.at \notin Prepared
<1> DEFINE r == [Idle EXCEPT !.answer = answer]
<1>1. r = [op |-> "idle", at |-> "idle", slicer |-> None, install |-> None, read |-> None,
           found |-> None, path |-> None, file |-> None, mode |-> None, remote |-> None,
           source |-> None, key |-> None, plan |-> None, answer |-> answer]
  BY DEF Idle
<1> HIDE DEF r
<1>2. r \in Tasks BY <1>1 DEF Tasks, Ops, Stages
<1>3. r.op = "idle" /\ r.at = "idle" /\ r.file = None /\ r.answer = answer BY <1>1
<1>4. EditInv(r) BY <1>3 DEF EditInv
<1>5. OpenInv(r) BY <1>3 DEF OpenInv, Opening, Sourced, Chosen, Vetted, Prepared, Copied
<1>6. QED BY <1>2, <1>3, <1>4, <1>5 DEF TaskInv, r, Prepared, Copied

LEMMA FinishEarly ==
  ASSUME Inv, Base', flight' = flight, NEW w \in Workers, UNCHANGED disk,
         NEW answer \in Answers, Finish(w, answer),
         work[w].at \notin {"idle"} \cup Prepared
  PROVE  Inv'
<1> DEFINE r == [Idle EXCEPT !.answer = answer]
<1>1. work' = [work EXCEPT ![w] = r] BY DEF Finish
<1>2. r \in Tasks /\ TaskInv(r) /\ r.at = "idle" /\ r.at \notin Prepared BY Ended
<1> HIDE DEF r
<1>3. QED BY <1>1, <1>2, EarlyStep

LEMMA BaseStays ==
  ASSUME Inv, UNCHANGED <<stored, machine, opened, dialog, ops, events>>
  PROVE  Base' /\ flight' = flight
BY DEF Inv, Types, Base, machine, dialog

-----------------------------------------------------------------------------
(* Commands begin.                                                            *)

LEMMA BeginStep ==
  ASSUME Inv, NEW w \in Workers, NEW task \in Tasks, TaskInv(task),
         task.at \notin {"idle", "waiting"} \cup Prepared, ops < MaxOps, Begin(w, task)
  PROVE  Inv'
<1>1. Base' /\ flight' = flight
  BY LaunchAssumption DEF Begin, Inv, Types, Base, machine, dialog
<1>2. WorkerInv(task, None, None) BY DEF WorkerInv, DirInv, ChildInv, Prepared, Copied
<1>3. /\ work' = [work EXCEPT ![w] = task] /\ dirs' = [dirs EXCEPT ![w] = None]
      /\ child' = [child EXCEPT ![w] = None]
  BY DEF Begin
<1>4. QED BY <1>1, <1>2, <1>3, StepOf

LEMMA IdleTask == Idle \in Tasks /\ Idle.answer = None
BY DEF Idle, Tasks, Ops, Stages

LEMMA FreshTask ==
  ASSUME NEW op \in Ops, NEW at \in Stages
  PROVE  LET task == Task(op, at)
         IN  task \in Tasks /\ task.op = op /\ task.at = at /\ task.answer = None
<1> DEFINE task == [Idle EXCEPT !.op = op, !.at = at]
<1>1. Idle \in Tasks /\ Idle.answer = None BY IdleTask
<1>2. task \in Tasks
  <2>1. [Idle EXCEPT !.op = op] \in Tasks BY <1>1, SetOp
  <2>2. [[Idle EXCEPT !.op = op] EXCEPT !.at = at] \in Tasks BY <2>1, SetAt
  <2> QED BY <2>2
<1>3. task.op = op /\ task.at = at /\ task.answer = None BY <1>1 DEF Tasks
<1>4. QED BY <1>2, <1>3 DEF Task

LEMMA EditTask ==
  ASSUME NEW task \in Tasks,
         task.op \in {"scan", "remove", "bind", "default", "reset", "add"},
         task.op = "remove" => task.install \in Installs,
         task.op \in {"bind", "add"} => task.slicer \in Slicers,
         \/ task.at = "load" /\ task.op \in {"scan", "remove", "bind", "default"}
         \/ task.at = "save" /\ task.op = "reset"
         \/ task.at = "claim"
  PROVE  TaskInv(task) /\ task.at \notin {"idle", "waiting"} \cup Prepared
<1>1. EditInv(task) BY DEF EditInv
<1>2. OpenInv(task) BY DEF OpenInv, Opening, Sourced, Chosen, Vetted, Prepared, Copied
<1>3. QED BY <1>1, <1>2 DEF TaskInv, Prepared, Copied

LEMMA OpenTask ==
  ASSUME NEW task \in Tasks, task.op = "open", task.at = "mode", task.file \in Files,
         task.mode \in Modes, task.answer = None
  PROVE  TaskInv(task) /\ task.at \notin {"idle", "waiting"} \cup Prepared
<1>1. EditInv(task) BY DEF EditInv
<1>2. OpenInv(task) BY DEF OpenInv, Opening, Sourced, Chosen, Vetted, Prepared, Copied
<1>3. QED BY <1>1, <1>2 DEF TaskInv, Prepared, Copied

LEMMA StartsStep ==
  ASSUME Inv, NEW w \in Workers, Starts(w)
  PROVE  Inv'
<1>1. ops < MaxOps BY DEF Starts
<1>2. CASE BeginEdit(w)
  <2>1. CASE Begin(w, Task("scan", "load"))
    <3> DEFINE fresh == Task("scan", "load")
             task == fresh
    <3>0. fresh \in Tasks /\ fresh.op = "scan" /\ fresh.at = "load" /\ fresh.answer = None
      BY FreshTask DEF Ops, Stages
    <3> HIDE DEF fresh
    <3>5. task \in Tasks BY <3>0 DEF Tasks
    <3>6. task.op = "scan" /\ task.at = "load"
      BY <3>0 DEF Tasks
    <3>1. task \in Tasks /\ task.op = "scan" /\ task.at = "load"
      BY <3>5, <3>6
    <3> HIDE DEF task
    <3>2. task \in Tasks /\ TaskInv(task) /\ task.at \notin {"idle", "waiting"} \cup Prepared
      BY <3>1, EditTask
    <3>9. Begin(w, task) BY <2>1 DEF task, fresh
    <3> QED BY <1>1, <3>2, <3>9, BeginStep
  <2>2. ASSUME NEW i \in Installs, Begin(w, [Task("remove", "load") EXCEPT !.install = i])
        PROVE  Inv'
    <3> DEFINE fresh == Task("remove", "load")
             task == [fresh EXCEPT !.install = i]
    <3>0. fresh \in Tasks /\ fresh.op = "remove" /\ fresh.at = "load" /\ fresh.answer = None
      BY FreshTask DEF Ops, Stages
    <3> HIDE DEF fresh
    <3>5. task \in Tasks BY <3>0 DEF Tasks
    <3>6. task.op = "remove" /\ task.at = "load" /\ task.install = i
      BY <3>0 DEF Tasks
    <3>1. task \in Tasks /\ task.op = "remove" /\ task.at = "load" /\ task.install = i
      BY <3>5, <3>6
    <3> HIDE DEF task
    <3>2. task \in Tasks /\ TaskInv(task) /\ task.at \notin {"idle", "waiting"} \cup Prepared
      BY <3>1, EditTask
    <3>9. Begin(w, task) BY <2>2 DEF task, fresh
    <3> QED BY <1>1, <3>2, <3>9, BeginStep
  <2>3. ASSUME NEW s \in Slicers, NEW i \in Installs \cup {None},
               Begin(w, [Task("bind", "load") EXCEPT !.slicer = s, !.install = i])
        PROVE  Inv'
    <3> DEFINE fresh == Task("bind", "load")
             task == [fresh EXCEPT !.slicer = s, !.install = i]
    <3>0. fresh \in Tasks /\ fresh.op = "bind" /\ fresh.at = "load" /\ fresh.answer = None
      BY FreshTask DEF Ops, Stages
    <3> HIDE DEF fresh
    <3>5. task \in Tasks
      <4>1. [fresh EXCEPT !.slicer = s] \in Tasks BY <3>0, SetSlicer
      <4>2. [[fresh EXCEPT !.slicer = s] EXCEPT !.install = i] \in Tasks BY <4>1, SetInstall
      <4> QED BY <4>2
    <3>6. task.op = "bind" /\ task.at = "load" /\ task.install = i /\ task.slicer = s
      BY <3>0 DEF Tasks
    <3>1. /\ task \in Tasks /\ task.op = "bind" /\ task.at = "load"
          /\ task.install = i /\ task.slicer = s
      BY <3>5, <3>6
    <3> HIDE DEF task
    <3>2. task \in Tasks /\ TaskInv(task) /\ task.at \notin {"idle", "waiting"} \cup Prepared
      BY <3>1, EditTask
    <3>9. Begin(w, task) BY <2>3 DEF task, fresh
    <3> QED BY <1>1, <3>2, <3>9, BeginStep
  <2>4. ASSUME NEW s \in Slicers \cup {None},
               Begin(w, [Task("default", "load") EXCEPT !.slicer = s])
        PROVE  Inv'
    <3> DEFINE fresh == Task("default", "load")
             task == [fresh EXCEPT !.slicer = s]
    <3>0. fresh \in Tasks /\ fresh.op = "default" /\ fresh.at = "load" /\ fresh.answer = None
      BY FreshTask DEF Ops, Stages
    <3> HIDE DEF fresh
    <3>5. task \in Tasks BY <3>0 DEF Tasks
    <3>6. task.op = "default" /\ task.at = "load" /\ task.slicer = s
      BY <3>0 DEF Tasks
    <3>1. task \in Tasks /\ task.op = "default" /\ task.at = "load" /\ task.slicer = s
      BY <3>5, <3>6
    <3> HIDE DEF task
    <3>2. task \in Tasks /\ TaskInv(task) /\ task.at \notin {"idle", "waiting"} \cup Prepared
      BY <3>1, EditTask
    <3>9. Begin(w, task) BY <2>4 DEF task, fresh
    <3> QED BY <1>1, <3>2, <3>9, BeginStep
  <2>5. CASE Begin(w, Task("reset", "save"))
    <3> DEFINE fresh == Task("reset", "save")
             task == fresh
    <3>0. fresh \in Tasks /\ fresh.op = "reset" /\ fresh.at = "save" /\ fresh.answer = None
      BY FreshTask DEF Ops, Stages
    <3> HIDE DEF fresh
    <3>5. task \in Tasks BY <3>0 DEF Tasks
    <3>6. task.op = "reset" /\ task.at = "save"
      BY <3>0 DEF Tasks
    <3>1. task \in Tasks /\ task.op = "reset" /\ task.at = "save"
      BY <3>5, <3>6
    <3> HIDE DEF task
    <3>2. task \in Tasks /\ TaskInv(task) /\ task.at \notin {"idle", "waiting"} \cup Prepared
      BY <3>1, EditTask
    <3>9. Begin(w, task) BY <2>5 DEF task, fresh
    <3> QED BY <1>1, <3>2, <3>9, BeginStep
  <2> QED BY <1>2, <2>1, <2>2, <2>3, <2>4, <2>5 DEF BeginEdit
<1>3. CASE BeginAdd(w)
  <2>1. PICK s \in Slicers : Begin(w, [Task("add", "claim") EXCEPT !.slicer = s])
    BY <1>3 DEF BeginAdd
  <2> DEFINE fresh == Task("add", "claim")
           task == [fresh EXCEPT !.slicer = s]
  <2>0. fresh \in Tasks /\ fresh.op = "add" /\ fresh.at = "claim" /\ fresh.answer = None
    BY FreshTask DEF Ops, Stages
  <2> HIDE DEF fresh
  <2>5. task \in Tasks BY <2>0 DEF Tasks
  <2>6. task.op = "add" /\ task.at = "claim" /\ task.slicer = s
    BY <2>0 DEF Tasks
  <2>2. task \in Tasks /\ task.op = "add" /\ task.at = "claim" /\ task.slicer = s
    BY <2>5, <2>6
  <2> HIDE DEF task
  <2>3. task \in Tasks /\ TaskInv(task) /\ task.at \notin {"idle", "waiting"} \cup Prepared
    BY <2>2, EditTask
  <2>9. Begin(w, task) BY <2>1 DEF task, fresh
  <2> QED BY <1>1, <2>3, <2>9, BeginStep
<1>4. CASE BeginLaunch(w)
  <2>1. PICK f \in Files, m \in Modes, s \in Slicers \cup {None} :
          Begin(w, [Task("open", "mode") EXCEPT !.file = f, !.mode = m, !.slicer = s])
    BY <1>4 DEF BeginLaunch, Modes
  <2> DEFINE fresh == Task("open", "mode")
           task == [fresh EXCEPT !.file = f, !.mode = m, !.slicer = s]
  <2>0. fresh \in Tasks /\ fresh.op = "open" /\ fresh.at = "mode" /\ fresh.answer = None
    BY FreshTask DEF Ops, Stages
  <2> HIDE DEF fresh
  <2>5. task \in Tasks
    <3>1. [fresh EXCEPT !.file = f] \in Tasks BY <2>0, SetFile
    <3>2. [[fresh EXCEPT !.file = f] EXCEPT !.mode = m] \in Tasks BY <3>1, SetMode
    <3>3. [[[fresh EXCEPT !.file = f] EXCEPT !.mode = m] EXCEPT !.slicer = s] \in Tasks
      BY <3>2, SetSlicer
    <3> QED BY <3>3
  <2>6. task.op = "open" /\ task.at = "mode" /\ task.file = f /\ task.mode = m /\ task.answer = None
    BY <2>0 DEF Tasks
  <2>2. /\ task \in Tasks /\ task.op = "open" /\ task.at = "mode" /\ task.file = f
        /\ task.mode = m /\ task.answer = None
    BY <2>5, <2>6
  <2> HIDE DEF task
  <2>3. task \in Tasks /\ TaskInv(task) /\ task.at \notin {"idle", "waiting"} \cup Prepared
    BY <2>2, OpenTask
  <2>9. Begin(w, task) BY <2>1 DEF task, fresh
  <2> QED BY <1>1, <2>3, <2>9, BeginStep
<1>5. QED BY <1>2, <1>3, <1>4 DEF Starts

-----------------------------------------------------------------------------
(* The commands of the settings page.                                         *)

(* What a command loads is a configuration, also where it is read as none.   *)
LEMMA StoredReads ==
  ASSUME Inv, NEW read \in Readings
  PROVE  read \in Reads /\ read.config \in Configs
<1>1. stored \in Stores BY DEF Inv, Types, Base
<1>2. ReadConfig(stored) \in Reads BY <1>1, ReadIsARead
<1>3. Unread \in Reads BY EmptyIsAConfig DEF Unread, Reads
<1>4. QED BY <1>2, <1>3 DEF Readings, Reads

LEMMA LoadStep ==
  ASSUME Inv, NEW w \in Workers, Load(w)
  PROVE  Inv'
<1>20. PICK read \in Readings :
         LET scans == work[w].op = "scan" /\ read.writable
         IN  work' = [work EXCEPT ![w].read = read, ![w].at = IF scans THEN "detect" ELSE "save"]
  BY DEF Load
<1> DEFINE t == work[w]
           at == IF t.op = "scan" /\ read.writable THEN "detect" ELSE "save"
           r == [t EXCEPT !.read = read, !.at = at]
<1>1. t \in Tasks /\ TaskInv(t) /\ work \in [Workers -> Tasks] BY AnyTask
<1>2. t.at = "load" BY DEF Load
<1>3. read \in Reads BY StoredReads
<1>4. work' = [work EXCEPT ![w] = r] BY <1>1, <1>20
<1>5. Base' /\ flight' = flight /\ UNCHANGED disk BY BaseStays DEF Load
<1>8. \/ at = "detect" /\ t.op = "scan"
      \/ at = "save" /\ ~(t.op = "scan" /\ read.writable)
  <2>3. read.writable \in BOOLEAN BY <1>3 DEF Reads
  <2>1. CASE t.op = "scan" /\ read.writable BY <2>1, <2>3
  <2>2. CASE ~(t.op = "scan" /\ read.writable) BY <2>2, <2>3
  <2> QED BY <2>1, <2>2
<1> HIDE DEF at
<1>14. at \in Stages BY <1>8 DEF Stages
<1>6. r \in Tasks
  <2>1. [t EXCEPT !.read = read] \in Tasks BY <1>1, <1>3, SetRead
  <2>2. [[t EXCEPT !.read = read] EXCEPT !.at = at] \in Tasks BY <2>1, <1>14, SetAt
  <2> QED BY <2>2
<1>7. /\ r.op = t.op /\ r.at = at /\ r.read = read /\ r.slicer = t.slicer
      /\ r.install = t.install /\ r.path = t.path
  BY <1>1 DEF Tasks
<1> HIDE DEF r, t
<1>9. EditInv(r) BY <1>1, <1>2, <1>3, <1>7, <1>8 DEF TaskInv, EditInv
<1>10. t.op # "open" BY <1>1, <1>2 DEF TaskInv, EditInv
<1>11. OpenInv(r)
  BY <1>7, <1>8, <1>10 DEF OpenInv, Opening, Sourced, Chosen, Vetted, Prepared, Copied
<1>12. TaskInv(r) /\ r.at \notin Prepared /\ r.at # "waiting" /\ t.at \notin {"idle"} \cup Prepared
  BY <1>2, <1>7, <1>8, <1>9, <1>11 DEF TaskInv, Prepared, Copied
<1>13. QED BY <1>4, <1>5, <1>6, <1>12, EarlyStep DEF t

LEMMA LeastOf ==
  ASSUME NEW T \in SUBSET Nat, T # {}
  PROVE  \E x \in T : \A y \in T : x <= y
<1>1. IsWellFoundedOn(OpToRel(<, Nat), Nat) BY NatLessThanWellFounded
<1>2. PICK x \in T : \A y \in T : ~(<<y, x>> \in OpToRel(<, Nat)) BY <1>1, WFMin
<1>3. ASSUME NEW y \in T PROVE x <= y
  <2>1. ~(y < x) BY <1>2 DEF OpToRel
  <2> QED BY <2>1
<1>4. QED BY <1>3

(* What a detection finds are executables of the products they are found for. *)
LEMMA DetectedIsAFinding ==
  ASSUME Inv
  PROVE  DetectionResults \subseteq Findings
<1>1. rows \in Seq([id : Keyed, path : Paths]) BY DEF Inv, Types, Base
<1>2. [i \in {} |-> None] \in Findings
  <2>1. [i \in {} |-> None] \in [{} -> Paths] OBVIOUS
  <2> QED BY <2>1 DEF Findings
<1>3. ASSUME NEW i \in Keyed, Counting(i) # {}
      PROVE  rows[First(i)].path \in Paths /\ ExeOf[rows[First(i)].path] = SlicerOf[i]
  <2>1. Counting(i) \in SUBSET Nat BY <1>1 DEF Counting
  <2>2. \E k \in Counting(i) : \A j \in Counting(i) : k <= j BY <1>3, <2>1, LeastOf
  <2>3. First(i) \in Counting(i) BY <2>2 DEF First
  <2> HIDE DEF First
  <2>4. PICK k : k = First(i) OBVIOUS
  <2>5. k \in DOMAIN rows /\ Validated(rows[k]) /\ rows[k].id = i BY <2>3, <2>4 DEF Counting
  <2>8. k \in 1 .. Len(rows) BY <1>1, <2>5, LenProperties
  <2>6. rows[k] \in [id : Keyed, path : Paths] BY <1>1, <2>8, ElementOfSeq
  <2>7. rows[k].path \in Paths /\ ExeOf[rows[k].path] = SlicerOf[i]
    BY <2>5, <2>6 DEF Validated
  <2> QED BY <2>4, <2>7
<1>4. Detected \in Findings
  <2> DEFINE D == {j \in Keyed : Counting(j) # {}}
  <2>1. Detected = [i \in D |-> rows[First(i)].path] BY DEF Detected
  <2>2. \A i \in D : rows[First(i)].path \in Paths /\ ExeOf[rows[First(i)].path] = SlicerOf[i]
    BY <1>3
  <2>3. D \in SUBSET Keyed OBVIOUS
  <2> HIDE DEF D
  <2>4. Detected \in [D -> Paths] /\ DOMAIN Detected = D
        /\ \A i \in D : Detected[i] = rows[First(i)].path
    BY <2>1, <2>2
  <2> QED BY <2>2, <2>3, <2>4 DEF Findings
<1>5. QED BY <1>2, <1>4 DEF DetectionResults

LEMMA DetectStep ==
  ASSUME Inv, NEW w \in Workers, Detect(w)
  PROVE  Inv'
<1> DEFINE t == work[w]
<1>1. t \in Tasks /\ TaskInv(t) /\ work \in [Workers -> Tasks] BY AnyTask
<1>2. t.op = "scan" /\ t.at = "detect" BY DEF Detect, At
<1>3. Base' /\ flight' = flight /\ UNCHANGED disk BY BaseStays DEF Detect
<1>4. t.at \notin {"idle"} \cup Prepared BY <1>2 DEF Prepared, Copied
<1>5. CASE Finish(w, "failed") BY <1>3, <1>4, <1>5, FinishEarly DEF Answers
<1>6. ASSUME NEW found \in DetectionResults,
             work' = [work EXCEPT ![w].found = found, ![w].at = "save"]
      PROVE  Inv'
  <2> DEFINE r == [t EXCEPT !.found = found, !.at = "save"]
  <2>1. work' = [work EXCEPT ![w] = r] BY <1>1, <1>6
  <2>2. found \in Findings BY DetectedIsAFinding
  <2>8. "save" \in Stages BY DEF Stages
  <2>3. r \in Tasks
    <3>1. [t EXCEPT !.found = found] \in Tasks BY <1>1, <2>2, SetFound
    <3>2. [[t EXCEPT !.found = found] EXCEPT !.at = "save"] \in Tasks BY <3>1, <2>8, SetAt
    <3> QED BY <3>2
  <2>4. r.op = "scan" /\ r.at = "save" /\ r.read = t.read /\ r.found = found
    BY <1>1, <1>2 DEF Tasks
  <2> HIDE DEF r, t
  <2>5. EditInv(r) BY <1>1, <1>2, <2>2, <2>4 DEF TaskInv, EditInv
  <2>6. OpenInv(r) BY <2>4 DEF OpenInv, Opening, Sourced, Chosen, Vetted, Prepared, Copied
  <2>7. TaskInv(r) /\ r.at \notin Prepared /\ r.at # "waiting"
    BY <2>4, <2>5, <2>6 DEF TaskInv, Prepared, Copied
  <2> QED BY <1>3, <1>4, <2>1, <2>3, <2>7, EarlyStep DEF t
<1>7. QED BY <1>5, <1>6 DEF Detect

(* What a command of the page writes is a configuration.                      *)
LEMMA EditedIsAConfig ==
  ASSUME NEW w \in Workers, NEW t \in Tasks, t = work[w], TaskInv(t), t.at = "save",
         t.op \notin {"add", "reset"}, t.read.writable, ~Edited(w).refused
  PROVE  Edited(w).config \in Configs
<1>1. t.op \in {"scan", "remove", "bind", "default"} /\ t.read \in Reads
  BY DEF TaskInv, EditInv
<1>2. t.read.config \in Configs BY <1>1 DEF Reads
<1>3. CASE t.op = "scan"
  <2>1. t.found \in Findings BY <1>3 DEF TaskInv, EditInv
  <2>2. Edited(w).config = MergeDetected(t.read.config, t.found) BY <1>3 DEF Edited
  <2> QED BY <1>2, <2>1, <2>2, MergeIsAConfig
<1>4. CASE t.op = "remove"
  <2>1. Edited(w).config = WithoutInstall(t.read.config, t.install) BY <1>4 DEF Edited
  <2> QED BY <1>2, <2>1, WithoutIsAConfig
<1>5. CASE t.op = "bind"
  <2>1. t.slicer \in Slicers BY <1>5 DEF TaskInv, EditInv
  <2>2. t.install \in Installs \cup {None} BY DEF Tasks
  <2>3. Edited(w).config = Bound(t.read.config, t.slicer, t.install) BY <1>5 DEF Edited
  <2>4. t.install # None =>
          t.install \in DOMAIN t.read.config.rows /\ SlicerOf[t.install] = t.slicer
    BY <1>5 DEF Edited
  <2> QED BY <1>2, <2>1, <2>2, <2>3, <2>4, BoundIsAConfig
<1>6. CASE t.op = "default"
  <2>1. t.slicer \in Slicers \cup {None} BY DEF Tasks
  <2>2. Edited(w).config = Preferred(t.read.config, t.slicer) BY <1>6 DEF Edited
  <2> QED BY <1>2, <2>1, <2>2, PreferredIsAConfig
<1>7. QED BY <1>1, <1>3, <1>4, <1>5, <1>6

(* Base after a configuration has been written.                               *)
LEMMA BaseWritten ==
  ASSUME Inv, NEW c \in Configs, stored' = Written(c),
         UNCHANGED <<machine, opened, dialog, ops, events>>
  PROVE  Base' /\ flight' = flight
<1>1. Written(c) \in Stores BY WrittenReads
<1>2. Written(c).rows \in RowsOf(Paths) BY ConfigElim DEF Written
<1>3. QED BY <1>1, <1>2 DEF Inv, Types, Base, machine, dialog

LEMMA SaveStep ==
  ASSUME Inv, NEW w \in Workers, Save(w)
  PROVE  Inv'
<1> DEFINE t == work[w]
<1>1. t \in Tasks /\ TaskInv(t) BY AnyTask
<1>2. t.at = "save" /\ t.op # "add" BY DEF Save
<1>3. t.at \notin {"idle"} \cup Prepared BY <1>2 DEF Prepared, Copied
<1>4. UNCHANGED <<machine, opened, dialog, disk, ops, events>> BY DEF Save
<1>5. CASE t.op = "reset"
  <2>1. stored' = Written(Empty) /\ Finish(w, "done") BY <1>5 DEF Save, Fresh
  <2>2. Base' /\ flight' = flight BY <1>4, <2>1, EmptyIsAConfig, BaseWritten
  <2> QED BY <1>3, <1>4, <2>1, <2>2, FinishEarly DEF Answers
<1>6. CASE t.op # "reset" /\ (~t.read.writable \/ Edited(w).refused)
  <2>1. Finish(w, "refused") /\ UNCHANGED stored BY <1>6 DEF Save
  <2>2. Base' /\ flight' = flight BY <1>4, <2>1, BaseStays
  <2> QED BY <1>3, <1>4, <2>1, <2>2, FinishEarly DEF Answers
<1>7. CASE t.op # "reset" /\ t.read.writable /\ ~Edited(w).refused
  <2>1. stored' = Written(Edited(w).config) /\ Finish(w, "done") BY <1>7 DEF Save
  <2>2. Edited(w).config \in Configs BY <1>1, <1>2, <1>7, EditedIsAConfig
  <2> DEFINE c == Edited(w).config
  <2> HIDE DEF c
  <2>3. stored' = Written(c) /\ c \in Configs BY <2>1, <2>2 DEF c
  <2>4. Base' /\ flight' = flight BY <1>4, <2>3, BaseWritten
  <2> QED BY <1>3, <1>4, <2>1, <2>4, FinishEarly DEF Answers
<1>8. QED BY <1>5, <1>6, <1>7

-----------------------------------------------------------------------------
(* The dialog.                                                                *)

LEMMA DialogTask ==
  ASSUME NEW r, r.op = "add", r.slicer \in Slicers,
         \/ r.at \in {"run", "asking", "waiting", "unclaim", "land"}
         \/ r.at = "load" /\ r.path \in Paths
  PROVE  TaskInv(r) /\ r.at \notin {"idle"} \cup Prepared
<1>1. EditInv(r) BY DEF EditInv
<1>2. OpenInv(r) BY DEF OpenInv, Opening, Sourced, Chosen, Vetted, Prepared, Copied
<1>3. QED BY <1>1, <1>2 DEF TaskInv, Prepared, Copied

(* A step from one stage of the dialog to another.                            *)
LEMMA DialogStep ==
  ASSUME Inv, Base', flight' = flight \/ flight' # None, NEW w \in Workers,
         work[w].op = "add", work[w].at \notin {"idle"} \cup Prepared,
         NEW at \in {"run", "asking", "waiting", "unclaim", "land"}, Goto(w, at),
         UNCHANGED disk, at = "waiting" => flight' # None
  PROVE  Inv'
<1> DEFINE t == work[w]
           r == [t EXCEPT !.at = at]
<1>1. t \in Tasks /\ TaskInv(t) /\ work \in [Workers -> Tasks] BY AnyTask
<1>2. work' = [work EXCEPT ![w] = r] BY <1>1 DEF Goto
<1>3. r \in Tasks
  <2>1. at \in Stages BY DEF Stages
  <2> QED BY <1>1, <2>1, SetAt
<1>4. r.op = t.op /\ r.slicer = t.slicer /\ r.at = at BY <1>1 DEF Tasks
<1>5. t.slicer \in Slicers BY <1>1 DEF TaskInv, EditInv
<1> HIDE DEF r
<1>6. TaskInv(r) /\ r.at \notin {"idle"} \cup Prepared BY <1>4, <1>5, DialogTask
<1>7. QED BY <1>2, <1>3, <1>4, <1>6, EarlyStep

LEMMA ClaimDialogStep ==
  ASSUME Inv, NEW w \in Workers, ClaimDialog(w)
  PROVE  Inv'
<1>1. work[w] \in Tasks /\ work[w].op = "add" /\ work[w].at = "claim" BY AnyTask DEF ClaimDialog, At
<1>2. work[w].at \notin {"idle"} \cup Prepared BY <1>1 DEF Prepared, Copied
<1>3. UNCHANGED <<stored, machine, opened, flight, disk, ops, events>> BY DEF ClaimDialog
<1>4. CASE Finish(w, "refused") /\ UNCHANGED pickingFor
  <2>1. Base' /\ flight' = flight BY <1>3, <1>4, BaseStays DEF dialog
  <2> QED BY <1>2, <1>3, <1>4, <2>1, FinishEarly DEF Answers
<1>5. CASE pickingFor' = work[w].slicer /\ Goto(w, "run")
  <2>1. work[w].slicer \in Slicers \cup {None} BY <1>1 DEF Tasks
  <2>2. Base' BY <1>3, <1>5, <2>1 DEF Inv, Types, Base, machine
  <2> QED BY <1>1, <1>2, <1>3, <1>5, <2>2, DialogStep
<1>6. QED BY <1>4, <1>5 DEF ClaimDialog

LEMMA RunDialogStep ==
  ASSUME Inv, NEW w \in Workers, RunDialog(w)
  PROVE  Inv'
<1>1. /\ work[w] \in Tasks /\ TaskInv(work[w])
      /\ work[w].op = "add" /\ work[w].at = "run"
  BY AnyTask DEF RunDialog, At
<1>2. work[w].at \notin {"idle"} \cup Prepared BY <1>1 DEF Prepared, Copied
<1>3. UNCHANGED <<stored, machine, opened, pickingFor, disk, ops, events>> BY DEF RunDialog
<1>4. CASE flight = None /\ Goto(w, "asking")
           /\ flight' = [leader |-> w, answer |-> None, about |-> work[w].slicer]
  <2>1. work[w].slicer \in Slicers BY <1>1 DEF TaskInv, EditInv
  <2> DEFINE f == [leader |-> w, answer |-> None, about |-> work[w].slicer]
  <2>2. f \in [leader : Workers, answer : {None}, about : Slicers] BY <2>1
  <2> HIDE DEF f
  <2>3. flight' = f BY <1>4 DEF f
  <2>4. Base' BY <1>3, <2>2, <2>3 DEF Inv, Types, Base, machine
  <2> QED BY <1>1, <1>2, <1>3, <1>4, <2>4, DialogStep
<1>5. CASE flight # None /\ Goto(w, "waiting") /\ UNCHANGED flight
  <2>1. Base' BY <1>3, <1>5 DEF Inv, Types, Base, machine
  <2> QED BY <1>1, <1>2, <1>3, <1>5, <2>1, DialogStep
<1>6. QED BY <1>4, <1>5 DEF RunDialog

LEMMA AnswerDialogStep ==
  ASSUME Inv, NEW w \in Workers, AnswerDialog(w)
  PROVE  Inv'
<1> DEFINE t == work[w]
<1>1. t \in Tasks /\ TaskInv(t) /\ work \in [Workers -> Tasks] BY AnyTask
<1>2. t.op = "add" /\ t.at = "asking" BY DEF AnswerDialog, At
<1>3. t.at \notin {"idle"} \cup Prepared BY <1>2 DEF Prepared, Copied
<1>4. Base' /\ flight' = flight /\ UNCHANGED disk BY BaseStays DEF AnswerDialog
<1>5. t.slicer \in Slicers BY <1>1, <1>2 DEF TaskInv, EditInv
<1>6. ASSUME NEW answer \in Answers,
             work' = [work EXCEPT ![w].answer = answer, ![w].at = "unclaim"]
      PROVE  Inv'
  <2> DEFINE r == [t EXCEPT !.answer = answer, !.at = "unclaim"]
  <2>1. work' = [work EXCEPT ![w] = r] BY <1>1, <1>6
  <2>2. r \in Tasks
    <3>1. [t EXCEPT !.answer = answer] \in Tasks BY <1>1, SetAnswer
    <3>2. [[t EXCEPT !.answer = answer] EXCEPT !.at = "unclaim"] \in Tasks
      BY <3>1, SetAt DEF Stages
    <3> QED BY <3>2
  <2>3. r.op = t.op /\ r.slicer = t.slicer /\ r.at = "unclaim" BY <1>1 DEF Tasks
  <2> HIDE DEF r
  <2>4. TaskInv(r) /\ r.at \notin {"idle"} \cup Prepared BY <1>2, <1>5, <2>3, DialogTask
  <2> QED BY <1>3, <1>4, <2>1, <2>2, <2>3, <2>4, EarlyStep
<1>7. ASSUME NEW path \in Paths,
             work' = [work EXCEPT ![w].path = path, ![w].at = "load"]
      PROVE  Inv'
  <2> DEFINE r == [t EXCEPT !.path = path, !.at = "load"]
  <2>1. work' = [work EXCEPT ![w] = r] BY <1>1, <1>7
  <2>2. r \in Tasks
    <3>1. [t EXCEPT !.path = path] \in Tasks BY <1>1, SetPath
    <3>2. [[t EXCEPT !.path = path] EXCEPT !.at = "load"] \in Tasks BY <3>1, SetAt DEF Stages
    <3> QED BY <3>2
  <2>3. r.op = t.op /\ r.slicer = t.slicer /\ r.at = "load" /\ r.path = path BY <1>1 DEF Tasks
  <2> HIDE DEF r
  <2>4. TaskInv(r) /\ r.at \notin {"idle"} \cup Prepared BY <1>2, <1>5, <2>3, DialogTask
  <2> QED BY <1>3, <1>4, <2>1, <2>2, <2>3, <2>4, EarlyStep
<1>8. PICK path \in Paths \cup {None} :
        IF path \notin present
        THEN work' = [work EXCEPT ![w].answer = IF path = None THEN "cancelled" ELSE "refused",
                                  ![w].at = "unclaim"]
        ELSE work' = [work EXCEPT ![w].path = path, ![w].at = "load"]
  BY DEF AnswerDialog
<1>9. CASE path \notin present
  <2> DEFINE answer == IF path = None THEN "cancelled" ELSE "refused"
  <2>1. answer \in Answers BY DEF Answers
  <2>2. work' = [work EXCEPT ![w].answer = answer, ![w].at = "unclaim"] BY <1>8, <1>9
  <2> HIDE DEF answer
  <2> QED BY <1>6, <2>1, <2>2
<1>10. CASE path \in present
  <2>1. path \in Paths BY <1>10 DEF Inv, Types, Base
  <2> QED BY <1>7, <1>8, <1>10, <2>1
<1>11. QED BY <1>9, <1>10

LEMMA SaveManualStep ==
  ASSUME Inv, NEW w \in Workers, SaveManual(w)
  PROVE  Inv'
<1> DEFINE t == work[w]
<1>1. t \in Tasks /\ TaskInv(t) /\ work \in [Workers -> Tasks] BY AnyTask
<1>2. t.op = "add" /\ t.at = "save" BY DEF SaveManual, At
<1>3. t.at \notin {"idle"} \cup Prepared BY <1>2 DEF Prepared, Copied
<1>4. UNCHANGED <<machine, opened, dialog, disk, ops, events>> BY DEF SaveManual
<1>5. t.slicer \in Slicers /\ t.read \in Reads /\ t.path \in Paths
  BY <1>1, <1>2 DEF TaskInv, EditInv
<1>6. ASSUME NEW answer \in Answers, Base', flight' = flight,
             work' = [work EXCEPT ![w].answer = answer, ![w].at = "unclaim"]
      PROVE  Inv'
  <2> DEFINE r == [t EXCEPT !.answer = answer, !.at = "unclaim"]
  <2>1. work' = [work EXCEPT ![w] = r] BY <1>1, <1>6
  <2>2. r \in Tasks
    <3>1. [t EXCEPT !.answer = answer] \in Tasks BY <1>1, SetAnswer
    <3>2. [[t EXCEPT !.answer = answer] EXCEPT !.at = "unclaim"] \in Tasks
      BY <3>1, SetAt DEF Stages
    <3> QED BY <3>2
  <2>3. r.op = t.op /\ r.slicer = t.slicer /\ r.at = "unclaim" BY <1>1 DEF Tasks
  <2> HIDE DEF r
  <2>4. TaskInv(r) /\ r.at \notin {"idle"} \cup Prepared BY <1>2, <1>5, <2>3, DialogTask
  <2> QED BY <1>3, <1>4, <1>6, <2>1, <2>2, <2>3, <2>4, EarlyStep
<1>7. CASE t.read.writable
  <2>1. PICK i \in NewIds(t) : stored' = Written(WithManual(t.read.config, i, t.path))
    BY <1>7 DEF SaveManual
  <2>2. i \in Manual /\ i \notin DOMAIN t.read.config.rows BY <2>1 DEF NewIds
  <2>3. t.read.config \in Configs BY <1>5 DEF Reads
  <2>4. WithManual(t.read.config, i, t.path) \in Configs
    BY <1>5, <2>2, <2>3, WithManualIsAConfig
  <2>5. Base' /\ flight' = flight BY <1>4, <2>1, <2>4, BaseWritten
  <2>6. work' = [work EXCEPT ![w].answer = "done", ![w].at = "unclaim"]
    BY <1>7 DEF SaveManual
  <2> QED BY <1>6, <2>5, <2>6 DEF Answers
<1>8. CASE ~t.read.writable
  <2>1. UNCHANGED stored /\ work' = [work EXCEPT ![w].answer = "refused", ![w].at = "unclaim"]
    BY <1>8 DEF SaveManual
  <2>2. Base' /\ flight' = flight BY <1>4, <2>1, BaseStays
  <2> QED BY <1>6, <2>1, <2>2 DEF Answers
<1>9. QED BY <1>7, <1>8

LEMMA UnclaimStep ==
  ASSUME Inv, NEW w \in Workers, Unclaim(w)
  PROVE  Inv'
<1>1. work[w].op = "add" /\ work[w].at = "unclaim" BY DEF Unclaim, At
<1>2. work[w].at \notin {"idle"} \cup Prepared BY <1>1 DEF Prepared, Copied
<1>3. /\ pickingFor' = None /\ Goto(w, "land")
      /\ UNCHANGED <<stored, machine, opened, flight, disk, ops, events>>
  BY DEF Unclaim
<1>4. Base' BY <1>3 DEF Inv, Types, Base, machine
<1>5. QED BY <1>1, <1>2, <1>3, <1>4, DialogStep

(* The answer of the dialog ends its leader and everyone who waited with it.  *)
LEMMA LandDialogStep ==
  ASSUME Inv, NEW w \in Workers, LandDialog(w)
  PROVE  Inv'
<1>1. /\ work \in [Workers -> Tasks] /\ dirs \in [Workers -> Dirs \cup {None}]
      /\ child \in [Workers -> Children \cup {None}]
  BY DEF Inv, Types
<1>2. work[w].op = "add" /\ work[w].at = "land" BY DEF LandDialog, At
<1>3. flight' = None /\ UNCHANGED <<stored, machine, opened, pickingFor, disk, ops, events>>
  BY DEF LandDialog
<1>4. Base' BY <1>3 DEF Inv, Types, Base, machine
<1> DEFINE answer == work[w].answer
           other(v) == [Idle EXCEPT !.answer = answer, !.slicer = work[v].slicer,
                                    !.source = flight.about]
           new(v) == IF v = w THEN [Idle EXCEPT !.answer = answer]
                     ELSE IF At(v, "add", "waiting") THEN other(v) ELSE work[v]
<1>5. work' = [v \in Workers |-> new(v)] BY DEF LandDialog
<1>6. answer \in Answers \cup {None} BY <1>1 DEF Tasks
<1> HIDE DEF answer
<1>7. ASSUME NEW v \in Workers, At(v, "add", "waiting")
      PROVE  other(v) \in Tasks /\ TaskInv(other(v)) /\ other(v).at = "idle"
  <2> DEFINE mine == [Idle EXCEPT !.answer = answer]
             r == other(v)
  <2>1. mine \in Tasks /\ TaskInv(mine) /\ mine.at = "idle" BY <1>6, Ended
  <2>2. flight.about \in Slicers BY <1>7 DEF Inv, FlightInv, Types, Base, At
  <2>3. work[v].slicer \in Slicers \cup {None} BY <1>1 DEF Tasks
  <2>4. r \in Tasks
    <3>1. [mine EXCEPT !.slicer = work[v].slicer] \in Tasks BY <2>1, <2>3, SetSlicer
    <3>2. [[mine EXCEPT !.slicer = work[v].slicer] EXCEPT !.source = flight.about] \in Tasks
      BY <2>2, <3>1, SetSource
    <3> QED BY <3>2
  <2>5. r.op = "idle" /\ r.at = "idle" /\ r.file = None BY DEF Idle
  <2> HIDE DEF r
  <2>6. TaskInv(r)
    BY <2>5 DEF TaskInv, EditInv, OpenInv, Opening, Sourced, Chosen, Vetted, Prepared, Copied
  <2> QED BY <2>4, <2>5, <2>6 DEF r
<1>8. ASSUME NEW v \in Workers
      PROVE  new(v) \in Tasks /\ WorkerInv(new(v), dirs[v], child[v]) /\ new(v).at # "waiting"
  <2>1. work[v] \in Tasks /\ WorkerInv(work[v], dirs[v], child[v]) BY <1>1 DEF Inv
  <2>2. CASE v = w \/ At(v, "add", "waiting")
    <3>1. new(v) \in Tasks /\ TaskInv(new(v)) /\ new(v).at = "idle"
      <4>1. CASE v = w BY <1>6, <4>1, Ended
      <4>2. CASE v # w BY <1>7, <2>2, <4>2
      <4> QED BY <4>1, <4>2
    <3>2. work[v].at \notin {"idle"} \cup Prepared BY <1>2, <2>2 DEF At, Prepared, Copied
    <3>3. dirs[v] = None /\ child[v] = None BY <3>2, NothingYet
    <3> HIDE DEF new
    <3>4. WorkerInv(new(v), None, None)
      BY <3>1 DEF WorkerInv, DirInv, ChildInv, Prepared, Copied
    <3> QED BY <3>1, <3>3, <3>4
  <2>3. CASE ~(v = w \/ At(v, "add", "waiting"))
    <3>1. new(v) = work[v] BY <2>3
    <3>2. work[v].at # "waiting" BY <2>1, <2>3 DEF WorkerInv, TaskInv, EditInv, At
    <3> QED BY <2>1, <3>1, <3>2
  <2> QED BY <2>2, <2>3
<1> HIDE DEF new
<1>9. dirs' = dirs /\ child' = child BY <1>3 DEF disk
<1>10. Types' BY <1>1, <1>4, <1>5, <1>8, <1>9 DEF Types
<1>11. FlightInv' BY <1>5, <1>8 DEF FlightInv
<1>12. \A v \in Workers : WorkerInv(work'[v], dirs'[v], child'[v]) BY <1>5, <1>8, <1>9
<1>13. QED BY <1>10, <1>11, <1>12 DEF Inv

-----------------------------------------------------------------------------
(* A launch, up to the directory.                                             *)

LEMMA OpenEdits ==
  ASSUME NEW r, r.op = "open", r.at \in Opening
  PROVE  EditInv(r)
BY DEF EditInv, Opening, Sourced, Chosen, Vetted, Prepared, Copied

(* What is known of a launch that is under way.                               *)
LEMMA OpenFacts ==
  ASSUME Inv, NEW w \in Workers, work[w].op = "open"
  PROVE  /\ work[w] \in Tasks /\ OpenInv(work[w]) /\ work \in [Workers -> Tasks]
         /\ work[w].file \in Files /\ work[w].mode \in Modes /\ work[w].answer = None
         /\ work[w].at \in Opening
BY AnyTask DEF TaskInv, OpenInv

(* A step of a launch that has no directory yet to another such stage.        *)
LEMMA OpenStep ==
  ASSUME Inv, Base', flight' = flight, UNCHANGED disk, NEW w \in Workers,
         work[w].op = "open", work[w].at \in Opening \ Prepared,
         NEW r \in Tasks, work' = [work EXCEPT ![w] = r], r.op = "open",
         r.at \in Opening \ Prepared, OpenInv(r)
  PROVE  Inv'
<1>1. r.at \notin {"idle", "waiting"}
  BY DEF Opening, Sourced, Chosen, Vetted, Prepared, Copied
<1>2. TaskInv(r) BY <1>1, OpenEdits DEF TaskInv
<1>3. work[w].at # "idle" BY DEF Opening, Sourced, Chosen, Vetted, Prepared, Copied
<1>4. QED BY <1>1, <1>2, <1>3, EarlyStep

(* A launch that ends before it has a directory.                              *)
LEMMA RefuseStep ==
  ASSUME Inv, Base', flight' = flight, UNCHANGED disk, NEW w \in Workers,
         work[w].op = "open", work[w].at \in Opening \ Prepared,
         NEW answer \in Answers, Finish(w, answer)
  PROVE  Inv'
<1>1. work[w].at # "idle" BY DEF Opening, Sourced, Chosen, Vetted, Prepared, Copied
<1>2. QED BY <1>1, FinishEarly

LEMMA ReadModeStep ==
  ASSUME Inv, NEW w \in Workers, ReadMode(w)
  PROVE  Inv'
<1> DEFINE t == work[w]
           remote == opened \in IsServer
           r == [t EXCEPT !.remote = remote, !.at = "source"]
<1>1. t.op = "open" /\ t.at = "mode" BY DEF ReadMode, At
<1>2. /\ t \in Tasks /\ t.file \in Files /\ t.mode \in Modes /\ t.answer = None
      /\ work \in [Workers -> Tasks]
  BY <1>1, OpenFacts
<1>3. Base' /\ flight' = flight /\ UNCHANGED disk BY BaseStays DEF ReadMode
<1>4. work' = [work EXCEPT ![w] = r] BY <1>2 DEF ReadMode
<1>5. remote \in BOOLEAN OBVIOUS
<1> HIDE DEF remote
<1>6. r \in Tasks
  <2>1. [t EXCEPT !.remote = remote] \in Tasks BY <1>2, <1>5, SetRemote
  <2>2. [[t EXCEPT !.remote = remote] EXCEPT !.at = "source"] \in Tasks BY <2>1, SetAt DEF Stages
  <2> QED BY <2>2
<1>7. /\ r.op = t.op /\ r.at = "source" /\ r.file = t.file /\ r.mode = t.mode
      /\ r.answer = t.answer /\ r.remote = remote
  BY <1>2 DEF Tasks
<1> HIDE DEF r
<1>8. OpenInv(r)
  BY <1>1, <1>2, <1>5, <1>7 DEF OpenInv, Opening, Sourced, Chosen, Vetted, Prepared, Copied
<1>9. t.at \in Opening \ Prepared /\ r.at \in Opening \ Prepared
  BY <1>1, <1>7 DEF Opening, Prepared, Copied
<1>10. QED BY <1>1, <1>3, <1>4, <1>6, <1>7, <1>8, <1>9, OpenStep

LEMMA FindSourceStep ==
  ASSUME Inv, NEW w \in Workers, FindSource(w)
  PROVE  Inv'
<1> DEFINE t == work[w]
           source == Answering(t.remote)
           r == [t EXCEPT !.source = source, !.at = "choose"]
<1>1. t.op = "open" /\ t.at = "source" BY DEF FindSource, At
<1>2. /\ t \in Tasks /\ t.file \in Files /\ t.mode \in Modes /\ t.answer = None /\ OpenInv(t)
      /\ work \in [Workers -> Tasks]
  BY <1>1, OpenFacts
<1>3. Base' /\ flight' = flight /\ UNCHANGED disk BY BaseStays DEF FindSource
<1>4. t.at \in Opening \ Prepared BY <1>1 DEF Opening, Prepared, Copied
<1>5. CASE source = None
  <2>1. Finish(w, "refused") BY <1>5 DEF FindSource
  <2> QED BY <1>1, <1>3, <1>4, <2>1, RefuseStep DEF Answers
<1>6. CASE source # None
  <2>1. work' = [work EXCEPT ![w] = r] BY <1>2, <1>6 DEF FindSource
  <2>2. opened \in Libraries \cup {None} BY DEF Inv, Types, Base
  <2>3. source \in Libraries BY <1>6, <2>2 DEF Answering
  <2>8. t.remote \in BOOLEAN BY <1>1, <1>2 DEF OpenInv
  <2> HIDE DEF source
  <2>4. r \in Tasks
    <3>1. [t EXCEPT !.source = source] \in Tasks BY <1>2, <2>3, SetSource
    <3>2. [[t EXCEPT !.source = source] EXCEPT !.at = "choose"] \in Tasks
      BY <3>1, SetAt DEF Stages
    <3> QED BY <3>2
  <2>5. /\ r.op = t.op /\ r.at = "choose" /\ r.file = t.file /\ r.mode = t.mode
        /\ r.answer = t.answer /\ r.remote = t.remote /\ r.source = source
    BY <1>2 DEF Tasks
  <2> HIDE DEF r
  <2>6. OpenInv(r)
    BY <1>1, <1>2, <2>3, <2>5, <2>8 DEF OpenInv, Opening, Sourced, Chosen, Vetted, Prepared, Copied
  <2>7. r.at \in Opening \ Prepared BY <2>5 DEF Opening, Sourced, Prepared, Copied
  <2> QED BY <1>1, <1>3, <1>4, <2>1, <2>4, <2>5, <2>6, <2>7, OpenStep
<1>7. QED BY <1>5, <1>6

LEMMA ChooseInstallStep ==
  ASSUME Inv, NEW w \in Workers, ChooseInstall(w)
  PROVE  Inv'
<1> DEFINE t == work[w]
<1>1. t.op = "open" /\ t.at = "choose" BY DEF ChooseInstall, At
<1>2. /\ t \in Tasks /\ t.file \in Files /\ t.mode \in Modes /\ t.answer = None /\ OpenInv(t)
      /\ work \in [Workers -> Tasks]
  BY <1>1, OpenFacts
<1>3. Base' /\ flight' = flight /\ UNCHANGED disk BY BaseStays DEF ChooseInstall
<1>4. t.at \in Opening \ Prepared BY <1>1 DEF Opening, Sourced, Prepared, Copied
<1>10. PICK read \in Readings :
         LET bind == read.config.bind
             s == ChosenSlicer(t, read.config)
         IN  IF \/ s = None
                \/ t.file.ext = "step" /\ s \notin OpensStep
                \/ s \notin DOMAIN bind
             THEN Finish(w, "refused")
             ELSE work' = [work EXCEPT ![w].slicer = s, ![w].install = bind[s], ![w].at = "resolve"]
  BY DEF ChooseInstall
<1>5. PICK config : config = read.config OBVIOUS
<1>6. PICK s : s = ChosenSlicer(t, config) OBVIOUS
<1>7. CASE Finish(w, "refused")
  BY <1>1, <1>3, <1>4, <1>7, RefuseStep DEF Answers
<1>8. CASE /\ s \in DOMAIN config.bind
           /\ work' = [work EXCEPT ![w].slicer = s, ![w].install = config.bind[s],
                                   ![w].at = "resolve"]
  <2>1. config \in Configs BY <1>5, StoredReads
  <2>2. config.bind \in Binds /\ SlicerOf[config.bind[s]] = s BY <1>8, <2>1, ConfigElim
  <2>3. s \in Slicers /\ config.bind[s] \in Installs BY <1>8, <2>2, BindsElim
  <2>4. PICK i : i = config.bind[s] OBVIOUS
  <2> DEFINE r == [t EXCEPT !.slicer = s, !.install = i, !.at = "resolve"]
  <2>5. work' = [work EXCEPT ![w] = r] BY <1>2, <1>8, <2>4
  <2>6. r \in Tasks
    <3>1. [t EXCEPT !.slicer = s] \in Tasks BY <1>2, <2>3, SetSlicer
    <3>2. [[t EXCEPT !.slicer = s] EXCEPT !.install = i] \in Tasks
      BY <2>3, <2>4, <3>1, SetInstall
    <3>3. [[[t EXCEPT !.slicer = s] EXCEPT !.install = i] EXCEPT !.at = "resolve"] \in Tasks
      BY <3>2, SetAt DEF Stages
    <3> QED BY <3>3
  <2>7. /\ r.op = t.op /\ r.at = "resolve" /\ r.file = t.file /\ r.mode = t.mode
        /\ r.answer = t.answer /\ r.remote = t.remote /\ r.source = t.source
        /\ r.slicer = s /\ r.install = i
    BY <1>2 DEF Tasks
  <2>8. t.remote \in BOOLEAN /\ t.source \in Libraries BY <1>1, <1>2 DEF OpenInv, Sourced
  <2> HIDE DEF r
  <2>9. OpenInv(r)
    BY <1>1, <1>2, <2>2, <2>3, <2>4, <2>7, <2>8
    DEF OpenInv, Opening, Sourced, Chosen, Vetted, Prepared, Copied
  <2>10. r.at \in Opening \ Prepared BY <2>7 DEF Opening, Sourced, Chosen, Prepared, Copied
  <2> QED BY <1>1, <1>3, <1>4, <2>5, <2>6, <2>7, <2>9, <2>10, OpenStep
<1>9. QED BY <1>5, <1>6, <1>7, <1>8, <1>10

(* The facts a launch keeps once its install is chosen.                       *)
LEMMA ChosenFacts ==
  ASSUME NEW t \in Tasks, OpenInv(t), t.at \in Chosen
  PROVE  /\ t.op = "open" /\ t.file \in Files /\ t.mode \in Modes /\ t.answer = None
         /\ t.remote \in BOOLEAN /\ t.source \in Libraries
         /\ t.slicer \in Slicers /\ t.install \in Installs /\ SlicerOf[t.install] = t.slicer
BY DEF OpenInv, Opening, Sourced

(* The same launch at its next stage: what it has chosen is what it had.      *)
Continues(r, t) ==
  /\ r.op = t.op /\ r.file = t.file /\ r.mode = t.mode /\ r.answer = t.answer
  /\ r.remote = t.remote /\ r.source = t.source /\ r.slicer = t.slicer /\ r.install = t.install

LEMMA ResolveStep ==
  ASSUME Inv, NEW w \in Workers, Resolve(w)
  PROVE  Inv'
<1> DEFINE t == work[w]
<1>1. t.op = "open" /\ t.at = "resolve" BY DEF Resolve, At
<1>2. /\ t \in Tasks /\ OpenInv(t) /\ work \in [Workers -> Tasks] BY <1>1, OpenFacts
<1>3. Base' /\ flight' = flight /\ UNCHANGED disk BY BaseStays DEF Resolve
<1>4. t.at \in Opening \ Prepared /\ t.at \in Chosen
  BY <1>1 DEF Opening, Sourced, Chosen, Prepared, Copied
<1>5. /\ t.file \in Files /\ t.mode \in Modes /\ t.answer = None
      /\ t.remote \in BOOLEAN /\ t.source \in Libraries
      /\ t.slicer \in Slicers /\ t.install \in Installs /\ SlicerOf[t.install] = t.slicer
  BY <1>2, <1>4, ChosenFacts
<1>6. PICK read \in Readings :
         LET i == t.install
         IN  IF i \notin DOMAIN read.config.rows THEN Finish(w, "refused")
             ELSE IF HintStillGood(i, read.config.rows[i].hint)
             THEN work' = [work EXCEPT ![w].path = read.config.rows[i].hint, ![w].at = "key"]
             ELSE work' = [work EXCEPT ![w].read = read, ![w].at = "redetect"]
  BY DEF Resolve
<1>7. PICK i : i = t.install OBVIOUS
<1>8. read \in Reads /\ read.config.rows \in RowsOf(Paths)
  <2>1. read \in Reads /\ read.config \in Configs BY StoredReads
  <2> QED BY <2>1, ConfigElim
<1>9. CASE Finish(w, "refused")
  BY <1>1, <1>3, <1>4, <1>9, RefuseStep DEF Answers
<1>10. ASSUME NEW path, i \in DOMAIN read.config.rows, path = read.config.rows[i].hint,
              HintStillGood(i, path),
              work' = [work EXCEPT ![w].path = path, ![w].at = "key"]
       PROVE  Inv'
  <2> DEFINE r == [t EXCEPT !.path = path, !.at = "key"]
  <2>1. work' = [work EXCEPT ![w] = r] BY <1>2, <1>10
  <2>2. path \in Paths
    <3>1. read.config.rows \in [DOMAIN read.config.rows -> [hint : Paths, missing : BOOLEAN]]
      BY <1>8, RowsElim
    <3>2. read.config.rows[i] \in [hint : Paths, missing : BOOLEAN] BY <1>10, <3>1
    <3> QED BY <1>10, <3>2
  <2>3. i \in Keyed => ExeOf[path] = SlicerOf[i] BY <1>10, LaunchAssumption DEF HintStillGood
  <2>4. r \in Tasks
    <3>1. [t EXCEPT !.path = path] \in Tasks BY <1>2, <2>2, SetPath
    <3>2. [[t EXCEPT !.path = path] EXCEPT !.at = "key"] \in Tasks BY <3>1, SetAt DEF Stages
    <3> QED BY <3>2
  <2>5. Continues(r, t) /\ r.at = "key" /\ r.path = path BY <1>2 DEF Tasks, Continues
  <2> HIDE DEF r
  <2>6. OpenInv(r)
    BY <1>1, <1>5, <1>7, <2>2, <2>3, <2>5
    DEF Continues, OpenInv, Opening, Sourced, Chosen, Vetted, Prepared, Copied
  <2>7. r.op = "open" /\ r.at \in Opening \ Prepared
    BY <1>1, <2>5 DEF Continues, Opening, Sourced, Chosen, Vetted, Prepared, Copied
  <2> QED BY <1>1, <1>3, <1>4, <2>1, <2>4, <2>6, <2>7, OpenStep
<1>11. CASE /\ i \in DOMAIN read.config.rows
            /\ work' = [work EXCEPT ![w].read = read, ![w].at = "redetect"]
  <2> DEFINE r == [t EXCEPT !.read = read, !.at = "redetect"]
  <2>1. work' = [work EXCEPT ![w] = r] BY <1>2, <1>11
  <2>4. r \in Tasks
    <3>1. [t EXCEPT !.read = read] \in Tasks BY <1>2, <1>8, SetRead
    <3>2. [[t EXCEPT !.read = read] EXCEPT !.at = "redetect"] \in Tasks BY <3>1, SetAt DEF Stages
    <3> QED BY <3>2
  <2>5. Continues(r, t) /\ r.at = "redetect" /\ r.read = read BY <1>2 DEF Tasks, Continues
  <2> HIDE DEF r
  <2>6. OpenInv(r)
    BY <1>1, <1>5, <1>7, <1>8, <1>11, <2>5
    DEF Continues, OpenInv, Opening, Sourced, Chosen, Vetted, Prepared, Copied
  <2>7. r.op = "open" /\ r.at \in Opening \ Prepared
    BY <1>1, <2>5 DEF Continues, Opening, Sourced, Chosen, Prepared, Copied
  <2> QED BY <1>1, <1>3, <1>4, <2>1, <2>4, <2>6, <2>7, OpenStep
<1>12. QED BY <1>6, <1>7, <1>9, <1>10, <1>11

LEMMA RedetectStep ==
  ASSUME Inv, NEW w \in Workers, Redetect(w)
  PROVE  Inv'
<1> DEFINE t == work[w]
<1>1. t.op = "open" /\ t.at = "redetect" BY DEF Redetect, At
<1>2. /\ t \in Tasks /\ OpenInv(t) /\ work \in [Workers -> Tasks] BY <1>1, OpenFacts
<1>3. Base' /\ flight' = flight /\ UNCHANGED disk BY BaseStays DEF Redetect
<1>4. t.at \in Opening \ Prepared /\ t.at \in Chosen
  BY <1>1 DEF Opening, Sourced, Chosen, Prepared, Copied
<1>5. /\ t.file \in Files /\ t.mode \in Modes /\ t.answer = None
      /\ t.remote \in BOOLEAN /\ t.source \in Libraries
      /\ t.slicer \in Slicers /\ t.install \in Installs /\ SlicerOf[t.install] = t.slicer
      /\ t.read \in Reads /\ t.install \in DOMAIN t.read.config.rows
  BY <1>1, <1>2, <1>4, ChosenFacts DEF OpenInv
<1>6. CASE Finish(w, "failed")
  BY <1>1, <1>3, <1>4, <1>6, RefuseStep DEF Answers
<1>7. ASSUME NEW found \in {[j \in {} |-> None]} \cup DetectionResults,
             work' = [work EXCEPT ![w].found = found, ![w].at = "rewrite"]
      PROVE  Inv'
  <2> DEFINE r == [t EXCEPT !.found = found, !.at = "rewrite"]
  <2>1. work' = [work EXCEPT ![w] = r] BY <1>2, <1>7
  <2>2. found \in Findings BY <1>7, DetectedIsAFinding DEF DetectionResults
  <2>4. r \in Tasks
    <3>1. [t EXCEPT !.found = found] \in Tasks BY <1>2, <2>2, SetFound
    <3>2. [[t EXCEPT !.found = found] EXCEPT !.at = "rewrite"] \in Tasks BY <3>1, SetAt DEF Stages
    <3> QED BY <3>2
  <2>5. Continues(r, t) /\ r.at = "rewrite" /\ r.read = t.read /\ r.found = found
    BY <1>2 DEF Tasks, Continues
  <2> HIDE DEF r
  <2>6. OpenInv(r)
    BY <1>1, <1>5, <2>2, <2>5
    DEF Continues, OpenInv, Opening, Sourced, Chosen, Vetted, Prepared, Copied
  <2>7. r.op = "open" /\ r.at \in Opening \ Prepared
    BY <1>1, <2>5 DEF Continues, Opening, Sourced, Chosen, Prepared, Copied
  <2> QED BY <1>1, <1>3, <1>4, <2>1, <2>4, <2>6, <2>7, OpenStep
<1>8. QED BY <1>6, <1>7 DEF Redetect

(* What a launch writes of the install it looked for.                         *)
RowFound(path) == [hint |-> path, missing |-> FALSE]
RowGone(row)   == [row EXCEPT !.missing = TRUE]

LEMMA RewrittenIsAConfig ==
  ASSUME Inv, NEW w \in Workers, Rewrite(w), work[w].read.writable
  PROVE  LET c == work[w].read.config
             i == work[w].install
         IN  /\ c \in Configs /\ i \in DOMAIN c.rows
             /\ \E row \in [hint : Paths, missing : BOOLEAN] :
                  /\ stored' = Written(Resolved(c, i, row))
                  /\ i \in Manual => row.hint = c.rows[i].hint
<1> DEFINE t == work[w]
           c == t.read.config
           i == t.install
           path == IF i \in DOMAIN t.found THEN t.found[i] ELSE None
           gone == path = None \/ path \notin present
           row == IF gone THEN RowGone(c.rows[i]) ELSE RowFound(path)
<1>1. t.op = "open" /\ t.at = "rewrite" BY DEF Rewrite, At
<1>2. t \in Tasks /\ OpenInv(t) BY <1>1, OpenFacts
<1>3. t.read \in Reads /\ i \in DOMAIN c.rows /\ t.found \in Findings
  BY <1>1, <1>2 DEF OpenInv
<1>4. c \in Configs /\ c.rows \in RowsOf(Paths)
  <2>1. c \in Configs BY <1>3 DEF Reads
  <2> QED BY <2>1, ConfigElim
<1>5. c.rows[i] \in [hint : Paths, missing : BOOLEAN]
  <2>1. c.rows \in [DOMAIN c.rows -> [hint : Paths, missing : BOOLEAN]] BY <1>4, RowsElim
  <2> QED BY <1>3, <2>1
<1>6. i \in Manual => path = None BY <1>3, LaunchAssumption DEF Findings
<1>7. ~gone => path \in Paths BY DEF Inv, Types, Base
<1>8. row \in [hint : Paths, missing : BOOLEAN] /\ (i \in Manual => row.hint = c.rows[i].hint)
  <2>1. CASE gone BY <1>5, <2>1 DEF RowGone
  <2>2. CASE ~gone BY <1>6, <1>7, <2>2 DEF RowFound
  <2> QED BY <2>1, <2>2
<1>9. stored' = Written([c EXCEPT !.rows[i] =
                    IF gone THEN [@ EXCEPT !.missing = TRUE]
                    ELSE [hint |-> path, missing |-> FALSE]])
  BY DEF Rewrite
<1>10. [c EXCEPT !.rows[i] = IF gone THEN [@ EXCEPT !.missing = TRUE]
                             ELSE [hint |-> path, missing |-> FALSE]]
         = Resolved(c, i, row)
  BY DEF Resolved, RowGone, RowFound
<1> HIDE DEF row
<1>11. QED BY <1>3, <1>4, <1>8, <1>9, <1>10

LEMMA RewriteStep ==
  ASSUME Inv, NEW w \in Workers, Rewrite(w)
  PROVE  Inv'
<1> DEFINE t == work[w]
           i == t.install
<1>1. t.op = "open" /\ t.at = "rewrite" BY DEF Rewrite, At
<1>2. /\ t \in Tasks /\ OpenInv(t) /\ work \in [Workers -> Tasks] BY <1>1, OpenFacts
<1>3. UNCHANGED <<machine, opened, dialog, disk, ops, events>> BY DEF Rewrite
<1>4. t.at \in Opening \ Prepared /\ t.at \in Chosen
  BY <1>1 DEF Opening, Sourced, Chosen, Prepared, Copied
<1>5. /\ t.file \in Files /\ t.mode \in Modes /\ t.answer = None
      /\ t.remote \in BOOLEAN /\ t.source \in Libraries
      /\ t.slicer \in Slicers /\ t.install \in Installs /\ SlicerOf[t.install] = t.slicer
      /\ t.found \in Findings
  BY <1>1, <1>2, <1>4, ChosenFacts DEF OpenInv
<1>6. Base' /\ flight' = flight
  <2>1. CASE t.read.writable
    <3> DEFINE c == t.read.config
    <3>0. c \in Configs /\ i \in DOMAIN c.rows BY <2>1, RewrittenIsAConfig
    <3>1. PICK row \in [hint : Paths, missing : BOOLEAN] : stored' = Written(Resolved(c, i, row))
      BY <2>1, RewrittenIsAConfig
    <3>2. Resolved(c, i, row) \in Configs BY <3>0, ResolvedIsAConfig
    <3> QED BY <1>3, <3>1, <3>2, BaseWritten
  <2>2. CASE ~t.read.writable
    <3>1. stored' = stored BY <2>2 DEF Rewrite
    <3> QED BY <1>3, <3>1, BaseStays
  <2> QED BY <2>1, <2>2
<1>7. CASE Finish(w, "refused")
  BY <1>1, <1>3, <1>4, <1>6, <1>7, RefuseStep DEF Answers
<1>8. ASSUME NEW path \in Paths, i \in Keyed => ExeOf[path] = SlicerOf[i],
             work' = [work EXCEPT ![w].path = path, ![w].at = "key"]
      PROVE  Inv'
  <2> DEFINE r == [t EXCEPT !.path = path, !.at = "key"]
  <2>1. work' = [work EXCEPT ![w] = r] BY <1>2, <1>8
  <2>4. r \in Tasks
    <3>1. [t EXCEPT !.path = path] \in Tasks BY <1>2, SetPath
    <3>2. [[t EXCEPT !.path = path] EXCEPT !.at = "key"] \in Tasks BY <3>1, SetAt DEF Stages
    <3> QED BY <3>2
  <2>5. Continues(r, t) /\ r.at = "key" /\ r.path = path BY <1>2 DEF Tasks, Continues
  <2> HIDE DEF r
  <2>6. OpenInv(r)
    BY <1>1, <1>5, <1>8, <2>5
    DEF Continues, OpenInv, Opening, Sourced, Chosen, Vetted, Prepared, Copied
  <2>7. r.op = "open" /\ r.at \in Opening \ Prepared
    BY <1>1, <2>5 DEF Continues, Opening, Sourced, Chosen, Vetted, Prepared, Copied
  <2> QED BY <1>1, <1>3, <1>4, <1>6, <2>1, <2>4, <2>6, <2>7, OpenStep
<1>9. PICK path : path = IF i \in DOMAIN t.found THEN t.found[i] ELSE None OBVIOUS
<1>10. \/ Finish(w, "refused")
       \/ path # None /\ path \in present
          /\ work' = [work EXCEPT ![w].path = path, ![w].at = "key"]
  BY <1>9 DEF Rewrite
<1>11. ASSUME path # None
       PROVE  path \in Paths /\ ExeOf[path] = SlicerOf[i]
  BY <1>5, <1>9, <1>11 DEF Findings
<1>12. QED BY <1>7, <1>8, <1>10, <1>11

LEMMA ReadKeyStep ==
  ASSUME Inv, NEW w \in Workers, ReadKey(w)
  PROVE  Inv'
<1> DEFINE t == work[w]
           key == Answering(t.remote)
           r == [t EXCEPT !.key = key, !.at = "prepare"]
<1>1. t.op = "open" /\ t.at = "key" BY DEF ReadKey, At
<1>2. /\ t \in Tasks /\ OpenInv(t) /\ work \in [Workers -> Tasks] BY <1>1, OpenFacts
<1>3. Base' /\ flight' = flight /\ UNCHANGED disk BY BaseStays DEF ReadKey
<1>4. t.at \in Opening \ Prepared /\ t.at \in Chosen /\ t.at \in Vetted
  BY <1>1 DEF Opening, Sourced, Chosen, Vetted, Prepared, Copied
<1>5. /\ t.file \in Files /\ t.mode \in Modes /\ t.answer = None
      /\ t.remote \in BOOLEAN /\ t.source \in Libraries
      /\ t.slicer \in Slicers /\ t.install \in Installs /\ SlicerOf[t.install] = t.slicer
      /\ t.path \in Paths /\ (t.install \in Keyed => ExeOf[t.path] = SlicerOf[t.install])
  BY <1>1, <1>2, <1>4, ChosenFacts DEF OpenInv
<1>6. work' = [work EXCEPT ![w] = r] BY <1>2 DEF ReadKey
<1>7. key \in Libraries \cup {None}
  <2>1. opened \in Libraries \cup {None} BY DEF Inv, Types, Base
  <2> QED BY <2>1 DEF Answering
<1> HIDE DEF key
<1>8. r \in Tasks
  <2>1. [t EXCEPT !.key = key] \in Tasks BY <1>2, <1>7, SetKey
  <2>2. [[t EXCEPT !.key = key] EXCEPT !.at = "prepare"] \in Tasks BY <2>1, SetAt DEF Stages
  <2> QED BY <2>2
<1>9. Continues(r, t) /\ r.at = "prepare" /\ r.path = t.path BY <1>2 DEF Tasks, Continues
<1> HIDE DEF r
<1>10. OpenInv(r)
  BY <1>1, <1>5, <1>9
  DEF Continues, OpenInv, Opening, Sourced, Chosen, Vetted, Prepared, Copied
<1>11. r.op = "open" /\ r.at \in Opening \ Prepared
  BY <1>1, <1>9 DEF Continues, Opening, Sourced, Chosen, Vetted, Prepared, Copied
<1>12. QED BY <1>1, <1>3, <1>4, <1>6, <1>8, <1>10, <1>11, OpenStep

-----------------------------------------------------------------------------
(* A launch, from the directory on.                                           *)

LEMMA PlanIsAPlan ==
  ASSUME NEW t, t.file \in Files, t.remote \in BOOLEAN
  PROVE  Plan(t) \in Plans /\ Plan(t).inPlace = InPlace(t)
<1>1. Plan(t).inPlace = InPlace(t) /\ InPlace(t) \in BOOLEAN BY DEF Plan, InPlace
<1>2. Plan(t).stripped \in BOOLEAN BY DEF Plan, Strips
<1>3. Plan(t).author \in {f.author : f \in Files} \cup {f.holds : f \in Files} BY DEF Plan
<1>4. Plan(t) = [inPlace |-> Plan(t).inPlace, stripped |-> Plan(t).stripped,
                 author |-> Plan(t).author]
  BY DEF Plan
<1>5. QED BY <1>1, <1>2, <1>3, <1>4 DEF Plans

(* What a launch that is vetted knows of itself.                              *)
LEMMA VettedFacts ==
  ASSUME Inv, NEW w \in Workers, work[w].op = "open", work[w].at \in Vetted
  PROVE  LET t == work[w]
         IN  /\ t \in Tasks /\ OpenInv(t) /\ work \in [Workers -> Tasks]
             /\ t.file \in Files /\ t.mode \in Modes /\ t.answer = None
             /\ t.remote \in BOOLEAN /\ t.source \in Libraries
             /\ t.slicer \in Slicers /\ t.install \in Installs /\ SlicerOf[t.install] = t.slicer
             /\ t.path \in Paths /\ (t.install \in Keyed => ExeOf[t.path] = SlicerOf[t.install])
<1>1. work[w] \in Tasks /\ OpenInv(work[w]) /\ work \in [Workers -> Tasks] BY OpenFacts
<1>2. work[w].at \in Chosen BY DEF Chosen
<1>3. QED BY <1>1, <1>2, ChosenFacts DEF OpenInv

(* The next stage of such a launch.                                           *)
LEMMA NextStage ==
  ASSUME NEW t \in Tasks, OpenInv(t), t.at \in Vetted, t.op = "open",
         NEW r, Continues(r, t), r.path = t.path, r.at \in Prepared,
         t.mode = "as-is" => t.file.kind = "project",
         r.at \in {"record", "spawn"} => r.plan = Plan(t)
  PROVE  TaskInv(r) /\ r.at # "waiting" /\ Plan(r) = Plan(t) /\ InPlace(r) = InPlace(t)
<1>1. t.at \in Chosen BY DEF Chosen
<1>2. /\ t.file \in Files /\ t.mode \in Modes /\ t.answer = None
      /\ t.remote \in BOOLEAN /\ t.source \in Libraries
      /\ t.slicer \in Slicers /\ t.install \in Installs /\ SlicerOf[t.install] = t.slicer
      /\ t.path \in Paths /\ (t.install \in Keyed => ExeOf[t.path] = SlicerOf[t.install])
  BY <1>1, ChosenFacts DEF OpenInv
<1>3. Plan(r) = Plan(t) /\ InPlace(r) = InPlace(t) BY PlanIsOf DEF Continues
<1>4. r.at \notin {"idle", "waiting", "mode", "source", "redetect", "rewrite"}
      /\ r.at \in Opening /\ r.op = "open"
  BY DEF Continues, Opening, Sourced, Chosen, Vetted, Prepared, Copied
<1>5. OpenInv(r)
  <2> HIDE DEF Plan, Prepared, Copied, Vetted, Chosen, Sourced, Opening
  <2> QED BY <1>2, <1>3, <1>4 DEF OpenInv, Continues
<1>6. EditInv(r) BY <1>4, OpenEdits
<1>7. QED BY <1>3, <1>4, <1>5, <1>6 DEF TaskInv

LEMMA PrepareStep ==
  ASSUME Inv, NEW w \in Workers, Prepare(w)
  PROVE  Inv'
<1> DEFINE t == work[w]
<1>1. t.op = "open" /\ t.at = "prepare" BY DEF Prepare, At
<1>2. t.at \in Vetted /\ t.at \in Opening \ Prepared
  BY <1>1 DEF Opening, Sourced, Chosen, Vetted, Prepared, Copied
<1>3. /\ t \in Tasks /\ OpenInv(t) /\ work \in [Workers -> Tasks]
      /\ t.file \in Files /\ t.remote \in BOOLEAN /\ t.source \in Libraries
  BY <1>1, <1>2, VettedFacts
<1>4. Base' /\ flight' = flight BY BaseStays DEF Prepare
<1>5. dirs[w] = None /\ child[w] = None
  BY <1>1, NothingYet DEF Prepared, Copied
<1>6. /\ dirs \in [Workers -> Dirs \cup {None}] /\ child \in [Workers -> Children \cup {None}]
      /\ opened \in Libraries \cup {None} /\ child' = child
  BY DEF Inv, Types, Base, Prepare
<1>7. CASE PrepareRefused(t)
  <2>1. Finish(w, "refused") /\ UNCHANGED disk BY <1>7 DEF Prepare, disk
  <2> QED BY <1>1, <1>2, <1>4, <2>1, RefuseStep DEF Answers
<1>8. ASSUME ~PrepareRefused(t), t.mode = "as-is"
      PROVE  t.file.kind = "project"
  BY <1>8 DEF PrepareRefused
<1>9. CASE ~PrepareRefused(t) /\ InPlace(t)
  <2> DEFINE r == [t EXCEPT !.plan = Plan(t), !.at = "spawn"]
  <2>1. work' = [work EXCEPT ![w] = r] /\ UNCHANGED disk BY <1>3, <1>9 DEF Prepare, disk
  <2>2. Plan(t) \in Plans /\ Plan(t).inPlace BY <1>3, <1>9, PlanIsAPlan
  <2>3. PICK plan : plan = Plan(t) OBVIOUS
  <2>4. r \in Tasks
    <3>1. [t EXCEPT !.plan = plan] \in Tasks BY <1>3, <2>2, <2>3, SetPlan
    <3>2. [[t EXCEPT !.plan = plan] EXCEPT !.at = "spawn"] \in Tasks BY <3>1, SetAt DEF Stages
    <3> QED BY <2>3, <3>2
  <2>5. Continues(r, t) /\ r.path = t.path /\ r.at = "spawn" /\ r.plan = Plan(t)
    BY <1>3 DEF Tasks, Continues
  <2> HIDE DEF r
  <2>6. TaskInv(r) /\ r.at # "waiting"
    <3>1. r.at \in Prepared BY <2>5 DEF Prepared
    <3> QED BY <1>1, <1>2, <1>3, <1>8, <1>9, <2>5, <3>1, NextStage
  <2>7. DirInv(r, None) BY <2>2, <2>5 DEF DirInv, Prepared, Copied
  <2>8. ChildInv(r, None, None) BY <2>5 DEF ChildInv
  <2> QED BY <1>4, <1>5, <2>1, <2>4, <2>6, <2>7, <2>8, WorkStep DEF WorkerInv
<1>10. CASE ~PrepareRefused(t) /\ ~InPlace(t)
  <2>1. PICK at : at = IF t.remote THEN "download" ELSE "copy" OBVIOUS
  <2>2. PICK from : from = IF t.remote THEN Answering(TRUE) ELSE t.source OBVIOUS
  <2> DEFINE r == [t EXCEPT !.at = at]
             d == [holds |-> "nothing", record |-> None, from |-> from]
  <2>3. Goto(w, at) /\ dirs' = [dirs EXCEPT ![w] = d] BY <1>10, <2>1, <2>2 DEF Prepare
  <2>4. work' = [work EXCEPT ![w] = r] BY <1>3, <2>3 DEF Goto
  <2>5. at \in Copied BY <2>1 DEF Copied
  <2>6. r \in Tasks
    <3>1. at \in Stages BY <2>5 DEF Copied, Stages
    <3> QED BY <1>3, <3>1, SetAt
  <2>7. from \in Libraries \cup {None} BY <1>3, <1>6, <2>2 DEF Answering
  <2>8. d \in Dirs /\ d.record = None /\ d # None BY <2>7, NoneAssumption DEF Dirs
  <2>9. Continues(r, t) /\ r.path = t.path /\ r.at = at BY <1>3 DEF Tasks, Continues
  <2>10. child' = [child EXCEPT ![w] = None] BY <1>5, <1>6
  <2> HIDE DEF r, d
  <2>11. TaskInv(r) /\ r.at # "waiting" /\ InPlace(r) = InPlace(t)
    <3>1. r.at \in Prepared /\ r.at \notin {"record", "spawn"} BY <2>5, <2>9 DEF Prepared, Copied
    <3> QED BY <1>1, <1>2, <1>3, <1>8, <1>10, <2>9, <3>1, NextStage
  <2>12. DirInv(r, d) BY <1>10, <2>5, <2>8, <2>9, <2>11 DEF DirInv, Prepared, Copied
  <2>13. ChildInv(r, d, None) BY <2>5, <2>9 DEF ChildInv, Copied
  <2> QED BY <1>4, <2>3, <2>4, <2>6, <2>8, <2>10, <2>11, <2>12, <2>13, StepOf DEF WorkerInv
<1>11. QED BY <1>7, <1>9, <1>10

(* What a launch that has prepared has: its directory, and no process yet.    *)
LEMMA PreparedFacts ==
  ASSUME Inv, NEW w \in Workers, work[w].op = "open", work[w].at \in Prepared
  PROVE  LET t == work[w]
         IN  /\ t \in Tasks /\ OpenInv(t) /\ t.at \in Vetted /\ work \in [Workers -> Tasks]
             /\ t.file \in Files /\ t.remote \in BOOLEAN
             /\ t.mode = "as-is" => t.file.kind = "project"
             /\ DirInv(t, dirs[w]) /\ ChildInv(t, dirs[w], child[w])
             /\ dirs \in [Workers -> Dirs \cup {None}] /\ dirs[w] \in Dirs \cup {None}
             /\ child \in [Workers -> Children \cup {None}]
             /\ t.at # "launched" => child[w] = None
<1>1. work[w].at \in Vetted BY DEF Vetted
<1>2. WorkerInv(work[w], dirs[w], child[w]) BY DEF Inv
<1>3. work[w].at # "launched" => child[w] = None
  BY <1>2 DEF WorkerInv, ChildInv, Prepared, Copied
<1>4. /\ dirs \in [Workers -> Dirs \cup {None}] /\ child \in [Workers -> Children \cup {None}]
  BY DEF Inv, Types
<1>5. QED BY <1>1, <1>2, <1>3, <1>4, VettedFacts DEF WorkerInv, OpenInv

(* A launch goes on with its directory.                                       *)
LEMMA DirStep ==
  ASSUME Inv, Base', flight' = flight, NEW w \in Workers,
         work[w].op = "open", work[w].at \in Prepared \ {"launched"},
         NEW r \in Tasks, work' = [work EXCEPT ![w] = r], TaskInv(r), r.at # "waiting",
         r.at # "launched", NEW d \in Dirs \cup {None}, dirs' = [dirs EXCEPT ![w] = d],
         child' = child, DirInv(r, d)
  PROVE  Inv'
<1>1. child \in [Workers -> Children \cup {None}] /\ child[w] = None BY PreparedFacts
<1>2. child' = [child EXCEPT ![w] = None] BY <1>1
<1>3. ChildInv(r, d, None) BY DEF ChildInv
<1>4. QED BY <1>2, <1>3, StepOf DEF WorkerInv

(* A launch that ends without a process, its directory removed or kept.       *)
LEMMA GiveUpStep ==
  ASSUME Inv, Base', flight' = flight, NEW w \in Workers,
         work[w].op = "open", work[w].at \in Prepared \ {"launched"},
         NEW answer \in Answers, Finish(w, answer),
         NEW d \in Dirs \cup {None}, dirs' = [dirs EXCEPT ![w] = d], child' = child,
         d = None \/ (answer = "unrecorded" /\ d.record = None)
  PROVE  Inv'
<1> DEFINE r == [Idle EXCEPT !.answer = answer]
<1>1. work' = [work EXCEPT ![w] = r] BY DEF Finish
<1>2. r \in Tasks /\ TaskInv(r) /\ r.at = "idle" /\ r.answer = answer BY Ended
<1> HIDE DEF r
<1>3. DirInv(r, d) BY <1>2 DEF DirInv, Prepared, Copied
<1>4. QED BY <1>1, <1>2, <1>3, DirStep

LEMMA DownloadStep ==
  ASSUME Inv, NEW w \in Workers, Download(w)
  PROVE  Inv'
<1> DEFINE t == work[w]
<1>1. t.op = "open" /\ t.at = "download" BY DEF Download, At
<1>2. t.at \in Prepared \ {"launched"} BY <1>1 DEF Prepared, Copied
<1>3. Base' /\ flight' = flight BY BaseStays DEF Download
<1>4. /\ t \in Tasks /\ work \in [Workers -> Tasks] /\ dirs \in [Workers -> Dirs \cup {None}]
      /\ DirInv(t, dirs[w]) /\ dirs[w] \in Dirs \cup {None}
  BY <1>1, <1>2, PreparedFacts
<1>5. TaskInv(t) BY AnyTask
<1>6. PICK d : d = dirs[w] OBVIOUS
<1>7. d \in Dirs /\ d.record = None /\ d # None BY <1>1, <1>4, <1>6 DEF DirInv, Copied
<1> DEFINE e == [d EXCEPT !.holds = "part"]
<1>8. dirs' = [dirs EXCEPT ![w] = e] /\ child' = child /\ work' = work
  BY <1>4, <1>6 DEF Download
<1>9. e \in Dirs /\ e.record = None /\ e # None BY <1>7, NoneAssumption DEF Dirs
<1> HIDE DEF e
<1>10. DirInv(t, e) BY <1>1, <1>4, <1>9 DEF DirInv, Prepared, Copied
<1>11. work' = [work EXCEPT ![w] = t] BY <1>4, <1>8
<1>12. QED BY <1>1, <1>2, <1>3, <1>4, <1>5, <1>8, <1>9, <1>10, <1>11, DirStep

LEMMA DownloadEndsStep ==
  ASSUME Inv, NEW w \in Workers, DownloadEnds(w)
  PROVE  Inv'
<1> DEFINE t == work[w]
<1>1. t.op = "open" /\ t.at = "download" BY DEF DownloadEnds, At
<1>2. t.at \in Prepared \ {"launched"} BY <1>1 DEF Prepared, Copied
<1>3. Base' /\ flight' = flight /\ child' = child BY BaseStays DEF DownloadEnds
<1>4. /\ t \in Tasks /\ OpenInv(t) /\ t.at \in Vetted /\ work \in [Workers -> Tasks]
      /\ dirs \in [Workers -> Dirs \cup {None}] /\ DirInv(t, dirs[w])
      /\ dirs[w] \in Dirs \cup {None} /\ (t.mode = "as-is" => t.file.kind = "project")
  BY <1>1, <1>2, PreparedFacts
<1>5. CASE Finish(w, "failed") /\ dirs' = [dirs EXCEPT ![w] = None]
  BY <1>1, <1>2, <1>3, <1>5, GiveUpStep DEF Answers
<1>6. CASE Goto(w, "copy") /\ dirs' = [dirs EXCEPT ![w].holds = "download"]
  <2>1. PICK d : d = dirs[w] OBVIOUS
  <2>2. d \in Dirs /\ d.record = None /\ d # None /\ ~InPlace(t)
    BY <1>1, <1>4, <2>1 DEF DirInv, Copied
  <2> DEFINE e == [d EXCEPT !.holds = "download"]
             r == [t EXCEPT !.at = "copy"]
  <2>3. dirs' = [dirs EXCEPT ![w] = e] /\ work' = [work EXCEPT ![w] = r]
    BY <1>4, <1>6, <2>1 DEF Goto
  <2>4. e \in Dirs /\ e.record = None /\ e # None BY <2>2, NoneAssumption DEF Dirs
  <2>5. r \in Tasks BY <1>4, SetAt DEF Stages
  <2>6. Continues(r, t) /\ r.path = t.path /\ r.at = "copy" BY <1>4 DEF Tasks, Continues
  <2> HIDE DEF e, r
  <2>7. TaskInv(r) /\ r.at # "waiting" /\ InPlace(r) = InPlace(t)
    <3>1. r.at \in Prepared /\ r.at \notin {"record", "spawn"} BY <2>6 DEF Prepared, Copied
    <3> QED BY <1>1, <1>4, <2>6, <3>1, NextStage
  <2>8. DirInv(r, e) BY <2>2, <2>4, <2>6, <2>7 DEF DirInv, Prepared, Copied
  <2> QED BY <1>1, <1>2, <1>3, <2>3, <2>4, <2>5, <2>6, <2>7, <2>8, DirStep
<1>7. QED BY <1>5, <1>6 DEF DownloadEnds

LEMMA MakeCopyStep ==
  ASSUME Inv, NEW w \in Workers, MakeCopy(w)
  PROVE  Inv'
<1> DEFINE t == work[w]
<1>1. t.op = "open" /\ t.at = "copy" BY DEF MakeCopy, At
<1>2. t.at \in Prepared \ {"launched"} BY <1>1 DEF Prepared, Copied
<1>3. Base' /\ flight' = flight /\ child' = child BY BaseStays DEF MakeCopy
<1>4. /\ t \in Tasks /\ OpenInv(t) /\ t.at \in Vetted /\ work \in [Workers -> Tasks]
      /\ dirs \in [Workers -> Dirs \cup {None}] /\ DirInv(t, dirs[w])
      /\ dirs[w] \in Dirs \cup {None} /\ (t.mode = "as-is" => t.file.kind = "project")
      /\ t.file \in Files /\ t.remote \in BOOLEAN
  BY <1>1, <1>2, PreparedFacts
<1>5. CASE dirs' = [dirs EXCEPT ![w] = None] /\ Finish(w, "refused")
  BY <1>1, <1>2, <1>3, <1>5, GiveUpStep DEF Answers
<1>6. CASE /\ dirs' = [dirs EXCEPT ![w].holds = "copy"]
           /\ work' = [work EXCEPT ![w].plan = Plan(t), ![w].at = "record"]
  <2>1. PICK d : d = dirs[w] OBVIOUS
  <2>2. d \in Dirs /\ d.record = None /\ d # None /\ ~InPlace(t)
    BY <1>1, <1>4, <2>1 DEF DirInv, Copied
  <2>3. Plan(t) \in Plans /\ ~Plan(t).inPlace BY <1>4, <2>2, PlanIsAPlan
  <2>4. PICK plan : plan = Plan(t) OBVIOUS
  <2> DEFINE e == [d EXCEPT !.holds = "copy"]
             r == [t EXCEPT !.plan = plan, !.at = "record"]
  <2>5. dirs' = [dirs EXCEPT ![w] = e] /\ work' = [work EXCEPT ![w] = r]
    BY <1>4, <1>6, <2>1, <2>4
  <2>6. e \in Dirs /\ e.record = None /\ e.holds = "copy" /\ e # None
    BY <2>2, NoneAssumption DEF Dirs
  <2>7. r \in Tasks
    <3>1. [t EXCEPT !.plan = plan] \in Tasks BY <1>4, <2>3, <2>4, SetPlan
    <3>2. [[t EXCEPT !.plan = plan] EXCEPT !.at = "record"] \in Tasks BY <3>1, SetAt DEF Stages
    <3> QED BY <3>2
  <2>8. Continues(r, t) /\ r.path = t.path /\ r.at = "record" /\ r.plan = plan
    BY <1>4 DEF Tasks, Continues
  <2> HIDE DEF e, r
  <2>9. TaskInv(r) /\ r.at # "waiting"
    <3>1. r.at \in Prepared BY <2>8 DEF Prepared
    <3> QED BY <1>1, <1>4, <2>4, <2>8, <3>1, NextStage
  <2>10. DirInv(r, e) BY <2>3, <2>4, <2>6, <2>8 DEF DirInv, Prepared, Copied
  <2> QED BY <1>1, <1>2, <1>3, <2>5, <2>6, <2>7, <2>8, <2>9, <2>10, DirStep
<1>7. QED BY <1>5, <1>6 DEF MakeCopy

LEMMA WriteRecordStep ==
  ASSUME Inv, NEW w \in Workers, WriteRecord(w)
  PROVE  Inv'
<1> DEFINE t == work[w]
<1>1. t.op = "open" /\ t.at = "record" BY DEF WriteRecord, At
<1>2. t.at \in Prepared \ {"launched"} BY <1>1 DEF Prepared, Copied
<1>3. Base' /\ flight' = flight /\ child' = child BY BaseStays DEF WriteRecord
<1>4. /\ t \in Tasks /\ OpenInv(t) /\ t.at \in Vetted /\ work \in [Workers -> Tasks]
      /\ dirs \in [Workers -> Dirs \cup {None}] /\ DirInv(t, dirs[w])
      /\ dirs[w] \in Dirs \cup {None} /\ (t.mode = "as-is" => t.file.kind = "project")
  BY <1>1, <1>2, PreparedFacts
<1>5. PICK d : d = dirs[w] OBVIOUS
<1>6. d \in Dirs /\ d.record = None /\ d # None /\ d.holds = "copy" /\ ~t.plan.inPlace
      /\ t.plan = Plan(t)
  BY <1>1, <1>4, <1>5 DEF DirInv, OpenInv, Copied
<1>7. CASE Finish(w, "unrecorded") /\ UNCHANGED dirs
  <2>1. dirs' = [dirs EXCEPT ![w] = d] BY <1>4, <1>5, <1>7
  <2> QED BY <1>1, <1>2, <1>3, <1>6, <1>7, <2>1, GiveUpStep DEF Answers
<1>8. CASE /\ dirs' = [dirs EXCEPT ![w].record = [library |-> t.key, slicer |-> t.slicer]]
           /\ Goto(w, "spawn")
  <2> DEFINE record == [library |-> t.key, slicer |-> t.slicer]
             e == [d EXCEPT !.record = record]
             r == [t EXCEPT !.at = "spawn"]
  <2>1. dirs' = [dirs EXCEPT ![w] = e] /\ work' = [work EXCEPT ![w] = r]
    BY <1>4, <1>5, <1>8 DEF Goto
  <2>2. record \in LaunchRecords /\ record # None /\ record.slicer = t.slicer
    <3>1. t.slicer \in Slicers BY <1>1, <1>4, VettedFacts
    <3>2. t.key \in Libraries \cup {None} BY <1>4 DEF Tasks
    <3> QED BY <3>1, <3>2, NoneAssumption DEF LaunchRecords
  <2> HIDE DEF record
  <2>3. e \in Dirs /\ e.record = record /\ e.holds = "copy" /\ e # None
    BY <1>6, <2>2, NoneAssumption DEF Dirs
  <2>4. r \in Tasks BY <1>4, SetAt DEF Stages
  <2>5. Continues(r, t) /\ r.path = t.path /\ r.at = "spawn" /\ r.plan = t.plan
    BY <1>4 DEF Tasks, Continues
  <2> HIDE DEF e, r
  <2>6. TaskInv(r) /\ r.at # "waiting"
    <3>1. r.at \in Prepared BY <2>5 DEF Prepared
    <3> QED BY <1>1, <1>4, <1>6, <2>5, <3>1, NextStage
  <2>7. Explains(e, r.slicer) BY <2>2, <2>3, <2>5 DEF Explains, Continues
  <2>8. DirInv(r, e) BY <1>6, <2>5, <2>7 DEF DirInv, Prepared, Copied
  <2> QED BY <1>1, <1>2, <1>3, <2>1, <2>3, <2>4, <2>5, <2>6, <2>8, DirStep
<1>9. QED BY <1>7, <1>8 DEF WriteRecord

-----------------------------------------------------------------------------
(* The process, its watcher and its end.                                      *)

(* What is said of a launch says that a foreign configuration is discarded.   *)
LEMMA DiscardIsSaid ==
  ASSUME NEW s \in Slicers, NEW author, NEW is3mf, NEW stripped, NEW remote
  PROVE  /\ Notices(s, author, is3mf, stripped, remote) \in SUBSET Said
         /\ s = "anycubic" /\ ~stripped /\ author \in {"bambu", "orca"} =>
              "may discard" \in Notices(s, author, is3mf, stripped, remote)
<1>1. Notices(s, author, is3mf, stripped, remote) \in SUBSET Said BY DEF Notices, Said
<1>2. ASSUME s = "anycubic", ~stripped, author \in {"bambu", "orca"}
      PROVE  "may discard" \in Notices(s, author, is3mf, stripped, remote)
  <2>1. s \in DiscardsForeign BY <1>2 DEF DiscardsForeign
  <2> QED BY <1>2, <2>1 DEF Notices
<1>3. QED BY <1>1, <1>2

Spawned(t) ==
  [slicer |-> t.slicer, install |-> t.install, path |-> t.path, file |-> t.file,
   plan |-> t.plan, remote |-> t.remote,
   says |-> Notices(t.slicer, t.plan.author, t.file.ext = "3mf", t.plan.stripped, t.remote),
   mode |-> t.mode, exited |-> FALSE, watch |-> "none", told |-> 0]

LEMMA SpawnedIsVetted ==
  ASSUME Inv, NEW w \in Workers, work[w].op = "open", work[w].at = "spawn"
  PROVE  LET c == Spawned(work[w])
         IN  c \in Children /\ Started(c) /\ Told(c)
<1> DEFINE t == work[w]
           c == Spawned(t)
<1>1. t.at \in Prepared /\ t.at \in Vetted BY DEF Prepared, Vetted
<1>2. /\ t \in Tasks /\ OpenInv(t) /\ t.file \in Files /\ t.mode \in Modes
      /\ t.remote \in BOOLEAN /\ t.slicer \in Slicers /\ t.install \in Installs
      /\ SlicerOf[t.install] = t.slicer /\ t.path \in Paths
      /\ (t.install \in Keyed => ExeOf[t.path] = SlicerOf[t.install])
  BY <1>1, VettedFacts
<1>3. t.plan = Plan(t) /\ (t.mode = "as-is" => t.file.kind = "project")
  BY <1>1, <1>2 DEF OpenInv
<1>4. t.plan \in Plans /\ t.plan.inPlace = InPlace(t) BY <1>2, <1>3, PlanIsAPlan
<1>5. t.plan.author = IF InPlace(t) /\ t.mode = "as-is" THEN t.file.author ELSE t.file.holds
  BY <1>3 DEF Plan
<1>6. PICK says : says = Notices(t.slicer, t.plan.author, t.file.ext = "3mf",
                                 t.plan.stripped, t.remote)
  OBVIOUS
<1>7. says \in SUBSET Said
      /\ (t.slicer = "anycubic" /\ ~t.plan.stripped /\ t.plan.author \in {"bambu", "orca"} =>
            "may discard" \in says)
  BY <1>2, <1>6, DiscardIsSaid
<1>8. c = [slicer |-> t.slicer, install |-> t.install, path |-> t.path, file |-> t.file,
           plan |-> t.plan, remote |-> t.remote, says |-> says,
           mode |-> t.mode, exited |-> FALSE, watch |-> "none", told |-> 0]
  BY <1>6 DEF Spawned
<1> HIDE DEF c
<1>9. c \in Children BY <1>2, <1>4, <1>7, <1>8 DEF Children
<1>10. /\ c.slicer = t.slicer /\ c.install = t.install /\ c.path = t.path /\ c.file = t.file
       /\ c.plan = t.plan /\ c.remote = t.remote /\ c.mode = t.mode /\ c.says = says
       /\ c.watch = "none" /\ c.told = 0
  BY <1>8
<1>11. Told(c) BY <1>10 DEF Told
<1>12. Started(c)
  <2>1. SlicerOf[c.install] = c.slicer /\ (c.install \in Keyed => ExeOf[c.path] = c.slicer)
    BY <1>2, <1>10
  <2>2. ASSUME c.plan.inPlace
        PROVE  /\ ~c.remote /\ (c.mode = "new" => c.file.ext # "3mf")
               /\ c.mode = "as-is" => c.file.kind = "project"
    BY <1>3, <1>4, <1>10, <2>2 DEF InPlace
  <2>3. ASSUME c.slicer = "anycubic", c.file.holds \in {"bambu", "orca"}, ~c.plan.stripped,
               ~(c.plan.inPlace /\ c.file.author # c.file.holds)
        PROVE  "may discard" \in c.says
    <3>1. t.plan.author = t.file.holds BY <1>4, <1>5, <1>10, <2>3
    <3> QED BY <1>7, <1>10, <2>3, <3>1
  <2> QED BY <2>1, <2>2, <2>3 DEF Started
<1>13. QED BY <1>9, <1>11, <1>12 DEF c

LEMMA SpawnStep ==
  ASSUME Inv, NEW w \in Workers, Spawn(w)
  PROVE  Inv'
<1> DEFINE t == work[w]
<1>1. t.op = "open" /\ t.at = "spawn" BY DEF Spawn, At
<1>2. t.at \in Prepared \ {"launched"} BY <1>1 DEF Prepared, Copied
<1>3. Base' /\ flight' = flight BY BaseStays DEF Spawn
<1>4. /\ t \in Tasks /\ OpenInv(t) /\ t.at \in Vetted /\ work \in [Workers -> Tasks]
      /\ dirs \in [Workers -> Dirs \cup {None}] /\ DirInv(t, dirs[w])
      /\ dirs[w] \in Dirs \cup {None} /\ (t.mode = "as-is" => t.file.kind = "project")
  BY <1>1, <1>2, PreparedFacts
<1>5. CASE dirs' = [dirs EXCEPT ![w] = None] /\ Finish(w, "failed") /\ UNCHANGED child
  BY <1>1, <1>2, <1>3, <1>5, GiveUpStep DEF Answers
<1>6. ASSUME child' = [child EXCEPT ![w] = Spawned(t)],
             \/ Goto(w, "launched") /\ UNCHANGED dirs
             \/ Finish(w, "failed") /\ dirs' = [dirs EXCEPT ![w] = None]
      PROVE  Inv'
  <2>1. PICK c : c = Spawned(t) OBVIOUS
  <2>2. c \in Children /\ Started(c) /\ Told(c) BY <1>1, <2>1, SpawnedIsVetted
  <2>3. c.plan = t.plan /\ c.slicer = t.slicer /\ c.watch = "none" BY <2>1 DEF Spawned
  <2>4. child' = [child EXCEPT ![w] = c] BY <1>6, <2>1
  <2>5. CASE Goto(w, "launched") /\ UNCHANGED dirs
    <3>1. PICK d : d = dirs[w] OBVIOUS
    <3> DEFINE r == [t EXCEPT !.at = "launched"]
    <3>2. work' = [work EXCEPT ![w] = r] /\ dirs' = [dirs EXCEPT ![w] = d]
      BY <1>4, <2>5, <3>1 DEF Goto
    <3>3. r \in Tasks BY <1>4, SetAt DEF Stages
    <3>4. Continues(r, t) /\ r.path = t.path /\ r.at = "launched"
      BY <1>4 DEF Tasks, Continues
    <3> HIDE DEF r
    <3>5. TaskInv(r) /\ r.at # "waiting"
      <4>1. r.at \in Prepared /\ r.at \notin {"record", "spawn"} BY <3>4 DEF Prepared
      <4> QED BY <1>1, <1>4, <3>4, <4>1, NextStage
    <3>6. IF t.plan.inPlace THEN d = None ELSE Explains(d, t.slicer)
      BY <1>1, <1>4, <3>1 DEF DirInv
    <3>7. DirInv(r, d) BY <3>4 DEF DirInv, Prepared, Copied
    <3>8. ChildInv(r, d, c) BY <2>2, <2>3, <3>4, <3>6 DEF ChildInv
    <3> QED BY <1>3, <1>4, <2>2, <2>4, <3>1, <3>2, <3>3, <3>5, <3>7, <3>8, StepOf DEF WorkerInv
  <2>6. CASE Finish(w, "failed") /\ dirs' = [dirs EXCEPT ![w] = None]
    <3> DEFINE r == [Idle EXCEPT !.answer = "failed"]
    <3>1. work' = [work EXCEPT ![w] = r] BY <2>6 DEF Finish
    <3>2. r \in Tasks /\ TaskInv(r) /\ r.at = "idle" /\ r.answer = "failed"
      BY Ended DEF Answers
    <3> HIDE DEF r
    <3>3. DirInv(r, None) BY <3>2 DEF DirInv, Copied
    <3>4. ChildInv(r, None, c) BY <2>2, <3>2 DEF ChildInv
    <3> QED BY <1>3, <2>2, <2>4, <2>6, <3>1, <3>2, <3>3, <3>4, StepOf DEF WorkerInv
  <2> QED BY <1>6, <2>5, <2>6
<1>7. QED BY <1>5, <1>6 DEF Spawn, Spawned

LEMMA SetWatch ==
  \A c \in Children : \A v \in {"none", "set", "done", "gone"} : [c EXCEPT !.watch = v] \in Children
BY DEF Children
LEMMA SetTold   == \A c \in Children : \A n \in Nat : [c EXCEPT !.told = n] \in Children
BY DEF Children
LEMMA SetExited == \A c \in Children : \A b \in BOOLEAN : [c EXCEPT !.exited = b] \in Children
BY DEF Children

LEMMA OnLaunchedStep ==
  ASSUME Inv, NEW w \in Workers, OnLaunched(w)
  PROVE  Inv'
<1> DEFINE t == work[w]
           r == [Idle EXCEPT !.answer = "launched"]
<1>1. t.op = "open" /\ t.at = "launched" BY DEF OnLaunched, At
<1>2. t.at \in Prepared BY <1>1 DEF Prepared
<1>3. Base' /\ flight' = flight BY BaseStays DEF OnLaunched
<1>4. PICK d : d = dirs[w] OBVIOUS
<1>5. PICK c : c = child[w] OBVIOUS
<1>6. /\ ChildInv(t, d, c) /\ t.answer = None
      /\ dirs \in [Workers -> Dirs \cup {None}] /\ child \in [Workers -> Children \cup {None}]
  BY <1>1, <1>2, <1>4, <1>5, PreparedFacts, OpenFacts
<1>7. /\ c \in Children /\ Started(c) /\ Told(c) /\ c.watch = "none"
      /\ c.plan.inPlace => d = None
      /\ ~c.plan.inPlace => Explains(d, c.slicer)
  BY <1>1, <1>6 DEF ChildInv
<1>8. work' = [work EXCEPT ![w] = r] BY DEF OnLaunched, Finish
<1>9. r \in Tasks /\ TaskInv(r) /\ r.at = "idle" /\ r.answer = "launched" BY Ended DEF Answers
<1>10. dirs' = [dirs EXCEPT ![w] = d] /\ d \in Dirs \cup {None}
  BY <1>4, <1>6 DEF OnLaunched
<1> HIDE DEF r, t
<1>11. DirInv(r, d) BY <1>9 DEF DirInv, Copied
<1>12. CASE d = None
  <2>1. child' = [child EXCEPT ![w] = c] BY <1>4, <1>5, <1>6, <1>12 DEF OnLaunched
  <2>2. ChildInv(r, d, c) BY <1>7, <1>9, <1>12 DEF ChildInv, Explains
  <2> QED BY <1>3, <1>7, <1>8, <1>9, <1>10, <1>11, <2>1, <2>2, StepOf DEF WorkerInv
<1>13. CASE d # None
  <2> DEFINE e == Watched(c)
  <2>1. child' = [child EXCEPT ![w] = e] BY <1>4, <1>5, <1>6, <1>13 DEF OnLaunched
  <2>2. /\ e \in Children /\ e.watch # "none" /\ e.slicer = c.slicer /\ e.install = c.install
        /\ e.path = c.path /\ e.plan = c.plan /\ e.remote = c.remote /\ e.mode = c.mode
        /\ e.file = c.file /\ e.says = c.says
    <3>1. c.told = 0 BY <1>7 DEF Told
    <3>2. e \in Children
      <4>1. CASE c.exited
        <5>1. [c EXCEPT !.told = c.told + 1] \in Children BY <1>7, <3>1, SetTold
        <5>2. [[c EXCEPT !.told = c.told + 1] EXCEPT !.watch = "done"] \in Children
          BY <5>1, SetWatch
        <5> QED BY <4>1, <5>2 DEF Watched
      <4>2. CASE ~c.exited BY <1>7, <4>2, SetWatch DEF Watched
      <4> QED BY <4>1, <4>2
    <3>3. e.watch # "none"
      <4>1. CASE c.exited BY <1>7, <4>1 DEF Watched, Children
      <4>2. CASE ~c.exited BY <1>7, <4>2 DEF Watched, Children
      <4> QED BY <4>1, <4>2
    <3>4. /\ e.slicer = c.slicer /\ e.install = c.install /\ e.path = c.path
          /\ e.plan = c.plan /\ e.remote = c.remote /\ e.mode = c.mode
          /\ e.file = c.file /\ e.says = c.says
      <4>1. CASE c.exited BY <1>7, <4>1 DEF Watched, Children
      <4>2. CASE ~c.exited BY <1>7, <4>2 DEF Watched, Children
      <4> QED BY <4>1, <4>2
    <3> QED BY <3>2, <3>3, <3>4
  <2>3. Told(e)
    <3>1. c.told = 0 BY <1>7 DEF Told
    <3>2. CASE c.exited BY <1>7, <3>1, <3>2 DEF Watched, Children, Told
    <3>3. CASE ~c.exited BY <1>7, <3>1, <3>3 DEF Watched, Children, Told
    <3> QED BY <3>2, <3>3
  <2> HIDE DEF e
  <2>4. Started(e) BY <1>7, <2>2 DEF Started
  <2>5. ChildInv(r, d, e) BY <1>7, <1>9, <2>2, <2>3, <2>4 DEF ChildInv
  <2> QED BY <1>3, <1>8, <1>9, <1>10, <1>11, <2>1, <2>2, <2>5, StepOf DEF WorkerInv
<1>14. QED BY <1>12, <1>13

(* Another state of the same process: what it was started with is as it was.  *)
SameStart(e, c) ==
  /\ e.slicer = c.slicer /\ e.install = c.install /\ e.path = c.path /\ e.file = c.file
  /\ e.plan = c.plan /\ e.remote = c.remote /\ e.mode = c.mode /\ e.says = c.says

LEMMA ChildExitsStep ==
  ASSUME Inv, NEW w \in Workers, ChildExits(w)
  PROVE  Inv'
<1> DEFINE t == work[w]
<1>1. /\ t \in Tasks /\ work \in [Workers -> Tasks] /\ dirs \in [Workers -> Dirs \cup {None}]
      /\ child \in [Workers -> Children \cup {None}]
      /\ TaskInv(t) /\ DirInv(t, dirs[w]) /\ ChildInv(t, dirs[w], child[w])
      /\ t.at = "waiting" => flight # None
  BY DEF Inv, Types, WorkerInv, FlightInv
<1>2. Base' /\ flight' = flight BY BaseStays DEF ChildExits
<1>3. PICK c : c = child[w] OBVIOUS
<1>4. PICK d : d = dirs[w] OBVIOUS
<1>5. /\ c # None /\ c \in Children /\ ~c.exited /\ Started(c) /\ Told(c)
      /\ t.at \in {"idle", "launched"}
      /\ t.at = "launched" => c.watch = "none" /\ (c.plan.inPlace => d = None)
      /\ ~c.plan.inPlace /\ (t.at = "launched" \/ t.answer # "failed") => Explains(d, c.slicer)
      /\ t.at = "idle" /\ t.answer = "launched" /\ d # None => c.watch # "none"
  BY <1>1, <1>3, <1>4 DEF ChildExits, ChildInv
<1>6. work' = [work EXCEPT ![w] = t] /\ dirs' = [dirs EXCEPT ![w] = d]
  BY <1>1, <1>4 DEF ChildExits
<1>7. ASSUME NEW e \in Children, child' = [child EXCEPT ![w] = e], SameStart(e, c), Told(e),
             e.watch = "none" <=> c.watch = "none"
      PROVE  Inv'
  <2>1. Started(e) BY <1>5, <1>7 DEF Started, SameStart
  <2> HIDE DEF t
  <2>2. ChildInv(t, d, e) BY <1>5, <1>7, <2>1 DEF ChildInv, SameStart
  <2> QED BY <1>1, <1>2, <1>4, <1>6, <1>7, <2>2, StepOf DEF WorkerInv, t
<1>8. CASE c.watch = "set"
  <2>1. c.told = 0 BY <1>5, <1>8 DEF Told
  <2>2. c.told + 1 \in Nat BY <2>1
  <2> DEFINE e == [c EXCEPT !.exited = TRUE, !.told = c.told + 1, !.watch = "done"]
  <2>3. child' = [child EXCEPT ![w] = e] BY <1>1, <1>3, <1>8 DEF ChildExits
  <2>4. e \in Children
    <3>1. [c EXCEPT !.exited = TRUE] \in Children BY <1>5, SetExited
    <3>2. [[c EXCEPT !.exited = TRUE] EXCEPT !.told = c.told + 1] \in Children
      BY <2>2, <3>1, SetTold
    <3>3. [[[c EXCEPT !.exited = TRUE] EXCEPT !.told = c.told + 1] EXCEPT !.watch = "done"]
            \in Children
      BY <3>2, SetWatch
    <3> QED BY <3>3
  <2>5. SameStart(e, c) BY <1>5 DEF SameStart, Children
  <2>6. e.told = 1 /\ e.watch = "done" BY <1>5, <2>1 DEF Children
  <2> HIDE DEF e
  <2>7. Told(e) BY <2>6 DEF Told
  <2> QED BY <1>7, <1>8, <2>3, <2>4, <2>5, <2>6, <2>7
<1>9. CASE c.watch # "set"
  <2> DEFINE e == [c EXCEPT !.exited = TRUE]
  <2>1. child' = [child EXCEPT ![w] = e] BY <1>1, <1>3, <1>9 DEF ChildExits
  <2>2. e \in Children BY <1>5, SetExited
  <2>3. SameStart(e, c) /\ e.told = c.told /\ e.watch = c.watch BY <1>5 DEF SameStart, Children
  <2> HIDE DEF e
  <2>4. Told(e) BY <1>5, <1>9, <2>3 DEF Told
  <2> QED BY <1>7, <2>1, <2>2, <2>3, <2>4
<1>10. QED BY <1>8, <1>9

-----------------------------------------------------------------------------
(* The world.                                                                 *)

LEMMA WorldStep ==
  ASSUME Inv, Base', UNCHANGED <<work, dialog, disk>>
  PROVE  Inv'
<1>1. work' = work /\ flight' = flight /\ dirs' = dirs /\ child' = child BY DEF dialog, disk
<1>2. Types' /\ FlightInv' BY <1>1 DEF Inv, Types, FlightInv
<1>3. \A w \in Workers : WorkerInv(work'[w], dirs'[w], child'[w]) BY <1>1 DEF Inv
<1>4. QED BY <1>2, <1>3 DEF Inv

LEMMA HappensStays ==
  ASSUME Inv, Happens
  PROVE  events' \in 0..MaxEvents
BY LaunchAssumption DEF Happens, Inv, Types, Base

LEMMA RowsShrink ==
  ASSUME NEW S, NEW s \in Seq(S), NEW k \in DOMAIN s
  PROVE  RemoveAt(s, k) \in Seq(S)
<1>1. k \in 1 .. Len(s) /\ Len(s) \in Nat BY LenProperties
<1>2. \A i \in 1 .. Len(s) : s[i] \in S BY ElementOfSeq
<1>3. SubSeq(s, 1, k - 1) \in Seq(S)
  <2>1. \A i \in 1 .. k - 1 : s[i] \in S BY <1>1, <1>2
  <2> QED BY <1>1, <2>1, SubSeqProperties
<1>4. SubSeq(s, k + 1, Len(s)) \in Seq(S)
  <2>1. \A i \in k + 1 .. Len(s) : s[i] \in S BY <1>1, <1>2
  <2> QED BY <1>1, <2>1, SubSeqProperties
<1>5. QED BY <1>3, <1>4, ConcatProperties DEF RemoveAt

LEMMA MoveInstallStep ==
  ASSUME Inv, Happens, NEW k \in DOMAIN rows, NEW path \in Absolute, MoveInstall(k, path)
  PROVE  Inv'
<1>1. rows \in Seq([id : Keyed, path : Paths]) /\ present \subseteq Paths /\ path \in Paths
  BY LaunchAssumption DEF Inv, Types, Base
<1>2. k \in 1 .. Len(rows) BY <1>1, LenProperties
<1>3. rows[k] \in [id : Keyed, path : Paths] BY <1>1, <1>2, ElementOfSeq
<1> DEFINE row == [rows[k] EXCEPT !.path = path]
<1>4. row \in [id : Keyed, path : Paths] BY <1>1, <1>3
<1>5. rows' = [rows EXCEPT ![k] = row] BY DEF MoveInstall
<1> HIDE DEF row
<1>6. rows' \in Seq([id : Keyed, path : Paths]) BY <1>1, <1>2, <1>4, <1>5, ExceptSeq
<1>7. present' \subseteq Paths BY <1>1 DEF MoveInstall
<1>8. UNCHANGED <<stored, opened, work, dialog, disk, ops>> BY DEF MoveInstall
<1>9. Base' BY <1>6, <1>7, <1>8, HappensStays DEF Inv, Types, Base, dialog
<1>10. QED BY <1>8, <1>9, WorldStep

LEMMA UninstallStep ==
  ASSUME Inv, Happens, NEW k \in DOMAIN rows, Uninstall(k)
  PROVE  Inv'
<1>1. rows \in Seq([id : Keyed, path : Paths]) /\ present \subseteq Paths
  BY DEF Inv, Types, Base
<1>2. rows' \in Seq([id : Keyed, path : Paths]) BY <1>1, RowsShrink DEF Uninstall
<1>3. present' \subseteq Paths BY <1>1 DEF Uninstall
<1>4. UNCHANGED <<stored, opened, work, dialog, disk, ops>> BY DEF Uninstall
<1>5. Base' BY <1>2, <1>3, <1>4, HappensStays DEF Inv, Types, Base, dialog
<1>6. QED BY <1>4, <1>5, WorldStep

LEMMA SwitchLibraryStep ==
  ASSUME Inv, Happens, NEW l \in Libraries \cup {None}, SwitchLibrary(l)
  PROVE  Inv'
<1>1. UNCHANGED <<stored, machine, work, dialog, disk, ops>> /\ opened' = l BY DEF SwitchLibrary
<1>2. Base' BY <1>1, HappensStays DEF Inv, Types, Base, machine, dialog
<1>3. QED BY <1>1, <1>2, WorldStep

(* Whatever a crash cuts short, its directory and its process are what they   *)
(* were.                                                                      *)
LEMMA CrashStep ==
  ASSUME Inv, Happens, Crash
  PROVE  Inv'
<1>1. /\ work \in [Workers -> Tasks] /\ dirs \in [Workers -> Dirs \cup {None}]
      /\ child \in [Workers -> Children \cup {None}]
  BY DEF Inv, Types
<1> DEFINE answer(w) == IF work[w].at = "idle" THEN work[w].answer ELSE "crashed"
           r(w) == [Idle EXCEPT !.answer = answer(w)]
           c(w) == IF child[w] # None THEN [child[w] EXCEPT !.watch = "gone"] ELSE None
<1>2. /\ work' = [w \in Workers |-> r(w)] /\ child' = [w \in Workers |-> c(w)]
      /\ dirs' = dirs /\ flight' = None /\ pickingFor' = None
      /\ UNCHANGED <<stored, machine, opened, ops>>
  BY DEF Crash
<1>3. Base' BY <1>2, HappensStays DEF Inv, Types, Base, machine
<1>4. ASSUME NEW w \in Workers
      PROVE  /\ r(w) \in Tasks /\ r(w).at = "idle" /\ c(w) \in Children \cup {None}
             /\ WorkerInv(r(w), dirs[w], c(w))
  <2> DEFINE t == work[w]
  <2>1. PICK d : d = dirs[w] OBVIOUS
  <2>2. PICK b : b = child[w] OBVIOUS
  <2>3. t \in Tasks /\ DirInv(t, d) /\ ChildInv(t, d, b) /\ b \in Children \cup {None}
    BY <1>1, <2>1, <2>2 DEF Inv, WorkerInv
  <2>4. PICK a : a = answer(w) OBVIOUS
  <2>5. a \in Answers \cup {None}
    <3>1. t.answer \in Answers \cup {None} BY <2>3 DEF Tasks
    <3> QED BY <2>4, <3>1 DEF Answers
  <2> DEFINE s == [Idle EXCEPT !.answer = a]
             e == [b EXCEPT !.watch = "gone"]
  <2>6. s \in Tasks /\ TaskInv(s) /\ s.at = "idle" /\ s.answer = a BY <2>5, Ended
  <2>7. r(w) = s /\ c(w) = IF b # None THEN e ELSE None BY <2>2, <2>4
  <2>8. a = IF t.at = "idle" THEN t.answer ELSE "crashed" BY <2>4
  <2> HIDE DEF s, t, r, c, answer
  <2>9. DirInv(s, d) BY <2>3, <2>6, <2>8 DEF DirInv, Copied
  <2>10. CASE b = None
    <3>1. c(w) = None BY <2>7, <2>10
    <3>2. ChildInv(s, d, None) BY <2>6 DEF ChildInv
    <3> QED BY <2>1, <2>6, <2>7, <2>9, <3>1, <3>2 DEF WorkerInv
  <2>11. CASE b # None
    <3>1. b \in Children /\ Started(b) /\ Told(b) /\ t.at \in {"idle", "launched"}
          /\ (~b.plan.inPlace /\ (t.at = "launched" \/ t.answer # "failed") =>
                Explains(d, b.slicer))
      BY <2>3, <2>11 DEF ChildInv
    <3>2. e \in Children /\ SameStart(e, b) /\ e.told = b.told /\ e.watch = "gone"
      <4>1. e \in Children BY <3>1, SetWatch
      <4>2. SameStart(e, b) /\ e.told = b.told /\ e.watch = "gone"
        BY <3>1 DEF SameStart, Children
      <4> QED BY <4>1, <4>2
    <3> HIDE DEF e
    <3>3. Told(e) BY <3>1, <3>2 DEF Told
    <3>4. Started(e) BY <3>1, <3>2 DEF Started, SameStart
    <3>5. ~e.plan.inPlace /\ s.answer # "failed" => Explains(d, e.slicer)
      BY <2>6, <2>8, <3>1, <3>2 DEF SameStart
    <3>6. ChildInv(s, d, e) BY <2>6, <3>2, <3>3, <3>4, <3>5 DEF ChildInv
    <3>7. c(w) = e BY <2>7, <2>11
    <3> QED BY <2>1, <2>6, <2>7, <2>9, <3>2, <3>6, <3>7 DEF WorkerInv
  <2> QED BY <2>10, <2>11
<1> HIDE DEF r, c
<1>5. Types' BY <1>1, <1>2, <1>3, <1>4 DEF Types
<1>6. FlightInv' BY <1>2, <1>4 DEF FlightInv
<1>7. \A w \in Workers : WorkerInv(work'[w], dirs'[w], child'[w]) BY <1>2, <1>4
<1>8. QED BY <1>5, <1>6, <1>7 DEF Inv

-----------------------------------------------------------------------------
(* The invariant.                                                             *)

LEMMA InitInv == Init => Inv
<1> SUFFICES ASSUME Init PROVE Inv OBVIOUS
<1>1. Base
  <2>1. PICK m \in Machines : rows = m.rows /\ present = m.present BY DEF Init
  <2>2. rows \in Seq([id : Keyed, path : Paths]) /\ present \subseteq Paths
    BY <2>1, StartAssumption
  <2>3. stored \in Stores /\ stored \in Stored BY StartAssumption DEF Init
  <2> QED BY <2>2, <2>3, LaunchAssumption DEF Init, Base
<1>2. Idle \in Tasks /\ TaskInv(Idle) /\ Idle.at = "idle"
  <2>1. Idle \in Tasks BY IdleTask
  <2>2. Idle.op = "idle" /\ Idle.at = "idle" /\ Idle.file = None BY DEF Idle
  <2>3. TaskInv(Idle)
    BY <2>2 DEF TaskInv, EditInv, OpenInv, Opening, Sourced, Chosen, Vetted, Prepared, Copied
  <2> QED BY <2>1, <2>2, <2>3
<1>3. WorkerInv(Idle, None, None) BY <1>2 DEF WorkerInv, DirInv, ChildInv, Copied
<1>4. \A w \in Workers : work[w] = Idle /\ dirs[w] = None /\ child[w] = None BY DEF Init
<1>5. Types BY <1>1, <1>2 DEF Init, Types
<1>6. FlightInv BY <1>2, <1>4 DEF FlightInv
<1>7. QED BY <1>3, <1>4, <1>5, <1>6 DEF Inv

LEMMA NextInv == Inv /\ [Next]_vars => Inv'
<1> SUFFICES ASSUME Inv, [Next]_vars PROVE Inv' OBVIOUS
<1>1. ASSUME NEW w \in Workers, Steps(w) PROVE Inv'
  <2>1. CASE Load(w) \/ Detect(w) \/ Save(w) BY <2>1, LoadStep, DetectStep, SaveStep
  <2>2. CASE ClaimDialog(w) \/ RunDialog(w) \/ AnswerDialog(w)
    BY <2>2, ClaimDialogStep, RunDialogStep, AnswerDialogStep
  <2>3. CASE SaveManual(w) \/ Unclaim(w) \/ LandDialog(w)
    BY <2>3, SaveManualStep, UnclaimStep, LandDialogStep
  <2>4. CASE ReadMode(w) \/ FindSource(w) \/ ChooseInstall(w)
    BY <2>4, ReadModeStep, FindSourceStep, ChooseInstallStep
  <2>5. CASE Resolve(w) \/ Redetect(w) \/ Rewrite(w) \/ ReadKey(w)
    BY <2>5, ResolveStep, RedetectStep, RewriteStep, ReadKeyStep
  <2>6. CASE Prepare(w) \/ Download(w) \/ DownloadEnds(w)
    BY <2>6, PrepareStep, DownloadStep, DownloadEndsStep
  <2>7. CASE MakeCopy(w) \/ WriteRecord(w) \/ Spawn(w) \/ OnLaunched(w)
    BY <2>7, MakeCopyStep, WriteRecordStep, SpawnStep, OnLaunchedStep
  <2> QED BY <1>1, <2>1, <2>2, <2>3, <2>4, <2>5, <2>6, <2>7 DEF Steps
<1>2. CASE World
  BY <1>2, MoveInstallStep, UninstallStep, SwitchLibraryStep, CrashStep DEF World
<1>3. CASE UNCHANGED vars
  <2>1. Base' /\ UNCHANGED <<work, dialog, disk>>
    BY <1>3 DEF vars, machine, dialog, disk, Inv, Types, Base
  <2> QED BY <2>1, WorldStep
<1>4. QED BY <1>1, <1>2, <1>3, StartsStep, ChildExitsStep DEF Next

(* At every stage of every command: what it has decided, what its directory   *)
(* holds, what its process was started with and who watches it.               *)
THEOREM InvAlways == Spec => []Inv
<1>1. QED BY InitInv, NextInv, PTL DEF Spec

-----------------------------------------------------------------------------
(* What the invariant says of a state.                                        *)

LEMMA InvTypes == Inv => TypeOK
<1> SUFFICES ASSUME Inv PROVE TypeOK OBVIOUS
<1>1. /\ stored.state \in {"absent", "garbage", "newer", "v1"}
      /\ stored.bind \in Binds /\ stored.default \in Slicers \cup {None}
  <2>1. stored \in Stores BY DEF Inv, Types, Base
  <2> QED BY <2>1 DEF Stores
<1>2. ASSUME NEW w \in Workers
      PROVE  /\ work[w].at = "idle" => work[w].op = "idle" /\ work[w].file = None
             /\ dirs[w] # None => dirs[w].holds \in {"nothing", "part", "download", "copy"}
             /\ child[w] # None => child[w].install \in Installs /\ child[w].path \in Paths
  <2>1. dirs[w] \in Dirs \cup {None} /\ child[w] \in Children \cup {None} BY DEF Inv, Types
  <2>2. TaskInv(work[w]) BY AnyTask
  <2>3. dirs[w] # None => dirs[w].holds \in {"nothing", "part", "download", "copy"}
    BY <2>1 DEF Dirs
  <2>4. child[w] # None => child[w].install \in Installs /\ child[w].path \in Paths
    BY <2>1 DEF Children
  <2> QED BY <2>2, <2>3, <2>4 DEF TaskInv
<1>3. flight # None => flight.leader \in Workers BY DEF Inv, Types, Base
<1>4. QED BY <1>1, <1>2, <1>3 DEF Inv, Types, Base, TypeOK, Rows

LEMMA InvSound == Inv => LaunchIsSound
<1> SUFFICES ASSUME Inv PROVE LaunchIsSound OBVIOUS
<1>1. TypeOK BY InvTypes
<1>2. ASSUME NEW w \in Workers, child[w] # None
      PROVE  /\ Started(child[w]) /\ Told(child[w]) /\ work[w].at \in {"idle", "launched"}
             /\ ~child[w].plan.inPlace /\ (work[w].at = "launched" \/ work[w].answer # "failed")
                  => Explains(dirs[w], child[w].slicer)
             /\ work[w].at = "idle" /\ work[w].answer = "launched" /\ dirs[w] # None
                  => child[w].watch # "none"
  BY <1>2 DEF Inv, WorkerInv, ChildInv
<1>3. SpawnIsVetted BY <1>2 DEF SpawnIsVetted, Started
<1>4. OriginalIsKept BY <1>2 DEF OriginalIsKept, Started
<1>5. DiscardIsWarned BY <1>2 DEF DiscardIsWarned, Started
<1>6. LaunchIsExplained
  <2>1. ASSUME NEW w \in Workers, child[w] # None, ~child[w].plan.inPlace,
               work[w].answer # "failed"
        PROVE  Explains(dirs[w], child[w].slicer)
    BY <1>2, <2>1
  <2>2. ASSUME NEW w \in Workers, work[w].at = "idle", dirs[w] # None
        PROVE  work[w].answer \in {"launched", "crashed"}
               \/ (work[w].answer = "unrecorded" /\ dirs[w].record = None)
    BY <2>2 DEF Inv, WorkerInv, DirInv
  <2> QED BY <2>1, <2>2 DEF LaunchIsExplained, Explains
<1>7. ExitIsToldOnce
  <2>1. ASSUME NEW w \in Workers, child[w] # None
        PROVE  /\ child[w].told <= 1
               /\ child[w].exited /\ work[w].answer = "launched" /\ dirs[w] # None
                    /\ child[w].watch # "gone" => child[w].told = 1
    <3> DEFINE t == work[w]
               c == child[w]
    <3>1. c.told <= 1 BY <1>2, <2>1 DEF Told
    <3>2. ASSUME c.exited, t.answer = "launched", dirs[w] # None, c.watch # "gone"
          PROVE  c.told = 1
      <4>1. t.at = "idle"
        <5>1. TaskInv(t) /\ t.at \in {"idle", "launched"} BY <1>2, <2>1, AnyTask
        <5>2. ASSUME t.at = "launched" PROVE FALSE
          <6>1. t.answer = None
            BY <5>1, <5>2 DEF TaskInv, OpenInv, Opening, Sourced, Chosen, Vetted, Prepared
          <6> QED BY <3>2, <6>1, NoneAssumption DEF Answers
        <5> QED BY <5>1, <5>2
      <4>2. c.watch # "none" BY <1>2, <2>1, <3>2, <4>1
      <4>3. c.watch \in {"none", "set", "done", "gone"}
        BY <2>1 DEF Inv, Types, Children
      <4>4. c.watch = "done" BY <1>2, <2>1, <3>2, <4>2, <4>3 DEF Told
      <4> QED BY <1>2, <2>1, <4>4 DEF Told
    <3> QED BY <3>1, <3>2
  <2> QED BY <2>1 DEF ExitIsToldOnce
<1>8. QED BY <1>1, <1>3, <1>4, <1>5, <1>6, <1>7 DEF LaunchIsSound

-----------------------------------------------------------------------------
(* What a step writes into slicers.json.                                      *)

(* A configuration that keeps what the user chose in another.                 *)
Keeps(old, new, op) ==
  /\ \A s \in DOMAIN old.bind : s \in DOMAIN new.bind /\ new.bind[s] = old.bind[s]
  /\ DOMAIN old.rows \subseteq DOMAIN new.rows
  /\ new.default = old.default
  /\ \A i \in Manual \cap DOMAIN old.rows :
       new.rows[i].hint = old.rows[i].hint /\ (new.rows[i] = old.rows[i] \/ op = "open")

(* What worker w writes, and over what it had loaded.                         *)
Writes(w) ==
  /\ \A v \in Workers \ {w} : work'[v] = work[v]
  /\ \E c \in Configs :
       /\ stored' = Written(c)
       /\ work[w].op \in {"scan", "add", "open"} => Keeps(work[w].read.config, c, work[w].op)

LEMMA SaveWrites ==
  ASSUME Inv, NEW w \in Workers, Save(w), stored' # stored
  PROVE  Writes(w)
<1> DEFINE t == work[w]
<1>1. t \in Tasks /\ TaskInv(t) /\ work \in [Workers -> Tasks] BY AnyTask
<1>2. t.at = "save" /\ t.op # "add" BY DEF Save
<1>3. t.op # "open"
  BY <1>1, <1>2 DEF TaskInv, OpenInv, Opening, Sourced, Chosen, Vetted, Prepared, Copied
<1>4. \A v \in Workers \ {w} : work'[v] = work[v] BY <1>1 DEF Save, Finish
<1>5. CASE t.op = "reset"
  <2>1. stored' = Written(Empty) BY <1>5 DEF Save, Fresh
  <2> QED BY <1>4, <1>5, <2>1, EmptyIsAConfig DEF Writes
<1>6. CASE t.op # "reset"
  <2>1. t.read.writable /\ ~Edited(w).refused /\ stored' = Written(Edited(w).config)
    BY <1>6 DEF Save
  <2>2. Edited(w).config \in Configs BY <1>1, <1>2, <1>6, <2>1, EditedIsAConfig
  <2>3. CASE t.op = "scan"
    <3>1. t.read \in Reads /\ t.found \in Findings BY <1>1, <1>2, <2>1, <2>3 DEF TaskInv, EditInv
    <3>2. t.read.config \in Configs BY <3>1 DEF Reads
    <3>3. Edited(w).config = MergeDetected(t.read.config, t.found) BY <2>3 DEF Edited
    <3>4. PICK c : c = MergeDetected(t.read.config, t.found) OBVIOUS
    <3>5. Keeps(t.read.config, c, t.op) BY <3>1, <3>2, <3>4, MergeIsAConfig DEF Keeps
    <3> QED BY <1>4, <2>1, <2>2, <3>3, <3>4, <3>5 DEF Writes
  <2>4. CASE t.op # "scan" BY <1>2, <1>3, <1>4, <2>1, <2>2, <2>4 DEF Writes
  <2> QED BY <2>3, <2>4
<1>7. QED BY <1>5, <1>6

LEMMA SaveManualWrites ==
  ASSUME Inv, NEW w \in Workers, SaveManual(w), stored' # stored
  PROVE  Writes(w)
<1> DEFINE t == work[w]
<1>1. t \in Tasks /\ TaskInv(t) /\ work \in [Workers -> Tasks] BY AnyTask
<1>2. t.op = "add" /\ t.at = "save" BY DEF SaveManual, At
<1>3. \A v \in Workers \ {w} : work'[v] = work[v] BY <1>1 DEF SaveManual
<1>4. t.read \in Reads /\ t.path \in Paths BY <1>1, <1>2 DEF TaskInv, EditInv
<1>5. t.read.config \in Configs BY <1>4 DEF Reads
<1>6. PICK i \in NewIds(t) : stored' = Written(WithManual(t.read.config, i, t.path))
  BY DEF SaveManual
<1>7. i \in Manual /\ i \notin DOMAIN t.read.config.rows BY <1>6 DEF NewIds
<1>8. PICK c : c = WithManual(t.read.config, i, t.path) OBVIOUS
<1> DEFINE old == t.read.config
<1>9. c \in Configs /\ Keeps(old, c, t.op)
  <2>1. old \in Configs /\ t.path \in Paths BY <1>4, <1>5
  <2> HIDE DEF old, t
  <2> QED BY <1>7, <1>8, <2>1, WithManualIsAConfig DEF Keeps, old
<1>10. QED BY <1>3, <1>6, <1>8, <1>9 DEF Writes

LEMMA RewriteWrites ==
  ASSUME Inv, NEW w \in Workers, Rewrite(w), stored' # stored
  PROVE  Writes(w)
<1> DEFINE t == work[w]
           old == t.read.config
           i == t.install
<1>1. t \in Tasks /\ work \in [Workers -> Tasks] BY AnyTask
<1>2. t.op = "open" /\ t.read.writable BY DEF Rewrite, At
<1>3. \A v \in Workers \ {w} : work'[v] = work[v] BY <1>1 DEF Rewrite, Finish
<1>4. old \in Configs /\ i \in DOMAIN old.rows BY <1>2, RewrittenIsAConfig
<1>5. PICK row \in [hint : Paths, missing : BOOLEAN] :
        /\ stored' = Written(Resolved(old, i, row))
        /\ i \in Manual => row.hint = old.rows[i].hint
  BY <1>2, RewrittenIsAConfig
<1>6. PICK c : c = Resolved(old, i, row) OBVIOUS
<1>7. /\ c \in Configs /\ c.default = old.default /\ c.bind = old.bind
      /\ DOMAIN c.rows = DOMAIN old.rows /\ c.rows[i] = row
      /\ \A j \in DOMAIN old.rows \ {i} : c.rows[j] = old.rows[j]
  BY <1>4, <1>6, ResolvedIsAConfig
<1> HIDE DEF old, i
<1>8. Keeps(old, c, t.op) BY <1>2, <1>4, <1>5, <1>7 DEF Keeps
<1>9. QED BY <1>3, <1>5, <1>6, <1>7, <1>8 DEF Writes, old

(* No other step writes it.                                                   *)
LEMMA OnlyWritersWrite ==
  ASSUME [Next]_vars, stored' # stored
  PROVE  \E w \in Workers : Save(w) \/ SaveManual(w) \/ Rewrite(w)
<1>1. ASSUME NEW w \in Workers, Starts(w) PROVE stored' = stored
  BY <1>1 DEF Starts, BeginEdit, BeginAdd, BeginLaunch, Begin
<1>2. ASSUME NEW w \in Workers, Steps(w), ~(Save(w) \/ SaveManual(w) \/ Rewrite(w))
      PROVE  stored' = stored
  <2>1. CASE Load(w) \/ Detect(w) \/ ClaimDialog(w) \/ RunDialog(w) \/ AnswerDialog(w)
             \/ Unclaim(w) \/ LandDialog(w)
    BY <2>1 DEF Load, Detect, ClaimDialog, RunDialog, AnswerDialog, Unclaim, LandDialog
  <2>2. CASE ReadMode(w) \/ FindSource(w) \/ ChooseInstall(w) \/ Resolve(w) \/ Redetect(w)
             \/ ReadKey(w)
    BY <2>2 DEF ReadMode, FindSource, ChooseInstall, Resolve, Redetect, ReadKey
  <2>3. CASE Prepare(w) \/ Download(w) \/ DownloadEnds(w) \/ MakeCopy(w) \/ WriteRecord(w)
             \/ Spawn(w) \/ OnLaunched(w)
    BY <2>3 DEF Prepare, Download, DownloadEnds, MakeCopy, WriteRecord, Spawn, OnLaunched
  <2> QED BY <1>2, <2>1, <2>2, <2>3 DEF Steps
<1>3. ASSUME NEW w \in Workers, ChildExits(w) PROVE stored' = stored BY <1>3 DEF ChildExits
<1>4. ASSUME World PROVE stored' = stored
  BY <1>4 DEF World, Uninstall, MoveInstall, SwitchLibrary, Crash
<1>5. ASSUME UNCHANGED vars PROVE stored' = stored BY <1>5 DEF vars
<1>6. QED BY <1>1, <1>2, <1>3, <1>4, <1>5 DEF Next

LEMMA StepKeeps ==
  ASSUME Inv, [Next]_vars
  PROVE  ChoicesAreKept /\ WrittenReadsBack
<1>1. CASE stored' = stored BY <1>1 DEF ChoicesAreKept, WrittenReadsBack
<1>2. CASE stored' # stored
  <2>1. PICK w \in Workers : Save(w) \/ SaveManual(w) \/ Rewrite(w) BY <1>2, OnlyWritersWrite
  <2>2. Writes(w) BY <1>2, <2>1, SaveWrites, SaveManualWrites, RewriteWrites
  <2>3. PICK c \in Configs :
          /\ stored' = Written(c)
          /\ work[w].op \in {"scan", "add", "open"} => Keeps(work[w].read.config, c, work[w].op)
    BY <2>2 DEF Writes
  <2>4. ReadConfig(stored') = [writable |-> TRUE, config |-> c] BY <2>3, WrittenReads
  <2>5. PICK old : old = ReadConfig(stored).config OBVIOUS
  <2>6. ASSUME NEW v \in Workers, work'[v] # work[v], work[v].op \in {"scan", "add", "open"},
               work[v].read = ReadConfig(stored)
        PROVE  Keeps(old, c, work[v].op)
    <3>1. v = w BY <2>2, <2>6 DEF Writes
    <3>2. work[w].read.config = old BY <2>5, <2>6, <3>1
    <3> QED BY <2>3, <2>6, <3>1, <3>2
  <2>7. ChoicesAreKept
    <3>1. ReadConfig(stored').config = c BY <2>4
    <3> HIDE DEF ReadConfig
    <3> QED BY <2>5, <2>6, <3>1 DEF ChoicesAreKept, Keeps
  <2>8. WrittenReadsBack
    <3>1. /\ stored'.rows = c.rows /\ stored'.bind = c.bind /\ stored'.default = c.default
      BY <2>3 DEF Written
    <3>2. c = [rows |-> c.rows, bind |-> c.bind, default |-> c.default] BY ConfigElim
    <3> QED BY <2>4, <3>1, <3>2 DEF WrittenReadsBack
  <2> QED BY <2>7, <2>8
<1>3. QED BY <1>1, <1>2

-----------------------------------------------------------------------------
(* The theorems.                                                              *)

(* The variables have their types in every reachable state.                   *)
THEOREM TypeCorrect == Spec => []TypeOK
<1>1. QED BY InvAlways, InvTypes, PTL

(* However launches, edits and crashes interleave, what is spawned is what    *)
(* the user chose, a launch with a copy has the record that explains it, the  *)
(* library's own file is handed over only where it may be, a loss is          *)
(* announced, and an exit is told once.                                       *)
THEOREM LaunchIsSoundAlways == Spec => []LaunchIsSound
<1>1. QED BY InvAlways, InvSound, PTL

(* Over the configuration it loaded, no step re-points a binding, forgets an  *)
(* install or touches what was added by hand, and what it writes is read back *)
(* as it was written.                                                         *)
THEOREM ConfigIsKeptAlways == Spec => ConfigIsKept
<1>1. Inv /\ [Next]_vars => [ChoicesAreKept /\ WrittenReadsBack]_vars BY StepKeeps
<1>2. QED BY <1>1, InvAlways, PTL DEF Spec, ConfigIsKept
=============================================================================
