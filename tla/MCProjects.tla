------------------------------ MODULE MCProjects ------------------------------
(* Two requests at a time over two folder names of one suffix each.           *)
EXTENDS Projects, TLC

CONSTANTS p1, p2, p3, t1, t2

Side(ts, archived) == [tags |-> ts, website |-> "sidecar", archived |-> archived]
Entry(parts) == [parts |-> parts, folder |-> FALSE, corrupt |-> FALSE, sidecar |-> None]

\* A part that is no folder's name: a file.
File == 5

MCArchives == {
  \* one project inside a wrapping folder, and noise beside it
  <<[Entry(<<MacOsx, 10, File>>) EXCEPT !.corrupt = TRUE],
    [Entry(<<30, 10, File>>) EXCEPT !.sidecar = Side({t1}, TRUE)], Entry(<<30, 10, File, File>>),
    Entry(<<30, File>>)>>,
  \* two projects, the second of which is damaged
  <<Entry(<<10, File>>), [Entry(<<20, File>>) EXCEPT !.corrupt = TRUE]>>,
  \* a path that climbs is skipped, one that names a drive refuses the archive
  <<Entry(<<20, DotDot, File>>), Entry(<<10, Drive, File>>), Entry(<<20, File>>)>>,
  \* a folder that another upload also brings, with a sidecar
  <<[Entry(<<20, File>>) EXCEPT !.sidecar = Side({t2}, FALSE)], Entry(<<File>>)>> }

MCFlat == 10 :> Side({t1}, TRUE) @@ 20 :> None

Row(d, state, ts) == [dir |-> d, state |-> state, website |-> None, archived |-> FALSE, tags |-> ts]
Folder(sidecar) == [by |-> {User}, sidecar |-> sidecar]
Nothing == [d \in Places |-> None]
NoRows == [i \in Ids |-> None]

MCStarts == {
  [projects |-> NoRows, folders |-> Nothing, tags |-> {}],
  \* an edited project whose folder still has its sidecar, and one whose folder is away
  [projects |-> [NoRows EXCEPT ![p1] = Row(10, "ok", {t1}), ![p2] = Row(20, "missing", {})],
   folders |-> [Nothing EXCEPT ![10] = Folder(Side({t2}, FALSE))], tags |-> {t1}] }

Sym == Permutations(Workers)
=============================================================================
