\* Two threads: the shell over two folders and two servers, or the projects.
SPECIFICATION LibrariesSpec
CONSTANTS
  Callers = {c1, c2}
  Dirs = {d1, d2}
  Origins = {o1, o2}
  None = None
  Blank = Blank
  Torn = Torn
  MaxCalls = 2
  MaxFolders = 3
  MaxServers = 3
  MaxRestarts = 1
  p1 = p1  p2 = p2  p3 = p3  t1 = t1  t2 = t2
  Ids = {p1, p2, p3}
  Bases <- LibrariesBases
  Suffix = 2
  Tags = {t1, t2}
  Archives <- LibrariesArchives
  Flat <- LibrariesFlat
  Starts <- LibrariesStarts
  MaxOps = 2
  MaxEvents = 1
SYMMETRY Alike
INVARIANTS
  CallsAreSound
  ChoicesAreFollowed
  ProjectsAreShaped
PROPERTY FoldersAndRowsAgree
CHECK_DEADLOCK FALSE
