SPECIFICATION Spec
CONSTANTS
  Threads = {t1, t2}
  Main = main
  Urls = {u}
  None = None
  MaxConcurrent = 1
  MaxStaged = 0
  MaxSingle = 1
  MaxSize = 2
  MaxDownloads = 2
  MaxViews = 1
  MaxCalls = 3
  MaxRestarts = 1
SYMMETRY Alike
INVARIANT BrowseIsSound
PROPERTY ParkedDownloadSurvives
CHECK_DEADLOCK FALSE
