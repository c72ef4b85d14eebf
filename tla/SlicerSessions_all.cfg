\* A tracked or left-over launch, one command at a time beside the timers.
SPECIFICATION Spec
CONSTANTS
  Timers = {timer}
  Commands = {c1}
  None = None
  MaxSaves = 1
  Contents <- MCContents
  Content <- MCContent
  Window = 1
  Ttl = 1
  MaxNow = 2
INVARIANT MemoryIsSound
PROPERTIES ComparedSavesSurvive SaveIsCompared
