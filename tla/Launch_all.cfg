SPECIFICATION Spec
CONSTANTS
  Workers = {w1, w2}
  None = None
  Slicers <- MCSlicers
  Keyed <- MCKeyed
  Manual <- MCManual
  SlicerOf <- MCSlicerOf
  Paths <- MCPaths
  ExeOf <- MCExeOf
  Absolute <- MCPaths
  Files <- MCFiles
  Libraries <- MCLibraries
  IsServer <- MCIsServer
  Machines <- MCMachines
  Stored <- MCStored
  MaxOps = 2
  MaxEvents = 1
SYMMETRY Symmetric
 
PROPERTY ConfigIsKept
CHECK_DEADLOCK FALSE
