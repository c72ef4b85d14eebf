SPECIFICATION Spec
CONSTANTS
    s1 = s1
    s2 = s2
    app = app
    None = None
    Procs <- MCProcs
    Servers <- MCServers
    Builds <- MCBuilds
    Port <- MCPort
    Patient = FALSE
    MaxCrashes = 1
INVARIANTS LibraryIsSound
PROPERTIES StartsAndStops
