----------------------------- MODULE MCStartup -----------------------------
(* Two servers and a desktop app of an older build, all on one library.     *)
EXTENDS Startup

CONSTANTS s1, s2, app

ASSUME Instance == StartupAssumption

MCProcs == {s1, s2, app}
MCServers == {s1, s2}
MCBuilds == [p \in MCProcs |-> IF p = app THEN 1 ELSE 2]
MCPort == [p \in MCServers |-> IF p = s1 THEN 8000 ELSE 8001]
=============================================================================
