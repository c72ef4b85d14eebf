------------------------------- MODULE Startup -------------------------------
(***************************************************************************)
(* Opening one library by several processes: the migrations of             *)
(* db/migrate.rs, the first user of users/bootstrap.rs, and the life of a  *)
(* server around them (serve.rs, main.rs), from the first statement to the *)
(* exit that does not wait for a pass of the preview queue.                *)
(*                                                                         *)
(* The database is SQLite with a rollback journal: a transaction takes the *)
(* write lock at its first writing statement, its effects are seen by      *)
(* others when it commits, and a crash undoes what was not committed.      *)
(***************************************************************************)
EXTENDS Naturals, FiniteSets

CONSTANTS
    Procs,          \* the processes that open the library
    Servers,        \* those of them that are spm-server; the others are desktop apps
    Builds,         \* Builds[p]: how many migrations the build of p knows
    Port,           \* Port[p]: where the server p listens
    Patient,        \* whether every wait for the lock ends before the busy timeout
    MaxCrashes,     \* bounds how often processes die
    None

(* What the constants are: MCStartup assumes it of its instance.          *)
StartupAssumption ==
    /\ Servers \subseteq Procs
    /\ Builds \in [Procs -> Nat]
    /\ Patient \in BOOLEAN
    /\ MaxCrashes \in Nat
    /\ None \notin Procs

VARIABLES
    version,    \* PRAGMA user_version, as committed
    applied,    \* the migrations whose schema is in the database, as committed
    writer,     \* the process that holds the write lock, or None
    draft,      \* what the transaction of the writer has done so far
    users,      \* the rows of the users table, by username
    at,         \* where each process is
    seen,       \* the local `version` of run_migrations
    empty,      \* whether the process counted no users
    why,        \* why the last start of a process failed
    told,       \* the processes that printed an activation link
    pass,       \* the preview pass of a server
    crashes

vars == <<version, applied, writer, draft, users, at, seen, empty, why, told, pass, crashes>>
db == <<version, applied, writer, draft>>
run == <<told, pass, crashes>>

NoDraft == [version |-> 0, applied |-> {}]

Init ==
    /\ version = 0 /\ applied = {} /\ writer = None /\ draft = NoDraft
    /\ users = {}
    /\ at = [p \in Procs |-> "off"]
    /\ seen = [p \in Procs |-> 0]
    /\ empty = [p \in Procs |-> FALSE]
    /\ why = [p \in Procs |-> None]
    /\ told = {}
    /\ pass = [p \in Procs |-> "none"]
    /\ crashes = 0

-----------------------------------------------------------------------------
(* Library::open.                                                          *)

Goto(p, place) == at' = [at EXCEPT ![p] = place]

Fail(p, reason) == Goto(p, "failed") /\ why' = [why EXCEPT ![p] = reason]

\* The folder is made and the connection opened; neither writes to the database.
Start(p) ==
    /\ at[p] \in {"off", "failed"}
    /\ Goto(p, "opening")
    /\ why' = [why EXCEPT ![p] = None]
    /\ UNCHANGED <<db, users, seen, empty, run>>

\* The version is read before, and outside, every transaction below.
ReadVersion(p) ==
    /\ at[p] = "opening"
    /\ Goto(p, "migrating")
    /\ seen' = [seen EXCEPT ![p] = version]
    /\ UNCHANGED <<db, users, empty, why, run>>

\* `if number <= version { continue; }` over MIGRATIONS, which are numbered in order.
Due(p) == {n \in 1 .. Builds[p] : n > seen[p]}

NextDue(p) == seen[p] + 1

\* A bug: the schema is written outside the transaction.
ApplyOutside(p) ==
    /\ at[p] = "migrating" /\ Due(p) # {} /\ writer = None
    /\ IF NextDue(p) \in applied
       THEN Fail(p, "exists") /\ UNCHANGED <<applied, writer, draft>>
       ELSE /\ Goto(p, "applied")
            /\ writer' = p
            /\ applied' = applied \union {NextDue(p)}
            /\ draft' = [version |-> version, applied |-> applied']
            /\ UNCHANGED why
    /\ UNCHANGED <<version, users, seen, empty, run>>

\* BEGIN, and the first statement of the migration: it waits for the lock. Its
\* CREATE or ALTER fails, and is rolled back, when that schema is there already.
Apply(p) ==
    /\ at[p] = "migrating" /\ Due(p) # {} /\ writer = None
    /\ IF NextDue(p) \in applied
       THEN Fail(p, "exists") /\ UNCHANGED <<writer, draft>>
       ELSE /\ Goto(p, "applied")
            /\ writer' = p
            /\ draft' = [version |-> version, applied |-> applied \union {NextDue(p)}]
            /\ UNCHANGED why
    /\ UNCHANGED <<version, applied, users, seen, empty, run>>

\* PRAGMA user_version = number, in the same transaction.
Stamp(p) ==
    /\ at[p] = "applied"
    /\ Goto(p, "stamped")
    /\ draft' = [draft EXCEPT !.version = NextDue(p)]
    /\ UNCHANGED <<version, applied, writer, users, seen, empty, why, run>>

Commit(p) ==
    /\ at[p] = "stamped"
    /\ Goto(p, "migrating")
    /\ version' = draft.version /\ applied' = draft.applied
    /\ writer' = None /\ draft' = NoDraft
    /\ seen' = [seen EXCEPT ![p] = NextDue(p)]
    /\ UNCHANGED <<users, empty, why, run>>

Migrated(p) ==
    /\ at[p] = "migrating" /\ Due(p) = {}
    /\ Goto(p, "open")
    /\ UNCHANGED <<db, users, seen, empty, why, run>>

\* busy_timeout: the lock was held for all of it.
Busy(p) ==
    /\ ~Patient
    /\ \/ at[p] = "migrating" /\ Due(p) # {}
       \/ at[p] = "open"
    /\ writer \notin {None, p}
    /\ Fail(p, "busy")
    /\ UNCHANGED <<db, users, seen, empty, run>>

\* COMMIT waits for the readers of other processes; when it may not, the
\* connection is dropped and its transaction with it.
CommitFails(p) ==
    /\ ~Patient
    /\ at[p] = "stamped" \/ (at[p] = "counted" /\ empty[p])
    /\ Fail(p, "busy")
    /\ writer' = None /\ draft' = NoDraft
    /\ UNCHANGED <<version, applied, users, seen, empty, run>>

\* A statement of the transaction fails, or making the first user's folder does
\* (the disk is full, the folder may not be written): it is rolled back.
StatementFails(p) ==
    /\ at[p] = "applied" \/ (at[p] = "counted" /\ empty[p])
    /\ Fail(p, "disk")
    /\ writer' = None /\ draft' = NoDraft
    /\ UNCHANGED <<version, applied, users, seen, empty, run>>

-----------------------------------------------------------------------------
(* The first user: ensure_bootstrap_admin_at for a server,                 *)
(* ensure_local_user_at for a desktop app. BEGIN IMMEDIATE takes the lock  *)
(* before the rows are counted.                                            *)

FirstUser(p) == IF p \in Servers THEN "admin" ELSE "local"

CountUsers(p) ==
    /\ at[p] = "open" /\ writer = None
    /\ writer' = p
    /\ empty' = [empty EXCEPT ![p] = users = {}]
    /\ Goto(p, "counted")
    /\ UNCHANGED <<version, applied, draft, users, seen, why, run>>

\* The server prints the link of the administrator it made before anything else
\* happens; until it has, nobody knows it.
AddUser(p) ==
    /\ at[p] = "counted"
    /\ users' = IF empty[p] THEN users \union {FirstUser(p)} ELSE users
    /\ writer' = None
    /\ Goto(p, IF p \notin Servers THEN "ready" ELSE IF empty[p] THEN "telling" ELSE "binding")
    /\ UNCHANGED <<version, applied, draft, seen, empty, why, run>>

Announce(p) ==
    /\ at[p] = "telling"
    /\ told' = told \union {p}
    /\ Goto(p, "binding")
    /\ UNCHANGED <<db, users, seen, empty, why, pass, crashes>>

-----------------------------------------------------------------------------
(* The life of a server: serve_on, run, run_passes and main's serve.       *)

Listening(q) == at[q] \in {"serving", "draining"}

\* The tasks start with the listener; the first pass is one interval away.
Bind(p) ==
    /\ at[p] = "binding"
    /\ IF \E q \in Servers \ {p} : Port[q] = Port[p] /\ Listening(q)
       THEN Fail(p, "port") /\ UNCHANGED pass
       ELSE /\ Goto(p, "serving") /\ UNCHANGED why
            /\ pass' = [pass EXCEPT ![p] = "idle"]
    /\ UNCHANGED <<db, users, seen, empty, told, crashes>>

\* The passes go on while the in-flight requests drain.
Tick(p) ==
    /\ Listening(p) /\ pass[p] = "idle"
    /\ pass' = [pass EXCEPT ![p] = "running"]
    /\ UNCHANGED <<db, users, at, seen, empty, why, told, crashes>>

\* A bug: a panic ends the loop.
AfterPassUnlessPanic(how) == IF how = "panic" THEN "gone" ELSE "idle"

\* However a pass ended, the loop carries on.
AfterPass(how) == "idle"

PassEnds(p) ==
    /\ pass[p] = "running"
    /\ \E how \in {"ok", "error", "panic"} : pass' = [pass EXCEPT ![p] = AfterPass(how)]
    /\ UNCHANGED <<db, users, at, seen, empty, why, told, crashes>>

Stop(p) ==
    /\ at[p] = "serving"
    /\ Goto(p, "draining")
    /\ UNCHANGED <<db, users, seen, empty, why, run>>

\* The server has drained; the tasks are aborted, a pass on the blocking pool runs on.
Drained(p) ==
    /\ at[p] = "draining"
    /\ Goto(p, "leaving")
    /\ UNCHANGED <<db, users, seen, empty, why, run>>

\* shutdown_timeout: what still runs after it is cut off.
Exit(p) ==
    /\ at[p] = "leaving"
    /\ Goto(p, "off")
    /\ pass' = [pass EXCEPT ![p] = "none"]
    /\ UNCHANGED <<db, users, seen, empty, why, told, crashes>>

\* The app is closed; what it keeps while it runs is another module's.
Quit(p) ==
    /\ at[p] = "ready"
    /\ Goto(p, "off")
    /\ UNCHANGED <<db, users, seen, empty, why, run>>

\* A process dies: its transaction is undone and its lock released.
Crash(p) ==
    /\ at[p] \notin {"off", "failed"} /\ crashes < MaxCrashes
    /\ crashes' = crashes + 1
    /\ Goto(p, "off")
    /\ pass' = [pass EXCEPT ![p] = "none"]
    /\ IF writer = p THEN writer' = None /\ draft' = NoDraft ELSE UNCHANGED <<writer, draft>>
    /\ UNCHANGED <<version, applied, users, seen, empty, why, told>>

\* What a process does by itself once it was started.
Boot(p) ==
    \/ ReadVersion(p) \/ Apply(p) \/ Stamp(p) \/ Commit(p) \/ Migrated(p) \/ Busy(p)
    \/ CommitFails(p) \/ StatementFails(p)
    \/ CountUsers(p) \/ AddUser(p) \/ Announce(p) \/ Bind(p)

Next ==
    \E p \in Procs :
        \/ Boot(p) \/ Start(p) \/ Tick(p) \/ PassEnds(p)
        \/ Stop(p) \/ Drained(p) \/ Exit(p) \/ Quit(p) \/ Crash(p)

\* A started process is run, its timer fires and its requests end. Nothing is
\* assumed of a pass: a render may take for ever.
Fairness ==
    \A p \in Procs :
        /\ WF_vars(Boot(p)) /\ WF_vars(Tick(p))
        /\ WF_vars(Drained(p)) /\ WF_vars(Exit(p))

Spec == Init /\ [][Next]_vars /\ Fairness

-----------------------------------------------------------------------------
Places ==
    {"off", "failed", "opening", "migrating", "applied", "stamped", "open", "counted",
     "telling", "binding", "ready", "serving", "draining", "leaving"}

TypeOK ==
    /\ version \in Nat /\ applied \subseteq Nat
    /\ writer \in Procs \union {None}
    /\ draft \in [version : Nat, applied : SUBSET Nat]
    /\ users \subseteq {"admin", "local"}
    /\ at \in [Procs -> Places]
    /\ seen \in [Procs -> Nat]
    /\ empty \in [Procs -> BOOLEAN]
    /\ why \in [Procs -> {None, "exists", "busy", "disk", "port"}]
    /\ told \subseteq Servers
    /\ pass \in [Procs -> {"none", "idle", "running"}]
    /\ crashes \in 0 .. MaxCrashes

\* user_version says which schema the database has: after a crash between any two
\* statements, and whatever build touched it before.
VersionTellsSchema == applied = 1 .. version

\* A library that is open has every table its build will name.
Starting == {"off", "failed", "opening", "migrating", "applied", "stamped"}

OpenedIsMigrated ==
    \A p \in Procs : at[p] \notin Starting => 1 .. Builds[p] \subseteq applied

\* However many processes open a fresh library together, one of them makes its
\* first user, and one at most prints a link, which is the administrator's.
OneFirstUser ==
    /\ Cardinality(users) <= 1
    /\ Cardinality(told) <= 1
    /\ told # {} => "admin" \in users

LibraryIsSound == TypeOK /\ VersionTellsSchema /\ OpenedIsMigrated /\ OneFirstUser

\* A started process comes up or says why not; a serving one runs its passes,
\* however the last one ended; one told to stop is gone, even in mid-pass.
StartsAndStops ==
    \A p \in Procs :
        /\ at[p] = "opening" ~> at[p] \in {"off", "failed", "ready", "serving"}
        /\ at[p] = "serving" ~> (pass[p] = "running" \/ at[p] # "serving")
        /\ at[p] = "draining" ~> at[p] = "off"

\* open.rs on BUSY_TIMEOUT_MS: "One library file is opened by several processes at
\* once by design: the server, the desktop app and the CuraManager import." So a
\* library that another process is just opening opens too.
OpensTogether == \A p \in Procs : why[p] # "exists"
=============================================================================
