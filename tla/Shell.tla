-------------------------------- MODULE Shell --------------------------------
(* Which library the desktop app looks at: a local folder, a server, or none; *)
(* how calls of the window and of the menu change it, and what is written    *)
(* down for the next start.                                                  *)
(*                                                                           *)
(* Every call runs on a thread of its own.  Three questions (which mode,     *)
(* which folder, connect to this server?) are each asked by one thread at a  *)
(* time, and whoever asks meanwhile shares its answer.  The folders that get *)
(* opened are numbered, and so are the connections to servers.               *)
EXTENDS Naturals

CONSTANTS
  Callers,       \* the threads that may run a call at once
  Dirs, Origins, \* folders on this computer, servers
  None,
  Blank, Torn,   \* a file with nothing in it, and one that is not a document
  MaxCalls,      \* bound: calls made between two starts
  MaxFolders,    \* bound: folders opened
  MaxServers,    \* bound: connections made
  MaxRestarts    \* bound: restarts of the app

Questions == {"mode", "folder", "server"}
Folders == 1 .. MaxFolders
Servers == 1 .. MaxServers
Docs == [mode : {"local", "remote", None}, dir : Dirs \cup {None},
         origin : Origins \cup {None}]
Answers == Dirs \cup Origins \cup {"local", "remote", None}
Flights == [leader : Callers, ready : BOOLEAN, answer : Answers]
NoDoc == [mode |-> None, dir |-> None, origin |-> None]

(* What the constants are: MCShell assumes it of its instances.              *)
ShellAssumption ==
  /\ None \notin Callers \cup Dirs \cup Origins \cup Nat \cup Questions
                  \cup {"local", "remote", "temp", "target", "gone"} \cup Flights
  /\ {Blank, Torn} \cap Docs = {} /\ None \notin {Blank, Torn} /\ Blank # Torn
  /\ {MaxCalls, MaxRestarts} \subseteq Nat /\ {MaxFolders, MaxServers} \subseteq Nat \ {0}

VARIABLES
  flight,      \* SingleFlight.current of each question: None, or its leader and answer
  job,         \* job[c]: what caller c is doing
  current,     \* LibraryHost.current: the folder that is open
  folder,      \* folder[i]: its dir, generation, and how far it has come
  adopting,    \* the folders whose rescan thread still runs
  earlier,     \* earlier[i]: the release that the release of i waits for
  lastRelease,
  generation,
  remote,      \* Shell.remote: the connection in use
  server,      \* server[h]: its origin, and whether it is closed
  connectingTo,
  file,        \* state.json: a document, Blank or Torn
  temp,        \* the temporary file it is written through, or None
  handle,      \* handle[c]: the file behind the one caller c has open
  stale,       \* the page shows data of a library that no longer answers
  agreed,      \* servers the user, the environment or state.json has named
  alone,       \* since the start no call has overlapped another
  unwritten,   \* what is open was not to be written down, or could not be
  calls, starts

folderVars == <<current, folder, adopting, earlier, lastRelease, generation>>
serverVars == <<remote, server, connectingTo, agreed>>
fileVars == <<file, temp, handle, unwritten>>
tallyVars == <<alone, calls, starts>>
vars == <<flight, job, folderVars, serverVars, fileVars, stale, tallyVars>>

Idle == [at |-> "idle", call |-> None, asks |-> None, target |-> None,
         inst |-> None, was |-> None, answer |-> None, doc |-> None]
Unused == [dir |-> None, gen |-> 0, stage |-> "unused"]
NoServer == [origin |-> None, closed |-> TRUE]

At(c, stage) == job[c].at = stage
Go(c, stage) == job' = [job EXCEPT ![c].at = stage]
GoWith(c, stage, j) == job' = [job EXCEPT ![c] = [j EXCEPT !.at = stage]]
FreeFolders == {i \in Folders : folder[i].stage = "unused"}
FreeServers == {h \in Servers : server[h] = NoServer}
Least(S) == CHOOSE n \in S : \A m \in S : n <= m

-----------------------------------------------------------------------------
(* The start of the app.  The environment may name a folder or a server for  *)
(* this launch only; otherwise state.json decides.  Starting runs before any *)
(* call can be made.  A folder may be gone or refuse to open.                *)

ReadState(text) == IF text \in Docs THEN text ELSE NoDoc

RememberedMode(doc) ==
  IF doc.mode # None THEN doc.mode
  ELSE IF doc.dir # None THEN "local" ELSE None

ChosenTarget(doc, mode, target) ==
  IF mode = "local" THEN [doc EXCEPT !.dir = target] ELSE [doc EXCEPT !.origin = target]

Chosen(doc, mode, target) ==
  IF mode = "local" THEN [doc EXCEPT !.mode = mode, !.dir = target]
                    ELSE [doc EXCEPT !.mode = mode, !.origin = target]

Plan(doc) ==
  IF RememberedMode(doc) = "remote" /\ doc.origin # None
    THEN [dir |-> None, origin |-> doc.origin]
  ELSE IF RememberedMode(doc) = "local" /\ doc.dir # None
    THEN [dir |-> doc.dir, origin |-> None]
  ELSE [dir |-> None, origin |-> None]

Nothing == [dir |-> None, origin |-> None]
FromEnv == [dir : Dirs, origin : {None}] \cup [dir : {None}, origin : Origins]

Started(plan, remembered, text) ==
  /\ job' = [c \in Callers |-> Idle]
  /\ flight' = [q \in Questions |-> None]
  /\ folder' = [i \in Folders |->
       IF i = 1 /\ plan.dir # None
         THEN [dir |-> plan.dir, gen |-> 1, stage |-> "open"] ELSE Unused]
  /\ current' = IF plan.dir # None THEN 1 ELSE None
  /\ adopting' = IF plan.dir # None THEN {1} ELSE {}
  /\ earlier' = [i \in Folders |-> None] /\ lastRelease' = None
  /\ generation' = IF plan = Nothing THEN 0 ELSE 1
  /\ server' = [h \in Servers |->
       IF h = 1 /\ plan.origin # None
         THEN [origin |-> plan.origin, closed |-> FALSE] ELSE NoServer]
  /\ remote' = IF plan.origin # None THEN 1 ELSE None
  /\ agreed' = {plan.origin} \ {None}
  /\ connectingTo' = None
  /\ file' = IF remembered /\ plan.dir # None
               THEN Chosen(ReadState(text), "local", plan.dir) ELSE text
  /\ temp' = None /\ handle' = [c \in Callers |-> None]
  /\ unwritten' = ~remembered
  /\ stale' = FALSE /\ alone' = TRUE

(* The app ends at any moment, in order or not, and starts again.            *)
Start ==
  /\ starts <= MaxRestarts
  /\ starts' = starts + 1
  /\ LET remembered == Plan(ReadState(file))
     IN  \/ Started(remembered, TRUE, file)
         \/ remembered.dir # None /\ Started(Nothing, TRUE, file)
         \/ \E plan \in FromEnv : Started(plan, FALSE, file)
  /\ calls' = 0

(* Before the first start there is nothing but the file an earlier version   *)
(* or run left.                                                              *)
Init ==
  /\ file \in {NoDoc} \cup {[NoDoc EXCEPT !.dir = d] : d \in Dirs}
                      \cup {[mode |-> "remote", dir |-> d, origin |-> o] :
                              d \in Dirs, o \in Origins}
  /\ job = [c \in Callers |-> Idle] /\ flight = [q \in Questions |-> None]
  /\ folder = [i \in Folders |-> Unused] /\ current = None /\ adopting = {}
  /\ earlier = [i \in Folders |-> None] /\ lastRelease = None /\ generation = 0
  /\ server = [h \in Servers |-> NoServer] /\ remote = None
  /\ connectingTo = None /\ agreed = {}
  /\ temp = None /\ handle = [c \in Callers |-> None] /\ unwritten = FALSE
  /\ stale = FALSE /\ alone = TRUE /\ calls = 0 /\ starts = 0

-----------------------------------------------------------------------------
(* Calls, and the questions they share.                                      *)

Begin(c, call, target) ==
  /\ starts > 0 /\ calls < MaxCalls /\ At(c, "idle")
  /\ calls' = calls + 1
  /\ alone' = (alone /\ \A d \in Callers : job[d] = Idle)
  /\ job' = [job EXCEPT ![c] =
       [Idle EXCEPT !.at = "join", !.call = call, !.asks = call, !.target = target]]
  /\ UNCHANGED <<flight, folderVars, fileVars, stale, starts, remote, server, agreed>>

Choose(c) == Begin(c, "mode", None) /\ UNCHANGED connectingTo
Pick(c) == Begin(c, "folder", None) /\ UNCHANGED connectingTo

RemoteOrigin == IF remote = None THEN None ELSE server[remote].origin

(* Connecting to the server that is connected does nothing, and neither does *)
(* connecting to one while another one is being confirmed.                   *)
Connect(c) == \E origin \in Origins :
  /\ origin # RemoteOrigin
  /\ connectingTo \in {None, origin}
  /\ connectingTo' = origin
  /\ Begin(c, "server", origin)

(* What a caller goes on with once its question is answered.                 *)
AfterAnswer(j, answer) ==
  IF j.asks = "folder" /\ answer # None THEN [j EXCEPT !.at = "local", !.answer = answer]
  ELSE IF j.asks = "folder" /\ j.call = "mode"
    THEN [j EXCEPT !.at = "answer", !.asks = "mode", !.answer = "local"]
  ELSE Idle

Join(c) ==
  LET q == job[c].asks
      f == flight[q]
  IN
  /\ At(c, "join")
  /\ \/ /\ f = None
        /\ flight' = [flight EXCEPT ![q] = [leader |-> c, ready |-> FALSE, answer |-> None]]
        /\ Go(c, "ask")
     \/ /\ f # None /\ ~f.ready
        /\ Go(c, "wait")
        /\ UNCHANGED flight
     \/ /\ f # None /\ f.ready
        /\ job' = [job EXCEPT ![c] = AfterAnswer(job[c], f.answer)]
        /\ UNCHANGED flight
  /\ UNCHANGED <<folderVars, serverVars, fileVars, stale, tallyVars>>

(* The leader's answer goes to everyone who waits for it; then the flight is *)
(* cleared, and the leader goes on.                                          *)
Answer(c) ==
  LET q == job[c].asks
      answer == job[c].answer
  IN
  /\ At(c, "answer")
  /\ flight' = [flight EXCEPT ![q].ready = TRUE, ![q].answer = answer]
  /\ job' = [d \in Callers |->
       IF d = c THEN [job[c] EXCEPT !.at = "clear"]
       ELSE IF At(d, "wait") /\ job[d].asks = q THEN AfterAnswer(job[d], answer)
       ELSE job[d]]
  /\ UNCHANGED <<folderVars, serverVars, fileVars, stale, tallyVars>>

Clear(c) ==
  /\ At(c, "clear")
  /\ flight' = [flight EXCEPT ![job[c].asks] = None]
  /\ job' = [job EXCEPT ![c] = AfterAnswer(job[c], job[c].answer)]
  /\ UNCHANGED <<folderVars, serverVars, fileVars, stale, tallyVars>>

(* A dialog that panics takes its call with it, and the questions the call   *)
(* leads: whoever waits for one asks it again.                               *)
Led(c) == {q \in Questions : IF flight[q] = None THEN FALSE ELSE flight[q].leader = c}

PanicUnguarded(c) ==
  /\ At(c, "ask")
  /\ job' = [job EXCEPT ![c] = Idle]
  /\ UNCHANGED <<flight, folderVars, serverVars, fileVars, stale, tallyVars>>

Panic(c) ==
  /\ At(c, "ask")
  /\ flight' = [q \in Questions |-> IF q \in Led(c) THEN None ELSE flight[q]]
  /\ job' = [d \in Callers |->
       IF d = c THEN Idle
       ELSE IF At(d, "wait") /\ job[d].asks \in Led(c) THEN [job[d] EXCEPT !.at = "join"]
       ELSE job[d]]
  /\ UNCHANGED <<folderVars, serverVars, fileVars, stale, tallyVars>>

AskMode(c) ==
  /\ At(c, "ask") /\ job[c].asks = "mode"
  /\ \/ GoWith(c, "join", [job[c] EXCEPT !.asks = "folder"])
     \/ GoWith(c, "leave", [job[c] EXCEPT !.answer = "remote"])
     \/ GoWith(c, "answer", [job[c] EXCEPT !.answer = None])
  /\ UNCHANGED <<flight, folderVars, serverVars, fileVars, stale, tallyVars>>

AskFolder(c) ==
  /\ At(c, "ask") /\ job[c].asks = "folder"
  /\ \/ \E d \in Dirs : GoWith(c, "open", [job[c] EXCEPT !.target = d])
     \/ GoWith(c, "answer", [job[c] EXCEPT !.answer = None])
  /\ UNCHANGED <<flight, folderVars, serverVars, fileVars, stale, tallyVars>>

AskServer(c) ==
  /\ At(c, "ask") /\ job[c].asks = "server"
  /\ \/ /\ agreed' = agreed \cup {job[c].target}
        /\ GoWith(c, "adopt", [job[c] EXCEPT !.answer = job[c].target])
     \/ Go(c, "unpend") /\ UNCHANGED agreed
  /\ UNCHANGED <<flight, folderVars, remote, server, connectingTo, fileVars,
                 stale, tallyVars>>

-----------------------------------------------------------------------------
(* Opening a folder, and letting go of one.                                  *)

OpenDir == IF current = None THEN None ELSE folder[current].dir

Open(c) ==
  LET i == Least(FreeFolders)
      dir == job[c].target
      open == generation + 1
  IN
  /\ At(c, "open")
  /\ \/ /\ OpenDir = dir
        /\ GoWith(c, "answer", [job[c] EXCEPT !.answer = dir])
        /\ UNCHANGED <<generation, folder, adopting>>
     \/ /\ OpenDir # dir
        /\ GoWith(c, "answer", [job[c] EXCEPT !.answer = None])
        /\ UNCHANGED <<generation, folder, adopting>>
     \/ /\ OpenDir # dir /\ FreeFolders # {}
        /\ generation' = open
        /\ folder' = [folder EXCEPT ![i] = [dir |-> dir, gen |-> open, stage |-> "open"]]
        /\ adopting' = adopting \cup {i}
        /\ GoWith(c, "replace", [job[c] EXCEPT !.inst = i])
  /\ UNCHANGED <<flight, current, earlier, lastRelease, serverVars, fileVars,
                 stale, tallyVars>>

Replace(c) ==
  /\ At(c, "replace")
  /\ current' = job[c].inst
  /\ GoWith(c, IF current = None THEN "read" ELSE "release",
            [job[c] EXCEPT !.inst = current])
  /\ stale' = (stale \/ remote = None)
  /\ unwritten' = FALSE
  /\ UNCHANGED <<flight, folder, adopting, earlier, lastRelease, generation, serverVars,
                 file, temp, handle, tallyVars>>

ReleaseAlone(c) ==
  /\ At(c, "release")
  /\ folder' = [folder EXCEPT ![job[c].inst].stage = "released"]
  /\ lastRelease' = job[c].inst
  /\ Go(c, IF job[c].asks = "folder" THEN "read" ELSE "slot")
  /\ UNCHANGED <<flight, current, adopting, earlier, generation, serverVars, fileVars,
                 stale, tallyVars>>

(* The thread that closes the folder takes over, or cannot be started: then  *)
(* the folder is dropped where it is and counts as done at once, whatever    *)
(* still goes on of the releases before it.                                  *)
Release(c) ==
  LET i == job[c].inst IN
  /\ At(c, "release")
  /\ \E stage \in {"released", "dropped"} : folder' = [folder EXCEPT ![i].stage = stage]
  /\ earlier' = [earlier EXCEPT ![i] = lastRelease]
  /\ lastRelease' = i
  /\ Go(c, IF job[c].asks = "folder" THEN "read" ELSE "slot")
  /\ UNCHANGED <<flight, current, adopting, generation, serverVars, fileVars, stale,
                 tallyVars>>

Done(i) == IF i = None THEN TRUE ELSE folder[i].stage \in {"closed", "dropped"}

(* The release thread: the previews are stopped, the rescan and the earlier  *)
(* release waited for, and the database is closed.                           *)
CloseFolder(i) ==
  /\ folder[i].stage = "released"
  /\ i \notin adopting
  /\ Done(earlier[i])
  /\ folder' = [folder EXCEPT ![i].stage = "closed"]
  /\ UNCHANGED <<flight, job, current, adopting, earlier, lastRelease, generation,
                 serverVars, fileVars, stale, tallyVars>>

(* The rescan of a folder ends.  If it changed anything, and no library was  *)
(* opened or closed since, the page reloads, unless a server is connected.   *)
Adopted(i) ==
  /\ i \in adopting
  /\ adopting' = adopting \ {i}
  /\ \/ UNCHANGED stale
     \/ stale' = IF remote # None THEN stale
                 ELSE IF folder[i].gen = generation THEN FALSE
                 ELSE stale \/ current = i
  /\ UNCHANGED <<flight, job, current, folder, earlier, lastRelease, generation,
                 serverVars, fileVars, tallyVars>>

-----------------------------------------------------------------------------
(* Writing the choice down: read the document, write a temporary file that   *)
(* carries the process id, rename it over the document.  Two calls of one    *)
(* process share the temporary file; a file behind an open handle keeps      *)
(* being written wherever it was moved.                                      *)

Mode(c) == IF job[c].asks = "folder" THEN "local" ELSE "remote"
Written(c) == IF job[c].asks = "folder" THEN "changed" ELSE "navigate"

(* What is in a file of this text once a document is written over its start. *)
Over(text, doc) == IF text \in {Blank, doc} THEN {doc} ELSE {doc, Torn}

Read(c) ==
  /\ At(c, "read")
  /\ GoWith(c, "temp", [job[c] EXCEPT
       !.doc = Chosen(ReadState(file), Mode(c), job[c].target)])
  /\ UNCHANGED <<flight, folderVars, serverVars, fileVars, stale, tallyVars>>

OpenTemp(c) ==
  /\ At(c, "temp")
  /\ temp' = Blank
  /\ handle' = [handle EXCEPT ![c] = "temp"]
  /\ Go(c, "write")
  /\ UNCHANGED <<flight, folderVars, serverVars, file, unwritten, stale, tallyVars>>

Write(c) ==
  LET doc == job[c].doc IN
  /\ At(c, "write")
  /\ \/ handle[c] = "temp" /\ temp' \in Over(temp, doc) /\ UNCHANGED file
     \/ handle[c] = "target" /\ file' \in Over(file, doc) /\ UNCHANGED temp
     \/ handle[c] = "gone" /\ UNCHANGED <<file, temp>>
  /\ handle' = [handle EXCEPT ![c] = None]
  /\ Go(c, "rename")
  /\ UNCHANGED <<flight, folderVars, serverVars, unwritten, stale, tallyVars>>

Moved(from) == [d \in Callers |->
  IF handle[d] = "temp" THEN from ELSE IF handle[d] = "target" THEN "gone" ELSE handle[d]]

Rename(c) ==
  /\ At(c, "rename") /\ temp # None
  /\ file' = temp
  /\ temp' = None
  /\ handle' = Moved("target")
  /\ GoWith(c, Written(c), [job[c] EXCEPT !.doc = None])
  /\ UNCHANGED <<flight, folderVars, serverVars, unwritten, stale, tallyVars>>

(* A step that fails removes the temporary file; the choice is then not      *)
(* remembered, and that is all.                                              *)
WriteFails(c) ==
  /\ job[c].at \in {"temp", "write", "rename"}
  /\ temp' = None
  /\ handle' = [d \in Callers |->
       IF d = c THEN None ELSE IF handle[d] = "temp" THEN "gone" ELSE handle[d]]
  /\ unwritten' = TRUE
  /\ GoWith(c, Written(c), [job[c] EXCEPT !.doc = None])
  /\ UNCHANGED <<flight, folderVars, serverVars, file, stale, tallyVars>>

Changed(c) ==
  /\ At(c, "changed")
  /\ stale' = (stale /\ remote # None)
  /\ GoWith(c, "answer", [job[c] EXCEPT !.answer = job[c].target, !.inst = None])
  /\ UNCHANGED <<flight, folderVars, serverVars, fileVars, tallyVars>>

-----------------------------------------------------------------------------
(* Connecting to a server, and leaving one.                                  *)

DropRemote ==
  /\ remote' = None
  /\ stale' = (stale \/ remote # None)
  /\ UNCHANGED server

ReleaseRemote ==
  /\ remote' = None
  /\ server' = [h \in Servers |->
       IF h = remote THEN [server[h] EXCEPT !.closed = TRUE] ELSE server[h]]
  /\ stale' = (stale \/ remote # None)

AfterLocal(j) == IF j.call = "mode" THEN [j EXCEPT !.at = "answer", !.asks = "mode",
                                                  !.answer = "local"]
                 ELSE Idle

(* A folder has been opened (for this call, or for the one whose answer it   *)
(* shares): a server is left.                                                *)
BecomeLocal(c) ==
  /\ At(c, "local")
  /\ \/ /\ remote = None
        /\ job' = [job EXCEPT ![c] = AfterLocal(job[c])]
        /\ UNCHANGED <<remote, server, stale>>
     \/ /\ remote # None
        /\ ReleaseRemote
        /\ Go(c, "home")
  /\ UNCHANGED <<flight, folderVars, connectingTo, agreed, fileVars, tallyVars>>

Home(c) ==
  /\ At(c, "home")
  /\ stale' = FALSE
  /\ job' = [job EXCEPT ![c] = AfterLocal(job[c])]
  /\ UNCHANGED <<flight, folderVars, serverVars, fileVars, tallyVars>>

Leave(c) ==
  /\ At(c, "leave")
  /\ ReleaseRemote
  /\ Go(c, "address")
  /\ UNCHANGED <<flight, folderVars, connectingTo, agreed, fileVars, tallyVars>>

ToConnectPage(c) ==
  /\ At(c, "address")
  /\ stale' = FALSE
  /\ Go(c, "answer")
  /\ UNCHANGED <<flight, folderVars, serverVars, fileVars, tallyVars>>

Adopt(c) ==
  /\ At(c, "adopt")
  /\ GoWith(c, "hangup", [job[c] EXCEPT !.was = RemoteOrigin])
  /\ UNCHANGED <<flight, folderVars, serverVars, fileVars, stale, tallyVars>>

HangUp(c) ==
  /\ At(c, "hangup")
  /\ ReleaseRemote
  /\ Go(c, "bump")
  /\ UNCHANGED <<flight, folderVars, connectingTo, agreed, fileVars, tallyVars>>

BumpFromZero(c) ==
  /\ At(c, "bump")
  /\ generation' = 0
  /\ Go(c, "take")
  /\ UNCHANGED <<flight, current, folder, adopting, earlier, lastRelease, serverVars,
                 fileVars, stale, tallyVars>>

Bump(c) ==
  /\ At(c, "bump")
  /\ generation' = generation + 1
  /\ Go(c, "take")
  /\ UNCHANGED <<flight, current, folder, adopting, earlier, lastRelease, serverVars,
                 fileVars, stale, tallyVars>>

Take(c) ==
  /\ At(c, "take")
  /\ current' = None
  /\ stale' = (stale \/ (current # None /\ remote = None))
  /\ GoWith(c, IF current = None THEN "slot" ELSE "release",
            [job[c] EXCEPT !.inst = current])
  /\ UNCHANGED <<flight, folder, adopting, earlier, lastRelease, generation, serverVars,
                 fileVars, tallyVars>>

ConnectsToPending(c) == connectingTo

ConnectsTo(c) == job[c].target

Slot(c) ==
  LET h == Least(FreeServers) IN
  /\ At(c, "slot") /\ FreeServers # {}
  /\ server' = [server EXCEPT ![h] = [origin |-> ConnectsTo(c), closed |-> FALSE]]
  /\ remote' = h
  /\ stale' = TRUE
  /\ unwritten' = FALSE
  /\ Go(c, "read")
  /\ UNCHANGED <<flight, folderVars, connectingTo, agreed, file, temp, handle, tallyVars>>

NavigateFromLocal(c) ==
  /\ At(c, "navigate")
  /\ stale' = (stale /\ job[c].was # None)
  /\ Go(c, "unpend")
  /\ UNCHANGED <<flight, folderVars, serverVars, fileVars, tallyVars>>

Navigate(c) ==
  /\ At(c, "navigate")
  /\ stale' = (stale /\ job[c].was = job[c].target)
  /\ Go(c, "unpend")
  /\ UNCHANGED <<flight, folderVars, serverVars, fileVars, tallyVars>>

Unpend(c) ==
  /\ At(c, "unpend")
  /\ connectingTo' = None
  /\ Go(c, "answer")
  /\ UNCHANGED <<flight, folderVars, remote, server, agreed, fileVars, stale, tallyVars>>

-----------------------------------------------------------------------------

Step(c) ==
  \/ Join(c) \/ Answer(c) \/ Clear(c)
  \/ AskMode(c) \/ AskFolder(c) \/ AskServer(c)
  \/ Open(c) \/ Replace(c) \/ Release(c)
  \/ Read(c) \/ OpenTemp(c) \/ Write(c) \/ Rename(c) \/ WriteFails(c) \/ Changed(c)
  \/ BecomeLocal(c) \/ Home(c) \/ Leave(c) \/ ToConnectPage(c)
  \/ Adopt(c) \/ HangUp(c) \/ Bump(c) \/ Take(c) \/ Slot(c) \/ Navigate(c) \/ Unpend(c)

Next ==
  \/ Start
  \/ \E c \in Callers : Choose(c) \/ Pick(c) \/ Connect(c) \/ Panic(c) \/ Step(c)
  \/ \E i \in Folders : CloseFolder(i) \/ Adopted(i)

Spec == Init /\ [][Next]_vars

-----------------------------------------------------------------------------

Stages == {"idle", "join", "wait", "ask", "answer", "clear", "open", "replace", "release",
  "read", "temp", "write", "rename", "changed", "local", "home", "leave", "address",
  "adopt", "hangup", "bump", "take", "slot", "navigate", "unpend"}
Texts == Docs \cup {Blank, Torn}

(* Every variable has its type.                                              *)
TypeOK ==
  /\ \A q \in Questions : IF flight[q] = None THEN TRUE
       ELSE flight[q].leader \in Callers /\ flight[q].ready \in BOOLEAN
  /\ \A c \in Callers :
       /\ job[c].at \in Stages
       /\ job[c].call \in Questions \cup {None} /\ job[c].asks \in Questions \cup {None}
       /\ job[c].inst \in Folders \cup {None}
       /\ job[c].target \in Dirs \cup Origins \cup {None}
       /\ job[c].was \in Origins \cup {None}
       /\ job[c].doc \in Docs \cup {None}
       /\ handle[c] \in {"temp", "target", "gone", None}
  /\ current \in Folders \cup {None} /\ lastRelease \in Folders \cup {None}
  /\ \A i \in Folders :
       /\ folder[i].dir \in Dirs \cup {None} /\ folder[i].gen \in 0 .. generation
       /\ folder[i].stage \in {"unused", "open", "released", "dropped", "closed"}
       /\ earlier[i] \in Folders \cup {None}
  /\ adopting \subseteq Folders /\ generation \in Nat
  /\ remote \in Servers \cup {None} /\ connectingTo \in Origins \cup {None}
  /\ server \in [Servers -> [origin : Origins \cup {None}, closed : BOOLEAN]]
  /\ file \in Texts /\ temp \in Texts \cup {None}
  /\ {stale, alone, unwritten} \subseteq BOOLEAN /\ agreed \subseteq Origins

Rest == \A c \in Callers : At(c, "idle")

(* Waiting for the last release is enough to know that every folder that was *)
(* let go of is closed, which is what leaving the app waits for, unless a    *)
(* release had no thread to wait in (LibraryHost::settle_within).            *)
LastReleaseIsLast ==
  Done(lastRelease) =>
    \/ \A i \in Folders : folder[i].stage # "released"
    \/ \E i \in Folders : folder[i].stage = "dropped"

(* However calls overlap, the only connection to a server that is open is    *)
(* the one in use: replacing or leaving a server always closes it            *)
(* (Shell::adopt_remote, release_remote).                                    *)
NoServerLeftBehind ==
  \A h \in Servers : ~server[h].closed => remote = h

(* The app is only ever connected to a server somebody agreed to: the user,  *)
(* asked about that very server, the environment, or an earlier run          *)
(* (Shell::connect_remote).                                                  *)
ServerWasConfirmed == remote # None => RemoteOrigin \in agreed

(* As long as calls do not overlap, once they are done at most one library   *)
(* is open and the next start opens the same one, unless writing failed or   *)
(* the environment chose (Shell, remember_choice, plan_startup).             *)
SwitchIsRemembered ==
  alone /\ Rest =>
    /\ remote # None => current = None
    /\ ~unwritten /\ remote # None =>
         Plan(ReadState(file)) = [dir |-> None, origin |-> RemoteOrigin]
    /\ ~unwritten /\ current # None =>
         Plan(ReadState(file)) = [dir |-> OpenDir, origin |-> None]

(* As long as calls do not overlap, the page is told of every change of the  *)
(* library that answers it, the rescans' included (ShellEvents).             *)
PageIsFresh == alone /\ Rest => ~stale

(* No call and no release waits for something that cannot come: when no      *)
(* thread can go on, every call has returned, also one that shares a         *)
(* question with a caller that panicked or itself leads another, and every   *)
(* folder but the open one is closed (SingleFlight::run, LibraryHost::release). *)
NobodyIsStuck ==
  \/ ENABLED (\E c \in Callers : Step(c))
  \/ ENABLED (\E i \in Folders : CloseFolder(i) \/ Adopted(i))
  \/ Rest /\ \A i \in Folders : folder[i].stage \in {"closed", "dropped", "unused"} \/ current = i

(* state.json is a whole document at every moment.                           *)
StateIsWhole == file \in Docs

(* However calls, releases, panics and restarts overlap, nothing is leaked,  *)
(* nobody waits for ever, and no server is used that nobody agreed to.       *)
ShellIsSound ==
  TypeOK /\ LastReleaseIsLast /\ NoServerLeftBehind /\ ServerWasConfirmed /\ NobodyIsStuck

(* A lone call's outcome is what the page shows and the next start opens.    *)
ChoiceIsFollowed == SwitchIsRemembered /\ PageIsFresh
=============================================================================
