------------------------------- MODULE Loopback -------------------------------
(* The server inside the desktop app: the gate that lets only the app's own   *)
(* window in, how a request finds the library it is about, and the proxy to a *)
(* server, while the shell changes its mind about which library that is.      *)
(* Links, sessions of the window, sessions of users at their servers,         *)
(* connections and opened folders are numbered in the order they are made.    *)
EXTENDS Integers, Sequences, SequencesExt

CONSTANTS
  Requests, \* requests of the page that may be under way at once
  Keep,     \* KEEP: links and window sessions that are remembered
  None, Failed, Ended,
  MaxLinks, MaxSessions, MaxHosts, MaxFolders, MaxLogins, MaxAsked \* bounds

Kinds == {"page", "capabilities", "api", "login", "logout"}
Hosts == 1 .. MaxHosts
Folders == 1 .. MaxFolders

ASSUME KeepAssumption ==
  /\ Keep \in Nat \ {0} /\ MaxHosts \in Nat /\ MaxFolders \in Nat
  /\ {None, Failed, Ended} \cap Nat = {} /\ Failed \notin {None, Ended} /\ None # Ended

VARIABLES
  links, minted,     \* LaunchGate.tokens, and how many were made
  sessions, opened,  \* LaunchGate.sessions, and how many were made
  landing,           \* the session in the answer the window is waiting for, or None
  cookie,            \* the session the window shows
  redeemed,          \* the links that let the window in, each time one did
  remote, folder,    \* Shell.remote, LibraryHost.current: a number, or None
  releasing,         \* the connection close has cancelled but not emptied, or None
  adopting,          \* how far adopt_remote is
  arriving,          \* a folder was opened and become_local is to let go of the server
  hosts, folders,    \* how many were made
  closed, jar,       \* of each connection: in_flight.is_cancelled(), and the user's session
  live, logins,      \* sessions the servers honour, and how many they made
  lost,              \* a request or its answer has been lost on the way
  job, asked         \* job[r]: where request r is

gateVars == <<links, minted, sessions, opened, landing, cookie, redeemed>>
shellVars == <<remote, folder, releasing, adopting, arriving, hosts, folders, closed>>
serverVars == <<live, logins, lost>>
vars == <<gateVars, shellVars, jar, serverVars, job, asked>>

Idle == [at |-> "idle"]

-----------------------------------------------------------------------------
(* The gate.                                                                  *)

(* The newest Keep of a queue.                                                *)
Trim(queue) == IF Len(queue) > Keep THEN Tail(queue) ELSE queue
TrimNewest(queue) == IF Len(queue) > Keep THEN Front(queue) ELSE queue

(* mint_token, for the window's next URL or for one that is never loaded.     *)
Mint ==
  /\ minted < MaxLinks
  /\ minted' = minted + 1 /\ links' = Trim(Append(links, minted + 1))
  /\ UNCHANGED <<sessions, opened, landing, cookie, redeemed, shellVars, jar, serverVars, job, asked>>

(* The window loads a link, perhaps one it has loaded before; what an earlier *)
(* load would have brought is dropped.                                        *)
RedeemKeeping(t) == links' = links
Redeem(t) == \E i \in DOMAIN links : links[i] = t /\ links' = RemoveAt(links, i)
Handshake(t) ==
  /\ t \in ToSet(links) /\ opened < MaxSessions
  /\ Redeem(t)
  /\ opened' = opened + 1 /\ sessions' = Trim(Append(sessions, opened + 1))
  /\ landing' = opened + 1 /\ redeemed' = Append(redeemed, t)
  /\ UNCHANGED <<minted, cookie, shellVars, jar, serverVars, job, asked>>

HandshakeRefused(t) ==
  /\ t \notin ToSet(links) /\ landing # None /\ landing' = None
  /\ UNCHANGED <<links, minted, sessions, opened, cookie, redeemed, shellVars, jar, serverVars, job, asked>>

Land ==
  /\ landing # None /\ cookie' = landing /\ landing' = None
  /\ UNCHANGED <<links, minted, sessions, opened, redeemed, shellVars, jar, serverVars, job, asked>>

-----------------------------------------------------------------------------
(* The shell moves between libraries.  What is in place is noted with every   *)
(* request under way.                                                         *)

Server(h) == <<"server", h>>
Local(f) == <<"folder", f>>
InPlace(h, f) ==
  (IF h = None THEN {} ELSE {Server(h)}) \cup (IF f = None THEN {} ELSE {Local(f)})
  \cup (IF h = None /\ f = None THEN {None} ELSE {})

Pending(r) == job[r].at \notin {"idle", "answered"}
Noted == job' = [r \in Requests |->
                   IF Pending(r) THEN [job[r] EXCEPT !.seen = @ \cup InPlace(remote', folder')]
                   ELSE job[r]]

(* release_remote: the slot stays locked until the cookies are gone.          *)
Release ==
  /\ releasing = None
  /\ IF remote = None THEN UNCHANGED <<remote, closed, releasing>>
     ELSE /\ remote' = None /\ closed' = closed \cup {remote} /\ releasing' = remote

ClearJar ==
  /\ releasing # None
  /\ jar' = [jar EXCEPT ![releasing] = None] /\ releasing' = None
  /\ UNCHANGED <<gateVars, remote, folder, adopting, arriving, hosts, folders, closed, serverVars, job, asked>>

AdoptRelease ==
  /\ adopting = "no" /\ hosts < MaxHosts /\ Release /\ adopting' = "close"
  /\ UNCHANGED <<folder, arriving, hosts, folders>> /\ Noted
  /\ UNCHANGED <<gateVars, jar, serverVars, asked>>

CloseWithSetting ==
  /\ adopting = "close" /\ releasing = None
  /\ folder' = None /\ adopting' = "no" /\ hosts' = hosts + 1 /\ remote' = hosts + 1
  /\ UNCHANGED <<releasing, arriving, folders, closed>> /\ Noted
  /\ UNCHANGED <<gateVars, jar, serverVars, asked>>
CloseCurrent ==
  /\ adopting = "close" /\ releasing = None
  /\ folder' = None /\ adopting' = "set"
  /\ UNCHANGED <<remote, releasing, arriving, hosts, folders, closed>> /\ Noted
  /\ UNCHANGED <<gateVars, jar, serverVars, asked>>
SetRemote ==
  /\ adopting = "set" /\ releasing = None
  /\ hosts' = hosts + 1 /\ remote' = hosts + 1 /\ adopting' = "no"
  /\ UNCHANGED <<folder, releasing, arriving, folders, closed>> /\ Noted
  /\ UNCHANGED <<gateVars, jar, serverVars, asked>>

OpenFolder ==
  /\ folders < MaxFolders /\ ~arriving
  /\ folders' = folders + 1 /\ folder' = folders + 1 /\ arriving' = TRUE
  /\ UNCHANGED <<remote, releasing, adopting, hosts, closed>> /\ Noted
  /\ UNCHANGED <<gateVars, jar, serverVars, asked>>

BecomeLocal ==
  /\ arriving /\ Release /\ arriving' = FALSE
  /\ UNCHANGED <<folder, adopting, hosts, folders>> /\ Noted
  /\ UNCHANGED <<gateVars, jar, serverVars, asked>>

(* The user asks for another server: the one in use is let go of first.       *)
LetGo ==
  /\ remote # None /\ Release
  /\ UNCHANGED <<folder, adopting, arriving, hosts, folders>> /\ Noted
  /\ UNCHANGED <<gateVars, jar, serverVars, asked>>

-----------------------------------------------------------------------------
(* A request of the page: gate_layer, then dispatch.                          *)

Goes(r, stage) == job' = [job EXCEPT ![r].at = stage]
Answers(r, who) == job' = [job EXCEPT ![r] =
                             [at |-> "answered", inTime |-> who \in job[r].seen \cup {Failed}]]
AtRequest == UNCHANGED <<gateVars, shellVars, asked>>

Ask(r, k) ==
  /\ ~Pending(r) /\ asked < MaxAsked /\ asked' = asked + 1
  /\ job' = [job EXCEPT ![r] = [at |-> "dispatch", kind |-> k, host |-> None,
                                carries |-> None, sets |-> None, seen |-> InPlace(remote, folder)]]
  /\ cookie \in ToSet(sessions)
  /\ UNCHANGED <<gateVars, shellVars, jar, serverVars>>

AskRefused(r) ==
  /\ ~Pending(r) /\ asked < MaxAsked /\ asked' = asked + 1
  /\ cookie # None /\ cookie \notin ToSet(sessions)
  /\ job' = [job EXCEPT ![r] = Idle]
  /\ UNCHANGED <<gateVars, shellVars, jar, serverVars>>

(* The page itself comes out of the bundle, whatever the mode.                *)
Page(r) ==
  /\ job[r].at = "dispatch" /\ job[r].kind = "page" /\ job' = [job EXCEPT ![r] = Idle]
  /\ AtRequest /\ UNCHANGED <<jar, serverVars>>

(* dispatch_api looks at the connection, the folder and its router in turn.   *)
(* To a server what it can do is a question like any other.                   *)
LookRemote(r) ==
  /\ job[r].at = "dispatch" /\ job[r].kind # "page" /\ releasing = None
  /\ IF remote = None THEN Goes(r, "folder")
     ELSE job' = [job EXCEPT ![r].at = "proxy", ![r].host = remote,
                             ![r].kind = IF @ = "capabilities" THEN "api" ELSE @]
  /\ AtRequest /\ UNCHANGED <<jar, serverVars>>

LookFolder(r) ==
  /\ job[r].at = "folder"
  /\ CASE folder = None -> Answers(r, None)
       [] folder # None /\ job[r].kind = "capabilities" -> Answers(r, Local(folder))
       [] OTHER -> Goes(r, "router")
  /\ AtRequest /\ UNCHANGED <<jar, serverVars>>

LookRouter(r) ==
  /\ job[r].at = "router"
  /\ Answers(r, IF folder = None THEN None ELSE Local(folder))
  /\ AtRequest /\ UNCHANGED <<jar, serverVars>>

-----------------------------------------------------------------------------
(* The proxy: RemoteHost.                                                     *)

Closed(r) == job[r].host \in closed

Proxy(r) ==
  /\ job[r].at = "proxy"
  /\ IF Closed(r) THEN Answers(r, Failed) ELSE Goes(r, "send")
  /\ AtRequest /\ UNCHANGED <<jar, serverVars>>

(* Which session a request carries matters for a logout only.                 *)
ReadJar(r) ==
  /\ job[r].at = "send"
  /\ job' = [job EXCEPT ![r].at = "select",
                        ![r].carries = IF job[r].kind = "logout" THEN jar[job[r].host] ELSE None]
  /\ AtRequest /\ UNCHANGED <<jar, serverVars>>

(* The first look of the select: at the cancellation before anything is sent. *)
SendUnbiased(r) ==
  /\ job[r].at = "select" /\ Goes(r, "server")
  /\ AtRequest /\ UNCHANGED <<jar, serverVars>>
Send(r) ==
  /\ job[r].at = "select"
  /\ IF Closed(r) THEN Answers(r, Failed) ELSE Goes(r, "server")
  /\ AtRequest /\ UNCHANGED <<jar, serverVars>>

CancelledBeforeSending(r) ==
  /\ job[r].at = "select" /\ Closed(r) /\ Answers(r, Failed)
  /\ AtRequest /\ UNCHANGED <<jar, serverVars>>
Cancelled(r) ==
  /\ job[r].at \in {"server", "back", "redirect"} /\ Closed(r) /\ Answers(r, Failed)
  /\ AtRequest /\ UNCHANGED <<jar, serverVars>>

(* The server: a login makes a session, a logout ends the one it carries.     *)
Serve(r) ==
  /\ job[r].at = "server"
  /\ CASE job[r].kind = "login" /\ logins < MaxLogins ->
            /\ logins' = logins + 1 /\ live' = live \cup {logins + 1}
            /\ job' = [job EXCEPT ![r].at = "back", ![r].sets = logins + 1]
       [] job[r].kind = "logout" ->
            /\ live' = live \ {job[r].carries} /\ logins' = logins
            /\ job' = [job EXCEPT ![r].at = "back", ![r].sets = Ended]
       [] OTHER -> Goes(r, "back") /\ UNCHANGED <<live, logins>>
  /\ AtRequest /\ UNCHANGED <<jar, lost>>

Redirects(r) ==
  /\ job[r].at = "server" /\ Goes(r, "redirect")
  /\ AtRequest /\ UNCHANGED <<jar, serverVars>>

Lose(r) ==
  /\ job[r].at \in {"server", "back"} /\ ~Closed(r) /\ Answers(r, Failed) /\ lost' = TRUE
  /\ AtRequest /\ UNCHANGED <<jar, live, logins>>

(* The select ends with the answer, unless it sees the cancellation first.    *)
Receive(r) ==
  /\ job[r].at = "back" /\ ~Closed(r) /\ Goes(r, "absorb")
  /\ AtRequest /\ UNCHANGED <<jar, serverVars>>

RefuseRedirect(r) ==
  /\ job[r].at = "redirect" /\ ~Closed(r) /\ Answers(r, Failed)
  /\ AtRequest /\ UNCHANGED <<jar, serverVars>>

(* absorb_cookies: an empty value, or an age of none, ends a session.         *)
AbsorbedButEnded(kept, sets) == IF sets \in {None, Ended} THEN kept ELSE sets
Absorbed(kept, sets) ==
  CASE sets = None -> kept [] sets = Ended -> None [] OTHER -> sets
Absorb(r) ==
  /\ job[r].at = "absorb" /\ releasing # job[r].host
  /\ jar' = [jar EXCEPT ![job[r].host] = Absorbed(@, job[r].sets)]
  /\ Goes(r, "body")
  /\ AtRequest /\ UNCHANGED serverVars

(* forward, and for capabilities unioned, which reads the whole body: it ends *)
(* when the server has sent it, or where it is when the connection is closed. *)
Forward(r) ==
  /\ job[r].at = "body" /\ Answers(r, Server(job[r].host))
  /\ AtRequest /\ UNCHANGED <<jar, serverVars>>

Cut(r) ==
  /\ job[r].at = "body" /\ Closed(r) /\ Answers(r, Server(job[r].host))
  /\ AtRequest /\ UNCHANGED <<jar, serverVars>>

-----------------------------------------------------------------------------

Init ==
  /\ links = <<>> /\ minted = 0 /\ sessions = <<>> /\ opened = 0
  /\ landing = None /\ cookie = None /\ redeemed = <<>>
  /\ remote = None /\ folder = None /\ releasing = None /\ adopting = "no"
  /\ arriving = FALSE /\ hosts = 0 /\ folders = 0
  /\ closed = {} /\ jar = [h \in Hosts |-> None]
  /\ live = {} /\ logins = 0 /\ lost = FALSE
  /\ job = [r \in Requests |-> Idle] /\ asked = 0

Gate == Mint \/ Land \/ \E t \in 1 .. minted : Handshake(t) \/ HandshakeRefused(t)
Moves == \/ AdoptRelease \/ CloseCurrent \/ SetRemote
         \/ OpenFolder \/ BecomeLocal \/ LetGo \/ ClearJar

(* The app's own steps for a request, and those of others.                    *)
Steps(r) == \/ Page(r) \/ LookRemote(r) \/ LookFolder(r) \/ LookRouter(r)
            \/ Proxy(r) \/ ReadJar(r) \/ Send(r) \/ Cancelled(r)
            \/ Receive(r) \/ RefuseRedirect(r) \/ Absorb(r) \/ Cut(r)
Others(r) == \/ \E k \in Kinds : Ask(r, k)
             \/ AskRefused(r)
             \/ Serve(r) \/ Redirects(r) \/ Lose(r) \/ Forward(r)

Next == Gate \/ Moves \/ \E r \in Requests : Steps(r) \/ Others(r)

(* Tasks and threads of the app run on; a server need never answer.           *)
Fairness == WF_vars(ClearJar) /\ \A r \in Requests : WF_vars(Steps(r))
Spec == Init /\ [][Next]_vars /\ Fairness

-----------------------------------------------------------------------------
(* Properties.                                                                *)

(* What a request has been in place for, and where it may be.                 *)
Libraries == {None} \cup {Server(h) : h \in Hosts} \cup {Local(f) : f \in Folders}
AtServer == {"proxy", "send", "select", "server", "redirect", "back", "absorb", "body"}
Jobs(made) ==
  {Idle} \cup [at : {"answered"}, inTime : BOOLEAN]
  \cup [at : {"dispatch", "folder", "router"} \cup AtServer, kind : Kinds, host : Hosts \cup {None},
        carries : made \cup {None}, sets : made \cup {None, Ended}, seen : SUBSET Libraries]

(* TypeOK: what is numbered is numbered in order, and a request that goes to  *)
(* a server goes to one that was connected to.                                *)
TypeOK ==
  /\ minted \in Nat /\ links \in Seq(1 .. minted) /\ redeemed \in Seq(1 .. minted)
  /\ opened \in Nat /\ sessions \in Seq(1 .. opened)
  /\ {landing, cookie} \subseteq (1 .. opened) \cup {None}
  /\ hosts \in 0 .. MaxHosts /\ {remote, releasing} \subseteq (1 .. hosts) \cup {None}
  /\ folders \in 0 .. MaxFolders /\ folder \in (1 .. folders) \cup {None}
  /\ adopting \in {"no", "close", "set"} /\ arriving \in BOOLEAN /\ closed \subseteq 1 .. hosts
  /\ logins \in Nat /\ live \subseteq 1 .. logins /\ lost \in BOOLEAN
  /\ jar \in [Hosts -> (1 .. logins) \cup {None}]
  /\ asked \in Nat /\ job \in [Requests -> Jobs(1 .. logins)]
  /\ \A r \in Requests : job[r].at \in AtServer => job[r].host \in 1 .. hosts

(* LaunchGate: a link lets the window in once; it does so unless Keep newer   *)
(* ones were made; and the window is not shut out until Keep more have been   *)
(* used since it last landed.                                                 *)
LinksWorkOnce ==
  /\ \A i, j \in DOMAIN redeemed : redeemed[i] = redeemed[j] => i = j
  /\ \A t \in 1 .. minted : minted - t < Keep => t \in ToSet(links) \cup ToSet(redeemed)
  /\ \A s \in {cookie, landing} \ {None} : opened - s < Keep => s \in ToSet(sessions)

(* dispatch_api: an answer comes from a library that was in place at some     *)
(* moment of the request, and "no library is open" only if none was, though   *)
(* the three places are looked at one after the other while they change.      *)
AnswersAreOfTheirTime ==
  \A r \in Requests : job[r].at = "answered" => job[r].inTime

(* RemoteHost: with no logout under way, a connection in use carries no       *)
(* session its server has ended, unless an answer was lost.                   *)
SessionIsLive ==
  \A h \in Hosts \ closed :
    jar[h] = None \/ jar[h] \in live \/ lost
    \/ \E r \in Requests : Pending(r) /\ job[r].host = h /\ job[r].kind = "logout"

ServesItsWindow == TypeOK /\ LinksWorkOnce /\ AnswersAreOfTheirTime /\ SessionIsLive

(* RemoteHost::close: no request leaves for a server once the shell has let   *)
(* go of it, however far the request had come.                                *)
NothingIsSentLate ==
  [][\A r \in Requests : job'[r].at = "server" /\ job[r].at # "server" => ~Closed(r)]_vars

(* A request ends, even at a server that never answers once the shell has let *)
(* go of it; until then only the server can keep it waiting.                  *)
RequestsEnd ==
  \A r \in Requests :
    Pending(r) ~> (~Pending(r) \/ (job[r].at \in {"server", "body"} /\ ~Closed(r)))

(* RemoteHost::close is said to let go "of the server, and of the session     *)
(* with it".                                                                  *)
ClosedHoldsNoSession ==
  \A h \in closed : releasing # h => jar[h] = None
=============================================================================
