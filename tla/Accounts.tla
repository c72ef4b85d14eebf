------------------------------ MODULE Accounts ------------------------------
(* Accounts, activation links and sessions of a server's library.            *)
(*                                                                           *)
(* Every statement runs under the library's one database lock, and every     *)
(* multi-statement operation of an administrator is one IMMEDIATE            *)
(* transaction, so those are single steps.  What interleaves is what the     *)
(* code does outside the lock: a request is first tied to a session (its     *)
(* Ctx), and only then performs its operation; a login, a password change    *)
(* and an activation each read, derive a key without the lock for hundreds   *)
(* of milliseconds, and write.  Requests that the code refuses change        *)
(* nothing and end; they are GiveUp here.                                    *)
(*                                                                           *)
(* A password is an element of Passwords; `weak` says that the stored hash   *)
(* was derived with fewer iterations than today's.  Usernames, folders and   *)
(* quotas are left out: no operation below decides by them.                  *)
EXTENDS Naturals, FiniteSets

CONSTANTS
  Users, Tokens, Sessions,   \* ids: random, so never used twice
  Requests,        \* requests that may be under way at once
  Passwords,
  None,            \* SQL NULL
  ActivationTtl,   \* ACTIVATION_TTL_MS, in clock units
  SessionTtl,      \* SESSION_TTL_MS
  Slide,           \* SESSION_SLIDE_MS
  MaxNow           \* bound: the clock stops here

ASSUME NoneAssumption == None \notin Passwords \cup Users \cup Tokens
ASSUME ClockAssumption ==
  /\ ActivationTtl \in Nat \ {0} /\ SessionTtl \in Nat \ {0}
  /\ Slide \in Nat /\ MaxNow \in Nat

VARIABLES
  now,      \* the wall clock
  users,    \* users[u]: the row of `users`; "none" before its insert, "gone" after its delete
  tokens,   \* tokens[t]: the row of `activation_tokens`
  sess,     \* sess[s]: the row of `sessions`
  req       \* req[p]: what request p has read so far

vars == <<now, users, tokens, sess, req>>

NoUser == [status |-> "none", admin |-> FALSE, pw |-> None, weak |-> FALSE]
GoneUser == [NoUser EXCEPT !.status = "gone"]
NoToken == [state |-> "unused", user |-> None, expires |-> 0]
NoSession == [state |-> "unused", user |-> None, expires |-> 0, seen |-> 0]
IdleReq == [at |-> "idle", user |-> None, admin |-> FALSE, token |-> None,
            word |-> None, weak |-> FALSE, began |-> 0]

HasRow(u) == users[u].status \in {"pending", "active", "disabled"}
Empty == \A u \in Users : ~HasRow(u)
ActiveAdmin(u) == users[u].status = "active" /\ users[u].admin
HasActiveAdmin == \E u \in Users : ActiveAdmin(u)
Live(t) == tokens[t].state = "live"
Expired(s) == sess[s].expires <= now

-----------------------------------------------------------------------------
(* An empty library, or one an earlier build served: accounts that were      *)
(* activated then, whose hashes today's policy calls weak, with at least one *)
(* active administrator.                                                     *)
LegacyUsers == [status : {"active", "disabled"}, admin : BOOLEAN, pw : Passwords, weak : {TRUE}]

Init ==
  /\ now = 0
  /\ users \in [Users -> LegacyUsers \cup {NoUser}]
  /\ Empty \/ HasActiveAdmin
  /\ tokens = [t \in Tokens |-> NoToken]
  /\ sess = [s \in Sessions |-> NoSession]
  /\ req = [p \in Requests |-> IdleReq]

Tick ==
  /\ now < MaxNow
  /\ now' = now + 1
  /\ UNCHANGED <<users, tokens, sess, req>>

-----------------------------------------------------------------------------
(* The tables.                                                               *)

SetReq(p, r) == req' = [req EXCEPT ![p] = r]
EndReq(p) == SetReq(p, IdleReq)

NewToken(u) == [state |-> "live", user |-> u, expires |-> now + ActivationTtl]
NewSession(u, began) ==
  [state |-> "live", user |-> u, expires |-> began + SessionTtl, seen |-> began]

Invited(admin) == [NoUser EXCEPT !.status = "pending", !.admin = admin]

SetPassword(u, word) == [users EXCEPT ![u].pw = word, ![u].weak = FALSE]

(* revoke_activation_tokens_in, then issue_activation_token_in.              *)
IssuedBesideOld(u, t) == [tokens EXCEPT ![t] = NewToken(u)]
IssuedAlone(u, t) ==
  [x \in Tokens |->
    CASE x = t -> NewToken(u)
      [] x # t /\ Live(x) /\ tokens[x].user = u -> [tokens[x] EXCEPT !.state = "spent"]
      [] OTHER -> tokens[x]]

-----------------------------------------------------------------------------
(* The hosts: what they do when they open a library, and the hourly prune.   *)

(* ensure_bootstrap_admin: a pending administrator and the link to it.       *)
Bootstrap(u, t) ==
  /\ Empty /\ users[u].status = "none" /\ tokens[t].state = "unused"
  /\ users' = [users EXCEPT ![u] = Invited(TRUE)]
  /\ tokens' = [tokens EXCEPT ![t] = NewToken(u)]
  /\ UNCHANGED <<now, sess, req>>

(* ensure_local_user: the desktop app opens the library before any server.   *)
(* The local user has no password and, in this library, never any company.   *)
LocalUser == [NoUser EXCEPT !.status = "active"]
CompanyLocalUser(u) ==
  /\ users[u].status = "none" /\ ~\E v \in Users : users[v] = LocalUser
  /\ users' = [users EXCEPT ![u] = LocalUser]
  /\ UNCHANGED <<now, tokens, sess, req>>
EnsureLocalUser(u) ==
  /\ Empty /\ users[u].status = "none"
  /\ users' = [users EXCEPT ![u] = LocalUser]
  /\ UNCHANGED <<now, tokens, sess, req>>

Prune ==
  /\ \E s \in Sessions : sess[s].state = "live" /\ Expired(s)
  /\ sess' = [s \in Sessions |->
                IF sess[s].state = "live" /\ Expired(s)
                THEN [NoSession EXCEPT !.state = "gone"] ELSE sess[s]]
  /\ UNCHANGED <<now, users, tokens, req>>

-----------------------------------------------------------------------------
(* Signing in and out.                                                       *)

(* login: the row is active, has a password, and that is what was typed.     *)
LoginRead(p, u) ==
  /\ req[p].at = "idle"
  /\ users[u].status = "active" /\ users[u].pw # None
  /\ SetReq(p, [IdleReq EXCEPT !.at = "login", !.user = u, !.word = users[u].pw,
                               !.weak = users[u].weak, !.began = now])
  /\ UNCHANGED <<now, users, tokens, sess>>

(* The upgraded hash of the password that was typed, if the stored one was   *)
(* weak when it was read; then the session, whose foreign key fails if the   *)
(* account was deleted meanwhile.                                            *)
OrphanLoginFinish(p, s) ==
  LET u == req[p].user IN
  /\ req[p].at = "login" /\ sess[s].state = "unused"
  /\ users' = IF req[p].weak THEN SetPassword(u, req[p].word) ELSE users
  /\ sess' = [sess EXCEPT ![s] = NewSession(u, req[p].began)]
  /\ EndReq(p)
  /\ UNCHANGED <<now, tokens>>
LoginFinish(p, s) ==
  LET u == req[p].user IN
  /\ req[p].at = "login" /\ HasRow(u) /\ sess[s].state = "unused"
  /\ users' = IF req[p].weak THEN SetPassword(u, req[p].word) ELSE users
  /\ sess' = [sess EXCEPT ![s] = NewSession(u, req[p].began)]
  /\ EndReq(p)
  /\ UNCHANGED <<now, tokens>>

(* delete_session, whoever holds the cookie.                                 *)
Logout(s) ==
  /\ sess[s].state = "live"
  /\ sess' = [sess EXCEPT ![s] = [NoSession EXCEPT !.state = "gone"]]
  /\ UNCHANGED <<now, users, tokens, req>>

(* activate_account: first the read-only check, by the clock the request     *)
(* began with ...                                                            *)
ActivateCheck(p, t, word) ==
  /\ req[p].at = "idle"
  /\ Live(t) /\ tokens[t].expires > now
  /\ users[tokens[t].user].status # "disabled"
  /\ SetReq(p, [IdleReq EXCEPT !.at = "activate", !.token = t, !.word = word, !.began = now])
  /\ UNCHANGED <<now, users, tokens, sess>>

(* ... then, the key derived, one transaction that consumes the link, sets   *)
(* the password and the status, and opens a session.                         *)
UnexpiredConsumable(p) == tokens[req[p].token].expires > req[p].began
Consumable(p) == Live(req[p].token) /\ tokens[req[p].token].expires > req[p].began

ActivateCommit(p, s) ==
  LET t == req[p].token
      u == tokens[t].user
  IN
  /\ req[p].at = "activate" /\ Consumable(p) /\ sess[s].state = "unused"
  /\ tokens' = [tokens EXCEPT ![t].state = "spent"]
  /\ users' = [users EXCEPT ![u].pw = req[p].word, ![u].weak = FALSE, ![u].status = "active"]
  /\ sess' = [sess EXCEPT ![s] = NewSession(u, req[p].began)]
  /\ EndReq(p)
  /\ UNCHANGED now

(* resolve_session: the request acts for the session's user from here on,    *)
(* an administrator if the row says so now.                                  *)
ReviveSession(p, s) ==
  /\ req[p].at = "idle" /\ sess[s].state = "live"
  /\ users[sess[s].user].status = "active"
  /\ sess' = IF now - sess[s].seen > Slide
             THEN [sess EXCEPT ![s] = NewSession(sess[s].user, now)] ELSE sess
  /\ SetReq(p, [IdleReq EXCEPT !.at = "in", !.user = sess[s].user,
                               !.admin = users[sess[s].user].admin])
  /\ UNCHANGED <<now, users, tokens>>

Resolve(p, s) ==
  /\ req[p].at = "idle" /\ sess[s].state = "live" /\ ~Expired(s)
  /\ users[sess[s].user].status = "active"
  /\ sess' = IF now - sess[s].seen > Slide
             THEN [sess EXCEPT ![s] = NewSession(sess[s].user, now)] ELSE sess
  /\ SetReq(p, [IdleReq EXCEPT !.at = "in", !.user = sess[s].user,
                               !.admin = users[sess[s].user].admin])
  /\ UNCHANGED <<now, users, tokens>>

-----------------------------------------------------------------------------
(* change_password: verify, derive, write.                                   *)

ChangeRead(p, word) ==
  LET u == req[p].user IN
  /\ req[p].at = "in" /\ HasRow(u) /\ users[u].pw # None
  /\ SetReq(p, [req[p] EXCEPT !.at = "change", !.word = word])
  /\ UNCHANGED <<now, users, tokens, sess>>

ChangeWrite(p) ==
  LET u == req[p].user IN
  /\ req[p].at = "change"
  /\ users' = IF HasRow(u) THEN SetPassword(u, req[p].word) ELSE users
  /\ EndReq(p)
  /\ UNCHANGED <<now, tokens, sess>>

-----------------------------------------------------------------------------
(* An administrator's operations, each by the Ctx resolved earlier.          *)

Admin(p) == req[p].at = "in" /\ req[p].admin

(* assert_not_last_active_admin.                                             *)
NotLastAdminRow(u) == ActiveAdmin(u) => \E v \in Users \ {u} : HasRow(v) /\ users[v].admin
NotLastAdmin(u) == ActiveAdmin(u) => \E v \in Users \ {u} : ActiveAdmin(v)

CreateUser(p, u, admin, t) ==
  /\ Admin(p) /\ users[u].status = "none" /\ tokens[t].state = "unused"
  /\ users' = [users EXCEPT ![u] = Invited(admin)]
  /\ tokens' = [tokens EXCEPT ![t] = NewToken(u)]
  /\ EndReq(p)
  /\ UNCHANGED <<now, sess>>

ReissueInvite(p, u, t) ==
  /\ Admin(p) /\ users[u].status = "pending" /\ tokens[t].state = "unused"
  /\ tokens' = IssuedAlone(u, t)
  /\ EndReq(p)
  /\ UNCHANGED <<now, users, sess>>

(* A patch leaves a column alone where it is None.                           *)
Patches == [admin : BOOLEAN \cup {None}, disabled : BOOLEAN \cup {None}]

EnabledStatusAfter(row, disabled) ==
  CASE disabled = None -> row.status
    [] disabled = TRUE -> "disabled"
    [] disabled = FALSE -> "active"
StatusAfter(row, disabled) ==
  CASE disabled = None -> row.status
    [] disabled = TRUE -> "disabled"
    [] disabled = FALSE /\ row.pw # None -> "active"
    [] disabled = FALSE /\ row.pw = None -> "pending"

UpdateUser(p, u, patch) ==
  /\ Admin(p) /\ HasRow(u)
  /\ (patch.admin = FALSE \/ patch.disabled = TRUE) => NotLastAdmin(u)
  /\ users' = [users EXCEPT ![u].admin = IF patch.admin = None THEN @ ELSE patch.admin,
                            ![u].status = StatusAfter(users[u], patch.disabled)]
  /\ EndReq(p)
  /\ UNCHANGED <<now, tokens, sess>>

(* The row's links and sessions go with it.                                  *)
DeleteUser(p, u) ==
  /\ Admin(p) /\ HasRow(u) /\ NotLastAdmin(u)
  /\ users' = [users EXCEPT ![u] = GoneUser]
  /\ tokens' = [t \in Tokens |-> IF tokens[t].user = u THEN [NoToken EXCEPT !.state = "gone"]
                                                       ELSE tokens[t]]
  /\ sess' = [s \in Sessions |-> IF sess[s].user = u THEN [NoSession EXCEPT !.state = "gone"]
                                                     ELSE sess[s]]
  /\ EndReq(p)
  /\ UNCHANGED now

(* Refused, finished with something that changes no row, or lost in a crash. *)
GiveUp(p) ==
  /\ req[p].at # "idle"
  /\ EndReq(p)
  /\ UNCHANGED <<now, users, tokens, sess>>

-----------------------------------------------------------------------------
Host ==
  \/ \E u \in Users, t \in Tokens : Bootstrap(u, t)
  \/ \E u \in Users : EnsureLocalUser(u)
  \/ Prune

SignIn(p) ==
  \/ \E u \in Users : LoginRead(p, u)
  \/ \E t \in Tokens, word \in Passwords : ActivateCheck(p, t, word)
  \/ \E s \in Sessions : LoginFinish(p, s) \/ ActivateCommit(p, s) \/ Resolve(p, s)

OwnAccount(p) ==
  \/ \E word \in Passwords : ChangeRead(p, word)
  \/ ChangeWrite(p)

Administer(p) ==
  \/ \E u \in Users, admin \in BOOLEAN, t \in Tokens : CreateUser(p, u, admin, t)
  \/ \E u \in Users, t \in Tokens : ReissueInvite(p, u, t)
  \/ \E u \in Users, patch \in Patches : UpdateUser(p, u, patch)
  \/ \E u \in Users : DeleteUser(p, u)

Request(p) == SignIn(p) \/ OwnAccount(p) \/ Administer(p) \/ GiveUp(p)

Next ==
  \/ Tick \/ Host
  \/ \E s \in Sessions : Logout(s)
  \/ \E p \in Requests : Request(p)

Spec == Init /\ [][Next]_vars

(* prune_loop runs for as long as the server does.                           *)
FairSpec == Spec /\ WF_vars(Prune)

-----------------------------------------------------------------------------
Statuses == {"none", "pending", "active", "disabled", "gone"}
Instants == 0 .. MaxNow
UserRows == [status : Statuses, admin : BOOLEAN, pw : Passwords \cup {None}, weak : BOOLEAN]
TokenRows == [state : {"unused", "gone"}, user : {None}, expires : Nat]
               \cup [state : {"live", "spent"}, user : Users, expires : Nat]
SessionRows == [state : {"unused", "gone"}, user : {None}, expires : Nat, seen : Instants]
                 \cup [state : {"live"}, user : Users, expires : Nat, seen : Instants]
ReqRows ==
  [at : {"idle"}, user : {None}, admin : {FALSE}, token : {None}, word : {None},
   weak : {FALSE}, began : {0}]
  \cup [at : {"activate"}, user : {None}, admin : {FALSE}, token : Tokens, word : Passwords,
        weak : {FALSE}, began : Instants]
  \cup [at : {"login"}, user : Users, admin : {FALSE}, token : {None}, word : Passwords,
        weak : BOOLEAN, began : Instants]
  \cup [at : {"in"}, user : Users, admin : BOOLEAN, token : {None}, word : {None},
        weak : {FALSE}, began : {0}]
  \cup [at : {"change"}, user : Users, admin : BOOLEAN, token : {None}, word : Passwords,
        weak : {FALSE}, began : {0}]

(* TypeOK: the three tables and the requests keep their shape; and no link   *)
(* or session outlives its account, though a login that verified a password  *)
(* before the account was deleted writes after.                              *)
Shape ==
  /\ now \in Instants
  /\ users \in [Users -> UserRows]
  /\ tokens \in [Tokens -> TokenRows]
  /\ sess \in [Sessions -> SessionRows]
  /\ req \in [Requests -> ReqRows]
NoOrphans ==
  /\ \A t \in Tokens : tokens[t].state \in {"live", "spent"} => HasRow(tokens[t].user)
  /\ \A s \in Sessions : sess[s].state = "live" => HasRow(sess[s].user)
TypeOK == Shape /\ NoOrphans

(* "Two live links for one account is the failure mode": at most one link of *)
(* an account is unconsumed, however invites, re-issues, activations and     *)
(* deletions interleave.                                                     *)
OneLiveLink ==
  \A t, x \in Tokens : Live(t) /\ Live(x) /\ tokens[t].user = tokens[x].user => t = x

(* A live link only ever belongs to an account that has no password yet: it  *)
(* was never activated (pending), or was disabled before it could be.  So a  *)
(* link cannot take over an account somebody uses, and re-enabling an        *)
(* account that never set a password does not activate it.                   *)
LinkIsFirstPassword ==
  \A t \in Tokens : Live(t) =>
    /\ users[tokens[t].user].status \in {"pending", "disabled"}
    /\ users[tokens[t].user].pw = None

(* A library is taken hold of once, by one of the two hosts.  Until its first *)
(* administrator is active it holds one account at most, the bootstrap one   *)
(* waiting for its link or the desktop's local user, and nobody is signed    *)
(* in; from then on whoever is active has a password, so counting active     *)
(* administrators counts people who can sign in.                             *)
Untaken ==
  /\ \A s \in Sessions : sess[s].state # "live"
  /\ \A p \in Requests : req[p].at \in {"idle", "activate"}
  /\ \A u, v \in Users : HasRow(u) /\ HasRow(v) => u = v
  /\ \A u \in Users : HasRow(u) =>
       \/ users[u].status = "pending" /\ users[u].admin
       \/ users[u].status = "active" /\ users[u].pw = None
OneWayIn ==
  IF HasActiveAdmin
  THEN \A u \in Users : users[u].status = "active" => users[u].pw # None
  ELSE Untaken

(* Once there is an active administrator there always is one: no sequence of *)
(* demotions, disablings and deletions, by requests that resolved their      *)
(* administrator rights before others took them away, removes the last.      *)
AdminRemains == [][HasActiveAdmin => HasActiveAdmin']_vars

(* A password once set is replaced only at the end of a request that had     *)
(* verified this very account's password; no link, used twice or revoked,    *)
(* and no administrator ever sets it.                                        *)
ReplacedByKnower(u) ==
  users[u].pw # None /\ users'[u].pw # users[u].pw /\ users'[u].status # "gone" =>
    \E p \in Requests : /\ req[p].at \in {"login", "change"} /\ req[p].user = u
                       /\ req[p].word = users'[u].pw /\ req'[p].at = "idle"
PasswordReplacedByItsKnower == [][\A u \in Users : ReplacedByKnower(u)]_vars

(* An expired session is deleted in the end; in particular no request brings *)
(* it back by sliding its expiry.                                            *)
ExpiredSessionIsPruned ==
  \A s \in Sessions : (sess[s].state = "live" /\ Expired(s)) ~> sess[s].state = "gone"

(* What the theorems rest on besides: an account that does not exist, or was *)
(* never activated, has no password; one whose password a request verified   *)
(* still has one, unless it was deleted.                                     *)
NoPasswordBefore ==
  \A u \in Users : users[u].status \in {"none", "pending", "gone"} => users[u].pw = None

VerifiedHasPassword ==
  \A p \in Requests : req[p].at \in {"login", "change"} =>
    users[req[p].user].status = "gone" \/ users[req[p].user].pw # None

LinksInv == OneLiveLink /\ LinkIsFirstPassword /\ NoPasswordBefore /\ VerifiedHasPassword
AccountsInv == LinksInv /\ OneWayIn

-----------------------------------------------------------------------------
(* What the documents say and the code does not keep.                        *)

(* login.rs: "disabled is the one status activation must never resurrect     *)
(* from": an account comes back from disabled only by being re-enabled,      *)
(* which takes an account with no password to pending.                       *)
NeverResurrected ==
  [][\A u \in Users :
       users[u].status = "disabled" /\ users[u].pw = None => users'[u].status # "active"]_vars
=============================================================================
