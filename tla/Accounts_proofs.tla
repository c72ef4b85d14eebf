--------------------------- MODULE Accounts_proofs ---------------------------
(* Proofs about Accounts for any number of accounts, links, sessions and     *)
(* concurrent requests, and any expiry times.                                *)
EXTENDS Accounts, TLAPS

(* The records the actions write belong to their tables.                     *)
LEMMA RowTypes ==
  /\ NoUser \in UserRows /\ GoneUser \in UserRows /\ LocalUser \in UserRows
  /\ \A a \in BOOLEAN : Invited(a) \in UserRows
  /\ NoToken \in TokenRows /\ [NoToken EXCEPT !.state = "gone"] \in TokenRows
  /\ NoSession \in SessionRows /\ [NoSession EXCEPT !.state = "gone"] \in SessionRows
  /\ IdleReq \in ReqRows
<1>1. NoUser \in UserRows
  BY DEF NoUser, UserRows, Statuses
<1>2. GoneUser \in UserRows /\ LocalUser \in UserRows /\ \A a \in BOOLEAN : Invited(a) \in UserRows
  BY <1>1 DEF GoneUser, LocalUser, Invited, UserRows, Statuses
<1>3. NoToken \in TokenRows /\ [NoToken EXCEPT !.state = "gone"] \in TokenRows
  BY DEF NoToken, TokenRows
<1>4. NoSession \in SessionRows /\ [NoSession EXCEPT !.state = "gone"] \in SessionRows
  BY ClockAssumption DEF NoSession, SessionRows, Instants
<1>5. IdleReq \in ReqRows
  BY DEF IdleReq, ReqRows
<1>6. QED BY <1>1, <1>2, <1>3, <1>4, <1>5

LEMMA NewRowTypes ==
  ASSUME Shape, NEW u \in Users
  PROVE  /\ NewToken(u) \in TokenRows
         /\ \A began \in Instants : NewSession(u, began) \in SessionRows
         /\ \A word \in Passwords : SetPassword(u, word) \in [Users -> UserRows]
<1>1. NewToken(u) \in TokenRows
  BY ClockAssumption DEF Shape, NewToken, TokenRows, Instants
<1>2. ASSUME NEW began \in Instants PROVE NewSession(u, began) \in SessionRows
  BY ClockAssumption DEF NewSession, SessionRows, Instants
<1>3. ASSUME NEW word \in Passwords PROVE SetPassword(u, word) \in [Users -> UserRows]
  <2>1. \A x \in Users : SetPassword(u, word)[x] \in UserRows
    BY DEF Shape, SetPassword, UserRows
  <2>2. QED BY <2>1 DEF Shape, SetPassword
<1>4. QED BY <1>1, <1>2, <1>3

(* What a request's fields are, by where it is.                              *)
LEMMA ReqFields ==
  ASSUME NEW r \in ReqRows
  PROVE  /\ r.at \in {"in", "login", "change"} => r.user \in Users
         /\ r.at \in {"login", "change", "activate"} => r.word \in Passwords
         /\ r.at \in {"login", "activate"} => r.began \in Instants
         /\ r.at = "activate" => r.token \in Tokens
         /\ r.at = "in" => \A word \in Passwords :
              [r EXCEPT !.at = "change", !.word = word] \in ReqRows
BY DEF ReqRows

LEMMA RowFields ==
  /\ \A r \in TokenRows : r.state \in {"live", "spent"} => r.user \in Users
  /\ \A r \in SessionRows : r.state = "live" => r.user \in Users
BY DEF TokenRows, SessionRows

LEMMA EndReqType ==
  ASSUME Shape, NEW p \in Requests, EndReq(p)
  PROVE  req' \in [Requests -> ReqRows]
BY RowTypes DEF Shape, EndReq, SetReq

LEMMA SetReqType ==
  ASSUME Shape, NEW p \in Requests, NEW r \in ReqRows, SetReq(p, r)
  PROVE  req' \in [Requests -> ReqRows]
BY DEF Shape, SetReq

LEMMA IssuedType ==
  ASSUME Shape, NEW u \in Users, NEW t \in Tokens
  PROVE  IssuedAlone(u, t) \in [Tokens -> TokenRows]
<1>1. \A x \in Tokens : [tokens[x] EXCEPT !.state = "spent"] \in TokenRows
        \/ tokens[x].state # "live"
  BY DEF Shape, TokenRows
<1>2. QED BY <1>1, NewRowTypes DEF Shape, IssuedAlone, Live

(* Every step keeps the shape of the tables.                                 *)
LEMMA ShapeStep == Shape /\ NoOrphans /\ [Next]_vars => Shape'
<1> SUFFICES ASSUME Shape, NoOrphans, [Next]_vars PROVE Shape'
  OBVIOUS
<1>1. CASE Tick
  BY <1>1, ClockAssumption DEF Shape, Tick, Instants
<1>2. ASSUME NEW u \in Users, NEW t \in Tokens, Bootstrap(u, t) PROVE Shape'
  <2>1. users' \in [Users -> UserRows]
    BY <1>2, RowTypes DEF Shape, Bootstrap
  <2>2. tokens' \in [Tokens -> TokenRows]
    BY <1>2, NewRowTypes DEF Shape, Bootstrap
  <2>3. QED BY <1>2, <2>1, <2>2 DEF Shape, Bootstrap
<1>3. ASSUME NEW u \in Users, EnsureLocalUser(u) PROVE Shape'
  BY <1>3, RowTypes DEF Shape, EnsureLocalUser
<1>4. CASE Prune
  BY <1>4, RowTypes DEF Shape, Prune
<1>5. ASSUME NEW s \in Sessions, Logout(s) PROVE Shape'
  BY <1>5, RowTypes DEF Shape, Logout
<1>6. ASSUME NEW p \in Requests, SignIn(p) PROVE Shape'
  <2>1. ASSUME NEW u \in Users, LoginRead(p, u) PROVE Shape'
    <3>1. users[u].pw \in Passwords /\ users[u].weak \in BOOLEAN
      BY <2>1 DEF LoginRead, Shape, UserRows
    <3>2. now \in Instants
      BY DEF Shape
    <3>3. [IdleReq EXCEPT !.at = "login", !.user = u, !.word = users[u].pw,
                          !.weak = users[u].weak, !.began = now] \in ReqRows
      BY <3>1, <3>2 DEF IdleReq, ReqRows
    <3>4. req' \in [Requests -> ReqRows]
      BY <2>1, <3>3, SetReqType DEF LoginRead
    <3>5. QED BY <2>1, <3>4 DEF Shape, LoginRead
  <2>2. ASSUME NEW t \in Tokens, NEW word \in Passwords, ActivateCheck(p, t, word) PROVE Shape'
    <3>1. [IdleReq EXCEPT !.at = "activate", !.token = t, !.word = word, !.began = now] \in ReqRows
      BY DEF IdleReq, ReqRows, Shape
    <3>2. req' \in [Requests -> ReqRows]
      BY <2>2, <3>1, SetReqType DEF ActivateCheck
    <3>3. QED BY <2>2, <3>2 DEF Shape, ActivateCheck
  <2>3. ASSUME NEW s \in Sessions, LoginFinish(p, s) PROVE Shape'
    <3>1. req[p] \in ReqRows /\ req[p].at = "login"
      BY <2>3 DEF LoginFinish, Shape
    <3>2. req[p].user \in Users /\ req[p].word \in Passwords /\ req[p].began \in Instants
      BY <3>1, ReqFields
    <3>3. users' \in [Users -> UserRows]
      BY <2>3, <3>2, NewRowTypes DEF LoginFinish, Shape
    <3>4. sess' \in [Sessions -> SessionRows]
      BY <2>3, <3>2, NewRowTypes DEF LoginFinish, Shape
    <3>5. QED BY <2>3, <3>3, <3>4, EndReqType DEF LoginFinish, Shape
  <2>4. ASSUME NEW s \in Sessions, ActivateCommit(p, s) PROVE Shape'
    <3>1. req[p] \in ReqRows /\ req[p].at = "activate"
      BY <2>4 DEF ActivateCommit, Shape
    <3>2. req[p].token \in Tokens /\ req[p].word \in Passwords /\ req[p].began \in Instants
      BY <3>1, ReqFields
    <3>3. tokens[req[p].token] \in TokenRows /\ tokens[req[p].token].state = "live"
      BY <2>4, <3>2 DEF ActivateCommit, Consumable, Live, Shape
    <3>4. tokens[req[p].token].user \in Users
      BY <3>3, RowFields
    <3>5. tokens' \in [Tokens -> TokenRows]
      <4>1. [tokens[req[p].token] EXCEPT !.state = "spent"] \in TokenRows
        BY <3>3 DEF TokenRows
      <4>2. QED BY <2>4, <3>2, <4>1 DEF ActivateCommit, Shape
    <3>6. users' \in [Users -> UserRows]
      <4>1. \A x \in Users : users'[x] \in UserRows
        BY ZenonT(90), <2>4, <3>2, <3>4 DEF ActivateCommit, Shape, UserRows, Statuses
      <4>2. QED BY <2>4, <4>1 DEF ActivateCommit, Shape
    <3>7. sess' \in [Sessions -> SessionRows]
      BY <2>4, <3>2, <3>4, NewRowTypes DEF ActivateCommit, Shape
    <3>8. QED BY <2>4, <3>5, <3>6, <3>7, EndReqType DEF ActivateCommit, Shape
  <2>5. ASSUME NEW s \in Sessions, Resolve(p, s) PROVE Shape'
    <3>1. sess[s].user \in Users
      BY <2>5, RowFields DEF Resolve, Shape
    <3>2. now \in Instants /\ users[sess[s].user].admin \in BOOLEAN
      BY <3>1 DEF Shape, UserRows
    <3>3. [IdleReq EXCEPT !.at = "in", !.user = sess[s].user,
                          !.admin = users[sess[s].user].admin] \in ReqRows
      BY <3>1, <3>2 DEF IdleReq, ReqRows
    <3>4. req' \in [Requests -> ReqRows]
      BY <2>5, <3>3, SetReqType DEF Resolve
    <3>5. sess' \in [Sessions -> SessionRows]
      BY <2>5, <3>1, <3>2, NewRowTypes DEF Resolve, Shape
    <3>6. QED BY <2>5, <3>4, <3>5 DEF Resolve, Shape
  <2>6. QED BY <1>6, <2>1, <2>2, <2>3, <2>4, <2>5 DEF SignIn
<1>7. ASSUME NEW p \in Requests, OwnAccount(p) PROVE Shape'
  <2>1. ASSUME NEW word \in Passwords, ChangeRead(p, word) PROVE Shape'
    <3>1. [req[p] EXCEPT !.at = "change", !.word = word] \in ReqRows
      BY <2>1, ReqFields DEF ChangeRead, Shape
    <3>2. req' \in [Requests -> ReqRows]
      BY <2>1, <3>1, SetReqType DEF ChangeRead
    <3>3. QED BY <2>1, <3>2 DEF ChangeRead, Shape
  <2>2. CASE ChangeWrite(p)
    <3>1. req[p].user \in Users /\ req[p].word \in Passwords
      BY <2>2, ReqFields DEF ChangeWrite, Shape
    <3>2. users' \in [Users -> UserRows]
      BY <2>2, <3>1, NewRowTypes DEF ChangeWrite, Shape
    <3>3. QED BY <2>2, <3>2, EndReqType DEF ChangeWrite, Shape
  <2>3. QED BY <1>7, <2>1, <2>2 DEF OwnAccount
<1>8. ASSUME NEW p \in Requests, Administer(p) PROVE Shape'
  <2>1. ASSUME NEW u \in Users, NEW admin \in BOOLEAN, NEW t \in Tokens, CreateUser(p, u, admin, t)
        PROVE  Shape'
    <3>1. users' \in [Users -> UserRows]
      BY <2>1, RowTypes DEF CreateUser, Shape
    <3>2. tokens' \in [Tokens -> TokenRows]
      BY <2>1, NewRowTypes DEF CreateUser, Shape
    <3>3. QED BY <2>1, <3>1, <3>2, EndReqType DEF CreateUser, Shape
  <2>2. ASSUME NEW u \in Users, NEW t \in Tokens, ReissueInvite(p, u, t) PROVE Shape'
    BY <2>2, IssuedType, EndReqType DEF ReissueInvite, Shape
  <2>3. ASSUME NEW u \in Users, NEW patch \in Patches, UpdateUser(p, u, patch) PROVE Shape'
    <3>1. users[u] \in UserRows
      BY DEF Shape
    <3>2. StatusAfter(users[u], patch.disabled) \in Statuses
      BY <3>1 DEF StatusAfter, Patches, UserRows, Statuses
    <3>3. (IF patch.admin = None THEN users[u].admin ELSE patch.admin) \in BOOLEAN
      BY <3>1 DEF Patches, UserRows
    <3>4. \A x \in Users : users'[x] \in UserRows
      BY <2>3, <3>1, <3>2, <3>3 DEF UpdateUser, Shape, UserRows
    <3>5. users' \in [Users -> UserRows]
      BY <2>3, <3>4 DEF UpdateUser, Shape
    <3>6. QED BY <2>3, <3>5, EndReqType DEF UpdateUser, Shape
  <2>4. ASSUME NEW u \in Users, DeleteUser(p, u) PROVE Shape'
    <3>1. users' \in [Users -> UserRows]
      BY <2>4, RowTypes DEF DeleteUser, Shape
    <3>2. tokens' \in [Tokens -> TokenRows]
      BY <2>4, RowTypes DEF DeleteUser, Shape
    <3>3. sess' \in [Sessions -> SessionRows]
      BY <2>4, RowTypes DEF DeleteUser, Shape
    <3>4. QED BY <2>4, <3>1, <3>2, <3>3, EndReqType DEF DeleteUser, Shape
  <2>5. QED BY <1>8, <2>1, <2>2, <2>3, <2>4 DEF Administer
<1>9. ASSUME NEW p \in Requests, GiveUp(p) PROVE Shape'
  BY <1>9, EndReqType DEF GiveUp, Shape
<1>10. CASE UNCHANGED vars
  BY <1>10 DEF vars, Shape
<1>11. QED
  BY <1>1, <1>2, <1>3, <1>4, <1>5, <1>6, <1>7, <1>8, <1>9, <1>10 DEF Next, Host, Request

(* An activation that commits, with its link and its account named.          *)
Activates(p, s, t, u) ==
  /\ Live(t) /\ tokens[t].user = u
  /\ tokens' = [tokens EXCEPT ![t].state = "spent"]
  /\ users'[u] = [users[u] EXCEPT !.pw = req[p].word, !.weak = FALSE, !.status = "active"]
  /\ users'[u].pw \in Passwords /\ users'[u].status = "active"
  /\ users'[u].admin = users[u].admin
  /\ \A v \in Users \ {u} : users'[v] = users[v]
  /\ sess' = [sess EXCEPT ![s] = NewSession(u, req[p].began)]
  /\ EndReq(p)

LEMMA ActivatesSomebody ==
  ASSUME Shape, NEW p \in Requests, NEW s \in Sessions, ActivateCommit(p, s)
  PROVE  \E t \in Tokens, u \in Users : Activates(p, s, t, u)
<1>1. req[p].token \in Tokens /\ req[p].word \in Passwords
  BY ReqFields DEF ActivateCommit, Shape
<1>2. Live(req[p].token) /\ tokens[req[p].token] \in TokenRows
  BY <1>1 DEF ActivateCommit, Consumable, Shape
<1>3. tokens[req[p].token].user \in Users
  BY <1>2, RowFields DEF Live
<1>4. users[tokens[req[p].token].user] \in UserRows
  BY <1>3 DEF Shape
<1>5. Activates(p, s, req[p].token, tokens[req[p].token].user)
  BY <1>1, <1>2, <1>3, <1>4 DEF ActivateCommit, Activates, Shape, UserRows
<1>6. QED BY <1>1, <1>3, <1>5

(* No step leaves a link or a session without its account.                   *)
LEMMA OrphansStep == Shape /\ NoOrphans /\ [Next]_vars => NoOrphans'
<1> SUFFICES ASSUME Shape, NoOrphans, [Next]_vars PROVE NoOrphans'
  OBVIOUS
<1>1. CASE UNCHANGED <<users, tokens, sess>>
  BY <1>1 DEF NoOrphans, HasRow
<1>2. ASSUME NEW u \in Users, NEW t \in Tokens, Bootstrap(u, t) PROVE NoOrphans'
  BY <1>2 DEF Bootstrap, NoOrphans, Shape, HasRow, Invited, NoUser, NewToken
<1>3. ASSUME NEW u \in Users, EnsureLocalUser(u) PROVE NoOrphans'
  BY <1>3 DEF EnsureLocalUser, NoOrphans, Shape, HasRow, LocalUser, NoUser
<1>4. CASE Prune
  BY <1>4 DEF Prune, NoOrphans, Shape, HasRow, NoSession
<1>5. ASSUME NEW s \in Sessions, Logout(s) PROVE NoOrphans'
  BY <1>5 DEF Logout, NoOrphans, Shape, HasRow, NoSession
<1>6. ASSUME NEW p \in Requests, NEW s \in Sessions, LoginFinish(p, s) PROVE NoOrphans'
  <2>1. req[p].user \in Users
    BY <1>6, ReqFields DEF LoginFinish, Shape
  <2>2. \A u \in Users : users'[u].status = users[u].status
    BY <1>6 DEF LoginFinish, SetPassword, Shape, UserRows
  <2>3. QED BY <1>6, <2>1, <2>2, RowFields DEF LoginFinish, NoOrphans, Shape, HasRow, NewSession
<1>7. ASSUME NEW p \in Requests, NEW s \in Sessions, ActivateCommit(p, s) PROVE NoOrphans'
  <2>1. PICK t \in Tokens, u \in Users : Activates(p, s, t, u)
    BY <1>7, ActivatesSomebody
  <2>2. \A v \in Users : HasRow(v) => HasRow(v)'
    BY <2>1 DEF Activates, HasRow
  <2>3. \A x \in Tokens : tokens'[x].user = tokens[x].user
          /\ (tokens'[x].state \in {"live", "spent"} => tokens[x].state \in {"live", "spent"})
    BY <2>1 DEF Activates, Shape, TokenRows, Live
  <2>4. HasRow(u)'
    BY <2>1 DEF Activates, HasRow
  <2>5. QED BY <2>1, <2>2, <2>3, <2>4, RowFields DEF Activates, NoOrphans, Shape, NewSession
<1>8. ASSUME NEW p \in Requests, NEW s \in Sessions, Resolve(p, s) PROVE NoOrphans'
  BY <1>8, RowFields DEF Resolve, NoOrphans, Shape, HasRow, NewSession
<1>9. ASSUME NEW p \in Requests, ChangeWrite(p) PROVE NoOrphans'
  <2>1. \A u \in Users : users'[u].status = users[u].status
    BY <1>9 DEF ChangeWrite, SetPassword, Shape, UserRows
  <2>2. QED BY <1>9, <2>1, RowFields DEF ChangeWrite, NoOrphans, Shape, HasRow
<1>10. ASSUME NEW p \in Requests, NEW u \in Users, NEW admin \in BOOLEAN, NEW t \in Tokens,
              CreateUser(p, u, admin, t)
       PROVE  NoOrphans'
  BY <1>10 DEF CreateUser, NoOrphans, Shape, HasRow, Invited, NoUser, NewToken
<1>11. ASSUME NEW p \in Requests, NEW u \in Users, NEW t \in Tokens, ReissueInvite(p, u, t)
       PROVE  NoOrphans'
  <2>1. \A x \in Tokens : \/ tokens'[x] = tokens[x]
                          \/ tokens'[x].user = u
                          \/ Live(x) /\ tokens'[x].user = tokens[x].user
    BY <1>11 DEF ReissueInvite, IssuedAlone, NewToken, Shape, TokenRows
  <2>2. HasRow(u)
    BY <1>11 DEF ReissueInvite, HasRow
  <2>3. QED BY <1>11, <2>1, <2>2 DEF ReissueInvite, NoOrphans, Live, HasRow
<1>12. ASSUME NEW p \in Requests, NEW u \in Users, NEW patch \in Patches, UpdateUser(p, u, patch)
       PROVE  NoOrphans'
  <2>1. users[u] \in UserRows
    BY DEF Shape
  <2>2. StatusAfter(users[u], patch.disabled) \in {"pending", "active", "disabled"}
    BY <1>12, <2>1 DEF StatusAfter, Patches, UserRows, UpdateUser, HasRow
  <2>3. users'[u].status = StatusAfter(users[u], patch.disabled)
        /\ \A v \in Users \ {u} : users'[v] = users[v]
    BY <1>12, <2>1 DEF UpdateUser, Shape, UserRows
  <2>4. \A v \in Users : HasRow(v) => HasRow(v)'
    BY <2>2, <2>3 DEF HasRow
  <2>5. QED BY <1>12, <2>4, RowFields DEF UpdateUser, NoOrphans, Shape
<1>13. ASSUME NEW p \in Requests, NEW u \in Users, DeleteUser(p, u) PROVE NoOrphans'
  <2>1. \A v \in Users \ {u} : users'[v] = users[v]
    BY <1>13 DEF DeleteUser, Shape
  <2>2. \A x \in Tokens : tokens'[x].state \in {"live", "spent"} =>
          tokens'[x] = tokens[x] /\ tokens[x].user # u
    BY <1>13 DEF DeleteUser, NoToken
  <2>3. \A x \in Sessions : sess'[x].state = "live" => sess'[x] = sess[x] /\ sess[x].user # u
    BY <1>13 DEF DeleteUser, NoSession
  <2>4. QED BY <2>1, <2>2, <2>3, RowFields DEF NoOrphans, Shape, HasRow
<1>14. QED
  BY <1>1, <1>2, <1>3, <1>4, <1>5, <1>6, <1>7, <1>8, <1>9, <1>10, <1>11, <1>12, <1>13
     DEF Next, Host, Request, SignIn, OwnAccount, Administer, vars, Tick, LoginRead, ActivateCheck,
         ChangeRead, GiveUp

(* TypeOK holds always: the tables keep their shape, and however a login, an *)
(* activation or an administrator's operation interleaves with the deletion  *)
(* of the account, no link or session is left without one.                   *)
THEOREM TypeCorrect == Spec => []TypeOK
<1>1. Init => TypeOK
  <2> SUFFICES ASSUME Init PROVE TypeOK
    OBVIOUS
  <2>1. LegacyUsers \subseteq UserRows
    BY DEF LegacyUsers, UserRows, Statuses
  <2>2. Shape
    BY <2>1, RowTypes, ClockAssumption DEF Init, Shape, Instants
  <2>3. NoOrphans
    BY DEF Init, NoOrphans, NoToken, NoSession
  <2>4. QED BY <2>2, <2>3 DEF TypeOK
<1>2. TypeOK /\ [Next]_vars => TypeOK'
  BY ShapeStep, OrphansStep DEF TypeOK
<1>3. QED BY <1>1, <1>2, PTL DEF Spec

(* What update_user writes: the one row, a status by the password it has.    *)
LEMMA Updates ==
  ASSUME Shape, NEW p \in Requests, NEW u \in Users, NEW patch \in Patches, UpdateUser(p, u, patch)
  PROVE  /\ \A v \in Users \ {u} : users'[v] = users[v]
         /\ users'[u].pw = users[u].pw
         /\ users'[u].status = StatusAfter(users[u], patch.disabled)
         /\ users'[u].admin = IF patch.admin = None THEN users[u].admin ELSE patch.admin
         /\ patch.admin \in BOOLEAN \cup {None} /\ patch.disabled \in BOOLEAN \cup {None}
BY DEF UpdateUser, Shape, UserRows, Patches

(* A password written leaves every status and every other row alone.         *)
LEMMA SetsPassword ==
  ASSUME Shape, NEW u \in Users, NEW word \in Passwords, users' = SetPassword(u, word)
  PROVE  /\ \A v \in Users \ {u} : users'[v] = users[v]
         /\ users'[u].pw = word /\ users'[u].pw # None
         /\ users'[u].status = users[u].status /\ users'[u].admin = users[u].admin
BY NoneAssumption DEF SetPassword, Shape, UserRows

(* A request that ends leaves the others as they are.                        *)
LEMMA EndedReq ==
  ASSUME Shape, NEW p \in Requests, EndReq(p)
  PROVE  req'[p].at = "idle" /\ \A q \in Requests \ {p} : req'[q] = req[q]
BY DEF EndReq, SetReq, Shape, IdleReq

(* Accounts keep their passwords, and no request becomes one that verified.  *)
LEMMA VerifiedStay ==
  ASSUME Shape, LinksInv,
         \A q \in Requests : req'[q] = req[q] \/ req'[q].at = "idle",
         \A v \in Users : (users[v].status = "gone" \/ users[v].pw # None)
           => (users'[v].status = "gone" \/ users'[v].pw # None)
  PROVE  VerifiedHasPassword'
<1>1. \A q \in Requests : req'[q].at \in {"login", "change"} =>
        req'[q] = req[q] /\ req[q].user \in Users
  BY ReqFields DEF Shape
<1>2. QED BY <1>1 DEF LinksInv, VerifiedHasPassword

(* The last write of a login or of a password change.                        *)
LEMMA WritesPassword ==
  ASSUME Shape, LinksInv, NEW p \in Requests, req[p].at \in {"login", "change"}, HasRow(req[p].user),
         users' = SetPassword(req[p].user, req[p].word), tokens' = tokens, EndReq(p)
  PROVE  LinksInv'
<1>1. PICK u \in Users, word \in Passwords : u = req[p].user /\ word = req[p].word
  BY ReqFields DEF Shape
<1>2. users[u].pw # None /\ HasRow(u)
  BY <1>1 DEF LinksInv, VerifiedHasPassword, HasRow
<1>3. users[u].status # "pending" /\ \A t \in Tokens : Live(t) => tokens[t].user # u
  BY <1>2 DEF LinksInv, NoPasswordBefore, LinkIsFirstPassword
<1>4. users' = SetPassword(u, word)
  BY <1>1
<1>5. OneLiveLink'
  BY DEF LinksInv, OneLiveLink, Live
<1>6. LinkIsFirstPassword'
  BY <1>3, <1>4, SetsPassword, RowFields DEF LinksInv, LinkIsFirstPassword, Live, Shape
<1>7. NoPasswordBefore'
  BY <1>2, <1>3, <1>4, SetsPassword DEF LinksInv, NoPasswordBefore, HasRow
<1>8. VerifiedHasPassword'
  <2>1. \A v \in Users : (users[v].status = "gone" \/ users[v].pw # None)
          => (users'[v].status = "gone" \/ users'[v].pw # None)
    BY <1>4, SetsPassword
  <2>2. QED BY ZenonT(90), <2>1, EndedReq, ReqFields DEF LinksInv, VerifiedHasPassword, Shape
<1>9. QED BY <1>5, <1>6, <1>7, <1>8 DEF LinksInv

(* Requests that only read leave the links as they are.                      *)
LEMMA ReadsOnly ==
  ASSUME Shape, LinksInv, users' = users, tokens' = tokens,
         \A p \in Requests : req'[p] = req[p] \/ req'[p].at \notin {"login", "change"}
  PROVE  LinksInv'
BY DEF LinksInv, OneLiveLink, LinkIsFirstPassword, NoPasswordBefore, VerifiedHasPassword, Live

LEMMA LinksStep == TypeOK /\ AccountsInv /\ [Next]_vars => LinksInv'
<1> SUFFICES ASSUME Shape, NoOrphans, LinksInv, OneWayIn, [Next]_vars PROVE LinksInv'
  BY DEF TypeOK, AccountsInv
<1>1. CASE Tick \/ Prune \/ UNCHANGED vars \/ \E s \in Sessions : Logout(s)
  BY <1>1, ReadsOnly DEF Tick, Prune, vars, Logout
<1>2. ASSUME NEW u \in Users, NEW t \in Tokens, Bootstrap(u, t) PROVE LinksInv'
  <2>1. \A x \in Tokens : ~Live(x)
    BY <1>2, RowFields DEF Bootstrap, Empty, NoOrphans, Live, Shape
  <2>2. \A x \in Tokens : Live(x)' => x = t
    BY <1>2, <2>1 DEF Bootstrap, Live, Shape
  <2>3. (OneLiveLink /\ LinkIsFirstPassword /\ NoPasswordBefore)'
    BY <1>2, <2>2 DEF Bootstrap, LinksInv, OneLiveLink, LinkIsFirstPassword, NoPasswordBefore,
                      NewToken, Invited, NoUser, Shape
  <2>4. \A q \in Requests : req[q].at \in {"login", "change"} => req[q].user # u
    BY <1>2, ReqFields DEF Bootstrap, LinksInv, VerifiedHasPassword, NoPasswordBefore
  <2>5. VerifiedHasPassword'
    BY <1>2, <2>4, ReqFields DEF Bootstrap, LinksInv, VerifiedHasPassword, Shape
  <2>6. QED BY <2>3, <2>5 DEF LinksInv
<1>3. ASSUME NEW u \in Users, EnsureLocalUser(u) PROVE LinksInv'
  <2>1. \A x \in Tokens : ~Live(x)
    BY <1>3, RowFields DEF EnsureLocalUser, Empty, NoOrphans, Live, Shape
  <2>2. (OneLiveLink /\ LinkIsFirstPassword /\ NoPasswordBefore)'
    BY <1>3, <2>1 DEF EnsureLocalUser, LinksInv, OneLiveLink, LinkIsFirstPassword,
                      NoPasswordBefore, LocalUser, NoUser, Shape, Live
  <2>3. \A q \in Requests : req[q].at \in {"login", "change"} => req[q].user # u
    BY <1>3, ReqFields DEF EnsureLocalUser, LinksInv, VerifiedHasPassword, NoPasswordBefore
  <2>4. VerifiedHasPassword'
    BY <1>3, <2>3, ReqFields DEF EnsureLocalUser, LinksInv, VerifiedHasPassword, Shape
  <2>5. QED BY <2>2, <2>4 DEF LinksInv
<1>4. ASSUME NEW p \in Requests, NEW u \in Users, LoginRead(p, u) PROVE LinksInv'
  <2>1. req'[p].user = u /\ \A q \in Requests \ {p} : req'[q] = req[q]
    BY <1>4 DEF LoginRead, SetReq, IdleReq, Shape
  <2>2. VerifiedHasPassword'
    BY <1>4, <2>1 DEF LoginRead, LinksInv, VerifiedHasPassword
  <2>3. QED BY <1>4, <2>2 DEF LoginRead, LinksInv, OneLiveLink, LinkIsFirstPassword,
                              NoPasswordBefore, Live
<1>5. ASSUME NEW p \in Requests, NEW t \in Tokens, NEW word \in Passwords, ActivateCheck(p, t, word)
      PROVE  LinksInv'
  <2>1. \A q \in Requests : req'[q] = req[q] \/ req'[q].at = "activate"
    BY <1>5 DEF ActivateCheck, SetReq, Shape, IdleReq
  <2>2. QED BY <1>5, <2>1, ReadsOnly DEF ActivateCheck
<1>6. ASSUME NEW p \in Requests, NEW s \in Sessions, LoginFinish(p, s) PROVE LinksInv'
  <2>1. CASE users' = users
    BY <1>6, <2>1, ReadsOnly, EndedReq DEF LoginFinish
  <2>2. CASE users' = SetPassword(req[p].user, req[p].word)
    BY <1>6, <2>2, WritesPassword DEF LoginFinish
  <2>3. QED BY <1>6, <2>1, <2>2 DEF LoginFinish
<1>7. ASSUME NEW p \in Requests, NEW s \in Sessions, ActivateCommit(p, s) PROVE LinksInv'
  <2>1. PICK t \in Tokens, u \in Users : Activates(p, s, t, u)
    BY <1>7, ActivatesSomebody
  <2>2. \A x \in Tokens : Live(x)' => x # t /\ Live(x) /\ tokens'[x].user = tokens[x].user
    BY <2>1 DEF Activates, Shape, TokenRows, Live
  <2>3. \A x \in Tokens : Live(x)' => tokens[x].user # u
    BY <2>1, <2>2 DEF Activates, LinksInv, OneLiveLink
  <2>4. users'[u].pw # None
    BY <2>1, NoneAssumption DEF Activates
  <2>5. OneLiveLink' /\ LinkIsFirstPassword'
    BY <2>1, <2>2, <2>3, RowFields DEF Activates, LinksInv, OneLiveLink, LinkIsFirstPassword,
                                       Live, Shape
  <2>6. NoPasswordBefore'
    BY <2>1 DEF Activates, LinksInv, NoPasswordBefore
  <2>7. VerifiedHasPassword'
    <3>1. \A q \in Requests : req'[q] = req[q] \/ req'[q].at = "idle"
      BY <2>1, EndedReq DEF Activates
    <3>2. QED BY <2>1, <2>4, <3>1, VerifiedStay DEF Activates
  <2>8. QED BY <2>5, <2>6, <2>7 DEF LinksInv
<1>8. ASSUME NEW p \in Requests, NEW s \in Sessions, Resolve(p, s) PROVE LinksInv'
  <2>1. \A q \in Requests : req'[q] = req[q] \/ req'[q].at = "in"
    BY <1>8 DEF Resolve, SetReq, Shape, IdleReq
  <2>2. QED BY <1>8, <2>1, ReadsOnly DEF Resolve
<1>9. ASSUME NEW p \in Requests, NEW word \in Passwords, ChangeRead(p, word) PROVE LinksInv'
  <2>1. req'[p].user = req[p].user /\ \A q \in Requests \ {p} : req'[q] = req[q]
    BY <1>9 DEF ChangeRead, SetReq, Shape, ReqRows
  <2>2. QED BY <1>9, <2>1 DEF ChangeRead, LinksInv, OneLiveLink, LinkIsFirstPassword,
                               NoPasswordBefore, VerifiedHasPassword, Live
<1>10. ASSUME NEW p \in Requests, ChangeWrite(p) PROVE LinksInv'
  <2>1. CASE HasRow(req[p].user)
    BY <1>10, <2>1, WritesPassword DEF ChangeWrite
  <2>2. CASE ~HasRow(req[p].user)
    BY <1>10, <2>2, ReadsOnly, EndedReq DEF ChangeWrite
  <2>3. QED BY <2>1, <2>2
<1>11. ASSUME NEW p \in Requests, NEW u \in Users, NEW admin \in BOOLEAN, NEW t \in Tokens,
              CreateUser(p, u, admin, t)
       PROVE  LinksInv'
  <2>1. \A x \in Tokens : Live(x) => tokens[x].user # u
    BY <1>11 DEF CreateUser, LinksInv, LinkIsFirstPassword
  <2>2. \A x \in Tokens : Live(x)' => x = t \/ (Live(x) /\ tokens'[x].user = tokens[x].user)
    BY <1>11 DEF CreateUser, Live, Shape
  <2>3. tokens'[t].user = u /\ users'[u].status = "pending" /\ users'[u].pw = None
    BY <1>11 DEF CreateUser, NewToken, Invited, NoUser, Shape
  <2>4. OneLiveLink'
    BY <2>1, <2>2, <2>3 DEF LinksInv, OneLiveLink
  <2>5. LinkIsFirstPassword'
    BY <1>11, <2>1, <2>2, <2>3, RowFields DEF CreateUser, LinksInv, LinkIsFirstPassword, Shape, Live
  <2>6. NoPasswordBefore'
    BY <1>11, <2>3 DEF CreateUser, LinksInv, NoPasswordBefore, Shape
  <2>7. \A q \in Requests : req[q].at \in {"login", "change"} => req[q].user # u
    BY <1>11, ReqFields DEF CreateUser, LinksInv, VerifiedHasPassword, NoPasswordBefore
  <2>8. VerifiedHasPassword'
    BY <1>11, <2>7, EndedReq, ReqFields DEF CreateUser, LinksInv, VerifiedHasPassword, Shape
  <2>9. QED BY <2>4, <2>5, <2>6, <2>8 DEF LinksInv
<1>12. ASSUME NEW p \in Requests, NEW u \in Users, NEW t \in Tokens, ReissueInvite(p, u, t)
       PROVE  LinksInv'
  <2>1. \A x \in Tokens : Live(x)' =>
          \/ x = t /\ tokens'[x].user = u
          \/ x # t /\ Live(x) /\ tokens'[x].user = tokens[x].user /\ tokens[x].user # u
    BY <1>12 DEF ReissueInvite, IssuedAlone, NewToken, Live, Shape
  <2>2. users[u].pw = None
    BY <1>12 DEF ReissueInvite, LinksInv, NoPasswordBefore
  <2>3. OneLiveLink' /\ LinkIsFirstPassword'
    BY <1>12, <2>1, <2>2 DEF ReissueInvite, LinksInv, OneLiveLink, LinkIsFirstPassword
  <2>4. NoPasswordBefore' /\ VerifiedHasPassword'
    BY <1>12, EndedReq DEF ReissueInvite, LinksInv, NoPasswordBefore, VerifiedHasPassword
  <2>5. QED BY <2>3, <2>4 DEF LinksInv
<1>13. ASSUME NEW p \in Requests, NEW u \in Users, NEW patch \in Patches, UpdateUser(p, u, patch)
       PROVE  LinksInv'
  <2>1. users[u] \in UserRows /\ HasRow(u) /\ tokens' = tokens
    BY <1>13 DEF UpdateUser, Shape
  <2>2. users'[u].status = users[u].status \/ users'[u].status = "disabled"
          \/ (users[u].pw = None /\ users'[u].status = "pending")
          \/ (users[u].pw # None /\ users'[u].status = "active")
    BY <1>13, Updates DEF StatusAfter
  <2>3. OneLiveLink'
    BY <2>1 DEF LinksInv, OneLiveLink, Live
  <2>4. LinkIsFirstPassword'
    BY <1>13, <2>1, <2>2, Updates, RowFields DEF LinksInv, LinkIsFirstPassword, Live, Shape
  <2>5. NoPasswordBefore'
    BY <1>13, <2>1, <2>2, Updates DEF LinksInv, NoPasswordBefore, HasRow
  <2>6. users[u].status # "gone" /\ users'[u].pw = users[u].pw
    BY <1>13, <2>1, Updates DEF HasRow
  <2>7. VerifiedHasPassword'
    <3>1. \A q \in Requests : req'[q] = req[q] \/ req'[q].at = "idle"
      BY <1>13, EndedReq DEF UpdateUser
    <3>2. \A v \in Users \ {u} : users'[v] = users[v]
      BY <1>13, Updates
    <3>3. QED BY <2>6, <3>1, <3>2, VerifiedStay
  <2>8. QED BY <2>3, <2>4, <2>5, <2>7 DEF LinksInv
<1>14. ASSUME NEW p \in Requests, NEW u \in Users, DeleteUser(p, u) PROVE LinksInv'
  <2>1. users'[u].status = "gone" /\ users'[u].pw = None /\ \A v \in Users \ {u} : users'[v] = users[v]
    BY <1>14 DEF DeleteUser, GoneUser, NoUser, Shape
  <2>2. \A x \in Tokens : Live(x)' => Live(x) /\ tokens'[x] = tokens[x] /\ tokens[x].user # u
    BY <1>14 DEF DeleteUser, Live, NoToken, Shape
  <2>3. OneLiveLink' /\ LinkIsFirstPassword'
    BY <2>1, <2>2, RowFields DEF LinksInv, OneLiveLink, LinkIsFirstPassword, Live, Shape
  <2>4. NoPasswordBefore'
    BY <2>1 DEF LinksInv, NoPasswordBefore
  <2>5. VerifiedHasPassword'
    BY ZenonT(90), <1>14, <2>1, EndedReq, ReqFields DEF DeleteUser, LinksInv, VerifiedHasPassword, Shape
  <2>6. QED BY <2>3, <2>4, <2>5 DEF LinksInv
<1>15. ASSUME NEW p \in Requests, GiveUp(p) PROVE LinksInv'
  BY <1>15, ReadsOnly, EndedReq DEF GiveUp
<1>16. QED
  BY <1>1, <1>2, <1>3, <1>4, <1>5, <1>6, <1>7, <1>8, <1>9, <1>10, <1>11, <1>12, <1>13, <1>14, <1>15
     DEF Next, Host, Request, SignIn, OwnAccount, Administer

(* While an administrator is active, every step keeps one, and keeps every   *)
(* active account one that can sign in.                                      *)
LEMMA TakenStep ==
  ASSUME Shape, LinksInv, HasActiveAdmin, [Next]_vars,
         \A u \in Users : users[u].status = "active" => users[u].pw # None
  PROVE  HasActiveAdmin' /\ \A u \in Users : users'[u].status = "active" => users'[u].pw # None
<1> DEFINE Taken == HasActiveAdmin' /\ \A u \in Users : users'[u].status = "active" => users'[u].pw # None
<1>1. CASE UNCHANGED users
  BY <1>1 DEF HasActiveAdmin, ActiveAdmin
<1>2. ASSUME Empty PROVE FALSE
  BY <1>2 DEF Empty, HasActiveAdmin, ActiveAdmin, HasRow
<1>3. ASSUME NEW p \in Requests, req[p].at \in {"login", "change"},
             users' = SetPassword(req[p].user, req[p].word)
      PROVE  Taken
  <2>1. PICK u \in Users, word \in Passwords : u = req[p].user /\ word = req[p].word
    BY <1>3, ReqFields DEF Shape
  <2>2. QED BY <1>3, <2>1, SetsPassword DEF HasActiveAdmin, ActiveAdmin
<1>4. ASSUME NEW p \in Requests, NEW s \in Sessions, ActivateCommit(p, s) PROVE Taken
  <2>1. PICK t \in Tokens, u \in Users : Activates(p, s, t, u)
    BY <1>4, ActivatesSomebody
  <2>2. QED BY ZenonT(90), <2>1, NoneAssumption DEF Activates, HasActiveAdmin, ActiveAdmin
<1>5. ASSUME NEW p \in Requests, NEW u \in Users, NEW admin \in BOOLEAN, NEW t \in Tokens,
             CreateUser(p, u, admin, t)
      PROVE  Taken
  BY <1>5 DEF CreateUser, HasActiveAdmin, ActiveAdmin, Invited, NoUser, Shape
<1>6. ASSUME NEW p \in Requests, NEW u \in Users, NEW patch \in Patches, UpdateUser(p, u, patch)
      PROVE  Taken
  <2>1. users[u] \in UserRows
    BY DEF Shape
  <2>2. \A v \in Users : users'[v].status = "active" => users'[v].pw # None
    <3>1. users'[u].status = "active" => users'[u].pw # None
      <4>1. StatusAfter(users[u], patch.disabled) = "active" =>
              users[u].status = "active" \/ users[u].pw # None
        BY <1>6, Updates DEF StatusAfter
      <4>2. QED BY <1>6, <4>1, Updates
    <3>2. QED BY <1>6, <3>1, Updates
  <2>3. HasActiveAdmin'
    <3>1. CASE \E v \in Users \ {u} : ActiveAdmin(v)
      BY <1>6, <3>1, Updates DEF HasActiveAdmin, ActiveAdmin
    <3>2. CASE ~\E v \in Users \ {u} : ActiveAdmin(v)
      <4>1. ActiveAdmin(u)
        BY <3>2 DEF HasActiveAdmin
      <4>2. patch.admin # FALSE /\ patch.disabled # TRUE
        BY <1>6, <3>2, <4>1 DEF UpdateUser, NotLastAdmin
      <4>3. users'[u].status = "active"
        BY <1>6, <4>1, <4>2, Updates DEF StatusAfter, ActiveAdmin
      <4>4. users'[u].admin
        BY <1>6, <4>1, <4>2, Updates, Zenon DEF ActiveAdmin
      <4>5. QED BY <4>3, <4>4 DEF HasActiveAdmin, ActiveAdmin
    <3>3. QED BY <3>1, <3>2
  <2>4. QED BY <2>2, <2>3
<1>7. ASSUME NEW p \in Requests, NEW u \in Users, DeleteUser(p, u) PROVE Taken
  <2>1. users'[u].status = "gone" /\ \A v \in Users \ {u} : users'[v] = users[v]
    BY <1>7 DEF DeleteUser, GoneUser, NoUser, Shape
  <2>2. \E v \in Users \ {u} : ActiveAdmin(v)
    BY <1>7 DEF DeleteUser, NotLastAdmin, HasActiveAdmin
  <2>3. QED BY <2>1, <2>2 DEF HasActiveAdmin, ActiveAdmin
<1>8. QED
  BY <1>1, <1>2, <1>3, <1>4, <1>5, <1>6, <1>7
     DEF Next, Host, Request, SignIn, OwnAccount, Administer, Bootstrap, EnsureLocalUser, Tick, Prune,
         Logout, LoginRead, LoginFinish, ActivateCheck, Resolve, ChangeRead, ChangeWrite,
         ReissueInvite, GiveUp, vars

(* Until then only the hosts, the link of the bootstrap administrator and    *)
(* the clock do anything.                                                    *)
LEMMA UntakenStep ==
  ASSUME Shape, NoOrphans, LinksInv, Untaken, ~HasActiveAdmin, [Next]_vars
  PROVE  OneWayIn'
<1>1. \A p \in Requests : req[p].at \notin {"in", "login", "change"}
  BY DEF Untaken
<1>2. CASE UNCHANGED <<users, sess>> /\ \A p \in Requests : req'[p].at \in {"idle", "activate"}
  BY <1>2 DEF Untaken, OneWayIn, HasActiveAdmin, ActiveAdmin, HasRow
<1>3. ASSUME NEW u \in Users, NEW t \in Tokens, Bootstrap(u, t) PROVE OneWayIn'
  <2>1. users'[u] = Invited(TRUE) /\ \A v \in Users \ {u} : users'[v] = users[v] /\ ~HasRow(v)
    BY <1>3 DEF Bootstrap, Empty, Shape
  <2>2. Untaken' /\ ~HasActiveAdmin'
    BY <1>3, <2>1 DEF Bootstrap, Untaken, HasActiveAdmin, ActiveAdmin, HasRow, Invited, NoUser
  <2>3. QED BY <2>2 DEF OneWayIn
<1>4. ASSUME NEW u \in Users, EnsureLocalUser(u) PROVE OneWayIn'
  <2>1. users'[u] = LocalUser /\ \A v \in Users \ {u} : users'[v] = users[v] /\ ~HasRow(v)
    BY <1>4 DEF EnsureLocalUser, Empty, Shape
  <2>2. Untaken' /\ ~HasActiveAdmin'
    BY <1>4, <2>1 DEF EnsureLocalUser, Untaken, HasActiveAdmin, ActiveAdmin, HasRow, LocalUser, NoUser
  <2>3. QED BY <2>2 DEF OneWayIn
<1>5. ASSUME NEW p \in Requests, NEW u \in Users, LoginRead(p, u) PROVE FALSE
  BY <1>5 DEF LoginRead, Untaken, HasRow
<1>6. ASSUME NEW p \in Requests, NEW t \in Tokens, NEW word \in Passwords, ActivateCheck(p, t, word)
      PROVE  OneWayIn'
  <2>1. \A q \in Requests : req'[q].at \in {"idle", "activate"}
    BY <1>6 DEF ActivateCheck, SetReq, IdleReq, Shape, Untaken
  <2>2. QED BY <1>2, <1>6, <2>1 DEF ActivateCheck
<1>7. ASSUME NEW p \in Requests, NEW s \in Sessions, ActivateCommit(p, s) PROVE OneWayIn'
  <2>1. PICK t \in Tokens, u \in Users : Activates(p, s, t, u)
    BY <1>7, ActivatesSomebody
  <2>2. HasRow(u) /\ users[u].status # "active"
    BY <2>1 DEF Activates, LinksInv, LinkIsFirstPassword, HasRow
  <2>3. users[u].admin
    BY <2>2 DEF Untaken
  <2>4. HasActiveAdmin'
    BY <2>1, <2>3 DEF Activates, HasActiveAdmin, ActiveAdmin
  <2>5. \A v \in Users \ {u} : ~HasRow(v)
    BY <2>2 DEF Untaken
  <2>6. \A v \in Users : users'[v].status = "active" => users'[v].pw # None
    BY <2>1, <2>5, NoneAssumption DEF Activates, HasRow
  <2>7. QED BY <2>4, <2>6 DEF OneWayIn
<1>8. ASSUME NEW p \in Requests, NEW s \in Sessions, Resolve(p, s) PROVE FALSE
  BY <1>8 DEF Resolve, Untaken
<1>9. ASSUME NEW s \in Sessions, Logout(s) PROVE FALSE
  BY <1>9 DEF Logout, Untaken
<1>10. ASSUME Prune PROVE FALSE
  BY <1>10 DEF Prune, Untaken
<1>11. ASSUME NEW p \in Requests, GiveUp(p) PROVE OneWayIn'
  <2>1. \A q \in Requests : req'[q].at \in {"idle", "activate"}
    BY <1>11, EndedReq DEF GiveUp, Untaken
  <2>2. QED BY <1>2, <1>11, <2>1 DEF GiveUp
<1>12. CASE Tick \/ UNCHANGED vars
  BY <1>2, <1>12 DEF Tick, vars, Untaken
<1>13. ASSUME NEW p \in Requests, OwnAccount(p) \/ Administer(p) \/ \E s \in Sessions : LoginFinish(p, s)
       PROVE  FALSE
  BY <1>1, <1>13 DEF OwnAccount, ChangeRead, ChangeWrite, Administer, CreateUser, ReissueInvite,
                     UpdateUser, DeleteUser, Admin, LoginFinish
<1>14. QED
  BY <1>3, <1>4, <1>5, <1>6, <1>7, <1>8, <1>9, <1>10, <1>11, <1>12, <1>13
     DEF Next, Host, Request, SignIn

LEMMA InvInductive == Spec => [](TypeOK /\ AccountsInv)
<1>1. Init => AccountsInv
  <2> SUFFICES ASSUME Init PROVE AccountsInv
    OBVIOUS
  <2>1. ASSUME NEW r \in LegacyUsers
        PROVE  r.status \in {"active", "disabled"} /\ r.pw # None
    BY <2>1, NoneAssumption DEF LegacyUsers
  <2>2. \A u \in Users : \/ users[u].status \in {"active", "disabled"} /\ users[u].pw # None
                         \/ users[u].status = "none" /\ users[u].pw = None
    <3>1. \A u \in Users : users[u] \in LegacyUsers \/ users[u] = NoUser
      BY DEF Init
    <3>2. NoUser.status = "none" /\ NoUser.pw = None
      BY DEF NoUser
    <3>3. QED BY <2>1, <3>1, <3>2
  <2>3. LinksInv
    BY <2>2 DEF Init, LinksInv, OneLiveLink, LinkIsFirstPassword, NoPasswordBefore,
                VerifiedHasPassword, Live, NoToken, IdleReq
  <2>4. Empty \/ HasActiveAdmin
    BY DEF Init
  <2>5. OneWayIn
    BY <2>2, <2>4 DEF Init, OneWayIn, Untaken, Empty, HasRow, NoSession, IdleReq
  <2>6. QED BY <2>3, <2>5 DEF AccountsInv
<1>2. TypeOK /\ AccountsInv /\ [Next]_vars => AccountsInv'
  <2> SUFFICES ASSUME TypeOK, AccountsInv, [Next]_vars PROVE AccountsInv'
    OBVIOUS
  <2>1. Shape /\ NoOrphans /\ LinksInv /\ OneWayIn
    BY DEF TypeOK, AccountsInv
  <2>2. LinksInv'
    BY LinksStep
  <2>3. OneWayIn'
    <3>1. CASE HasActiveAdmin
      BY <2>1, <3>1, TakenStep DEF OneWayIn
    <3>2. CASE ~HasActiveAdmin
      BY <2>1, <3>2, UntakenStep DEF OneWayIn
    <3>3. QED BY <3>1, <3>2
  <2>4. QED BY <2>2, <2>3 DEF AccountsInv
<1>3. QED BY <1>1, <1>2, TypeCorrect, PTL DEF Spec

(* Two live links for one account never exist, whatever is re-issued.        *)
THEOREM OneLiveLinkAlways == Spec => []OneLiveLink
<1>1. AccountsInv => OneLiveLink
  BY DEF AccountsInv, LinksInv
<1>2. QED BY <1>1, InvInductive, PTL

(* A live link is the first password of an account nobody can use yet.       *)
THEOREM LinkIsFirstPasswordAlways == Spec => []LinkIsFirstPassword
<1>1. AccountsInv => LinkIsFirstPassword
  BY DEF AccountsInv, LinksInv
<1>2. QED BY <1>1, InvInductive, PTL

(* A library has one way in: nobody is signed in before its first            *)
(* administrator is active, and everyone active after can sign in.           *)
THEOREM OneWayInAlways == Spec => []OneWayIn
<1>1. AccountsInv => OneWayIn
  BY DEF AccountsInv
<1>2. QED BY <1>1, InvInductive, PTL

(* The last active administrator stays, for any number of administrators     *)
(* acting at once by rights they resolved earlier.                           *)
THEOREM AdminAlwaysRemains == Spec => AdminRemains
<1>1. TypeOK /\ AccountsInv /\ [Next]_vars => [HasActiveAdmin => HasActiveAdmin']_vars
  <2> SUFFICES ASSUME TypeOK, AccountsInv, [Next]_vars, HasActiveAdmin PROVE HasActiveAdmin'
    OBVIOUS
  <2>1. QED BY TakenStep DEF TypeOK, AccountsInv, OneWayIn
<1>2. QED BY <1>1, InvInductive, PTL DEF Spec, AdminRemains

(* Nobody's password is replaced but by a request that verified one of that  *)
(* account's: not by a link, used twice or revoked, nor by an administrator. *)
THEOREM PasswordAlwaysKnown == Spec => PasswordReplacedByItsKnower
<1>1. TypeOK /\ AccountsInv /\ [Next]_vars => [\A u \in Users : ReplacedByKnower(u)]_vars
  <2> SUFFICES ASSUME Shape, LinksInv, [Next]_vars PROVE \A u \in Users : ReplacedByKnower(u)
    BY DEF TypeOK, AccountsInv
  <2>1. CASE UNCHANGED users
    BY <2>1 DEF ReplacedByKnower
  <2>2. ASSUME NEW p \in Requests, req[p].at \in {"login", "change"}, EndReq(p),
               users' = SetPassword(req[p].user, req[p].word)
        PROVE  \A u \in Users : ReplacedByKnower(u)
    <3>1. PICK u \in Users, word \in Passwords : u = req[p].user /\ word = req[p].word
      BY <2>2, ReqFields DEF Shape
    <3>2. QED BY <2>2, <3>1, SetsPassword, EndedReq DEF ReplacedByKnower
  <2>3. ASSUME NEW p \in Requests, NEW s \in Sessions, ActivateCommit(p, s)
        PROVE  \A u \in Users : ReplacedByKnower(u)
    <3>1. PICK t \in Tokens, u \in Users : Activates(p, s, t, u)
      BY <2>3, ActivatesSomebody
    <3>2. users[u].pw = None
      BY <3>1 DEF Activates, LinksInv, LinkIsFirstPassword
    <3>3. QED BY <3>1, <3>2 DEF Activates, ReplacedByKnower
  <2>4. ASSUME NEW u \in Users, users[u].status = "none", \A v \in Users \ {u} : users'[v] = users[v]
        PROVE  \A v \in Users : ReplacedByKnower(v)
    BY <2>4 DEF LinksInv, NoPasswordBefore, ReplacedByKnower
  <2>5. ASSUME NEW p \in Requests, NEW u \in Users, NEW patch \in Patches, UpdateUser(p, u, patch)
        PROVE  \A v \in Users : ReplacedByKnower(v)
    BY <2>5, Updates DEF ReplacedByKnower
  <2>6. ASSUME NEW p \in Requests, NEW u \in Users, DeleteUser(p, u)
        PROVE  \A v \in Users : ReplacedByKnower(v)
    BY <2>6 DEF DeleteUser, GoneUser, NoUser, Shape, ReplacedByKnower
  <2>7. ASSUME NEW u \in Users, NEW r, users' = [users EXCEPT ![u] = r]
        PROVE  \A v \in Users \ {u} : users'[v] = users[v]
    BY <2>7 DEF Shape
  <2>8. QED
    BY <2>1, <2>2, <2>3, <2>4, <2>5, <2>6, <2>7
       DEF Next, Host, Request, SignIn, OwnAccount, Administer, Bootstrap, EnsureLocalUser, Tick,
           Prune, Logout, LoginRead, LoginFinish, ActivateCheck, Resolve, ChangeRead, ChangeWrite,
           CreateUser, ReissueInvite, GiveUp, vars
<1>2. QED BY <1>1, InvInductive, PTL DEF Spec, PasswordReplacedByItsKnower
=============================================================================
