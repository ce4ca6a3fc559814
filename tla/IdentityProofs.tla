--------------------------- MODULE IdentityProofs ---------------------------
(***************************************************************************)
(* Proofs about accounts, sessions and logins, for every finite set of     *)
(* accounts and any number of states, sessions and requests.               *)
(***************************************************************************)
EXTENDS Identity, FiniteSetTheorems, TLAPS

-----------------------------------------------------------------------------
(* The inductive invariant.                                                *)

\* Whoever has a live session is an account.
LiveAreOwned == \A s \in Sessions : session[s] = "live" => owner[s] \in Accounts

\* A state that opened a session, or is in a callback's hands, is spent.
Spent(t) == state[t] \notin {"unissued", "open"}

OpenersAreSpent == \A s \in Sessions : via[s] # None => Spent(via[s])

\* A callback alone holds the state it consumed, which opened nothing yet.
CallbacksHoldStates ==
  \A r \in Requests : Waiting(r, "login") =>
    /\ Spent(request[r].state)
    /\ \A s \in Sessions : via[s] # request[r].state
    /\ \A q \in Requests :
         Waiting(q, "login") /\ request[q].state = request[r].state => q = r

\* As long as nobody is an active Admin, nobody was ever given anything.
AccessHasRoot ==
  ActiveAdmins # {} \/ \A a \in Accounts : users[a] \in {None, Newcomer}

\* The session a callback's browser came with was issued before.
Issued(s) == session[s] # "unissued"

OldIsIssued ==
  \A r \in Requests :
    Waiting(r, "login") /\ request[r].session # None => Issued(request[r].session)

IInv ==
  /\ TypeOK
  /\ OldIsIssued
  /\ LiveAreOwned
  /\ DisabledHasNoLiveSession
  /\ OpenersAreSpent
  /\ CallbacksHoldStates
  /\ OneLoginPerState
  /\ AccessHasRoot

-----------------------------------------------------------------------------
(* Types.                                                                  *)

LEMMA AccessTypes ==
  /\ Newcomer \in Access
  /\ Root \in Access
BY DEF Newcomer, Root, Access, Roles, Statuses

LEMMA NotNone ==
  /\ \A x \in Access \cup Logins \cup Changes : x # None
  /\ \A x \in Accounts \cup States \cup Sessions : x # None
BY NoneAssumption

\* What a waiting request is, by its kind.
LEMMA RequestFacts ==
  ASSUME TypeOK, NEW r \in Requests
  PROVE  /\ Waiting(r, "login") => request[r] \in Logins
         /\ Waiting(r, "change") => request[r] \in Changes
BY NotNone DEF TypeOK, Waiting, Logins, Changes

LEMMA LoginTypes ==
  ASSUME TypeOK, NEW r \in Requests, NEW a \in Accounts, NEW new \in Sessions, Login(r, a, new)
  PROVE  TypeOK'
<1>1. AccessAtLogin(a) \in Access
  BY AccessTypes DEF AccessAtLogin, TypeOK
<1>2. request[r] \in Logins
  BY RequestFacts DEF Login
<1>3. session' \in [Sessions -> SessionStatus]
  BY DEF Login, SessionsAfterLogin, TypeOK, SessionStatus
<1> QED
  BY <1>1, <1>2, <1>3 DEF Login, TypeOK, Logins

LEMMA ChangeTypes ==
  ASSUME TypeOK, NEW r \in Requests, NEW a \in Accounts, NEW access \in Access,
         ChangeUser(r, a, access)
  PROVE  TypeOK'
BY DEF ChangeUser, RevokeUserSessions, TypeOK, SessionStatus

LEMMA TypeStep == TypeOK /\ [Next]_vars => TypeOK'
<1> SUFFICES ASSUME TypeOK, [Next]_vars PROVE TypeOK'
  OBVIOUS
<1>1. ASSUME NEW t \in States \cup {None}, Start(t) PROVE TypeOK'
  BY <1>1 DEF Start, TypeOK, StateStatus
<1>2. ASSUME NEW r \in Requests, NEW t \in States, NEW old \in Sessions \cup {None},
             Callback(r, t, old)
      PROVE  TypeOK'
  BY <1>2 DEF Callback, TypeOK, StateStatus, Logins
<1>3. ASSUME NEW s \in Sessions, Logout(s) PROVE TypeOK'
  BY <1>3 DEF Logout, TypeOK, SessionStatus
<1>4. ASSUME NEW r \in Requests, NEW s \in Sessions, Arrive(r, s) PROVE TypeOK'
  BY <1>4 DEF Arrive, TypeOK, Changes
<1>5. ASSUME NEW r \in Requests, Fail(r) PROVE TypeOK'
  BY <1>5 DEF Fail, TypeOK
<1>6. CASE Crash
  BY <1>6 DEF Crash, TypeOK
<1>7. ASSUME NEW t \in States, StateExpires(t) PROVE TypeOK'
  BY <1>7 DEF StateExpires, TypeOK, StateStatus
<1>8. ASSUME NEW s \in Sessions, SessionExpires(s) PROVE TypeOK'
  BY <1>8 DEF SessionExpires, TypeOK, SessionStatus
<1>9. CASE UNCHANGED vars
  BY <1>9 DEF vars, TypeOK
<1> QED
  BY <1>1, <1>2, <1>3, <1>4, <1>5, <1>6, <1>7, <1>8, <1>9, LoginTypes, ChangeTypes DEF Next

-----------------------------------------------------------------------------
(* What a step may do, whichever it is.                                    *)

\* Every other step leaves accounts and owners alone and makes no session live.
Quiet ==
  /\ UNCHANGED <<users, owner, via>>
  /\ \A s \in Sessions : session'[s] = "live" => session[s] = "live"

LEMMA Steps ==
  ASSUME TypeOK, [Next]_vars
  PROVE  \/ \E r \in Requests, a \in Accounts, new \in Sessions : Login(r, a, new)
         \/ \E r \in Requests, a \in Accounts, access \in Access : ChangeUser(r, a, access)
         \/ Quiet
<1>1. ASSUME NEW t \in States \cup {None}, Start(t) PROVE Quiet
  BY <1>1 DEF Start, Quiet
<1>2. ASSUME NEW r \in Requests, NEW t \in States, NEW old \in Sessions \cup {None},
             Callback(r, t, old)
      PROVE  Quiet
  BY <1>2 DEF Callback, Quiet
<1>3. ASSUME NEW s \in Sessions, Logout(s) PROVE Quiet
  BY <1>3 DEF Logout, Quiet, TypeOK
<1>4. ASSUME NEW r \in Requests, NEW s \in Sessions, Arrive(r, s) PROVE Quiet
  BY <1>4 DEF Arrive, Quiet
<1>5. ASSUME NEW r \in Requests, Fail(r) PROVE Quiet
  BY <1>5 DEF Fail, Quiet
<1>6. CASE Crash
  BY <1>6 DEF Crash, Quiet
<1>7. ASSUME NEW t \in States, StateExpires(t) PROVE Quiet
  BY <1>7 DEF StateExpires, Quiet
<1>8. ASSUME NEW s \in Sessions, SessionExpires(s) PROVE Quiet
  BY <1>8 DEF SessionExpires, Quiet, TypeOK
<1>9. CASE UNCHANGED vars
  BY <1>9 DEF vars, Quiet
<1> QED
  BY <1>1, <1>2, <1>3, <1>4, <1>5, <1>6, <1>7, <1>8, <1>9 DEF Next

\* A spent state stays spent: nothing opens it again.
LEMMA SpentStays ==
  ASSUME TypeOK, [Next]_vars, NEW t \in States, Spent(t)
  PROVE  Spent(t)'
<1>1. ASSUME NEW u \in States \cup {None}, Start(u) PROVE Spent(t)'
  <2>1. state'[t] \in {"deleted", state[t]}
    BY <1>1, NotNone DEF Start, Spent
  <2> QED
    BY <2>1 DEF Spent
<1>2. ASSUME NEW r \in Requests, NEW u \in States, NEW old \in Sessions \cup {None},
             Callback(r, u, old)
      PROVE  Spent(t)'
  BY <1>2 DEF Callback, Spent, TypeOK
<1>3. ASSUME NEW u \in States, StateExpires(u) PROVE Spent(t)'
  BY <1>3 DEF StateExpires, Spent, TypeOK
<1>4. CASE UNCHANGED state
  BY <1>4 DEF Spent
<1> QED
  BY <1>1, <1>2, <1>3, <1>4
     DEF Next, Login, Logout, Arrive, ChangeUser, Fail, Crash, SessionExpires, vars

\* A login makes exactly one session live, a new one.
LEMMA LoginSessions ==
  ASSUME TypeOK, NEW r \in Requests, NEW a \in Accounts, NEW new \in Sessions, Login(r, a, new)
  PROVE  /\ owner'[new] = a
         /\ via'[new] = request[r].state
         /\ \A s \in Sessions \ {new} : /\ owner'[s] = owner[s]
                                        /\ via'[s] = via[s]
                                        /\ session'[s] = "live" => session[s] = "live"
BY DEF Login, SessionsAfterLogin, TypeOK

-----------------------------------------------------------------------------
(* Live sessions belong to accounts that are not disabled.                 *)

LEMMA LiveAreOwnedStep == TypeOK /\ LiveAreOwned /\ [Next]_vars => LiveAreOwned'
<1> SUFFICES ASSUME TypeOK, LiveAreOwned, [Next]_vars PROVE LiveAreOwned'
  OBVIOUS
<1>1. ASSUME NEW r \in Requests, NEW a \in Accounts, NEW new \in Sessions, Login(r, a, new)
      PROVE  LiveAreOwned'
  BY <1>1, LoginSessions DEF LiveAreOwned
<1>2. ASSUME NEW r \in Requests, NEW a \in Accounts, NEW access \in Access,
             ChangeUser(r, a, access)
      PROVE  LiveAreOwned'
  BY <1>2 DEF ChangeUser, RevokeUserSessions, LiveAreOwned, TypeOK
<1>3. CASE Quiet
  BY <1>3 DEF Quiet, LiveAreOwned
<1> QED
  BY <1>1, <1>2, <1>3, Steps

LEMMA DisabledStep ==
  TypeOK /\ LiveAreOwned /\ DisabledHasNoLiveSession /\ [Next]_vars => DisabledHasNoLiveSession'
<1> SUFFICES ASSUME TypeOK, LiveAreOwned, DisabledHasNoLiveSession, [Next]_vars,
                    NEW s \in Sessions, session'[s] = "live"
             PROVE  ~Has(owner[s], "disabled")'
  BY DEF DisabledHasNoLiveSession
<1>1. ASSUME NEW r \in Requests, NEW a \in Accounts, NEW new \in Sessions, Login(r, a, new)
      PROVE  ~Has(owner[s], "disabled")'
  <2>1. ~Has(a, "disabled")'
    BY <1>1 DEF Login, MayLogIn, AccessAtLogin, Has, Newcomer, Root, TypeOK
  <2>2. CASE s = new
    BY <1>1, <2>1, <2>2, LoginSessions DEF Has
  <2>3. CASE s # new
    <3>1. owner'[s] = owner[s] /\ session[s] = "live"
      BY <1>1, <2>3, LoginSessions
    <3>2. owner[s] \in Accounts /\ ~Has(owner[s], "disabled")
      BY <3>1 DEF LiveAreOwned, DisabledHasNoLiveSession
    <3>3. owner[s] # a => users'[owner[s]] = users[owner[s]]
      BY <1>1, <3>2 DEF Login, TypeOK
    <3> QED
      BY <2>1, <3>1, <3>2, <3>3 DEF Has
  <2> QED
    BY <2>2, <2>3
<1>2. ASSUME NEW r \in Requests, NEW a \in Accounts, NEW access \in Access,
             ChangeUser(r, a, access)
      PROVE  ~Has(owner[s], "disabled")'
  <2>1. owner' = owner /\ session[s] = "live" /\ (owner[s] = a => access.status # "disabled")
    BY <1>2 DEF ChangeUser, RevokeUserSessions, TypeOK
  <2>2. owner[s] \in Accounts /\ ~Has(owner[s], "disabled")
    BY <2>1 DEF LiveAreOwned, DisabledHasNoLiveSession
  <2>3. users'[owner[s]] = IF owner[s] = a THEN access ELSE users[owner[s]]
    BY <1>2, <2>2 DEF ChangeUser, TypeOK
  <2> QED
    BY <2>1, <2>2, <2>3 DEF Has
<1>3. CASE Quiet
  BY <1>3 DEF Quiet, DisabledHasNoLiveSession, Has
<1> QED
  BY <1>1, <1>2, <1>3, Steps

-----------------------------------------------------------------------------
(* A state opens one session.                                              *)

LEMMA OpenersStep ==
  TypeOK /\ OpenersAreSpent /\ CallbacksHoldStates /\ [Next]_vars => OpenersAreSpent'
<1> SUFFICES ASSUME TypeOK, OpenersAreSpent, CallbacksHoldStates, [Next]_vars,
                    NEW s \in Sessions, via'[s] # None
             PROVE  Spent(via[s])'
  BY DEF OpenersAreSpent
<1> TypeOK'
  BY TypeStep
<1>1. via'[s] \in States
  BY DEF TypeOK
<1>2. Spent(via'[s])
  <2>1. ASSUME NEW r \in Requests, NEW a \in Accounts, NEW new \in Sessions, Login(r, a, new)
        PROVE  Spent(via'[s])
    BY <2>1, LoginSessions DEF Login, OpenersAreSpent, CallbacksHoldStates
  <2>2. CASE UNCHANGED via
    BY <2>2 DEF OpenersAreSpent
  <2> QED
    BY <2>1, <2>2, Steps DEF ChangeUser, Quiet
<1> QED
  BY <1>1, <1>2, SpentStays DEF Spent

LEMMA OneLoginStep ==
  TypeOK /\ CallbacksHoldStates /\ OneLoginPerState /\ [Next]_vars => OneLoginPerState'
<1> SUFFICES ASSUME TypeOK, CallbacksHoldStates, OneLoginPerState, [Next]_vars
             PROVE  OneLoginPerState'
  OBVIOUS
<1>1. ASSUME NEW r \in Requests, NEW a \in Accounts, NEW new \in Sessions, Login(r, a, new)
      PROVE  OneLoginPerState'
  <2>1. \A s \in Sessions : via[s] # request[r].state
    BY <1>1 DEF Login, CallbacksHoldStates
  <2> QED
    BY <1>1, <2>1, LoginSessions DEF OneLoginPerState
<1>2. CASE UNCHANGED via
  BY <1>2 DEF OneLoginPerState
<1> QED
  BY <1>1, <1>2, Steps DEF ChangeUser, Quiet

LEMMA HoldersStep ==
  TypeOK /\ OpenersAreSpent /\ CallbacksHoldStates /\ [Next]_vars => CallbacksHoldStates'
<1> SUFFICES ASSUME TypeOK, OpenersAreSpent, CallbacksHoldStates, [Next]_vars,
                    NEW q \in Requests, Waiting(q, "login")'
             PROVE  /\ Spent(request[q].state)'
                    /\ \A s \in Sessions : via'[s] # request'[q].state
                    /\ \A p \in Requests :
                         Waiting(p, "login")' /\ request'[p].state = request'[q].state => p = q
  BY DEF CallbacksHoldStates
<1> TypeOK'
  BY TypeStep
<1>1. request'[q] \in Logins /\ request'[q].state \in States
  <2>1. request'[q] \in Logins
    BY NotNone DEF TypeOK, Waiting, Logins, Changes
  <2> QED
    BY <2>1 DEF Logins
<1>2. ASSUME NEW r \in Requests, NEW t \in States, NEW old \in Sessions \cup {None},
             Callback(r, t, old)
      PROVE  /\ Spent(request[q].state)'
             /\ \A s \in Sessions : via'[s] # request'[q].state
             /\ \A p \in Requests :
                  Waiting(p, "login")' /\ request'[p].state = request'[q].state => p = q
  <2>1. ~Spent(t) /\ Spent(t)' /\ via' = via
    BY <1>2 DEF Callback, Consumable, Spent, TypeOK
  <2>2. \A s \in Sessions : via[s] # t
    BY <2>1, NotNone DEF OpenersAreSpent
  <2>3. \A p \in Requests \ {r} : Waiting(p, "login")' =>
          /\ Waiting(p, "login")
          /\ request'[p] = request[p]
          /\ request[p].state # t
    BY <1>2, <2>1 DEF Callback, Waiting, TypeOK, CallbacksHoldStates
  <2>4. request'[r].state = t
    BY <1>2 DEF Callback, TypeOK
  <2>5. CASE q = r
    BY <2>1, <2>2, <2>3, <2>4, <2>5 DEF Spent
  <2>6. CASE q # r
    <3>1. Waiting(q, "login") /\ request'[q] = request[q] /\ request[q].state # t
      BY <2>3, <2>6
    <3>2. /\ Spent(request[q].state)
          /\ \A s \in Sessions : via[s] # request[q].state
          /\ \A p \in Requests :
               Waiting(p, "login") /\ request[p].state = request[q].state => p = q
      BY <3>1 DEF CallbacksHoldStates
    <3>3. Spent(request[q].state)'
      BY <1>1, <3>1, <3>2, SpentStays DEF Spent
    <3> QED
      BY <2>1, <2>3, <2>4, <3>1, <3>2, <3>3
  <2> QED
    BY <2>5, <2>6
<1>3. ASSUME \A p \in Requests : Waiting(p, "login")' =>
               /\ Waiting(p, "login")
               /\ request'[p] = request[p],
             \A s \in Sessions : via'[s] # request[q].state
      PROVE  /\ Spent(request[q].state)'
             /\ \A s \in Sessions : via'[s] # request'[q].state
             /\ \A p \in Requests :
                  Waiting(p, "login")' /\ request'[p].state = request'[q].state => p = q
  <2>1. Waiting(q, "login") /\ request'[q] = request[q]
    BY <1>3
  <2>2. Spent(request[q].state) /\ request[q].state \in States
    BY <1>1, <2>1 DEF CallbacksHoldStates
  <2>3. Spent(request[q].state)'
    BY <2>1, <2>2, SpentStays DEF Spent
  <2> QED
    BY <1>3, <2>1, <2>3 DEF CallbacksHoldStates
<1>4. ASSUME NEW r \in Requests, NEW a \in Accounts, NEW new \in Sessions, Login(r, a, new)
      PROVE  /\ \A p \in Requests : Waiting(p, "login")' =>
                  /\ Waiting(p, "login")
                  /\ request'[p] = request[p]
             /\ \A s \in Sessions : via'[s] # request[q].state
  <2>1. \A p \in Requests : Waiting(p, "login")' =>
          p # r /\ Waiting(p, "login") /\ request'[p] = request[p]
    BY <1>4 DEF Login, Waiting, TypeOK
  <2>2. request[q].state # request[r].state
    BY <1>4, <2>1 DEF Login, CallbacksHoldStates
  <2>3. \A s \in Sessions : via[s] # request[q].state
    BY <2>1 DEF CallbacksHoldStates
  <2> QED
    BY <1>4, <2>1, <2>2, <2>3, LoginSessions
<1>5. ASSUME UNCHANGED via,
             \A p \in Requests : \/ request'[p] = request[p]
                                 \/ request'[p] = None
                                 \/ request'[p] \in Changes
      PROVE  /\ \A p \in Requests : Waiting(p, "login")' =>
                  /\ Waiting(p, "login")
                  /\ request'[p] = request[p]
             /\ \A s \in Sessions : via'[s] # request[q].state
  <2>1. \A p \in Requests : Waiting(p, "login")' =>
                  /\ Waiting(p, "login")
                  /\ request'[p] = request[p]
    BY <1>5 DEF Waiting, Changes
  <2> QED
    BY <1>5, <2>1 DEF CallbacksHoldStates
<1>6. ASSUME NEW r \in Requests, NEW s \in Sessions, Arrive(r, s)
      PROVE  /\ UNCHANGED via
             /\ \A p \in Requests : \/ request'[p] = request[p]
                                    \/ request'[p] = None
                                    \/ request'[p] \in Changes
  BY <1>6 DEF Arrive, TypeOK, Changes
<1>7. ASSUME \/ Crash
             \/ \E r \in Requests : Fail(r)
             \/ \E r \in Requests, a \in Accounts, access \in Access : ChangeUser(r, a, access)
             \/ UNCHANGED <<via, request>>
      PROVE  /\ UNCHANGED via
             /\ \A p \in Requests : request'[p] = request[p] \/ request'[p] = None
  BY <1>7 DEF Crash, Fail, ChangeUser, TypeOK
<1> QED
  BY <1>2, <1>3, <1>4, <1>5, <1>6, <1>7
     DEF Next, Start, Logout, StateExpires, SessionExpires, vars

-----------------------------------------------------------------------------
(* The session a login replaces.                                           *)

LEMMA IssuedStays ==
  ASSUME TypeOK, [Next]_vars, NEW s \in Sessions, Issued(s)
  PROVE  Issued(s)'
<1>1. ASSUME NEW r \in Requests, NEW a \in Accounts, NEW new \in Sessions, Login(r, a, new)
      PROVE  Issued(s)'
  <2>1. session'[s] \in {"live", "revoked", "deleted", session[s]}
    BY <1>1 DEF Login, SessionsAfterLogin
  <2> QED
    BY <2>1 DEF Issued
<1>2. ASSUME NEW q \in Sessions, Logout(q) \/ SessionExpires(q) PROVE Issued(s)'
  BY <1>2 DEF Logout, SessionExpires, Issued, TypeOK
<1>3. ASSUME NEW r \in Requests, NEW a \in Accounts, NEW access \in Access,
             ChangeUser(r, a, access)
      PROVE  Issued(s)'
  BY <1>3 DEF ChangeUser, RevokeUserSessions, Issued
<1>4. CASE UNCHANGED session
  BY <1>4 DEF Issued
<1> QED
  BY <1>1, <1>2, <1>3, <1>4 DEF Next, Start, Callback, Arrive, Fail, Crash, StateExpires, vars

LEMMA OldIsIssuedStep == TypeOK /\ OldIsIssued /\ [Next]_vars => OldIsIssued'
<1> SUFFICES ASSUME TypeOK, OldIsIssued, [Next]_vars,
                    NEW q \in Requests, Waiting(q, "login")', request'[q].session # None
             PROVE  Issued(request[q].session)'
  BY DEF OldIsIssued
<1>1. ASSUME NEW r \in Requests, NEW t \in States, NEW old \in Sessions \cup {None},
             Callback(r, t, old), q = r
      PROVE  Issued(request[q].session)'
  <2>1. request'[q].session = old /\ old # None /\ session' = session
    BY <1>1 DEF Callback, TypeOK
  <2> QED
    BY <1>1, <2>1 DEF Callback, Issued
<1>2. ASSUME request'[q] = request[q] PROVE Issued(request[q].session)'
  <2>1. Waiting(q, "login") /\ Issued(request[q].session)
    BY <1>2 DEF Waiting, OldIsIssued
  <2>2. request[q].session \in Sessions
    BY <1>2, <2>1, RequestFacts DEF Logins
  <2> QED
    BY <1>2, <2>1, <2>2, IssuedStays DEF Issued
<1>3. ASSUME request'[q] = None \/ request'[q] \in Changes PROVE FALSE
  BY <1>3 DEF Waiting, Changes
<1>4. \/ \E r \in Requests, t \in States, old \in Sessions \cup {None} :
            Callback(r, t, old) /\ q = r
      \/ request'[q] = request[q]
      \/ request'[q] = None \/ request'[q] \in Changes
  BY DEF Next, Start, Callback, Login, Logout, Arrive, ChangeUser, Fail, Crash,
         StateExpires, SessionExpires, vars, TypeOK, Changes
<1> QED
  BY <1>1, <1>2, <1>3, <1>4

-----------------------------------------------------------------------------
(* Admins.                                                                 *)

LEMMA AdminsAreFinite == IsFiniteSet(ActiveAdmins)
BY FiniteAccounts, FS_Subset DEF ActiveAdmins

\* An account whose access a step leaves alone stays an active Admin.
LEMMA AdminsKept ==
  ASSUME NEW a \in ActiveAdmins, users'[a] = users[a]
  PROVE  a \in ActiveAdmins'
BY DEF ActiveAdmins, IsAdmin

LEMMA RootIsAdmin ==
  ASSUME NEW a \in Accounts, users'[a] = Root
  PROVE  a \in ActiveAdmins'
BY AccessTypes, NotNone DEF ActiveAdmins, IsAdmin, Root

\* After a change of an account there is an active Admin.
LEMMA ChangeLeavesAdmin ==
  ASSUME TypeOK, NEW r \in Requests, NEW a \in Accounts, NEW access \in Access,
         ChangeUser(r, a, access), ActiveAdmins # {}
  PROVE  ActiveAdmins' # {}
<1>1. users' = [users EXCEPT ![a] = access] /\ AdminRemains(a, access)
  BY DEF ChangeUser
<1>2. CASE \E b \in ActiveAdmins : b # a
  <2>1. PICK b \in ActiveAdmins : b # a
    BY <1>2
  <2>2. users'[b] = users[b]
    BY <1>1, <2>1 DEF TypeOK, ActiveAdmins
  <2> QED
    BY <2>2, AdminsKept
<1>3. CASE ActiveAdmins = {a}
  <2>1. Cardinality(ActiveAdmins) = 1
    BY <1>3, FS_Singleton
  <2>2. IsAdmin(access)
    BY <1>1, <1>3, <2>1 DEF AdminRemains
  <2> QED
    BY <1>1, <2>2 DEF ActiveAdmins, TypeOK
<1> QED
  BY <1>2, <1>3

LEMMA LoginLeavesAdmin ==
  ASSUME TypeOK, NEW r \in Requests, NEW a \in Accounts, NEW new \in Sessions,
         Login(r, a, new), ActiveAdmins # {}
  PROVE  ActiveAdmins' # {}
<1>1. PICK b \in ActiveAdmins : TRUE
  OBVIOUS
<1>2. b \in Accounts /\ users[b] # None
  BY <1>1 DEF ActiveAdmins, IsAdmin
<1>3. users'[b] = users[b]
  BY <1>2 DEF Login, AccessAtLogin, Bootstraps, TypeOK
<1> QED
  BY <1>3, AdminsKept

LEMMA AdminStaysStep == TypeOK /\ [Next]_vars => (ActiveAdmins # {} => ActiveAdmins' # {})
<1> SUFFICES ASSUME TypeOK, [Next]_vars, ActiveAdmins # {} PROVE ActiveAdmins' # {}
  OBVIOUS
<1>1. CASE Quiet
  BY <1>1 DEF Quiet, ActiveAdmins, IsAdmin
<1> QED
  BY <1>1, Steps, LoginLeavesAdmin, ChangeLeavesAdmin

\* Who manages accounts is an active Admin with a live session.
LEMMA ManagersAreAdmins ==
  ASSUME TypeOK, LiveAreOwned, NEW s \in Sessions, MayManage(s)
  PROVE  session[s] = "live" /\ owner[s] \in ActiveAdmins
BY DEF MayManage, Resolves, Has, LiveAreOwned, ActiveAdmins, IsAdmin

LEMMA AccessHasRootStep ==
  TypeOK /\ LiveAreOwned /\ AccessHasRoot /\ [Next]_vars => AccessHasRoot'
<1> SUFFICES ASSUME TypeOK, LiveAreOwned, AccessHasRoot, [Next]_vars PROVE AccessHasRoot'
  OBVIOUS
<1>1. CASE ActiveAdmins # {}
  BY <1>1, AdminStaysStep DEF AccessHasRoot
<1>2. CASE ActiveAdmins = {}
  <2>1. \A a \in Accounts : users[a] \in {None, Newcomer}
    BY <1>2 DEF AccessHasRoot
  <2>2. ASSUME NEW r \in Requests, NEW a \in Accounts, NEW new \in Sessions, Login(r, a, new)
        PROVE  AccessHasRoot'
    <3>1. users' = [users EXCEPT ![a] = AccessAtLogin(a)]
      BY <2>2 DEF Login
    <3>2. CASE Bootstraps(a)
      BY <3>1, <3>2, RootIsAdmin DEF AccessAtLogin, AccessHasRoot, TypeOK
    <3>3. CASE ~Bootstraps(a)
      BY <2>1, <3>1, <3>3 DEF AccessAtLogin, AccessHasRoot, TypeOK, Newcomer
    <3> QED
      BY <3>2, <3>3
  <2>3. ASSUME NEW r \in Requests, NEW a \in Accounts, NEW access \in Access,
               ChangeUser(r, a, access)
        PROVE  FALSE
    <3>1. Waiting(r, "change") /\ MayManage(request[r].session)
      BY <2>3 DEF ChangeUser
    <3>2. request[r].session \in Sessions
      BY <3>1, RequestFacts DEF Changes
    <3> QED
      BY <1>2, <3>1, <3>2, ManagersAreAdmins
  <2>4. CASE Quiet
    BY <2>1, <2>4 DEF Quiet, AccessHasRoot, Newcomer
  <2> QED
    BY <2>2, <2>3, <2>4, Steps
<1> QED
  BY <1>1, <1>2

-----------------------------------------------------------------------------
(* The theorems.                                                           *)

LEMMA InitInv == Init => IInv
BY NotNone
   DEF Init, IInv, TypeOK, StateStatus, SessionStatus, LiveAreOwned, DisabledHasNoLiveSession,
       OpenersAreSpent, CallbacksHoldStates, OneLoginPerState, AccessHasRoot, OldIsIssued,
       Waiting

\* The invariant holds in every reachable state.
THEOREM Invariance == Spec => []IInv
<1>1. IInv /\ [Next]_vars => IInv'
  BY TypeStep, LiveAreOwnedStep, DisabledStep, OpenersStep, HoldersStep, OneLoginStep,
     AccessHasRootStep, OldIsIssuedStep
     DEF IInv
<1> QED
  BY InitInv, <1>1, PTL DEF Spec

\* Every variable keeps its type.
THEOREM TypeCorrect == Spec => []TypeOK
<1>1. IInv => TypeOK
  BY DEF IInv
<1> QED
  BY <1>1, Invariance, PTL

\* A disabled account has no live session, whatever logins and changes were
\* in flight when it was disabled.
THEOREM DisabledStaysOut == Spec => []DisabledHasNoLiveSession
<1>1. IInv => DisabledHasNoLiveSession
  BY DEF IInv
<1> QED
  BY <1>1, Invariance, PTL

\* An OAuth state opens at most one session.
THEOREM StatesAreUsedOnce == Spec => []OneLoginPerState
<1>1. IInv => OneLoginPerState
  BY DEF IInv
<1> QED
  BY <1>1, Invariance, PTL

\* Once there is an active Admin there always is one.
THEOREM AdminRemainsForever == Spec => AdminStays
<1>1. IInv /\ [Next]_vars => [ActiveAdmins # {} => ActiveAdmins' # {}]_vars
  BY AdminStaysStep DEF IInv
<1> QED
  BY <1>1, Invariance, PTL DEF Spec, AdminStays

\* Access changes only by a first login, by the one bootstrap, or by an active
\* Admin with a live session.
THEOREM AccessIsGranted == Spec => AccessChangesForCause
<1> DEFINE Cause(a) ==
       \/ users[a] = None /\ users'[a] = Newcomer
       \/ /\ a = Boot
          /\ users'[a] = Root
          /\ \A b \in Accounts : users[b] \in {None, Newcomer}
       \/ \E r \in Requests : /\ Waiting(r, "change")
                              /\ request'[r] = None
                              /\ session[request[r].session] = "live"
                              /\ owner[request[r].session] \in ActiveAdmins
<1>1. IInv /\ [Next]_vars => \A a \in Accounts : users'[a] # users[a] => Cause(a)
  <2> SUFFICES ASSUME IInv, [Next]_vars, NEW a \in Accounts, users'[a] # users[a]
               PROVE  Cause(a)
    OBVIOUS
  <2> TypeOK /\ LiveAreOwned /\ AccessHasRoot
    BY DEF IInv
  <2>1. ASSUME NEW r \in Requests, NEW b \in Accounts, NEW new \in Sessions, Login(r, b, new)
        PROVE  Cause(a)
    <3>1. a = b /\ users'[a] = AccessAtLogin(a)
      BY <2>1 DEF Login, TypeOK
    <3> QED
      BY <3>1 DEF AccessAtLogin, Bootstraps, AccessHasRoot
  <2>2. ASSUME NEW r \in Requests, NEW b \in Accounts, NEW access \in Access,
               ChangeUser(r, b, access)
        PROVE  Cause(a)
    <3>1. /\ Waiting(r, "change")
          /\ MayManage(request[r].session)
          /\ request'[r] = None
      BY <2>2 DEF ChangeUser, TypeOK
    <3>2. request[r].session \in Sessions
      BY <3>1, RequestFacts DEF Changes
    <3> QED
      BY <3>1, <3>2, ManagersAreAdmins
  <2>3. ~Quiet
    BY DEF Quiet
  <2> QED
    BY <2>1, <2>2, <2>3, Steps
<1>2. IInv /\ [Next]_vars => [\A a \in Accounts : users'[a] # users[a] => Cause(a)]_vars
  BY <1>1
<1> QED
  BY <1>2, Invariance, PTL DEF Spec, AccessChangesForCause

\* A login leaves the session its browser came with dead.
THEOREM LoginReplacesSession == Spec => LoginRotates
<1> DEFINE Rotated(r, s) ==
       /\ Waiting(r, "login")
       /\ request'[r] = None
       /\ session[s] = "unissued"
       /\ session'[s] = "live"
       => request[r].session = None \/ session'[request[r].session] # "live"
<1>1. IInv /\ [Next]_vars => \A r \in Requests, s \in Sessions : Rotated(r, s)
  <2> SUFFICES ASSUME IInv, [Next]_vars, NEW r \in Requests, NEW s \in Sessions,
                      Waiting(r, "login"), request'[r] = None,
                      session[s] = "unissued", session'[s] = "live",
                      request[r].session # None
               PROVE  session'[request[r].session] # "live"
    OBVIOUS
  <2> TypeOK /\ OldIsIssued
    BY DEF IInv
  <2>1. request[r].session \in Sessions /\ request[r] # None
    BY RequestFacts DEF Logins, Waiting
  <2>2. ASSUME NEW p \in Requests, NEW a \in Accounts, NEW new \in Sessions, Login(p, a, new)
        PROVE  session'[request[r].session] # "live"
    <3>1. p = r
      BY <2>1, <2>2 DEF Login, TypeOK
    <3>2. request[r].session # new
      BY <2>2 DEF Login, OldIsIssued, Issued
    <3> QED
      BY <2>1, <2>2, <3>1, <3>2 DEF Login, SessionsAfterLogin
  <2>3. ASSUME NEW p \in Requests, NEW a \in Accounts, NEW access \in Access,
               ChangeUser(p, a, access)
        PROVE  FALSE
    BY <2>3 DEF ChangeUser, RevokeUserSessions
  <2>4. ~Quiet
    BY DEF Quiet
  <2> QED
    BY <2>2, <2>3, <2>4, Steps
<1>2. IInv /\ [Next]_vars => [\A r \in Requests, s \in Sessions : Rotated(r, s)]_vars
  BY <1>1
<1> QED
  BY <1>2, Invariance, PTL DEF Spec, LoginRotates
=============================================================================
