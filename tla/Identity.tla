----------------------------- MODULE Identity -----------------------------
(***************************************************************************)
(* Accounts, sessions and logins (internal/auth): who may act, as what,    *)
(* and through which session.                                              *)
(*                                                                         *)
(* A login spans two transactions with a slow call between them: the OAuth *)
(* state is consumed first, then GitHub is asked who the person is, then   *)
(* the account is created or found and a session opened.  A change of an   *)
(* account spans two reads of the session: the middleware's, and the one   *)
(* under the write lock.  Between the two halves anything may happen to    *)
(* the account, so a request in flight is part of the state.               *)
(*                                                                         *)
(* Tokens are 256 random bits, so a new one is a value never used before.  *)
(* Time passes by letting a state or a session expire.  last_seen_at, CSRF *)
(* tokens, logins' names and the profile a new account gets are left out.  *)
(***************************************************************************)
EXTENDS FiniteSets, Naturals

CONSTANTS
  Accounts,  \* GitHub identities
  Boot,      \* BOOTSTRAP_ADMIN_GITHUB_ID
  States,    \* OAuth state tokens
  Sessions,  \* session tokens
  Requests,  \* callbacks and changes of an account that may be in flight
  None

Roles    == {"admin", "reviewer", "editor"}
Statuses == {"pending", "active", "disabled"}
Access   == [role : Roles, status : Statuses]

StateStatus   == {"unissued", "open", "consumed", "expired", "deleted"}
SessionStatus == {"unissued", "live", "revoked", "expired", "deleted"}

\* What a request remembers while it waits: a login the state it consumed
\* and the session the browser had, a change the session it came with.
Logins  == [kind : {"login"}, state : States, session : Sessions \cup {None}]
Changes == [kind : {"change"}, session : Sessions]

ASSUME FiniteAccounts == IsFiniteSet(Accounts)
ASSUME NoneAssumption ==
         None \notin Accounts \cup States \cup Sessions \cup Access \cup Logins \cup Changes

VARIABLES
  users,    \* role and status of each account, None before its first login
  state,    \* the rows of oauth_states
  session,  \* the rows of sessions
  owner,    \* sessions.user_id
  via,      \* history: the state each session was opened through
  request   \* what each request in flight remembers, None when there is none

vars == <<users, state, session, owner, via, request>>

TypeOK ==
  /\ users   \in [Accounts -> Access \cup {None}]
  /\ state   \in [States -> StateStatus]
  /\ session \in [Sessions -> SessionStatus]
  /\ owner   \in [Sessions -> Accounts \cup {None}]
  /\ via     \in [Sessions -> States \cup {None}]
  /\ request \in [Requests -> Logins \cup Changes \cup {None}]

Init ==
  /\ users   = [a \in Accounts |-> None]
  /\ state   = [t \in States |-> "unissued"]
  /\ session = [s \in Sessions |-> "unissued"]
  /\ owner   = [s \in Sessions |-> None]
  /\ via     = [s \in Sessions |-> None]
  /\ request = [r \in Requests |-> None]

-----------------------------------------------------------------------------
(***************************************************************************)
(* Queries.                                                                *)
(***************************************************************************)

Has(a, status) == users[a] # None /\ users[a].status = status

IsAdmin(access) == access # None /\ access.role = "admin" /\ access.status = "active"

ActiveAdmins == {a \in Accounts : IsAdmin(users[a])}

Waiting(r, kind) == request[r] # None /\ request[r].kind = kind

\* The session resolves, and its user is active.
Resolves(s) == session[s] = "live" /\ Has(owner[s], "active")

\* (mutation: the user is read without resolving the session)
MayManageUnresolved(s) == IsAdmin(users[owner[s]])

\* What ChangeUser asks of its actor once it holds the write lock.
MayManage(s) == Resolves(s) /\ users[owner[s]].role = "admin"

-----------------------------------------------------------------------------
(***************************************************************************)
(* Logging in.                                                             *)
(***************************************************************************)

\* (mutation: the UPDATE does not ask for consumed_at IS NULL)
ConsumableTwice(t) == state[t] \in {"open", "consumed"}

Consumable(t) == state[t] = "open"

\* Expired states are deleted and then, in a statement of its own that may
\* fail, a new one is stored.
Start(t) ==
  /\ t # None => state[t] = "unissued"
  /\ state' = [u \in States |-> CASE u = t                -> "open"
                                  [] state[u] = "expired" -> "deleted"
                                  [] OTHER                -> state[u]]
  /\ UNCHANGED <<users, session, owner, via, request>>

\* The state comes back and is consumed; GitHub is asked next.
Callback(r, t, old) ==
  /\ request[r] = None
  /\ Consumable(t)
  /\ old # None => session[old] # "unissued"
  /\ state'   = [state EXCEPT ![t] = "consumed"]
  /\ request' = [request EXCEPT ![r] = [kind |-> "login", state |-> t, session |-> old]]
  /\ UNCHANGED <<users, session, owner, via>>

Newcomer == [role |-> "editor", status |-> "pending"]
Root     == [role |-> "admin", status |-> "active"]

Bootstraps(a) == ActiveAdmins = {} /\ a = Boot

AccessAtLogin(a) ==
  IF Bootstraps(a) THEN Root ELSE IF users[a] = None THEN Newcomer ELSE users[a]

\* (mutation: the account is not looked at again after the call to GitHub)
MayAlwaysLogIn(a) == a \in Accounts

MayLogIn(a) == ~Has(a, "disabled")

\* The sessions once the browser's old one is revoked, the expired ones are
\* deleted and the new one is stored.
SessionsAfterLogin(new, old) ==
  [s \in Sessions |-> CASE s = new                          -> "live"
                        [] s = old /\ session[s] = "live"   -> "revoked"
                        [] session[s] = "expired"           -> "deleted"
                        [] OTHER                            -> session[s]]

\* GitHub says the person is account a: one transaction.
Login(r, a, new) ==
  /\ Waiting(r, "login")
  /\ MayLogIn(a)
  /\ session[new] = "unissued"
  /\ users'   = [users EXCEPT ![a] = AccessAtLogin(a)]
  /\ session' = SessionsAfterLogin(new, request[r].session)
  /\ owner'   = [owner EXCEPT ![new] = a]
  /\ via'     = [via EXCEPT ![new] = request[r].state]
  /\ request' = [request EXCEPT ![r] = None]
  /\ UNCHANGED state

-----------------------------------------------------------------------------
(***************************************************************************)
(* Sessions and the management of accounts.                                *)
(***************************************************************************)

Logout(s) ==
  /\ session[s] = "live"
  /\ session' = [session EXCEPT ![s] = "revoked"]
  /\ UNCHANGED <<users, state, owner, via, request>>

\* The middleware admits a request of somebody active.
Arrive(r, s) ==
  /\ request[r] = None
  /\ Resolves(s)
  /\ request' = [request EXCEPT ![r] = [kind |-> "change", session |-> s]]
  /\ UNCHANGED <<users, state, session, owner, via>>

\* approve, disable, enable and role: what each may make of an account.
Approve(access) ==
  {[role |-> role, status |-> "active"] :
     role \in {x \in {"editor", "reviewer"} : access.status = "pending"}}
Disable(access) == {[access EXCEPT !.status = "disabled"]}
Enable(access) ==
  {[access EXCEPT !.status = x] : x \in {y \in {"active"} : access.status = "disabled"}}
SetRole(access) == {[access EXCEPT !.role = role] : role \in Roles}

\* (mutation: the count is taken only when the Admin is to be disabled)
AdminRemainsEnabled(a, access) ==
  (a \in ActiveAdmins /\ access.status = "disabled") => Cardinality(ActiveAdmins) > 1

\* Taking the last active Admin's role or status away is refused.
AdminRemains(a, access) ==
  (a \in ActiveAdmins /\ ~IsAdmin(access)) => Cardinality(ActiveAdmins) > 1

RevokeUserSessions(a) ==
  [s \in Sessions |-> IF owner[s] = a /\ session[s] = "live" THEN "revoked" ELSE session[s]]

ChangeUser(r, a, access) ==
  /\ Waiting(r, "change")
  /\ MayManage(request[r].session)
  /\ users[a] # None
  /\ access \in Approve(users[a]) \cup Disable(users[a]) \cup Enable(users[a]) \cup SetRole(users[a])
  /\ AdminRemains(a, access)
  /\ users'   = [users EXCEPT ![a] = access]
  /\ session' = IF access.status = "disabled" THEN RevokeUserSessions(a) ELSE session
  /\ request' = [request EXCEPT ![r] = None]
  /\ UNCHANGED <<state, owner, via>>

-----------------------------------------------------------------------------
(***************************************************************************)
(* What happens to requests and rows by themselves.                        *)
(***************************************************************************)

\* A refusal, a rolled back transaction, GitHub's error or its timeout.
Fail(r) ==
  /\ request[r] # None
  /\ request' = [request EXCEPT ![r] = None]
  /\ UNCHANGED <<users, state, session, owner, via>>

\* The process restarts.
Crash ==
  /\ request' = [r \in Requests |-> None]
  /\ UNCHANGED <<users, state, session, owner, via>>

StateExpires(t) ==
  /\ state[t] \in {"open", "consumed"}
  /\ state' = [state EXCEPT ![t] = "expired"]
  /\ UNCHANGED <<users, session, owner, via, request>>

SessionExpires(s) ==
  /\ session[s] \in {"live", "revoked"}
  /\ session' = [session EXCEPT ![s] = "expired"]
  /\ UNCHANGED <<users, state, owner, via, request>>

Next ==
  \/ \E t \in States \cup {None} : Start(t)
  \/ \E r \in Requests, t \in States, old \in Sessions \cup {None} : Callback(r, t, old)
  \/ \E r \in Requests, a \in Accounts, new \in Sessions : Login(r, a, new)
  \/ \E s \in Sessions : Logout(s)
  \/ \E r \in Requests, s \in Sessions : Arrive(r, s)
  \/ \E r \in Requests, a \in Accounts, access \in Access : ChangeUser(r, a, access)
  \/ \E r \in Requests : Fail(r)
  \/ Crash
  \/ \E t \in States : StateExpires(t)
  \/ \E s \in Sessions : SessionExpires(s)

Spec == Init /\ [][Next]_vars

-----------------------------------------------------------------------------
(***************************************************************************)
(* Properties.                                                             *)
(***************************************************************************)

\* A disabled account has no live session, although a login of it may have
\* been waiting for GitHub when it was disabled (identity.go:40, users.go:80).
DisabledHasNoLiveSession ==
  \A s \in Sessions : session[s] = "live" => ~Has(owner[s], "disabled")

\* However many callbacks bring it, one OAuth state opens at most one
\* session (auth.sql ConsumeState; contracts/data.md:117).
OneLoginPerState ==
  \A s, q \in Sessions : via[s] # None /\ via[s] = via[q] => s = q

\* Once the first Admin is there, whatever Admins do to each other at the
\* same time leaves an active one (users.go:67).
AdminStays == [][ActiveAdmins # {} => ActiveAdmins' # {}]_vars

\* What an account may do changes in three ways only: a first login makes it
\* pending; the bootstrap account becomes Admin, and only while nobody was
\* ever given anything; or a request changes it whose session is live and
\* whose user is an active Admin at that very step, whatever they were when
\* the request came in (service.go:157, identity.go:47).
AccessChangesForCause ==
  [][\A a \in Accounts : users'[a] # users[a] =>
       \/ users[a] = None /\ users'[a] = Newcomer
       \/ /\ a = Boot
          /\ users'[a] = Root
          /\ \A b \in Accounts : users[b] \in {None, Newcomer}
       \/ \E r \in Requests : /\ Waiting(r, "change")
                              /\ request'[r] = None
                              /\ session[request[r].session] = "live"
                              /\ owner[request[r].session] \in ActiveAdmins]_vars

\* A login replaces the session its browser came with, so a request of that
\* session still in flight is refused afterwards (identity.go:82).
LoginRotates ==
  [][\A r \in Requests, s \in Sessions :
       /\ Waiting(r, "login")
       /\ request'[r] = None
       /\ session[s] = "unissued"
       /\ session'[s] = "live"
       => request[r].session = None \/ session'[request[r].session] # "live"]_vars

=============================================================================
