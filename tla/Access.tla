------------------------------- MODULE Access -------------------------------
(***************************************************************************)
(* Who gets past the guards, and what is kept of it: AuthService.login,    *)
(* the guards every request passes, and the interceptor that logs writes.  *)
(*                                                                         *)
(* The guards never ask the database.  A token carries the permissions its *)
(* user had when the login read the account, and goes on carrying them     *)
(* until it expires; the account may change meanwhile, and already between *)
(* that read and the end of the password comparison.                       *)
(***************************************************************************)
EXTENDS Integers, FiniteSets

CONSTANTS
  Users,
  Permissions,
  Active,       \* the status ACTIVE, as a right among the others
  Routes,
  Public,       \* routes marked @Public()
  Mutating,     \* routes of a method that writes
  Required,     \* Required[route]: the permissions of @RequirePermissions()
  TokenLife,    \* signOptions.expiresIn
  CompareTime,  \* how long bcrypt.compare may take
  Calls,        \* bound: requests that get past the guards
  MaxLogins,    \* bound: tokens issued or being issued
  LastInstant,  \* bound: the clock stops
  MayFail,      \* whether the process may die, and an audit row be refused
  Nobody,       \* no user: a public route
  NoRoute

ASSUME AccessAssumption ==
  /\ Active \notin Permissions
  /\ Nobody \notin Users
  /\ Public \subseteq Routes /\ Mutating \subseteq Routes
  /\ Required \in [Routes -> SUBSET Permissions]
  /\ TokenLife \in Nat /\ CompareTime \in Nat
  /\ MaxLogins \in Nat /\ LastInstant \in Nat
  /\ MayFail \in BOOLEAN

VARIABLES
  now,
  accounts,  \* the rights of each user: columns status and role_permissions
  lostAt,    \* history: when a user last lost a right
  logins,    \* logins comparing the password
  tokens,    \* tokens issued
  calls,     \* requests that got past the guards
  trail      \* table audit_logs, the rows of the interceptor

clients == <<logins, tokens>>
accessVars == <<now, accounts, lostAt, clients, calls, trail>>

Rights == Permissions \cup {Active}

Never == -1

\* What a login copied of the account.
Login == [user: Users, permissions: SUBSET Permissions, readAt: Nat]

Token == [user: Users, permissions: SUBSET Permissions, issuedAt: Nat]

\* A request past the guards: in its handler, after the handler's writes,
\* answered with the insert of its row under way, answered for good, or over
\* in an error; "unlogged" is an answer whose row never came.
CallStage == {"none", "handling", "written", "logging", "answered", "unlogged", "failed"}

Call == [stage: CallStage, user: Users \cup {Nobody}, route: Routes \cup {NoRoute}]

NoCall == [stage |-> "none", user |-> Nobody, route |-> NoRoute]

Row == [call: Calls, user: Users \cup {Nobody}]
-----------------------------------------------------------------------------
(* Accounts.  No code of the repository changes them once they are seeded: *)
(* roles and statuses are edited on the tables themselves.                 *)

Withdraw(u, right) ==
  /\ right \in accounts[u]
  /\ accounts' = [accounts EXCEPT ![u] = @ \ {right}]
  /\ lostAt' = [lostAt EXCEPT ![u][right] = now]
  /\ UNCHANGED <<now, clients, calls, trail>>

Confer(u, right) ==
  /\ right \notin accounts[u]
  /\ accounts' = [accounts EXCEPT ![u] = @ \cup {right}]
  /\ UNCHANGED <<now, lostAt, clients, calls, trail>>
-----------------------------------------------------------------------------
(* AuthService.login. *)

\* Mutant of ReadAccount: the status is not looked at.
ReadAnyAccount(u) ==
  /\ Cardinality(logins) + Cardinality(tokens) < MaxLogins
  /\ logins' = logins \cup
       {[user |-> u, permissions |-> accounts[u] \cap Permissions, readAt |-> now]}
  /\ UNCHANGED <<now, accounts, lostAt, tokens, calls, trail>>

\* The user is read with role and permissions, in one query, and must be
\* ACTIVE.
ReadAccount(u) ==
  /\ Cardinality(logins) + Cardinality(tokens) < MaxLogins
  /\ Active \in accounts[u]
  /\ logins' = logins \cup
       {[user |-> u, permissions |-> accounts[u] \cap Permissions, readAt |-> now]}
  /\ UNCHANGED <<now, accounts, lostAt, tokens, calls, trail>>

\* The password matched: a token is signed with what was read.
IssueToken(l) ==
  /\ l \in logins
  /\ logins' = logins \ {l}
  /\ tokens' = tokens \cup
       {[user |-> l.user, permissions |-> l.permissions, issuedAt |-> now]}
  /\ UNCHANGED <<now, accounts, lostAt, calls, trail>>

\* It did not.
RefuseLogin(l) ==
  /\ l \in logins
  /\ logins' = logins \ {l}
  /\ UNCHANGED <<now, accounts, lostAt, tokens, calls, trail>>

\* Time passes; no comparison takes longer than CompareTime.
Tick ==
  /\ now < LastInstant
  /\ \A l \in logins : now < l.readAt + CompareTime
  /\ now' = now + 1
  /\ UNCHANGED <<accounts, lostAt, clients, calls, trail>>
-----------------------------------------------------------------------------
(* The guards.  A request they refuse changes nothing. *)

\* Mutant of Authenticates: ignoreExpiration.
AuthenticatesForEver(token) == token.issuedAt <= now

\* JwtStrategy: signature and expiration, no query.
Authenticates(token) == now < token.issuedAt + TokenLife

\* PermissionsGuard: one of the required permissions, if any is required.
Permitted(token, route) ==
  Required[route] = {} \/ Required[route] \cap token.permissions # {}

Admit(c, user, route) ==
  /\ calls[c].stage = "none"
  /\ calls' = [calls EXCEPT ![c] = [stage |-> "handling", user |-> user, route |-> route]]
  /\ UNCHANGED <<now, accounts, lostAt, clients, trail>>

Request(c, token, route) ==
  /\ route \notin Public
  /\ Authenticates(token) /\ Permitted(token, route)
  /\ Admit(c, token.user, route)

PublicRequest(c, route) == route \in Public /\ Admit(c, Nobody, route)
-----------------------------------------------------------------------------
(* The handler and AuditInterceptor around it. *)

Becomes(c, stage) == calls' = [calls EXCEPT ![c].stage = stage]

RowOf(c) == [call |-> c, user |-> calls[c].user]

\* A write of the handler.
Write(c) ==
  /\ calls[c].stage = "handling" /\ calls[c].route \in Mutating
  /\ Becomes(c, "written")
  /\ UNCHANGED <<now, accounts, lostAt, clients, trail>>

\* The handler throws, before its writes or after some: tap is not called.
Throw(c) ==
  /\ calls[c].stage \in {"handling", "written"}
  /\ Becomes(c, "failed")
  /\ UNCHANGED <<now, accounts, lostAt, clients, trail>>

\* Mutant of Answer: the row is inserted while the handler still runs.
AnswerLogged(c) ==
  /\ calls[c].stage \in {"handling", "written"} /\ RowOf(c) \notin trail
  /\ trail' = IF calls[c].route \in Mutating THEN trail \cup {RowOf(c)} ELSE trail
  /\ UNCHANGED <<now, accounts, lostAt, clients, calls>>

\* The handler returns.  When the method is a mutating one the insert of its
\* row starts, and the answer does not wait for it.
Answer(c) ==
  /\ calls[c].stage \in {"handling", "written"}
  /\ Becomes(c, IF calls[c].route \in Mutating THEN "logging" ELSE "answered")
  /\ UNCHANGED <<now, accounts, lostAt, clients, trail>>

\* AuditService.record
RecordCall(c) ==
  /\ calls[c].stage = "logging"
  /\ Becomes(c, "answered")
  /\ trail' = trail \cup {RowOf(c)}
  /\ UNCHANGED <<now, accounts, lostAt, clients>>

\* The process ends with the calls in flight.  Tokens are good for the next.
Stops ==
  /\ calls' = [c \in Calls |->
       [calls[c] EXCEPT !.stage = CASE @ \in {"handling", "written"} -> "failed"
                                    [] @ = "logging" -> "unlogged"
                                    [] OTHER -> @]]
  /\ logins' = {}
  /\ UNCHANGED <<now, accounts, lostAt, tokens, trail>>

\* The insert fails: nobody awaits it or catches its error, which ends the
\* process and every other call with it.
LoseRow(c) == MayFail /\ calls[c].stage = "logging" /\ Stops

\* The process dies for another reason.
Die ==
  /\ MayFail
  /\ \/ \E c \in Calls : calls[c].stage \in {"handling", "written", "logging"}
     \/ logins # {}
  /\ Stops
-----------------------------------------------------------------------------
AccessInit ==
  /\ now = 0
  /\ accounts \in [Users -> SUBSET Rights]
  /\ lostAt = [u \in Users |-> [right \in Rights |-> Never]]
  /\ logins = {}
  /\ tokens = {}
  /\ calls = [c \in Calls |-> NoCall]
  /\ trail = {}

Client ==
  \/ \E u \in Users : ReadAccount(u)
  \/ \E l \in logins : IssueToken(l) \/ RefuseLogin(l)
  \/ \E c \in Calls, route \in Routes :
       PublicRequest(c, route) \/ \E token \in tokens : Request(c, token, route)

Handler(c) == Write(c) \/ Throw(c) \/ Answer(c) \/ RecordCall(c)

AccessNext ==
  \/ Tick
  \/ \E u \in Users, right \in Rights : Withdraw(u, right) \/ Confer(u, right)
  \/ Client
  \/ \E c \in Calls : Handler(c) \/ LoseRow(c)
  \/ Die

AccessSpec == AccessInit /\ [][AccessNext]_accessVars
-----------------------------------------------------------------------------
(* User u has the right, or lost it less than span before instant. *)
HeldWithin(u, right, span, instant) ==
  \/ right \in accounts[u]
  \/ lostAt[u][right] # Never /\ instant <= lostAt[u][right] + span

AccessTypeOK ==
  /\ now \in Nat
  /\ accounts \in [Users -> SUBSET Rights]
  /\ lostAt \in [Users -> [Rights -> Nat \cup {Never}]]
  /\ logins \subseteq Login
  /\ tokens \subseteq Token
  /\ calls \in [Calls -> Call]
  /\ trail \subseteq Row

\* What a token says was so when its login read the account, at most
\* CompareTime before the token was signed: even a right withdrawn in the
\* middle of the login is not older than that.  (login)
AccessInv ==
  /\ AccessTypeOK
  /\ \A u \in Users, right \in Rights : lostAt[u][right] <= now
  /\ \A l \in logins :
       /\ l.readAt <= now /\ now <= l.readAt + CompareTime
       /\ \A right \in l.permissions \cup {Active} : HeldWithin(l.user, right, 0, l.readAt)
  /\ \A token \in tokens :
       /\ token.issuedAt <= now
       /\ \A right \in token.permissions \cup {Active} :
            HeldWithin(token.user, right, CompareTime, token.issuedAt)

\* Whoever is let into a route that is not public was ACTIVE, and had one of
\* the permissions it requires, at some moment of the last TokenLife +
\* CompareTime: so long a withdrawal may take to be felt, and no longer,
\* whatever restarts in between.
\* (AuthService.login, JwtStrategy, PermissionsGuard)
LetThroughHeldRight ==
  [][\A c \in Calls :
       LET call == calls'[c]
           Had(right) == HeldWithin(call.user, right, TokenLife + CompareTime, now)
       IN  calls[c].stage = "none" /\ call.stage # "none" /\ call.route \notin Public =>
             /\ Had(Active)
             /\ Required[call.route] = {} \/ \E p \in Required[call.route] : Had(p)]_calls

\* The interceptor's row tells of a mutating call that was answered and not of
\* one that failed, and names who made it, also when the process ends between the
\* answer and the insert.  (AuditInterceptor.intercept)
TrailIsTrue ==
  \A row \in trail :
    /\ calls[row.call].stage = "answered"
    /\ calls[row.call].route \in Mutating
    /\ row.user = calls[row.call].user
=============================================================================
