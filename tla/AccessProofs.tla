---------------------------- MODULE AccessProofs ----------------------------
(***************************************************************************)
(* Proofs about Access, for any accounts, routes, lifetimes and number of  *)
(* requests.                                                               *)
(***************************************************************************)
EXTENDS Access, TLAPS

USE AccessAssumption DEF Never

\* An insert that fails ends the process like any other death.
LEMMA LosingIsDying == \A c \in Calls : LoseRow(c) => Die
  BY DEF LoseRow, Die

LEMMA AccessInitially == AccessInit => AccessInv
  <1> SUFFICES ASSUME AccessInit PROVE AccessInv
    OBVIOUS
  <1>1. NoCall \in Call
    BY DEF NoCall, Call, CallStage
  <1>2. AccessTypeOK
    BY <1>1 DEF AccessInit, AccessTypeOK
  <1>3. \A u \in Users, right \in Rights : lostAt[u][right] = Never
    BY DEF AccessInit
  <1> QED BY <1>2, <1>3 DEF AccessInit, AccessInv

\* A right that was held within a span of an instant goes on having been.
LEMMA StillHeld ==
  ASSUME AccessInv, [AccessNext]_accessVars, NEW u \in Users, NEW right \in Rights,
         NEW span \in Nat, NEW instant \in Nat, instant <= now,
         HeldWithin(u, right, span, instant)
  PROVE  HeldWithin(u, right, span, instant)'
  <1>1. CASE \E v \in Users, r \in Rights : Withdraw(v, r)
    <2>1. PICK v \in Users, r \in Rights : Withdraw(v, r)
      BY <1>1
    <2>2. CASE u = v /\ right = r
      <3>1. lostAt'[u][right] = now
        BY <2>1, <2>2 DEF Withdraw, AccessInv, AccessTypeOK
      <3>2. now \in Nat
        BY DEF AccessInv, AccessTypeOK
      <3> QED BY <3>1, <3>2 DEF HeldWithin
    <2>3. CASE ~(u = v /\ right = r)
      <3>1. lostAt'[u][right] = lostAt[u][right]
        BY <2>1, <2>3 DEF Withdraw, AccessInv, AccessTypeOK
      <3>2. right \in accounts[u] <=> right \in accounts'[u]
        BY <2>1, <2>3 DEF Withdraw, AccessInv, AccessTypeOK
      <3> QED BY <3>1, <3>2 DEF HeldWithin
    <2> QED BY <2>2, <2>3
  <1>2. CASE \E v \in Users, r \in Rights : Confer(v, r)
    <2>1. PICK v \in Users, r \in Rights : Confer(v, r)
      BY <1>2
    <2>2. right \in accounts[u] => right \in accounts'[u]
      BY <2>1 DEF Confer, AccessInv, AccessTypeOK
    <2> QED BY <2>1, <2>2 DEF Confer, HeldWithin
  <1>3. CASE UNCHANGED <<accounts, lostAt>>
    BY <1>3 DEF HeldWithin
  <1>4. CASE UNCHANGED accessVars
    BY <1>4, <1>3 DEF accessVars
  <1>5. CASE Tick \/ Client \/ Die \/ \E c \in Calls : Handler(c)
    BY <1>5, <1>3 DEF Tick, Client, ReadAccount, IssueToken, RefuseLogin, Request,
       PublicRequest, Admit, Handler, Write, Throw, Answer, RecordCall, Die, Stops
  <1> QED BY <1>1, <1>2, <1>4, <1>5, LosingIsDying DEF AccessNext

\* The tables of users and rights stay well typed.
LEMMA AccountsTyped ==
  ASSUME AccessInv, [AccessNext]_accessVars
  PROVE  /\ now' \in Nat /\ now <= now'
         /\ accounts' \in [Users -> SUBSET Rights]
         /\ lostAt' \in [Users -> [Rights -> Nat \cup {Never}]]
         /\ \A u \in Users, right \in Rights : lostAt'[u][right] <= now'
  <1>1. CASE \E v \in Users, r \in Rights : Withdraw(v, r)
    <2>1. PICK v \in Users, r \in Rights : Withdraw(v, r)
      BY <1>1
    <2>2. accounts' \in [Users -> SUBSET Rights] /\ now' = now /\ now \in Nat
      BY <2>1 DEF Withdraw, AccessInv, AccessTypeOK
    <2>3. lostAt' = [lostAt EXCEPT ![v] = [lostAt[v] EXCEPT ![r] = now]]
      BY <2>1 DEF Withdraw
    <2>4. lostAt[v] \in [Rights -> Nat \cup {Never}]
      BY DEF AccessInv, AccessTypeOK
    <2>5. [lostAt[v] EXCEPT ![r] = now] \in [Rights -> Nat \cup {Never}]
      BY <2>2, <2>4
    <2>6. lostAt' \in [Users -> [Rights -> Nat \cup {Never}]]
      BY <2>3, <2>5 DEF AccessInv, AccessTypeOK
    <2>7. \A u \in Users, right \in Rights :
            lostAt'[u][right] = IF u = v /\ right = r THEN now ELSE lostAt[u][right]
      <3>1. lostAt'[v] = [lostAt[v] EXCEPT ![r] = now]
        BY <2>3 DEF AccessInv, AccessTypeOK
      <3>2. \A u \in Users \ {v} : lostAt'[u] = lostAt[u]
        BY <2>3 DEF AccessInv, AccessTypeOK
      <3>3. \A right \in Rights :
              lostAt'[v][right] = IF right = r THEN now ELSE lostAt[v][right]
        BY <2>4, <3>1
      <3> TAKE u \in Users, right \in Rights
      <3>4. CASE u = v
        BY <3>3, <3>4
      <3>5. CASE u # v
        <4>1. lostAt'[u] = lostAt[u]
          BY <3>2, <3>5
        <4> QED BY <3>5, <4>1
      <3> QED BY <3>4, <3>5
    <2>8. ASSUME NEW u \in Users, NEW right \in Rights
          PROVE  lostAt'[u][right] <= now'
      <3>1. lostAt[u][right] <= now
        BY DEF AccessInv
      <3>2. CASE u = v /\ right = r
        BY <2>2, <2>7, <3>2
      <3>3. CASE ~(u = v /\ right = r)
        BY <2>2, <2>7, <3>1, <3>3
      <3> QED BY <3>2, <3>3
    <2> QED BY <2>2, <2>6, <2>8
  <1>2. CASE \E v \in Users, r \in Rights : Confer(v, r)
    BY <1>2 DEF Confer, AccessInv, AccessTypeOK
  <1>3. CASE UNCHANGED <<now, accounts, lostAt>>
    BY <1>3 DEF AccessInv, AccessTypeOK
  <1>4. CASE UNCHANGED accessVars
    BY <1>4, <1>3 DEF accessVars
  <1>5. CASE Client \/ Die \/ \E c \in Calls : Handler(c)
    BY <1>5, <1>3 DEF Client, ReadAccount, IssueToken, RefuseLogin, Request,
       PublicRequest, Admit, Handler, Write, Throw, Answer, RecordCall, Die, Stops
  <1>6. CASE Tick
    <2>1. now' \in Nat /\ now <= now'
      BY <1>6 DEF Tick, AccessInv, AccessTypeOK
    <2>2. UNCHANGED <<accounts, lostAt>>
      BY <1>6 DEF Tick
    <2>3. \A u \in Users, right \in Rights : lostAt[u][right] <= now'
      BY <2>1 DEF AccessInv, AccessTypeOK
    <2> QED BY <2>1, <2>2, <2>3 DEF AccessInv, AccessTypeOK
  <1> QED BY <1>1, <1>2, <1>4, <1>5, <1>6, LosingIsDying DEF AccessNext

\* Calls and their rows stay well typed.
LEMMA CallsTyped ==
  ASSUME AccessInv, [AccessNext]_accessVars
  PROVE  calls' \in [Calls -> Call] /\ trail' \subseteq Row
  <1>1. calls \in [Calls -> Call] /\ trail \subseteq Row /\ tokens \subseteq Token
    BY DEF AccessInv, AccessTypeOK
  <1>2. CASE UNCHANGED <<calls, trail>>
    BY <1>1, <1>2
  <1>3. ASSUME NEW c \in Calls, NEW stage \in CallStage, Becomes(c, stage)
        PROVE  calls' \in [Calls -> Call]
    <2>1. [calls[c] EXCEPT !.stage = stage] \in Call
      BY <1>1, <1>3 DEF Call
    <2> QED BY <1>1, <1>3, <2>1 DEF Becomes
  <1>4. ASSUME NEW c \in Calls PROVE RowOf(c) \in Row
    BY <1>1, <1>4 DEF RowOf, Row, Call
  <1>5. ASSUME NEW c \in Calls, Handler(c) PROVE calls' \in [Calls -> Call] /\ trail' \subseteq Row
    BY <1>1, <1>3, <1>4, <1>5
    DEF Handler, Write, Throw, Answer, RecordCall, CallStage
  <1>6. CASE Die
    <2>1. \A c \in Calls : calls'[c] \in Call
      <3>1. \A c \in Calls : \E stage \in CallStage :
              calls'[c] = [calls[c] EXCEPT !.stage = stage]
        BY <1>1, <1>6 DEF Die, Stops, Call, CallStage
      <3>2. \A c \in Calls, stage \in CallStage : [calls[c] EXCEPT !.stage = stage] \in Call
        BY <1>1 DEF Call
      <3> QED BY <3>1, <3>2
    <2> QED BY <1>1, <1>6, <2>1 DEF Die, Stops
  <1>7. ASSUME NEW c \in Calls, NEW user \in Users \cup {Nobody}, NEW route \in Routes,
               Admit(c, user, route)
        PROVE  calls' \in [Calls -> Call] /\ trail' \subseteq Row
    <2>1. [stage |-> "handling", user |-> user, route |-> route] \in Call
      BY DEF Call, CallStage
    <2> QED BY <1>1, <1>7, <2>1 DEF Admit
  <1>8. CASE Client
    BY <1>1, <1>2, <1>7, <1>8
    DEF Client, ReadAccount, IssueToken, RefuseLogin, Request, PublicRequest, Token
  <1>9. CASE Tick \/ UNCHANGED accessVars
    BY <1>2, <1>9 DEF Tick, accessVars
  <1>10. CASE \E u \in Users, right \in Rights : Withdraw(u, right) \/ Confer(u, right)
    BY <1>2, <1>10 DEF Withdraw, Confer
  <1> QED BY <1>5, <1>6, <1>8, <1>9, <1>10, LosingIsDying DEF AccessNext

LoginOK(l) ==
  /\ l \in Login
  /\ l.readAt <= now /\ now <= l.readAt + CompareTime
  /\ \A right \in l.permissions \cup {Active} : HeldWithin(l.user, right, 0, l.readAt)

TokenOK(token) ==
  /\ token \in Token
  /\ token.issuedAt <= now
  /\ \A right \in token.permissions \cup {Active} :
       HeldWithin(token.user, right, CompareTime, token.issuedAt)

LEMMA ClientsOK ==
  AccessInv <=> /\ AccessTypeOK
                /\ \A u \in Users, right \in Rights : lostAt[u][right] <= now
                /\ \A l \in logins : LoginOK(l)
                /\ \A token \in tokens : TokenOK(token)
  BY DEF AccessInv, AccessTypeOK, LoginOK, TokenOK

\* A login under way stays sound, as long as it is within its time.
LEMMA LoginKept ==
  ASSUME AccessInv, [AccessNext]_accessVars, NEW l, LoginOK(l), now' <= l.readAt + CompareTime
  PROVE  LoginOK(l)'
  <1>1. l.user \in Users /\ l.readAt \in Nat /\ l.permissions \cup {Active} \subseteq Rights
    BY DEF LoginOK, Login, Rights
  <1>2. \A right \in l.permissions \cup {Active} : HeldWithin(l.user, right, 0, l.readAt)'
    BY <1>1, StillHeld DEF LoginOK
  <1>3. l.readAt <= now'
    BY <1>1, AccountsTyped DEF LoginOK, AccessInv, AccessTypeOK
  <1> QED BY <1>2, <1>3 DEF LoginOK

LEMMA TokenKept ==
  ASSUME AccessInv, [AccessNext]_accessVars, NEW token, TokenOK(token)
  PROVE  TokenOK(token)'
  <1>1. /\ token.user \in Users /\ token.issuedAt \in Nat
        /\ token.permissions \cup {Active} \subseteq Rights
    BY DEF TokenOK, Token, Rights
  <1>2. \A right \in token.permissions \cup {Active} :
          HeldWithin(token.user, right, CompareTime, token.issuedAt)'
    BY <1>1, StillHeld DEF TokenOK
  <1>3. token.issuedAt <= now'
    BY <1>1, AccountsTyped DEF TokenOK, AccessInv, AccessTypeOK
  <1> QED BY <1>2, <1>3 DEF TokenOK

LEMMA AccessStep == AccessInv /\ [AccessNext]_accessVars => AccessInv'
  <1> SUFFICES ASSUME AccessInv, [AccessNext]_accessVars PROVE AccessInv'
    OBVIOUS
  <1>1. /\ now \in Nat
        /\ \A l \in logins : LoginOK(l)
        /\ \A token \in tokens : TokenOK(token)
    BY ClientsOK DEF AccessTypeOK
  <1>2. \A l \in logins' : LoginOK(l)'
    <2>1. CASE Tick
      <3>1. ASSUME NEW l \in logins PROVE now' <= l.readAt + CompareTime
        <4>1. l.readAt \in Nat /\ now < l.readAt + CompareTime
          BY <1>1, <2>1 DEF LoginOK, Login, Tick
        <4> QED BY <1>1, <2>1, <4>1 DEF Tick
      <3> QED BY <1>1, <2>1, <3>1, LoginKept DEF Tick, clients
    <2>2. CASE logins' \subseteq logins /\ now' = now
      BY <1>1, <2>2, LoginKept DEF LoginOK
    <2>3. ASSUME NEW u \in Users, ReadAccount(u) PROVE \A l \in logins' : LoginOK(l)'
      <3> DEFINE new == [user |-> u, permissions |-> accounts[u] \cap Permissions, readAt |-> now]
      <3>1. LoginOK(new)
        <4>1. new \in Login
          BY <1>1 DEF Login
        <4>2. now <= now + CompareTime
          BY <1>1
        <4> QED BY <1>1, <2>3, <4>1, <4>2 DEF LoginOK, HeldWithin, ReadAccount
      <3>2. logins' = logins \cup {new} /\ now' = now
        BY <2>3 DEF ReadAccount
      <3>3. \A l \in logins' : LoginOK(l)
        BY <1>1, <3>1, <3>2
      <3> QED BY <3>2, <3>3, LoginKept DEF LoginOK
    <2>4. CASE Client
      <3>1. \/ \E u \in Users : ReadAccount(u)
            \/ \E l \in logins : IssueToken(l) \/ RefuseLogin(l)
            \/ UNCHANGED <<now, logins>>
        BY <2>4 DEF Client, Request, PublicRequest, Admit, clients
      <3>2. (\E l \in logins : IssueToken(l) \/ RefuseLogin(l))
              => logins' \subseteq logins /\ now' = now
        BY DEF IssueToken, RefuseLogin
      <3> QED BY <2>2, <2>3, <3>1, <3>2
    <2>5. CASE \/ UNCHANGED accessVars
               \/ \E u \in Users, right \in Rights : Withdraw(u, right) \/ Confer(u, right)
               \/ \E c \in Calls : Handler(c)
               \/ Die
      BY <2>2, <2>5 DEF accessVars, clients, Withdraw, Confer, Handler, Write, Throw, Answer,
         RecordCall, Die, Stops
    <2> QED BY <2>1, <2>4, <2>5, LosingIsDying DEF AccessNext
  <1>3. \A token \in tokens' : TokenOK(token)'
    <2>1. CASE UNCHANGED tokens
      BY <1>1, <2>1, TokenKept
    <2>2. ASSUME NEW l \in logins, IssueToken(l) PROVE \A token \in tokens' : TokenOK(token)'
      <3> DEFINE new == [user |-> l.user, permissions |-> l.permissions, issuedAt |-> now]
      <3>1. TokenOK(new)
        <4>1. /\ LoginOK(l) /\ l \in Login /\ l.user \in Users /\ l.readAt \in Nat
              /\ l.permissions \cup {Active} \subseteq Rights
          BY <1>1 DEF LoginOK, Login, Rights
        <4>2. new \in Token
          BY <1>1, <4>1 DEF Token, Login
        <4>3. ASSUME NEW right \in l.permissions \cup {Active}
              PROVE  HeldWithin(l.user, right, CompareTime, now)
          <5>1. HeldWithin(l.user, right, 0, l.readAt) /\ now <= l.readAt + CompareTime
            BY <4>1, <4>3 DEF LoginOK
          <5>2. lostAt[l.user][right] \in Nat \cup {Never}
            BY <4>1, <4>3 DEF AccessInv, AccessTypeOK
          <5> QED BY <1>1, <4>1, <5>1, <5>2 DEF HeldWithin
        <4> QED BY <1>1, <4>2, <4>3 DEF TokenOK
      <3>2. \A token \in tokens' : token = new \/ token \in tokens
        BY <2>2 DEF IssueToken
      <3> HIDE DEF new
      <3> QED BY <1>1, <3>1, <3>2, TokenKept
    <2>3. CASE Client
      <3>1. UNCHANGED tokens \/ \E l \in logins : IssueToken(l)
        BY <2>3 DEF Client, ReadAccount, RefuseLogin, Request, PublicRequest, Admit, clients
      <3> QED BY <2>1, <2>2, <3>1
    <2>4. CASE \/ Tick \/ UNCHANGED accessVars
               \/ \E u \in Users, right \in Rights : Withdraw(u, right) \/ Confer(u, right)
               \/ \E c \in Calls : Handler(c)
               \/ Die
      BY <2>1, <2>4 DEF accessVars, clients, Tick, Withdraw, Confer, Handler, Write, Throw,
         Answer, RecordCall, Die, Stops
    <2> QED BY <2>3, <2>4, LosingIsDying DEF AccessNext
  <1>4. AccessTypeOK'
    BY <1>2, <1>3, AccountsTyped, CallsTyped DEF AccessTypeOK, LoginOK, TokenOK
  <1> QED BY <1>2, <1>3, <1>4, AccountsTyped, ClientsOK DEF AccessInv, LoginOK, TokenOK

\* What a token says of its user was so, at most the time of a password
\* comparison before it was signed. (AuthService.login)
THEOREM TokensTellTheTruth == AccessSpec => []AccessInv
  BY AccessInitially, AccessStep, PTL DEF AccessSpec

\* Nobody gets into a route on a right lost longer ago than the life of a token
\* and a password comparison, however accounts change and the process restarts.
\* (JwtStrategy, PermissionsGuard)
THEOREM WithdrawalsAreFelt == AccessSpec => LetThroughHeldRight
  <1> DEFINE Felt(c) ==
        LET call == calls'[c]
            Had(right) == HeldWithin(call.user, right, TokenLife + CompareTime, now)
        IN  calls[c].stage = "none" /\ call.stage # "none" /\ call.route \notin Public =>
              /\ Had(Active)
              /\ Required[call.route] = {} \/ \E p \in Required[call.route] : Had(p)
  <1>1. ASSUME AccessInv, [AccessNext]_accessVars, NEW c \in Calls PROVE Felt(c)
    <2> SUFFICES ASSUME calls[c].stage = "none", calls'[c].stage # "none",
                        calls'[c].route \notin Public
                 PROVE  LET Had(right) == HeldWithin(calls'[c].user, right,
                                                     TokenLife + CompareTime, now)
                        IN  /\ Had(Active)
                            /\ \/ Required[calls'[c].route] = {}
                               \/ \E p \in Required[calls'[c].route] : Had(p)
      OBVIOUS
    <2>1. calls \in [Calls -> Call] /\ now \in Nat /\ \A token \in tokens : TokenOK(token)
      BY <1>1, ClientsOK DEF AccessTypeOK
    <2>2. PICK token \in tokens, route \in Routes : Request(c, token, route)
      <3>1. ASSUME NEW d \in Calls, Handler(d) PROVE FALSE
        <4>1. calls[d].stage # "none" /\ \E stage : Becomes(d, stage)
          BY <3>1 DEF Handler, Write, Throw, Answer, RecordCall
        <4> QED BY <2>1, <4>1 DEF Becomes
      <3>2. ~Die
        BY <2>1 DEF Die, Stops, Call
      <3>3. UNCHANGED calls => FALSE
        OBVIOUS
      <3>4. Client
        BY <1>1, <3>1, <3>2, <3>3, LosingIsDying DEF AccessNext, Tick, Withdraw, Confer, accessVars
      <3>5. PICK d \in Calls, route \in Routes :
              PublicRequest(d, route) \/ \E token \in tokens : Request(d, token, route)
        BY <3>3, <3>4 DEF Client, ReadAccount, IssueToken, RefuseLogin
      <3>6. d = c
        BY <2>1, <3>5 DEF PublicRequest, Request, Admit
      <3>7. ~PublicRequest(c, route)
        BY <2>1 DEF PublicRequest, Admit
      <3> QED BY <3>5, <3>6, <3>7
    <2>3. calls'[c].user = token.user /\ calls'[c].route = route
      BY <2>1, <2>2 DEF Request, Admit
    <2>4. TokenOK(token) /\ token.issuedAt \in Nat /\ token.user \in Users
          /\ now < token.issuedAt + TokenLife
      BY <2>1, <2>2 DEF TokenOK, Token, Request, Authenticates
    <2>5. ASSUME NEW right \in token.permissions \cup {Active}
          PROVE  HeldWithin(token.user, right, TokenLife + CompareTime, now)
      <3>1. HeldWithin(token.user, right, CompareTime, token.issuedAt)
        BY <2>4, <2>5 DEF TokenOK
      <3>2. lostAt[token.user][right] \in Nat \cup {Never}
        BY <1>1, <2>4, <2>5 DEF AccessInv, AccessTypeOK, TokenOK, Token, Rights
      <3> QED BY <2>1, <2>4, <3>1, <3>2 DEF HeldWithin
    <2>6. Required[route] = {} \/ \E p \in Required[route] : p \in token.permissions
      BY <2>2 DEF Request, Permitted
    <2> QED BY <2>3, <2>5, <2>6
  <1>2. AccessInv /\ [AccessNext]_accessVars => [\A c \in Calls : Felt(c)]_calls
    BY <1>1
  <1>3. AccessSpec => [][\A c \in Calls : Felt(c)]_calls
    BY <1>2, TokensTellTheTruth, PTL DEF AccessSpec
  <1> QED BY <1>3 DEF LetThroughHeldRight

\* What makes TrailIsTrue inductive: only a mutating call is ever being logged.
LoggedTrail ==
  /\ TrailIsTrue
  /\ \A c \in Calls : calls[c].stage = "logging" => calls[c].route \in Mutating

\* A step of one call leaves the others alone, and an answered call is over.
LEMMA CallMoves ==
  ASSUME AccessInv, [AccessNext]_accessVars, NEW c \in Calls
  PROVE  \/ calls'[c] = calls[c]
         \/ calls[c].stage = "none" /\ calls'[c].stage = "handling"
         \/ /\ calls[c].stage \in {"handling", "written", "logging"}
            /\ calls'[c].stage \in CallStage \ {"none", "handling"}
            /\ calls'[c].user = calls[c].user /\ calls'[c].route = calls[c].route
            /\ calls'[c].stage = "logging" => calls[c].route \in Mutating
  <1>1. calls \in [Calls -> Call]
    BY DEF AccessInv, AccessTypeOK
  <1>2. ASSUME NEW d \in Calls, NEW stage \in CallStage, Becomes(d, stage)
        PROVE  /\ d # c => calls'[c] = calls[c]
               /\ calls'[d].stage = stage
               /\ calls'[d].user = calls[d].user /\ calls'[d].route = calls[d].route
    BY <1>1, <1>2 DEF Becomes, Call
  <1>3. CASE UNCHANGED calls
    BY <1>3
  <1>4. ASSUME NEW d \in Calls, Handler(d)
        PROVE  \E stage \in CallStage \ {"none", "handling"} :
                 /\ Becomes(d, stage)
                 /\ calls[d].stage \in {"handling", "written", "logging"}
                 /\ stage = "logging" => calls[d].route \in Mutating
    BY <1>4 DEF Handler, Write, Throw, Answer, RecordCall, CallStage
  <1>5. CASE \E d \in Calls : Handler(d)
    BY <1>2, <1>4, <1>5
  <1>6. CASE Die
    <2>1. calls'[c] = [calls[c] EXCEPT !.stage =
             CASE @ \in {"handling", "written"} -> "failed" [] @ = "logging" -> "unlogged"
               [] OTHER -> @]
      BY <1>6 DEF Die, Stops
    <2>2. calls[c] \in Call
      BY <1>1
    <2>3. CASE calls[c].stage \in {"handling", "written"}
      BY <2>1, <2>2, <2>3 DEF Call, CallStage
    <2>4. CASE calls[c].stage = "logging"
      BY <2>1, <2>2, <2>4 DEF Call, CallStage
    <2>5. CASE calls[c].stage \notin {"handling", "written", "logging"}
      BY <2>1, <2>2, <2>5 DEF Call
    <2> QED BY <2>3, <2>4, <2>5
  <1>7. ASSUME NEW d \in Calls, NEW user, NEW route, Admit(d, user, route)
        PROVE  \/ calls'[c] = calls[c]
               \/ calls[c].stage = "none" /\ calls'[c].stage = "handling"
    BY <1>1, <1>7 DEF Admit
  <1>8. CASE Client
    BY <1>3, <1>7, <1>8
    DEF Client, ReadAccount, IssueToken, RefuseLogin, Request, PublicRequest
  <1>9. CASE \/ Tick \/ UNCHANGED accessVars
             \/ \E u \in Users, right \in Rights : Withdraw(u, right) \/ Confer(u, right)
    BY <1>3, <1>9 DEF Tick, Withdraw, Confer, accessVars
  <1> QED BY <1>5, <1>6, <1>8, <1>9, LosingIsDying DEF AccessNext

LEMMA TrailGrowsByOne ==
  ASSUME [AccessNext]_accessVars
  PROVE  trail' = trail \/ \E c \in Calls : RecordCall(c)
  BY LosingIsDying DEF AccessNext, accessVars, Tick, Withdraw, Confer, Client, ReadAccount, IssueToken,
     RefuseLogin, Request, PublicRequest, Admit, Handler, Write, Throw, Answer, Die, Stops

LEMMA TrailStaysTrue ==
  ASSUME AccessInv, LoggedTrail, [AccessNext]_accessVars
  PROVE  LoggedTrail'
  <1>1. ASSUME NEW row \in trail
        PROVE  /\ calls'[row.call].stage = "answered" /\ calls'[row.call].route \in Mutating
               /\ row.user = calls'[row.call].user
    <2>1. row.call \in Calls
      BY DEF AccessInv, AccessTypeOK, Row
    <2>2. calls[row.call].stage = "answered"
      BY DEF LoggedTrail, TrailIsTrue
    <2>3. calls'[row.call] = calls[row.call]
      BY <2>1, <2>2, CallMoves
    <2> QED BY <2>3 DEF LoggedTrail, TrailIsTrue
  <1>2. TrailIsTrue'
    <2>1. CASE trail' = trail
      BY <1>1, <2>1 DEF TrailIsTrue
    <2>2. ASSUME NEW c \in Calls, RecordCall(c) PROVE TrailIsTrue'
      <3>1. /\ calls[c].stage = "logging" /\ calls[c].route \in Mutating
            /\ trail' = trail \cup {RowOf(c)}
        BY <2>2 DEF RecordCall, LoggedTrail
      <3>2. /\ calls'[c].stage = "answered" /\ calls'[c].route = calls[c].route
            /\ calls'[c].user = calls[c].user
        BY <2>2 DEF RecordCall, Becomes, AccessInv, AccessTypeOK, Call
      <3> QED BY <1>1, <3>1, <3>2 DEF TrailIsTrue, RowOf
    <2> QED BY <2>1, <2>2, TrailGrowsByOne
  <1>3. ASSUME NEW c \in Calls, calls'[c].stage = "logging" PROVE calls'[c].route \in Mutating
    <2>1. calls'[c] = calls[c] => calls'[c].route \in Mutating
      BY <1>3 DEF LoggedTrail
    <2> QED BY <1>3, <2>1, CallMoves
  <1> QED BY <1>2, <1>3 DEF LoggedTrail

LEMMA TrailStartsTrue == AccessInit => LoggedTrail
  BY DEF AccessInit, LoggedTrail, TrailIsTrue, NoCall

\* However calls, failures and deaths of the process interleave, a row of the
\* interceptor tells of a mutating call that was answered, and names its user.
\* (AuditInterceptor.intercept)
THEOREM RowsTellTheTruth == AccessSpec => []TrailIsTrue
  <1>1. LoggedTrail => TrailIsTrue
    BY DEF LoggedTrail
  <1>2. AccessInv /\ LoggedTrail /\ [AccessNext]_accessVars => LoggedTrail'
    BY TrailStaysTrue
  <1> QED BY <1>1, <1>2, TrailStartsTrue, TokensTellTheTruth, PTL DEF AccessSpec
=============================================================================
