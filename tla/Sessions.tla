------------------------------ MODULE Sessions ------------------------------
(***************************************************************************)
(* The sessions of one user: refresh tokens and their rotation, the JWTs   *)
(* handed out with them, and every way they are revoked                    *)
(* (models/refresh_token.go, auth/token_revocation.go, handlers/auth.go,   *)
(* session_extend.go, mfa_login_complete.go).  Each statement of the       *)
(* database is a step of its own; the handlers interleave and may die      *)
(* between two of them.  The tables hold nothing that relates two users.   *)
(***************************************************************************)
EXTENDS Integers, FiniteSets

CONSTANTS
  Handlers,   \* requests served at one time
  MaxMinted,  \* bound: refresh tokens made and full access tokens signed
  MaxTime,    \* bound: the clock, in the seconds a JWT is stamped with
  TTL         \* userRevocationCacheTTL

ASSUME SessionsAssumption ==
  /\ MaxMinted \in Nat \ {0}
  /\ MaxTime \in Nat \ {0}
  /\ TTL \in Nat \ {0}

VARIABLES
  now,
  refresh,   \* table refresh_tokens
  iat,       \* when a JWT was issued to a client; 0: not yet
  jwtRev,    \* user_jwt_revocations.revoked_at; 0: no row
  dead,      \* JWTs refused for themselves: in revoked_tokens, or expired
  userCache, \* userRevocationCache of the process
  ops,       \* the requests being served
  minted,    \* how many refresh tokens and JWTs were made (ids are fresh)
  revs       \* history: every time all JWTs of the user were revoked

sessionsVars == <<now, refresh, iat, jwtRev, dead, userCache, ops, minted, revs>>

Tokens == 1 .. MaxMinted
JWTs == 1 .. MaxMinted
Time == 1 .. MaxTime

\* A family is named by its first token.  The hash that supersedes a token is
\* never read for more than its presence.
TokenRow == [family: Tokens, superseded: BOOLEAN, revoked: BOOLEAN,
             familyRevoked: BOOLEAN]
NoRow == [family |-> 0, superseded |-> FALSE, revoked |-> FALSE,
          familyRevoked |-> FALSE]

NoEntry == [present |-> FALSE, rev |-> 0, at |-> 0]

Steps == {"idle", "login", "insert", "mark", "reuse", "reuseJWT",
          "reuseCache", "revokeJWT", "dropCache",
          "read", "store", "serving"}

\* tok: the refresh token presented; jwt: the access token presented or
\* minted; at: a reading of the clock; rev: a revocation time read.
Op == [pc: Steps, tok: 0 .. MaxMinted, jwt: 0 .. MaxMinted, at: 0 .. MaxTime,
       rev: 0 .. MaxTime]
NoOp == [pc |-> "idle", tok |-> 0, jwt |-> 0, at |-> 0, rev |-> 0]

SessionsTypeOK ==
  /\ now \in Time
  /\ refresh \in [Tokens -> TokenRow \cup {NoRow}]
  /\ iat \in [JWTs -> 0 .. MaxTime]
  /\ jwtRev \in 0 .. MaxTime
  /\ dead \subseteq JWTs
  /\ userCache \in [present: BOOLEAN, rev: 0 .. MaxTime, at: 0 .. MaxTime]
  /\ ops \in [Handlers -> Op]
  /\ minted \in [token: 0 .. MaxMinted, jwt: 0 .. MaxMinted]
  /\ revs \subseteq Time

SessionsInit ==
  /\ now = 1
  /\ refresh = [t \in Tokens |-> NoRow]
  /\ iat = [j \in JWTs |-> 0]
  /\ jwtRev = 0
  /\ dead = {}
  /\ userCache = NoEntry
  /\ ops = [h \in Handlers |-> NoOp]
  /\ minted = [token |-> 0, jwt |-> 0]
  /\ revs = {}

At(h, step) == ops[h].pc = step
MovesTo(h, step) == ops' = [ops EXCEPT ![h].pc = step]
Answer(h) == ops' = [ops EXCEPT ![h] = NoOp]
Begin(h, op) == At(h, "idle") /\ ops' = [ops EXCEPT ![h] = op]

MayMint == minted.token + minted.jwt < MaxMinted

tables == <<refresh, iat, jwtRev, dead, minted, revs>>

-----------------------------------------------------------------------------
(* Signing in: completeMFALogin, completeMFARegistrationSetup.             *)

\* GenerateFullAccessToken stamps the JWT before the refresh token exists.
LoginJWT(h) ==
  /\ MayMint
  /\ minted' = [minted EXCEPT !.jwt = @ + 1]
  /\ Begin(h, [NoOp EXCEPT !.pc = "login", !.jwt = minted.jwt + 1, !.at = now])
  /\ UNCHANGED <<now, refresh, iat, jwtRev, dead, userCache, revs>>

Fresh(family) == [NoRow EXCEPT !.family = family]

\* CreateRefreshToken starts a family, and both tokens go to the client.
LoginRefresh(h) ==
  /\ At(h, "login")
  /\ MayMint
  /\ LET t == minted.token + 1 IN
       /\ refresh' = [refresh EXCEPT ![t] = Fresh(t)]
       /\ minted' = [minted EXCEPT !.token = t]
  /\ iat' = [iat EXCEPT ![ops[h].jwt] = ops[h].at]
  /\ Answer(h)
  /\ UNCHANGED <<now, jwtRev, dead, userCache, revs>>

-----------------------------------------------------------------------------
(* Rotation: ValidateRefreshToken, called by RefreshToken and by           *)
(* ExtendAuthenticatedSession.                                             *)

\* Mutant: the revocation of the family is not asked for.
VerdictOfRow(t) ==
  IF refresh[t].revoked THEN "idle"
  ELSE IF refresh[t].superseded THEN "reuse" ELSE "insert"

\* What the row read decides, in the order the code asks.
Verdict(t) ==
  IF refresh[t].revoked THEN "idle"
  ELSE IF refresh[t].superseded THEN "reuse"
  ELSE IF refresh[t].familyRevoked THEN "idle" ELSE "insert"

\* The holder of t, whoever that is, presents it.
Present(h, t) ==
  /\ refresh[t] # NoRow
  /\ Verdict(t) # "idle"
  /\ Begin(h, [NoOp EXCEPT !.pc = Verdict(t), !.tok = t])
  /\ UNCHANGED <<now, tables, userCache>>

\* The child is stored whatever has happened to the row since it was read.
RotateInsert(h) ==
  /\ At(h, "insert")
  /\ MayMint
  /\ LET t == minted.token + 1 IN
       /\ refresh' = [refresh EXCEPT ![t] = Fresh(refresh[ops[h].tok].family)]
       /\ minted' = [minted EXCEPT !.token = t]
  /\ MovesTo(h, "mark")
  /\ UNCHANGED <<now, iat, jwtRev, dead, userCache, revs>>

\* The old row is marked, whatever it says by now, and a new JWT is stamped.
RotateMark(h) ==
  /\ At(h, "mark")
  /\ MayMint
  /\ refresh' = [refresh EXCEPT ![ops[h].tok].superseded = TRUE]
  /\ minted' = [minted EXCEPT !.jwt = @ + 1]
  /\ iat' = [iat EXCEPT ![minted.jwt + 1] = now]
  /\ Answer(h)
  /\ UNCHANGED <<now, jwtRev, dead, userCache, revs>>

\* A used token came back.  Either statement may fail unnoticed.
ReuseFamily(h) ==
  /\ At(h, "reuse")
  /\ \/ refresh' = [t \in Tokens |->
            IF /\ refresh[t] # NoRow
               /\ refresh[t].family = refresh[ops[h].tok].family
            THEN [refresh[t] EXCEPT !.familyRevoked = TRUE]
            ELSE refresh[t]]
     \/ UNCHANGED refresh
  /\ MovesTo(h, "reuseJWT")
  /\ UNCHANGED <<now, iat, jwtRev, dead, userCache, minted, revs>>

\* RevokeAllUserJWTsByUsername
WriteJWTRevocation ==
  /\ jwtRev' = now
  /\ revs' = revs \cup {now}

ReuseJWT(h) ==
  /\ At(h, "reuseJWT")
  /\ \/ WriteJWTRevocation
     \/ UNCHANGED <<jwtRev, revs>>
  /\ MovesTo(h, "reuseCache")
  /\ UNCHANGED <<now, refresh, iat, dead, userCache, minted>>

\* RefreshToken drops the cached revocation; ExtendAuthenticatedSession
\* answers at once.
ReuseCache(h) ==
  /\ At(h, "reuseCache")
  /\ userCache' \in {NoEntry, userCache}
  /\ Answer(h)
  /\ UNCHANGED <<now, tables>>

-----------------------------------------------------------------------------
(* Revocation on request.                                                  *)

\* Logout marks the one row of the refresh token; the JWT stays good.  A row
\* that expires, and is deleted some time after (models CleanupExpiredTokens),
\* is refused at the same place and in the same way.
LogoutOrExpiry(t) ==
  /\ refresh[t] # NoRow
  /\ ~refresh[t].revoked
  /\ refresh' = [refresh EXCEPT ![t].revoked = TRUE]
  /\ UNCHANGED <<now, iat, jwtRev, dead, userCache, ops, minted, revs>>

\* RevokeAllTokens, AdminForceLogout, and the removal of an MFA credential or
\* a flag to re-register, which call the same two functions.
RevokeAllRefresh(h) ==
  /\ refresh' = [t \in Tokens |-> IF refresh[t] = NoRow THEN NoRow
                                  ELSE [refresh[t] EXCEPT !.revoked = TRUE]]
  /\ Begin(h, [NoOp EXCEPT !.pc = "revokeJWT"])
  /\ UNCHANGED <<now, iat, jwtRev, dead, userCache, minted, revs>>

RevokeAllJWT(h) ==
  /\ At(h, "revokeJWT")
  /\ WriteJWTRevocation
  /\ MovesTo(h, "dropCache")
  /\ UNCHANGED <<now, refresh, iat, dead, userCache, minted>>

DropCache(h) ==
  /\ At(h, "dropCache")
  /\ userCache' = NoEntry
  /\ Answer(h)
  /\ UNCHANGED <<now, tables>>

Usable(j) == iat[j] # 0 /\ j \notin dead

\* RevokeToken stores the id and then caches it; revokedTokensCache never holds
\* another id, and what it lacks is looked up in the table.  A token refused
\* because it has expired is refused for good as well, and its row is deleted
\* only then (auth.CleanupExpiredTokens).
RevokeTokenOrExpiry(j) ==
  /\ Usable(j)
  /\ dead' = dead \cup {j}
  /\ UNCHANGED <<now, refresh, iat, jwtRev, userCache, ops, minted, revs>>

-----------------------------------------------------------------------------
(* Serving a request: JWTMiddleware, then TokenRevocationMiddleware.       *)

Hit == userCache.present /\ now - userCache.at < TTL

\* revokedAt.After(iat).  A JWT is stamped with whole seconds, so one issued
\* in the second of the revocation counts as older.
Outdated(rev, j) == rev >= iat[j]

\* getUserRevocationTimeCached reads the clock, then the cache.
StartRequest(h, j) ==
  /\ Usable(j)
  /\ ~(Hit /\ Outdated(userCache.rev, j))
  /\ Begin(h, [NoOp EXCEPT !.pc = IF Hit THEN "serving" ELSE "read",
                           !.jwt = j, !.at = now])
  /\ UNCHANGED <<now, tables, userCache>>

ReadRevocation(h) ==
  /\ At(h, "read")
  /\ ops' = [ops EXCEPT ![h].pc = "store", ![h].rev = jwtRev]
  /\ UNCHANGED <<now, tables, userCache>>

\* A failed read lets the request through unchecked.
ReadFails(h) ==
  /\ At(h, "read")
  /\ Answer(h)
  /\ UNCHANGED <<now, tables, userCache>>

\* Mutant: the entry is as old as the store.
EntryNow(op) == [present |-> TRUE, rev |-> op.rev, at |-> now]

\* The entry is as old as the reading of the clock, not as the store.
Entry(op) == [present |-> TRUE, rev |-> op.rev, at |-> op.at]

StoreRevocation(h) ==
  /\ At(h, "store")
  /\ userCache' = Entry(ops[h])
  /\ IF Outdated(ops[h].rev, ops[h].jwt) THEN Answer(h) ELSE MovesTo(h, "serving")
  /\ UNCHANGED <<now, tables>>

FinishRequest(h) ==
  /\ At(h, "serving")
  /\ Answer(h)
  /\ UNCHANGED <<now, tables, userCache>>

-----------------------------------------------------------------------------
(* Time, failures and maintenance.                                         *)

\* A statement fails and the handler answers with the error.
FailOp(h) ==
  /\ ops[h].pc \in {"login", "insert", "mark", "revokeJWT"}
  /\ Answer(h)
  /\ UNCHANGED <<now, tables, userCache>>

TickSecond ==
  /\ now < MaxTime
  /\ now' = now + 1
  /\ UNCHANGED <<tables, userCache, ops>>

CrashProcess ==
  /\ ops' = [h \in Handlers |-> NoOp]
  /\ userCache' = NoEntry
  /\ UNCHANGED <<now, tables>>

SessionsNext ==
  \/ \E h \in Handlers :
       \/ LoginJWT(h) \/ LoginRefresh(h)
       \/ \E t \in Tokens : Present(h, t)
       \/ RotateInsert(h) \/ RotateMark(h)
       \/ ReuseFamily(h) \/ ReuseJWT(h) \/ ReuseCache(h)
       \/ RevokeAllRefresh(h) \/ RevokeAllJWT(h) \/ DropCache(h)
       \/ \E j \in JWTs : StartRequest(h, j)
       \/ ReadRevocation(h) \/ ReadFails(h) \/ StoreRevocation(h)
       \/ FinishRequest(h) \/ FailOp(h)
  \/ \E t \in Tokens : LogoutOrExpiry(t)
  \/ \E j \in JWTs : RevokeTokenOrExpiry(j)
  \/ TickSecond \/ CrashProcess

SessionsSpec == SessionsInit /\ [][SessionsNext]_sessionsVars

-----------------------------------------------------------------------------
(* Properties.                                                             *)

(* A request that TokenRevocationMiddleware let through after it looked    *)
(* the user's revocation up carries a JWT that no revocation of a TTL or   *)
(* more before the request had hit.  An entry of userRevocationCache read  *)
(* before a revocation may be stored after the revocation has dropped the  *)
(* cache; it must still die within the TTL (auth/token_revocation.go:47).  *)
ServedWasValid ==
  \A h \in Handlers : At(h, "serving") =>
    \A r \in revs : r <= ops[h].at - TTL => r < iat[ops[h].jwt]

Live(t) ==
  /\ refresh[t] # NoRow
  /\ ~refresh[t].superseded /\ ~refresh[t].revoked
  /\ ~refresh[t].familyRevoked

\* Nobody holds a token of the family that works, nor is about to get one.
Ended(f) ==
  /\ refresh[f] # NoRow /\ refresh[f].family = f
  /\ \A t \in Tokens : refresh[t].family = f => ~Live(t)
  /\ \A h \in Handlers : At(h, "insert") =>
       refresh[ops[h].tok].family # f

\* Nothing the user holds works, and no sign-in or rotation is under way.
LoggedOut ==
  /\ \A t \in Tokens : ~Live(t)
  /\ \A j \in JWTs : iat[j] = 0 \/ Outdated(jwtRev, j) \/ j \in dead
  /\ \A h \in Handlers :
       ops[h].pc \notin {"login", "insert", "mark"}

(* A session that has ended stays ended: after a reuse was detected, a     *)
(* logout or an expiry has left a family without a working token, and no   *)
(* rotation had passed its check by then, no sequence of rotations,        *)
(* retries and restarts brings a working token back; and a user who holds  *)
(* no working token and no accepted JWT has none until a sign-in is        *)
(* completed with MFA (models/refresh_token.go:106, handlers/auth.go:169). *)
EndedStaysEnded ==
  [][/\ \A f \in Tokens : Ended(f) => Ended(f)'
     /\ LoggedOut /\ ~(\E h \in Handlers : LoginJWT(h)) => LoggedOut']_sessionsVars
=============================================================================
