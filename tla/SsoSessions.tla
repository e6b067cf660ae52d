---------------------------- MODULE SsoSessions ----------------------------
(***************************************************************************)
(* The shared browser session (cookie __sa_sso), the authorization codes   *)
(* of OpenID Connect, and the operations meant to sign a user out.         *)
(*                                                                         *)
(* A login or a visit with the cookie ends in an authorization code, which *)
(* the app exchanges for tokens, or in tokens at once (hosted login).      *)
(* Each handler is split at its calls on the store; req[r] is the local    *)
(* state of request r.  The tokens themselves are in RefreshTokens: a call *)
(* that stores or revokes them leaves no trace here.                       *)
(***************************************************************************)
EXTENDS Accounts

CONSTANTS
    Session,    \* session ids that may be drawn
    Code,       \* authorization codes that may be drawn
    Request,    \* requests served at the same time
    IdleTTL,    \* session_sso_idle_ttl
    MaxTTL,     \* session_sso_max_ttl
    CodeTTL,    \* ten minutes
    AccessTTL,  \* cfg.AccessTTL
    MaxTime     \* bound on the clock

ASSUME NoneIsNoValue ==
    /\ None \notin User
    /\ None \notin Session
    /\ None \notin [user : User, lastUsed : Nat, expires : Nat]
    /\ None \notin [user : User, expires : Nat]

ASSUME TTLsArePositive ==
    {IdleTTL, MaxTTL, CodeTTL, AccessTTL} \subseteq Nat \ {0}

VARIABLES
    now,           \* the clock
    sessions,      \* bucket sessions
    issued,        \* session ids some browser was given
    codes,         \* bucket oidc_auth_codes
    drawn,         \* codes that were sent out
    exchanges,     \* history: exchanges each code was good for
    revokedUntil,  \* bucket revoked_users: expiry of the entry, 0 if none
    req            \* local state of every request

sessionVars == <<sessions, issued>>
codeVars    == <<codes, drawn, exchanges>>
userVars    == <<account, mergedInto>>

vars == <<userVars, now, sessionVars, codeVars, revokedUntil, req>>

SessionRow == [user : User, lastUsed : Nat, expires : Nat]

CodeRow == [user : User, expires : Nat]

(* A visit: account, revoked, touch, final.  A login: seed, seedCode (a    *)
(* session, a session and then a code), first (tokens, then the session).  *)
(* Both: code, tokens.  An exchange: redeem, exchanged.  Signing out:      *)
(* block, purge.  drop: the browser's session is deleted.                  *)
LoggingIn == {"seed", "seedCode", "first"}

Granting == {"code", "tokens"} \cup LoggingIn

Exchanging == {"redeem", "exchanged"}

Stage == {"idle", "account", "revoked", "touch", "final", "block", "purge", "drop"}
             \cup Granting \cup Exchanging

RequestState ==
    [stage : Stage, user : User \cup {None}, session : Session \cup {None}, at : Nat]

Idle == [stage |-> "idle", user |-> None, session |-> None, at |-> 0]

IsIdle(r) == req[r].stage = "idle"

(* Request r goes on to a stage, for user u, with the cookie s, which was  *)
(* read at time t.                                                         *)
Enter(r, stage, u, s, t) ==
    req' = [req EXCEPT ![r] = [stage |-> stage, user |-> u, session |-> s, at |-> t]]

Finish(r) == req' = [req EXCEPT ![r] = Idle]

(* ResolveUser, Disabled. *)
Active(u, v) == ResolvesTo(u, v) /\ account[v] = "active"

IsUserAccessRevoked(u) == revokedUntil[u] > now

Outlived(s) ==
    \/ now > sessions[s].expires
    \/ now - sessions[s].lastUsed > IdleTTL

----------------------------------------------------------------------------
Init ==
    /\ NoAccounts
    /\ now = 0
    /\ sessions = [s \in Session |-> None]
    /\ issued = {}
    /\ codes = [c \in Code |-> None]
    /\ drawn = {}
    /\ exchanges = [c \in Code |-> 0]
    /\ revokedUntil = [u \in User |-> 0]
    /\ req = [r \in Request |-> Idle]

----------------------------------------------------------------------------
(* resolveSessionCookie. *)

(* The cookie names a stored session: it is read and its limits checked.   *)
GetSession(r, s) ==
    /\ IsIdle(r)
    /\ sessions[s] # None
    /\ IF Outlived(s) THEN Enter(r, "drop", None, s, 0)
       ELSE Enter(r, "account", sessions[s].user, s, now)
    /\ UNCHANGED <<now, userVars, sessionVars, codeVars, revokedUntil>>

(* The account; the directory may have disabled it, too. *)
CheckAccount(r) ==
    /\ req[r].stage = "account"
    /\ \/ \E v \in User : /\ Active(req[r].user, v)
                          /\ Enter(r, "revoked", v, req[r].session, req[r].at)
       \/ Enter(r, "drop", None, req[r].session, 0)
    /\ UNCHANGED <<now, userVars, sessionVars, codeVars, revokedUntil>>

CheckAccessRevoked(r) ==
    /\ req[r].stage = "revoked"
    /\ IF IsUserAccessRevoked(req[r].user) THEN Enter(r, "drop", None, req[r].session, 0)
       ELSE Enter(r, "touch", req[r].user, req[r].session, req[r].at)
    /\ UNCHANGED <<now, userVars, sessionVars, codeVars, revokedUntil>>

DeleteSession(r) ==
    /\ req[r].stage = "drop"
    /\ sessions' = [sessions EXCEPT ![req[r].session] = None]
    /\ Finish(r)
    /\ UNCHANGED <<now, userVars, issued, codeVars, revokedUntil>>

(* Mutant of TouchSession: the session that was read is written back. *)
MutTouchUpsert(r) ==
    /\ req[r].stage = "touch"
    /\ sessions' = [sessions EXCEPT ![req[r].session] =
                       [user |-> req[r].user, lastUsed |-> req[r].at,
                        expires |-> req[r].at + MaxTTL]]
    /\ Enter(r, "final", req[r].user, None, 0)
    /\ UNCHANGED <<now, userVars, issued, codeVars, revokedUntil>>

(* Mutant of TouchSession: stamped with the time of the write. *)
MutTouchNow(r) ==
    /\ req[r].stage = "touch"
    /\ LET s == req[r].session
       IN  sessions' = IF sessions[s] = None THEN sessions
                       ELSE [sessions EXCEPT ![s] = [@ EXCEPT !.lastUsed = now]]
    /\ Enter(r, "final", req[r].user, None, 0)
    /\ UNCHANGED <<now, userVars, issued, codeVars, revokedUntil>>

(* A session that is gone by now is not missed. *)
TouchSession(r) ==
    /\ req[r].stage = "touch"
    /\ LET s == req[r].session
       IN  sessions' = IF sessions[s] = None THEN sessions
                       ELSE [sessions EXCEPT ![s] = [@ EXCEPT !.lastUsed = req[r].at]]
    /\ Enter(r, "final", req[r].user, None, 0)
    /\ UNCHANGED <<now, userVars, issued, codeVars, revokedUntil>>

(* Mutant of FinalCheck: the account was checked before. *)
MutFinalCheckOnce(r) ==
    /\ req[r].stage = "final"
    /\ \E v \in User, stage \in {"code", "tokens"} :
          ResolvesTo(req[r].user, v) /\ Enter(r, stage, v, None, 0)
    /\ UNCHANGED <<now, userVars, sessionVars, codeVars, revokedUntil>>

(* Back in showOIDCLoginPage (a code) or handleHostedLoginPage (tokens):   *)
(* the account is read and checked once more.                              *)
FinalCheck(r) ==
    /\ req[r].stage = "final"
    /\ \/ \E v \in User, stage \in {"code", "tokens"} :
             Active(req[r].user, v) /\ Enter(r, stage, v, None, 0)
       \/ (~ \E v \in User : Active(req[r].user, v)) /\ Finish(r)
    /\ UNCHANGED <<now, userVars, sessionVars, codeVars, revokedUntil>>

----------------------------------------------------------------------------
(* Logging in, codes and tokens. *)

(* authenticateUser accepted u; the account is read and checked again.  By *)
(* the login form of OpenID Connect, or by a hosted or Kerberos login,     *)
(* which issues tokens first.                                              *)
Login(r, u) ==
    /\ IsIdle(r)
    /\ \E v \in User, stage \in {"seedCode", "first"} :
          /\ Active(u, v)
          /\ Enter(r, stage, v, None, 0)
    /\ UNCHANGED <<now, userVars, sessionVars, codeVars, revokedUntil>>

(* issueSessionCookie; app-local users get none. *)
CreateSession(r) ==
    /\ req[r].stage \in {"seed", "seedCode"}
    /\ \/ \E s \in Session \ issued :
             /\ sessions' = [sessions EXCEPT ![s] =
                               [user |-> req[r].user, lastUsed |-> now, expires |-> now + MaxTTL]]
             /\ issued' = issued \cup {s}
       \/ UNCHANGED sessionVars
    /\ \/ Enter(r, "code", req[r].user, None, 0)
       \/ req[r].stage = "seed" /\ Finish(r)
    /\ UNCHANGED <<now, userVars, codeVars, revokedUntil>>

(* issueOIDCCodeRedirect, and the end of a Kerberos login for an app. *)
SaveOIDCAuthCode(r) ==
    /\ req[r].stage = "code"
    /\ \E c \in Code \ drawn :
          /\ codes' = [codes EXCEPT ![c] = [user |-> req[r].user, expires |-> now + CodeTTL]]
          /\ drawn' = drawn \cup {c}
    /\ Finish(r)
    /\ UNCHANGED <<now, userVars, sessionVars, exchanges, revokedUntil>>

(* Mutant of IssueTokens: the user is not handed on to the session. *)
MutForgetUser(r) ==
    /\ req[r].stage \in {"tokens", "first", "exchanged"}
    /\ \/ req[r].stage = "first" /\ Enter(r, "seed", None, None, 0)
       \/ Finish(r)
    /\ UNCHANGED <<now, userVars, sessionVars, codeVars, revokedUntil>>

(* issueTokenPair, issueOIDCTokens; the app may not admit the user. *)
IssueTokens(r) ==
    /\ req[r].stage \in {"tokens", "first", "exchanged"}
    /\ \/ req[r].stage = "first" /\ Enter(r, "seed", req[r].user, None, 0)
       \/ Finish(r)
    /\ UNCHANGED <<now, userVars, sessionVars, codeVars, revokedUntil>>

(* Mutant of ConsumeOIDCAuthCode: the code stays, for the pruner to take. *)
MutConsumeKeepsCode(r, c) ==
    /\ IsIdle(r)
    /\ codes[c] # None /\ now <= codes[c].expires
    /\ exchanges' = [exchanges EXCEPT ![c] = @ + 1]
    /\ Enter(r, "redeem", codes[c].user, None, 0)
    /\ UNCHANGED <<now, userVars, sessionVars, codes, drawn, revokedUntil>>

(* handleOIDCTokenAuthCode: the code is taken out of the store; redirect   *)
(* and verifier may still not match.  An expired code is good for nothing: *)
(* Postgres deletes it; BoltDB rolls the deletion back, which is no step.  *)
ConsumeOIDCAuthCode(r, c) ==
    /\ IsIdle(r)
    /\ codes[c] # None
    /\ codes' = [codes EXCEPT ![c] = None]
    /\ IF now <= codes[c].expires
       THEN /\ exchanges' = [exchanges EXCEPT ![c] = @ + 1]
            /\ Enter(r, "redeem", codes[c].user, None, 0)
       ELSE UNCHANGED <<exchanges, req>>
    /\ UNCHANGED <<now, userVars, sessionVars, drawn, revokedUntil>>

(* ResolveUser and resolveApp.  Neither Disabled nor the kill switch is    *)
(* looked at.                                                              *)
RedeemCode(r) ==
    /\ req[r].stage = "redeem"
    /\ \/ \E v \in User : ResolvesTo(req[r].user, v) /\ Enter(r, "exchanged", v, None, 0)
       \/ Finish(r)
    /\ UNCHANGED <<now, userVars, sessionVars, codeVars, revokedUntil>>

----------------------------------------------------------------------------
(* Signing out. *)

(* handleRevokeSessions: RevokeUserTokens, RevokeAllUserAccessTokens,      *)
(* DeleteUserSessions.                                                     *)
RevokeSessions(r, u) ==
    /\ IsIdle(r)
    /\ Known(u)
    /\ Enter(r, "block", u, None, 0)
    /\ UNCHANGED <<now, userVars, sessionVars, codeVars, revokedUntil>>

(* handleUserLogoutAll, and handleOIDCLogout with an id_token_hint, which  *)
(* ends the session of the browser's cookie as well.                       *)
LogoutAll(r, u, s) ==
    /\ IsIdle(r)
    /\ Known(u)
    /\ Enter(r, "purge", u, s, 0)
    /\ UNCHANGED <<now, userVars, sessionVars, codeVars, revokedUntil>>

(* handleDeleteUser: the row, the access tokens, the refresh tokens, the   *)
(* sessions.                                                               *)
DeleteUser(r, u) ==
    /\ IsIdle(r)
    /\ DropUser(u)
    /\ Enter(r, "block", u, None, 0)
    /\ UNCHANGED <<now, sessionVars, codeVars, revokedUntil>>

BlockAccess(r) ==
    /\ req[r].stage = "block"
    /\ revokedUntil' = [revokedUntil EXCEPT ![req[r].user] = now + AccessTTL]
    /\ Enter(r, "purge", req[r].user, None, 0)
    /\ UNCHANGED <<now, userVars, sessionVars, codeVars>>

(* Mutant of DeleteUserSessions: live sessions are left to expire. *)
MutDeleteOutlived(r) ==
    /\ req[r].stage = "purge"
    /\ sessions' = [s \in Session |->
                       IF sessions[s] # None /\ sessions[s].user = req[r].user /\ Outlived(s)
                       THEN None ELSE sessions[s]]
    /\ Finish(r)
    /\ UNCHANGED <<now, userVars, issued, codeVars, revokedUntil>>

DeleteUserSessions(r) ==
    /\ req[r].stage = "purge"
    /\ sessions' = [s \in Session |->
                       IF sessions[s] # None /\ sessions[s].user = req[r].user
                       THEN None ELSE sessions[s]]
    /\ IF req[r].session = None THEN Finish(r)
       ELSE Enter(r, "drop", None, req[r].session, 0)
    /\ UNCHANGED <<now, userVars, issued, codeVars, revokedUntil>>

(* handleLogout, handleOIDCLogout without a hint: the browser's session.   *)
Logout(s) ==
    /\ s \in issued
    /\ sessions' = [sessions EXCEPT ![s] = None]
    /\ UNCHANGED <<now, userVars, issued, codeVars, revokedUntil, req>>

----------------------------------------------------------------------------
(* Accounts, the pruner, the clock. *)

ChangeAccounts ==
    /\ \/ \E u \in User : PutUser(u) \/ Unmerge(u)
       \/ \E u \in User, status \in {"active", "disabled"} : SetStatus(u, status)
       \/ \E sources \in SUBSET User, v \in User : MergeInto(sources, v)
    /\ UNCHANGED <<now, sessionVars, codeVars, revokedUntil, req>>

CleanExpiredSessions ==
    /\ sessions' = [s \in Session |->
                       IF sessions[s] # None /\ sessions[s].expires < now
                       THEN None ELSE sessions[s]]
    /\ UNCHANGED <<now, userVars, issued, codeVars, revokedUntil, req>>

CleanExpiredOIDCCodes ==
    /\ codes' = [c \in Code |->
                    IF codes[c] # None /\ codes[c].expires < now THEN None ELSE codes[c]]
    /\ UNCHANGED <<now, userVars, sessionVars, drawn, exchanges, revokedUntil, req>>

(* An expired entry of revoked_users reads as none. *)
Tick ==
    /\ now < MaxTime
    /\ now' = now + 1
    /\ revokedUntil' = [u \in User |-> IF revokedUntil[u] > now' THEN revokedUntil[u] ELSE 0]
    /\ UNCHANGED <<userVars, sessionVars, codeVars, req>>

(* The process dies: the requests are gone, the store stays. *)
Crash ==
    /\ req' = [r \in Request |-> Idle]
    /\ UNCHANGED <<now, userVars, sessionVars, codeVars, revokedUntil>>

Visit(r) ==
    \/ \E s \in issued : GetSession(r, s)
    \/ CheckAccount(r)
    \/ CheckAccessRevoked(r)
    \/ DeleteSession(r)
    \/ TouchSession(r)
    \/ FinalCheck(r)

Grant(r) ==
    \/ \E u \in User : Login(r, u)
    \/ CreateSession(r)
    \/ SaveOIDCAuthCode(r)
    \/ IssueTokens(r)
    \/ \E c \in drawn : ConsumeOIDCAuthCode(r, c)
    \/ RedeemCode(r)

EndSessions(r) ==
    \/ \E u \in User : RevokeSessions(r, u) \/ DeleteUser(r, u)
    \/ \E u \in User, s \in issued \cup {None} : LogoutAll(r, u, s)
    \/ BlockAccess(r)
    \/ DeleteUserSessions(r)

Next ==
    \/ \E r \in Request : Visit(r) \/ Grant(r) \/ EndSessions(r)
    \/ \E s \in Session : Logout(s)
    \/ ChangeAccounts
    \/ CleanExpiredSessions
    \/ CleanExpiredOIDCCodes
    \/ Tick
    \/ Crash

Spec == Init /\ [][Next]_vars

----------------------------------------------------------------------------
(* Properties. *)

TypeOK ==
    /\ AccountsOK
    /\ now \in Nat
    /\ sessions \in [Session -> SessionRow \cup {None}]
    /\ issued \in SUBSET Session
    /\ codes \in [Code -> CodeRow \cup {None}]
    /\ drawn \in SUBSET Code
    /\ exchanges \in [Code -> Nat]
    /\ revokedUntil \in [User -> Nat]
    /\ req \in [Request -> RequestState]

(* A session is never used beyond its absolute limit, however slow the     *)
(* visit that uses it: LastUsedAt is the time its limits were checked.     *)
SessionWithinLimits ==
    \A s \in Session :
        sessions[s] # None => sessions[s].lastUsed <= sessions[s].expires

(* A session that was deleted, by a logout, an administrator or the        *)
(* pruner, does not come back with the write of a visit that had read it   *)
(* before (TouchSession).                                                  *)
SessionStaysDeleted ==
    [][\A s \in issued : sessions[s] = None => sessions'[s] = None]_vars

LogsIn(u) == \E r \in Request : req[r].user = u /\ req[r].stage \in LoggingIn

NoSession(u) == \A s \in Session : sessions[s] # None => sessions[s].user # u

(* A request that signs u out everywhere takes its last step. *)
Purges(u) == \E r \in Request : req[r].user = u /\ DeleteUserSessions(r)

(* docs/CONFIGURATION.md:549, "All shared SSO session cookies for that     *)
(* user on every browser": when a handler has signed the user out, no      *)
(* session of the user is left, and none appears, not even by a visit that *)
(* had read one before, until the user logs in again.                      *)
SignOutEndsSessions ==
    [][\A u \in User :
          ~ LogsIn(u) /\ (Purges(u) \/ NoSession(u)) => NoSession(u)']_vars

(* The account is disabled and no request is past its last check of it. *)
Shut(u) ==
    /\ account[u] = "disabled"
    /\ \A r \in Request : ~ (req[r].user = u /\ req[r].stage \in Granting)

(* docs/CONFIGURATION.md:535, "disabled accounts cannot use an old         *)
(* cookie": once requests that were past their check are over, a disabled  *)
(* account gets no session and no code, by whatever way, until it is       *)
(* enabled or deleted.                                                     *)
DisabledGetsNothing ==
    [][\A u \in User : Shut(u) =>
          /\ Shut(u)' \/ account'[u] # "disabled"
          /\ \A c \in Code : codes'[c] # codes[c] /\ codes'[c] # None => codes'[c].user # u
          /\ \A s \in Session : sessions'[s] # None /\ sessions[s] = None
                                    => sessions'[s].user # u]_vars

(* Codes are good once, and not after they expired. *)
CodeState ==
    [c \in Code |-> IF c \notin drawn THEN "unissued"
                    ELSE IF codes[c] # None /\ now <= codes[c].expires THEN "pending"
                    ELSE "over"]

Abstract == INSTANCE OneTimeCodes WITH state <- CodeState

ImplementsOneTimeCodes == Abstract!Spec

(* The user has a session or is being given a code or tokens. *)
Present(u) ==
    \/ ~ NoSession(u)
    \/ \E r \in Request : req[r].user = u /\ req[r].stage \in Granting \cup Exchanging

(* docs/CONFIGURATION.md:551, "an admin can fully sign a user out of every *)
(* app in under a second": as long as the kill switch is on and no request *)
(* for the user is left from before, the only way back is a login.         *)
SignedOutNeedsLogin ==
    [][\A u \in User :
          IsUserAccessRevoked(u) /\ ~ Present(u) /\ Present(u)'
              => LogsIn(u)' \/ \E r \in Request : req[r].user = u]_vars

============================================================================
