--------------------------- MODULE RefreshTokens ---------------------------
(***************************************************************************)
(* Sessions of the authentication server: the single-use refresh tokens,   *)
(* the families they form, the access tokens minted beside them, and every *)
(* administrative operation that is meant to end a session.                *)
(*                                                                         *)
(* HTTP requests run concurrently, one goroutine each.  Every call of a    *)
(* handler on the store is one transaction, so a handler is split at those *)
(* calls and other requests interleave between them.  req[p] is the local  *)
(* state of the request served by goroutine p.                             *)
(***************************************************************************)
EXTENDS Accounts

CONSTANTS
    App,            \* registered applications
    Family,         \* values uuid.New() may return for a family id
    Token,          \* values uuid.New() may return for a token id
    Request,        \* requests served at the same time
    AccessTTL,      \* cfg.AccessTTL
    ImpersonateTTL, \* cfg.ImpersonateTTL
    RefreshTTL,     \* cfg.RefreshTTL
    MaxTime         \* bound on the clock

ASSUME TTLAssumption ==
    /\ AccessTTL \in Nat \ {0}
    /\ ImpersonateTTL \in Nat \ {0}
    /\ RefreshTTL \in Nat \ {0}
    /\ MaxTime \in Nat

ASSUME NoneAssumption ==
    /\ None \notin Token
    /\ None \notin User
    /\ None \notin App
    /\ None \notin [family : Family, user : User, app : App, exp : Nat]

VARIABLES
    now,           \* the wall clock
    claims,        \* what was signed into each refresh token, None if not minted
    row,           \* bucket refresh_tokens: state of each token's row
    access,        \* access tokens handed out that have not expired
    revokedUntil,  \* bucket revoked_users: expiry of the entry, 0 if none
    req,           \* local state of every request
    revokedFams,   \* history: families on which RevokeTokenFamily has run
    voided         \* history: access tokens a completed revocation covered

vars == <<now, account, mergedInto, claims, row, access,
          revokedUntil, req, revokedFams, voided>>

userVars    == <<account, mergedInto>>
tokenVars   == <<claims, row, revokedFams>>
accessVars  == <<access, revokedUntil, voided>>

----------------------------------------------------------------------------
(* Data.                                                                   *)

RefreshClaims == [family : Family, user : User, app : App, exp : Nat]

AccessToken == [user : User, exp : Nat, impersonated : BOOLEAN]

(* "presented" .. "cleared": the steps of a rotation.  "authenticated": a  *)
(* login that has passed its checks.  The others are steps of revocations. *)
Rotating == {"consumed", "resolved", "cleared"}

Stage == Rotating \cup {"idle", "presented", "replayed", "authenticated",
                        "logout", "kill", "killDeleted", "dropDeleted"}

RequestState ==
    [stage : Stage,
     via   : {"native", "oidc"},      \* handleRefresh or handleOIDCTokenRefresh
     tok   : Token \cup {None},       \* the refresh token presented
     user  : User \cup {None},        \* the account the request acts on
     app   : App \cup {None},         \* the app a login is for
     fams  : SUBSET Family]           \* families a logout has still to revoke

Idle == [stage |-> "idle", via |-> "native", tok |-> None, user |-> None,
         app |-> None, fams |-> {}]

----------------------------------------------------------------------------
(* Reading the store.                                                      *)

Minted(t) == claims[t] # None

Stored(t) == row[t] # "absent"

IsUserAccessRevoked(u) == revokedUntil[u] > now

(* validateAccessToken: not expired and no live revocation of the subject. *)
Accepted(a) == now < a.exp /\ ~ IsUserAccessRevoked(a.user)

FamilyOf(t) == claims[t].family

----------------------------------------------------------------------------
(* Writing the store.                                                      *)

Without(doomed) == [t \in Token |-> IF t \in doomed THEN "absent" ELSE row[t]]

TokensOfFamily(f) == {t \in Token : Minted(t) /\ FamilyOf(t) = f}

TokensOfUser(u) == {t \in Token : Minted(t) /\ claims[t].user = u}

RevokeTokenFamily(f) ==
    /\ row' = Without(TokensOfFamily(f))
    /\ revokedFams' = revokedFams \cup {f}
    /\ UNCHANGED claims

(* Mutant of RevokeUserTokens: a tombstone instead of a delete. *)
MutRevokeUserTokensTombstone(u) ==
    /\ row' = [t \in Token |-> IF t \in TokensOfUser(u) THEN "revoked" ELSE row[t]]
    /\ UNCHANGED <<claims, revokedFams>>

RevokeUserTokens(u) ==
    /\ row' = Without(TokensOfUser(u))
    /\ UNCHANGED <<claims, revokedFams>>

(* RevokeAllUserAccessTokens(u, now + AccessTTL) *)
RevokeAllUserAccessTokens(u) ==
    /\ revokedUntil' = [revokedUntil EXCEPT ![u] = now + AccessTTL]
    /\ voided' = voided \cup {a \in access : a.user = u}
    /\ UNCHANGED access

SaveRefreshToken(t, f, u, a) ==
    /\ claims' = [claims EXCEPT ![t] = [family |-> f, user |-> u, app |-> a,
                                        exp |-> now + RefreshTTL]]
    /\ row' = [row EXCEPT ![t] = "unused"]
    /\ UNCHANGED revokedFams

IssueAccessToken(u, ttl, imp) ==
    /\ access' = access \cup {[user |-> u, exp |-> now + ttl, impersonated |-> imp]}
    /\ UNCHANGED <<revokedUntil, voided>>

Goto(p, stage) == req' = [req EXCEPT ![p].stage = stage]

Finish(p) == req' = [req EXCEPT ![p] = Idle]

----------------------------------------------------------------------------
Init ==
    /\ now = 0
    /\ NoAccounts
    /\ claims = [t \in Token |-> None]
    /\ row = [t \in Token |-> "absent"]
    /\ access = {}
    /\ revokedUntil = [u \in User |-> 0]
    /\ req = [p \in Request |-> Idle]
    /\ revokedFams = {}
    /\ voided = {}

----------------------------------------------------------------------------
(* Logging in.                                                             *)

(* The credential is valid, the app admits the user and ResolveUser gives  *)
(* an enabled account.  The kill switch is not consulted here.             *)
Authenticate(p, u, a) ==
    /\ req[p].stage = "idle"
    /\ account[u] = "active" /\ mergedInto[u] = None
    /\ req' = [req EXCEPT ![p] = [Idle EXCEPT !.stage = "authenticated",
                                              !.user = u, !.app = a]]
    /\ UNCHANGED <<now, userVars, tokenVars, accessVars>>

(* Mutant of IssueTokenPair: the login joins any family. *)
MutIssueTokenPairAnyFamily(p) ==
    /\ req[p].stage = "authenticated"
    /\ \E t \in Token, f \in Family :
        /\ ~ Minted(t)
        /\ SaveRefreshToken(t, f, req[p].user, req[p].app)
    /\ IssueAccessToken(req[p].user, AccessTTL, FALSE)
    /\ Finish(p)
    /\ UNCHANGED <<now, userVars>>

(* A new family: IssueRefreshToken with familyID "". *)
IssueTokenPair(p) ==
    /\ req[p].stage = "authenticated"
    /\ \E t \in Token, f \in Family :
        /\ ~ Minted(t)
        /\ TokensOfFamily(f) = {}
        /\ SaveRefreshToken(t, f, req[p].user, req[p].app)
    /\ IssueAccessToken(req[p].user, AccessTTL, FALSE)
    /\ Finish(p)
    /\ UNCHANGED <<now, userVars>>

(* An administrator obtains an access token for a user; no refresh token.  *)
Impersonate(u) ==
    /\ account[u] = "active" /\ mergedInto[u] = None
    /\ ~ IsUserAccessRevoked(u)
    /\ IssueAccessToken(u, ImpersonateTTL, TRUE)
    /\ UNCHANGED <<now, userVars, tokenVars, req>>

----------------------------------------------------------------------------
(* Rotation: handleRefresh and handleOIDCTokenRefresh.                     *)

(* ValidateToken on the presented string; the row is not looked at yet. *)
Present(p, t, via) ==
    /\ req[p].stage = "idle"
    /\ Minted(t) /\ now < claims[t].exp
    /\ req' = [req EXCEPT ![p] = [Idle EXCEPT !.stage = "presented",
                                              !.via = via, !.tok = t]]
    /\ UNCHANGED <<now, userVars, tokenVars, accessVars>>

(* Mutant of ConsumeRefreshToken: Used is tested and never set. *)
MutConsumeWithoutMark(p) ==
    LET t == req[p].tok IN
    /\ req[p].stage = "presented"
    /\ \/ row[t] = "absent" /\ Finish(p)
       \/ row[t] = "used"   /\ Goto(p, "replayed")
       \/ row[t] = "unused" /\ Goto(p, "consumed")
    /\ UNCHANGED <<now, userVars, tokenVars, accessVars>>

(* ConsumeRefreshToken: one transaction with three outcomes. *)
ConsumeRefreshToken(p) ==
    LET t == req[p].tok IN
    /\ req[p].stage = "presented"
    /\ \/ row[t] = "absent" /\ Finish(p) /\ UNCHANGED row
       \/ row[t] = "used"   /\ Goto(p, "replayed") /\ UNCHANGED row
       \/ row[t] = "unused" /\ Goto(p, "consumed")
                            /\ row' = [row EXCEPT ![t] = "used"]
    /\ UNCHANGED <<now, userVars, claims, revokedFams, accessVars>>

(* Mutant of RevokeReplayedFamily: the replay is answered, nothing revoked. *)
MutAnswerReplayOnly(p) ==
    /\ req[p].stage = "replayed"
    /\ Finish(p)
    /\ UNCHANGED <<now, userVars, tokenVars, accessVars>>

(* ErrRefreshTokenReused: the family goes, in a second transaction. *)
RevokeReplayedFamily(p) ==
    /\ req[p].stage = "replayed"
    /\ RevokeTokenFamily(FamilyOf(req[p].tok))
    /\ Finish(p)
    /\ UNCHANGED <<now, userVars, accessVars>>

(* The row's ExpiresAt (handleRefresh only), ResolveUser and Disabled. *)
ResolveAccount(p) ==
    LET c == claims[req[p].tok] IN
    /\ req[p].stage = "consumed"
    /\ req[p].via = "native" => now <= c.exp
    /\ \E u \in User :
        /\ ResolvesTo(c.user, u)
        /\ account[u] = "active"
        /\ req' = [req EXCEPT ![p].stage = "resolved", ![p].user = u]
    /\ UNCHANGED <<now, userVars, tokenVars, accessVars>>

(* The kill switch.  The last two gates, resolveApp and resolveTokenRoles,  *)
(* may refuse whatever the state here: AbandonRotation.                    *)
CheckAccessRevoked(p) ==
    /\ req[p].stage = "resolved"
    /\ ~ IsUserAccessRevoked(req[p].user)
    /\ Goto(p, "cleared")
    /\ UNCHANGED <<now, userVars, tokenVars, accessVars>>

(* Mutant of IssueSuccessor: the successor is not bound to the stored app. *)
MutIssueSuccessorAnyApp(p) ==
    /\ req[p].stage = "cleared"
    /\ \E t \in Token, a \in App :
        /\ ~ Minted(t)
        /\ SaveRefreshToken(t, FamilyOf(req[p].tok), req[p].user, a)
    /\ IssueAccessToken(req[p].user, AccessTTL, FALSE)
    /\ Finish(p)
    /\ UNCHANGED <<now, userVars>>

(* The successor joins the family of the consumed token and keeps its app. *)
IssueSuccessor(p) ==
    LET c == claims[req[p].tok] IN
    /\ req[p].stage = "cleared"
    /\ \E t \in Token :
        /\ ~ Minted(t)
        /\ SaveRefreshToken(t, c.family, req[p].user, c.app)
    /\ IssueAccessToken(req[p].user, AccessTTL, FALSE)
    /\ Finish(p)
    /\ UNCHANGED <<now, userVars>>

(* Every early return between the consume and the save: a check above      *)
(* fails, the directory or the assignment gate refuses the user, signing   *)
(* or the store fails.  The consumed row stays used.                       *)
AbandonRotation(p) ==
    /\ req[p].stage \in Rotating
    /\ Finish(p)
    /\ UNCHANGED <<now, userVars, tokenVars, accessVars>>

----------------------------------------------------------------------------
(* Ending sessions.                                                        *)

(* handleRevokeSessions: the refresh tokens first, the access tokens next. *)
(* The row of the user is not looked up.                                   *)
RevokeSessions(p, u) ==
    /\ req[p].stage = "idle"
    /\ Known(u)
    /\ RevokeUserTokens(u)
    /\ req' = [req EXCEPT ![p] = [Idle EXCEPT !.stage = "kill", !.user = u]]
    /\ UNCHANGED <<now, userVars, accessVars>>

KillAccess(p) ==
    /\ req[p].stage = "kill"
    /\ RevokeAllUserAccessTokens(req[p].user)
    /\ Finish(p)
    /\ UNCHANGED <<now, userVars, tokenVars>>

(* handleDeleteUser: the row, if there is one, then the access tokens,     *)
(* then the refresh tokens.                                                *)
DeleteUser(p, u) ==
    /\ req[p].stage = "idle"
    /\ DropUser(u)
    /\ req' = [req EXCEPT ![p] = [Idle EXCEPT !.stage = "killDeleted", !.user = u]]
    /\ UNCHANGED <<now, tokenVars, accessVars>>

KillDeleted(p) ==
    /\ req[p].stage = "killDeleted"
    /\ RevokeAllUserAccessTokens(req[p].user)
    /\ Goto(p, "dropDeleted")
    /\ UNCHANGED <<now, userVars, tokenVars>>

DropDeleted(p) ==
    /\ req[p].stage = "dropDeleted"
    /\ RevokeUserTokens(req[p].user)
    /\ Finish(p)
    /\ UNCHANGED <<now, userVars, accessVars>>

(* handleUserLogoutAll: the caller holds an accepted access token. *)
LogoutAll(a) ==
    /\ Accepted(a)
    /\ RevokeUserTokens(a.user)
    /\ UNCHANGED <<now, userVars, accessVars, req>>

(* handleOIDCLogout: the families ListUserSessions reports are remembered  *)
(* and revoked one by one.  The id token hint is the one issued with some  *)
(* refresh token of the user.                                              *)
OIDCLogout(p, u) ==
    LET live == {t \in TokensOfUser(u) : row[t] = "unused" /\ claims[t].exp > now} IN
    /\ req[p].stage = "idle"
    /\ live # {}
    /\ req' = [req EXCEPT ![p] = [Idle EXCEPT !.stage = "logout", !.user = u,
                                              !.fams = {FamilyOf(t) : t \in live}]]
    /\ UNCHANGED <<now, userVars, tokenVars, accessVars>>

LogoutNextFamily(p) ==
    /\ req[p].stage = "logout"
    /\ \E f \in req[p].fams :
        /\ RevokeTokenFamily(f)
        /\ IF req[p].fams = {f} THEN Finish(p)
           ELSE req' = [req EXCEPT ![p].fams = @ \ {f}]
    /\ UNCHANGED <<now, userVars, accessVars>>

----------------------------------------------------------------------------
(* The administrator, the pruner, the clock, the process.                  *)

(* By an administrator, or by the first login through a directory. *)
CreateUser(u) ==
    /\ PutUser(u)
    /\ UNCHANGED <<now, tokenVars, accessVars, req>>

(* handleSetDisabled changes the user record and nothing else. *)
SetDisabled(u, status) ==
    /\ SetStatus(u, status)
    /\ UNCHANGED <<now, tokenVars, accessVars, req>>

MergeUsers(sources, v) ==
    /\ MergeInto(sources, v)
    /\ UNCHANGED <<now, tokenVars, accessVars, req>>

UnmergeUser(u) ==
    /\ Unmerge(u)
    /\ UNCHANGED <<now, tokenVars, accessVars, req>>

(* Mutant of CleanExpiredRevocations: the comparison the wrong way round. *)
MutCleanLiveRevocations ==
    /\ revokedUntil' = [u \in User |-> IF revokedUntil[u] > now THEN 0
                                       ELSE revokedUntil[u]]
    /\ UNCHANGED <<now, userVars, tokenVars, access, voided, req>>

CleanExpiredRevocations ==
    /\ revokedUntil' = [u \in User |-> IF revokedUntil[u] < now THEN 0
                                       ELSE revokedUntil[u]]
    /\ UNCHANGED <<now, userVars, tokenVars, access, voided, req>>

CleanExpiredRefreshTokens ==
    /\ row' = Without({t \in Token : Minted(t) /\ claims[t].exp < now})
    /\ UNCHANGED <<now, userVars, claims, revokedFams, accessVars, req>>

(* An expired access token is of no use to anybody and is forgotten. *)
Tick ==
    /\ now < MaxTime
    /\ now' = now + 1
    /\ access' = {a \in access : now' < a.exp}
    /\ voided' = voided \cap access'
    /\ UNCHANGED <<userVars, tokenVars, revokedUntil, req>>

(* The process dies: what the requests held in memory is gone, the store   *)
(* keeps every transaction that committed.                                 *)
Crash ==
    /\ req' = [p \in Request |-> Idle]
    /\ UNCHANGED <<now, userVars, tokenVars, accessVars>>

----------------------------------------------------------------------------
(* What a request that has been accepted goes on to do. *)
Proceed(p) ==
    \/ IssueTokenPair(p)
    \/ ConsumeRefreshToken(p)
    \/ RevokeReplayedFamily(p)
    \/ ResolveAccount(p)
    \/ CheckAccessRevoked(p)
    \/ IssueSuccessor(p)
    \/ AbandonRotation(p)
    \/ KillAccess(p)
    \/ KillDeleted(p)
    \/ DropDeleted(p)
    \/ LogoutNextFamily(p)

Arrive(p) ==
    \/ \E u \in User, a \in App : Authenticate(p, u, a)
    \/ \E t \in Token, via \in {"native", "oidc"} : Present(p, t, via)
    \/ \E u \in User : RevokeSessions(p, u)
    \/ \E u \in User : DeleteUser(p, u)
    \/ \E u \in User : OIDCLogout(p, u)

Administer ==
    \/ \E u \in User : CreateUser(u)
    \/ \E u \in User : Impersonate(u)
    \/ \E a \in access : LogoutAll(a)
    \/ \E u \in User, status \in {"active", "disabled"} : SetDisabled(u, status)
    \/ \E sources \in SUBSET User, v \in User : MergeUsers(sources, v)
    \/ \E u \in User : UnmergeUser(u)

Prune == CleanExpiredRevocations \/ CleanExpiredRefreshTokens

Running ==
    \/ \E p \in Request : Arrive(p) \/ Proceed(p)
    \/ Administer
    \/ Prune
    \/ Tick

Next == Running \/ Crash

Spec == Init /\ [][Next]_vars

(* While the process lives, the Go scheduler runs every runnable           *)
(* goroutine, so a handler that can take its next step takes one.  Nothing *)
(* else is fair: no client has to come back, no administrator has to act,  *)
(* the clock need not advance.                                             *)
FairSpec == Init /\ [][Running]_vars /\ \A p \in Request : WF_vars(Proceed(p))

----------------------------------------------------------------------------
(* Properties.                                                             *)

(* Every variable has the shape the code gives it. *)
TypeOK ==
    /\ now \in Nat
    /\ AccountsOK
    /\ claims \in [Token -> RefreshClaims \cup {None}]
    /\ row \in [Token -> {"absent", "unused", "used"}]
    /\ access \subseteq AccessToken
    /\ revokedUntil \in [User -> Nat]
    /\ req \in [Request -> RequestState]
    /\ revokedFams \subseteq Family
    /\ voided \subseteq access

(* What a request holds at each stage: the handlers use storedRT, user and *)
(* app after the step that set them.  Only minted tokens have rows.        *)
RequestsOK ==
    \A p \in Request :
        /\ req[p].stage \in Rotating \cup {"presented", "replayed"}
            => req[p].tok \in Token /\ Minted(req[p].tok)
        /\ req[p].stage \in {"resolved", "cleared", "authenticated",
                             "kill", "killDeleted", "dropDeleted", "logout"}
            => req[p].user \in User
        /\ req[p].stage = "authenticated" => req[p].app \in App

RowsMinted == \A t \in Token : Stored(t) => Minted(t)

(* The requests at work on a successor for a token of family f. *)
Rotations(f) == {p \in Request : req[p].stage \in Rotating /\ FamilyOf(req[p].tok) = f}

Redeemable(f) == {t \in TokensOfFamily(f) : row[t] = "unused"}

(* Rotation is single use (ConsumeRefreshToken, "closes the rotation       *)
(* TOCTOU"): whatever requests race on a family, at most one of its tokens *)
(* can still be redeemed.                                                  *)
SingleLiveToken ==
    \A t1, t2 \in Token :
        /\ Minted(t1) /\ row[t1] = "unused"
        /\ Minted(t2) /\ row[t2] = "unused"
        /\ FamilyOf(t1) = FamilyOf(t2)
        => t1 = t2

(* Why it is so: a family has one unused row, or one rotation in flight    *)
(* whose token is already marked, never two rotations and never both.      *)
OneRotationPerFamily ==
    \A p, q \in Request :
        /\ req[p].stage \in Rotating
        /\ req[q].stage \in Rotating
        /\ FamilyOf(req[p].tok) = FamilyOf(req[q].tok)
        => p = q

RotationHoldsFamily ==
    \A p \in Request, t \in Token :
        /\ req[p].stage \in Rotating
        /\ Minted(t) /\ row[t] = "unused"
        => FamilyOf(t) # FamilyOf(req[p].tok)

(* The inductive invariant behind SingleLiveToken and FamilyKeepsApp. *)
RotationInv ==
    /\ TypeOK
    /\ RequestsOK
    /\ RowsMinted
    /\ SingleLiveToken
    /\ OneRotationPerFamily
    /\ RotationHoldsFamily

(* A refreshed session stays bound to the app it was opened for            *)
(* (handleRefresh: "Refresh stays bound to the app the token was issued    *)
(* for"): all tokens of a family carry one app.                            *)
FamilyKeepsApp ==
    \A t1, t2 \in Token :
        Minted(t1) /\ Minted(t2) /\ FamilyOf(t1) = FamilyOf(t2)
        => claims[t1].app = claims[t2].app

(* The abstract session behind a family.  Sessions!Spec is what the whole  *)
(* of this module promises of it: a token is exchanged for one successor   *)
(* at most, and a family that has neither a redeemable token nor a         *)
(* rotation in flight is over for good, whatever ended it (a replay, a     *)
(* logout, a revocation, expiry, a failed refresh, a crash) and whatever   *)
(* is refreshed, merged or re-enabled later.                               *)
Phase(f) ==
    IF Redeemable(f) # {} THEN "live"
    ELSE IF Rotations(f) # {} THEN "rotating"
    ELSE IF TokensOfFamily(f) # {} THEN "over"
    ELSE "none"

Sessions == INSTANCE SessionFamilies WITH phase <- [f \in Family |-> Phase(f)]

ImplementsSessions == Sessions!Spec

(* handleRevokeSessions blacklists a user "until current tokens expire":   *)
(* an access token of an ordinary login or refresh that existed when the   *)
(* kill switch was set is never accepted again, although the entry expires *)
(* and the pruner removes it.                                              *)
RevokedAccessStaysRevoked ==
    \A a \in voided : ~ a.impersonated => ~ Accepted(a)

(* Why it is so: no ordinary token lives longer than AccessTTL from now,   *)
(* and the entry written with a revocation reaches as far as every         *)
(* ordinary token it covered.                                              *)
RevocationInv ==
    /\ \A a \in access : ~ a.impersonated => a.exp <= now + AccessTTL
    /\ \A a \in voided :
        ~ a.impersonated => a.exp <= now \/ a.exp <= revokedUntil[a.user]

(* A replayed token is answered by revoking its family, as long as the     *)
(* process lives: nothing the other requests do can hold that up.          *)
ReplayRevokesFamily ==
    \A f \in Family :
        (\E p \in Request : req[p].stage = "replayed" /\ FamilyOf(req[p].tok) = f)
            ~> f \in revokedFams

(* What docs/ARCHITECTURE.md says of revocation: a revoked family has no   *)
(* token that still works.  A rotation in flight breaks it.                *)
RevokedFamilyIsDead == \A f \in revokedFams : Redeemable(f) = {}

(* What the comment in handleRevokeSessions says, for every access token:  *)
(* those of an impersonation outlive the entry when ImpersonateTTL is the  *)
(* longer one, as it is by default.                                        *)
AllRevokedAccessStaysRevoked == \A a \in voided : ~ Accepted(a)

============================================================================
