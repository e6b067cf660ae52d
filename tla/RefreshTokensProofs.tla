------------------------ MODULE RefreshTokensProofs ------------------------
(* Theorems about RefreshTokens, for every value of its constants. *)
EXTENDS RefreshTokens, TLAPS

----------------------------------------------------------------------------
(* Type correctness.                                                       *)

(* What TypeOK needs to be inductive: the requests hold what their stage   *)
(* says, and only minted tokens have rows.                                 *)
TypeInv == TypeOK /\ RequestsOK /\ RowsMinted

(* The shape of a request that has just been put into a stage. *)
LEMMA IdleIsRequest == Idle \in RequestState
BY DEF Idle, RequestState, Stage, Rotating

(* Every transaction on the rows of refresh tokens only deletes. *)
LEMMA WithoutDeletes ==
    ASSUME TypeOK, NEW doomed
    PROVE  /\ Without(doomed) \in [Token -> {"absent", "unused", "used"}]
           /\ \A t \in Token : Without(doomed)[t] \in {"absent", row[t]}
           /\ \A t \in doomed \cap Token : Without(doomed)[t] = "absent"
BY DEF Without, TypeOK

(* A token saved by SaveRefreshToken was not minted before and is now. *)
LEMMA SaveTypes ==
    ASSUME TypeInv,
           NEW t \in Token, NEW f \in Family, NEW u \in User, NEW a \in App,
           ~ Minted(t), SaveRefreshToken(t, f, u, a)
    PROVE  /\ claims' \in [Token -> RefreshClaims \cup {None}]
           /\ row' \in [Token -> {"absent", "unused", "used"}]
           /\ RowsMinted'
           /\ claims'[t] = [family |-> f, user |-> u, app |-> a, exp |-> now + RefreshTTL]
           /\ \A s \in Token \ {t} : claims'[s] = claims[s] /\ row'[s] = row[s]
           /\ Minted(t)'
           /\ row'[t] = "unused"
           /\ row[t] = "absent"
           /\ revokedFams' = revokedFams
<1>1. /\ now + RefreshTTL \in Nat
      /\ None \notin RefreshClaims
  BY TTLAssumption, NoneAssumption DEF TypeInv, TypeOK, RefreshClaims
<1>2. [family |-> f, user |-> u, app |-> a, exp |-> now + RefreshTTL] \in RefreshClaims
  BY <1>1 DEF RefreshClaims
<1>3. row[t] = "absent"
  BY DEF TypeInv, RowsMinted, Stored
<1>4. /\ claims' = [claims EXCEPT ![t] = [family |-> f, user |-> u, app |-> a,
                                          exp |-> now + RefreshTTL]]
      /\ row' = [row EXCEPT ![t] = "unused"]
      /\ revokedFams' = revokedFams
      /\ claims \in [Token -> RefreshClaims \cup {None}]
      /\ row \in [Token -> {"absent", "unused", "used"}]
      /\ \A s \in Token : row[s] # "absent" => claims[s] # None
  BY DEF SaveRefreshToken, TypeInv, TypeOK, RowsMinted, Stored, Minted
<1> QED
  BY <1>1, <1>2, <1>3, <1>4 DEF RowsMinted, Stored, Minted

(* The access tokens handed out stay access tokens. *)
LEMMA IssueAccessTypes ==
    ASSUME TypeInv, NEW u \in User, NEW ttl \in Nat, NEW imp \in BOOLEAN,
           IssueAccessToken(u, ttl, imp)
    PROVE  /\ access' \subseteq AccessToken
           /\ revokedUntil' \in [User -> Nat]
           /\ voided' \subseteq access'
BY DEF IssueAccessToken, TypeInv, TypeOK, AccessToken

LEMMA RevokeAccessTypes ==
    ASSUME TypeInv, NEW u \in User, RevokeAllUserAccessTokens(u)
    PROVE  /\ access' \subseteq AccessToken
           /\ revokedUntil' \in [User -> Nat]
           /\ voided' \subseteq access'
BY TTLAssumption DEF RevokeAllUserAccessTokens, TypeInv, TypeOK

(* Moving one request, with everything RequestsOK talks of unchanged. *)
LEMMA RequestMove ==
    ASSUME TypeInv, NEW p \in Request, NEW r \in RequestState,
           req' = [req EXCEPT ![p] = r],
           claims' = claims,
           /\ r.stage \in Rotating \cup {"presented", "replayed"}
                => r.tok \in Token /\ Minted(r.tok)
           /\ r.stage \in {"resolved", "cleared", "authenticated",
                           "kill", "killDeleted", "dropDeleted", "logout"}
                => r.user \in User
           /\ r.stage = "authenticated" => r.app \in App
    PROVE  /\ req' \in [Request -> RequestState]
           /\ RequestsOK'
BY DEF TypeInv, TypeOK, RequestsOK, Minted

LEMMA TypeInvInit == Init => TypeInv
BY IdleIsRequest, NoneAssumption
   DEF Init, NoAccounts, TypeInv, TypeOK, AccountsOK, Status, RequestsOK, RowsMinted, Stored, Minted, Idle, Rotating

(* Actions that only move a request. *)
LEMMA TypeInvMoves ==
    ASSUME TypeInv, NEW p \in Request,
           \/ \E u \in User, a \in App : Authenticate(p, u, a)
           \/ \E t \in Token, via \in {"native", "oidc"} : Present(p, t, via)
           \/ ResolveAccount(p)
           \/ CheckAccessRevoked(p)
           \/ AbandonRotation(p)
           \/ \E u \in User : OIDCLogout(p, u)
    PROVE  TypeInv'
<1> USE DEF TypeInv, tokenVars, accessVars, userVars
<1>1. req[p] \in RequestState
  BY DEF TypeOK
<1>2. ASSUME NEW r \in RequestState, req' = [req EXCEPT ![p] = r],
             UNCHANGED <<now, userVars, tokenVars, accessVars>>,
             r.stage \in Rotating \cup {"presented", "replayed"}
                => r.tok \in Token /\ Minted(r.tok),
             r.stage \in {"resolved", "cleared", "authenticated",
                          "kill", "killDeleted", "dropDeleted", "logout"}
                => r.user \in User,
             r.stage = "authenticated" => r.app \in App
      PROVE  TypeInv'
  <2>1. req' \in [Request -> RequestState] /\ RequestsOK'
    BY <1>2, RequestMove
  <2> QED
    BY <1>2, <2>1 DEF TypeOK, AccountsOK, RowsMinted, Stored, Minted
<1>3. ASSUME NEW u \in User, NEW a \in App, Authenticate(p, u, a)
      PROVE  TypeInv'
  <2> DEFINE r == [Idle EXCEPT !.stage = "authenticated", !.user = u, !.app = a]
  <2>1. r \in RequestState /\ r.stage = "authenticated" /\ r.user = u /\ r.app = a
    BY DEF Idle, RequestState, Stage, Rotating
  <2> QED
    BY <1>2, <1>3, <2>1 DEF Authenticate, Rotating
<1>4. ASSUME NEW t \in Token, NEW via \in {"native", "oidc"}, Present(p, t, via)
      PROVE  TypeInv'
  <2> DEFINE r == [Idle EXCEPT !.stage = "presented", !.via = via, !.tok = t]
  <2>1. r \in RequestState /\ r.stage = "presented" /\ r.tok = t
    BY DEF Idle, RequestState, Stage, Rotating
  <2> QED
    BY <1>2, <1>4, <2>1 DEF Present
<1>5. CASE ResolveAccount(p)
  <2>1. PICK u \in User : req' = [req EXCEPT ![p].stage = "resolved", ![p].user = u]
    BY <1>5 DEF ResolveAccount
  <2> DEFINE r == [req[p] EXCEPT !.stage = "resolved", !.user = u]
  <2>2. /\ r \in RequestState /\ r.stage = "resolved" /\ r.user = u
        /\ r.tok = req[p].tok
        /\ req' = [req EXCEPT ![p] = r]
    BY <1>1, <2>1 DEF RequestState, Stage, Rotating, TypeOK
  <2>3. req[p].tok \in Token /\ Minted(req[p].tok)
    BY <1>5 DEF ResolveAccount, RequestsOK, Rotating
  <2> QED
    BY <1>2, <1>5, <2>2, <2>3 DEF ResolveAccount
<1>6. CASE CheckAccessRevoked(p)
  <2> DEFINE r == [req[p] EXCEPT !.stage = "cleared"]
  <2>1. /\ r \in RequestState /\ r.stage = "cleared"
        /\ r.tok = req[p].tok /\ r.user = req[p].user
        /\ req' = [req EXCEPT ![p] = r]
    BY <1>1, <1>6 DEF RequestState, Stage, Rotating, TypeOK, CheckAccessRevoked, Goto
  <2>2. req[p].tok \in Token /\ Minted(req[p].tok) /\ req[p].user \in User
    BY <1>6 DEF CheckAccessRevoked, RequestsOK, Rotating
  <2> QED
    BY <1>2, <1>6, <2>1, <2>2 DEF CheckAccessRevoked
<1>7. CASE AbandonRotation(p)
  BY <1>2, <1>7, IdleIsRequest DEF AbandonRotation, Finish, Idle, Rotating
<1>8. ASSUME NEW u \in User, OIDCLogout(p, u)
      PROVE  TypeInv'
  <2> DEFINE live == {t \in TokensOfUser(u) : row[t] = "unused" /\ claims[t].exp > now}
             r == [Idle EXCEPT !.stage = "logout", !.user = u,
                               !.fams = {FamilyOf(t) : t \in live}]
  <2>1. {FamilyOf(t) : t \in live} \subseteq Family
    BY DEF TypeOK, TokensOfUser, Minted, FamilyOf, RefreshClaims
  <2>2. r \in RequestState /\ r.stage = "logout" /\ r.user = u
    BY <2>1 DEF Idle, RequestState, Stage, Rotating
  <2>3. req' = [req EXCEPT ![p] = r] /\ UNCHANGED <<now, userVars, tokenVars, accessVars>>
    BY <1>8 DEF OIDCLogout
  <2> QED
    BY <1>2, <2>2, <2>3 DEF Rotating
<1> QED
  BY <1>3, <1>4, <1>5, <1>6, <1>7, <1>8

(* Actions that issue tokens. *)
LEMMA TypeInvIssue ==
    ASSUME TypeInv,
           \/ \E p \in Request : IssueTokenPair(p) \/ IssueSuccessor(p)
           \/ \E u \in User : Impersonate(u)
    PROVE  TypeInv'
<1> USE DEF TypeInv, userVars
<1>1. ASSUME NEW p \in Request, NEW t \in Token, NEW f \in Family,
             NEW u \in User, NEW a \in App, ~ Minted(t),
             SaveRefreshToken(t, f, u, a), IssueAccessToken(u, AccessTTL, FALSE),
             Finish(p), UNCHANGED <<now, userVars>>
      PROVE  TypeInv'
  <2>1. /\ claims' \in [Token -> RefreshClaims \cup {None}]
        /\ row' \in [Token -> {"absent", "unused", "used"}]
        /\ RowsMinted'
        /\ Minted(t)'
        /\ \A s \in Token \ {t} : claims'[s] = claims[s]
        /\ revokedFams' = revokedFams
    BY <1>1, SaveTypes
  <2>2. /\ access' \subseteq AccessToken
        /\ revokedUntil' \in [User -> Nat]
        /\ voided' \subseteq access'
    BY <1>1, TTLAssumption, IssueAccessTypes
  <2>3. req' = [req EXCEPT ![p] = Idle] /\ req' \in [Request -> RequestState]
    BY <1>1, IdleIsRequest DEF Finish, TypeOK
  <2>4. RequestsOK'
    BY <2>1, <2>3 DEF RequestsOK, Minted, Idle, TypeOK, Rotating
  <2> QED
    BY <1>1, <2>1, <2>2, <2>3, <2>4 DEF TypeOK, AccountsOK
<1>2. ASSUME NEW p \in Request, IssueTokenPair(p)
      PROVE  TypeInv'
  <2>1. req[p].user \in User /\ req[p].app \in App
    BY <1>2 DEF IssueTokenPair, RequestsOK
  <2> QED
    BY <1>1, <1>2, <2>1 DEF IssueTokenPair
<1>3. ASSUME NEW p \in Request, IssueSuccessor(p)
      PROVE  TypeInv'
  <2>1. /\ req[p].user \in User
        /\ claims[req[p].tok] \in RefreshClaims
    BY <1>3 DEF IssueSuccessor, RequestsOK, Rotating, TypeOK, Minted
  <2> QED
    BY <1>1, <1>3, <2>1 DEF IssueSuccessor, RefreshClaims
<1>4. ASSUME NEW u \in User, Impersonate(u)
      PROVE  TypeInv'
  <2>1. /\ access' \subseteq AccessToken
        /\ revokedUntil' \in [User -> Nat]
        /\ voided' \subseteq access'
    BY <1>4, TTLAssumption, IssueAccessTypes DEF Impersonate
  <2> QED
    BY <1>4, <2>1 DEF Impersonate, TypeOK, AccountsOK, RequestsOK, RowsMinted, Stored, Minted, tokenVars
<1> QED
  BY <1>2, <1>3, <1>4

(* Actions that delete or mark rows. *)
LEMMA TypeInvRows ==
    ASSUME TypeInv,
           \/ \E p \in Request : \/ ConsumeRefreshToken(p)
                                 \/ RevokeReplayedFamily(p)
                                 \/ \E u \in User : RevokeSessions(p, u)
                                 \/ DropDeleted(p)
                                 \/ LogoutNextFamily(p)
           \/ \E a \in access : LogoutAll(a)
           \/ CleanExpiredRefreshTokens
    PROVE  TypeInv'
<1> USE DEF TypeInv, userVars, accessVars
<1>1. ASSUME /\ row' \in [Token -> {"absent", "unused", "used"}]
             /\ \A t \in Token : row'[t] # "absent" => row[t] # "absent"
             /\ revokedFams' \subseteq Family
             /\ UNCHANGED <<now, userVars, claims, accessVars>>
             /\ req' \in [Request -> RequestState]
             /\ RequestsOK'
      PROVE  TypeInv'
  BY <1>1 DEF TypeOK, AccountsOK, RowsMinted, Stored, Minted
<1>2. ASSUME NEW doomed, row' = Without(doomed)
      PROVE  /\ row' \in [Token -> {"absent", "unused", "used"}]
             /\ \A t \in Token : row'[t] # "absent" => row[t] # "absent"
  BY <1>2, WithoutDeletes
<1>3. ASSUME NEW p \in Request, Finish(p), claims' = claims
      PROVE  req' \in [Request -> RequestState] /\ RequestsOK'
  BY <1>3, IdleIsRequest, RequestMove DEF Finish, Idle, Rotating
<1>4. ASSUME NEW p \in Request, ConsumeRefreshToken(p)
      PROVE  TypeInv'
  <2> DEFINE t == req[p].tok
  <2>1. t \in Token /\ Minted(t) /\ req[p] \in RequestState
    BY <1>4 DEF ConsumeRefreshToken, RequestsOK, TypeOK
  <2>2. CASE Finish(p) /\ UNCHANGED row
    BY <1>1, <1>3, <1>4, <2>2 DEF ConsumeRefreshToken, TypeOK
  <2>3. ASSUME NEW s \in {"replayed", "consumed"}, Goto(p, s)
        PROVE  req' \in [Request -> RequestState] /\ RequestsOK'
    <3> DEFINE r == [req[p] EXCEPT !.stage = s]
    <3>1. r \in RequestState /\ r.stage = s /\ r.tok = t
      BY <2>1 DEF RequestState, Stage, Rotating
    <3>2. req' = [req EXCEPT ![p] = r] /\ claims' = claims
      BY <2>3, <1>4 DEF Goto, TypeOK, ConsumeRefreshToken
    <3> QED
      BY <2>1, <2>3, <3>1, <3>2, RequestMove DEF Rotating
  <2>4. CASE Goto(p, "replayed") /\ UNCHANGED row
    BY <1>1, <1>4, <2>3, <2>4 DEF ConsumeRefreshToken, TypeOK
  <2>5. CASE /\ row[t] = "unused" /\ Goto(p, "consumed")
             /\ row' = [row EXCEPT ![t] = "used"]
    <3>1. /\ row' \in [Token -> {"absent", "unused", "used"}]
          /\ \A s \in Token : row'[s] # "absent" => row[s] # "absent"
      BY <2>1, <2>5 DEF TypeOK
    <3> QED
      BY <1>1, <1>4, <2>3, <2>5, <3>1 DEF ConsumeRefreshToken, TypeOK
  <2> QED
    BY <1>4, <2>2, <2>4, <2>5 DEF ConsumeRefreshToken
<1>5. ASSUME NEW p \in Request, RevokeReplayedFamily(p)
      PROVE  TypeInv'
  <2>1. FamilyOf(req[p].tok) \in Family
    BY <1>5 DEF RevokeReplayedFamily, RequestsOK, Minted, TypeOK, RefreshClaims, FamilyOf
  <2> QED
    BY <1>1, <1>2, <1>3, <1>5, <2>1 DEF RevokeReplayedFamily, RevokeTokenFamily, TypeOK
<1>6. ASSUME NEW p \in Request, NEW u \in User, RevokeSessions(p, u)
      PROVE  TypeInv'
  <2> DEFINE r == [Idle EXCEPT !.stage = "kill", !.user = u]
  <2>1. r \in RequestState /\ r.stage = "kill" /\ r.user = u
    BY DEF Idle, RequestState, Stage, Rotating
  <2>2. req' \in [Request -> RequestState] /\ RequestsOK'
    BY <1>6, <2>1, RequestMove DEF RevokeSessions, RevokeUserTokens, Rotating
  <2> QED
    BY <1>1, <1>2, <1>6, <2>2 DEF RevokeSessions, RevokeUserTokens, TypeOK
<1>7. ASSUME NEW p \in Request, DropDeleted(p)
      PROVE  TypeInv'
  BY <1>1, <1>2, <1>3, <1>7 DEF DropDeleted, RevokeUserTokens, TypeOK
<1>8. ASSUME NEW p \in Request, LogoutNextFamily(p)
      PROVE  TypeInv'
  <2>1. PICK f \in req[p].fams :
            /\ RevokeTokenFamily(f)
            /\ IF req[p].fams = {f} THEN Finish(p)
               ELSE req' = [req EXCEPT ![p].fams = @ \ {f}]
    BY <1>8 DEF LogoutNextFamily
  <2>2. req[p] \in RequestState /\ f \in Family /\ req[p].user \in User
    BY <1>8, <2>1 DEF LogoutNextFamily, TypeOK, RequestsOK, RequestState
  <2>3. req' \in [Request -> RequestState] /\ RequestsOK'
    <3>1. CASE req[p].fams = {f}
      BY <1>3, <2>1, <3>1 DEF RevokeTokenFamily
    <3>2. CASE req[p].fams # {f}
      <4> DEFINE r == [req[p] EXCEPT !.fams = @ \ {f}]
      <4>1. r \in RequestState /\ r.stage = "logout" /\ r.user = req[p].user
        BY <1>8, <2>2 DEF RequestState, LogoutNextFamily
      <4>2. req' = [req EXCEPT ![p] = r]
        BY <2>1, <3>2 DEF TypeOK
      <4> QED
        BY <2>1, <2>2, <4>1, <4>2, RequestMove DEF RevokeTokenFamily, Rotating
    <3> QED
      BY <3>1, <3>2
  <2> QED
    BY <1>1, <1>2, <1>8, <2>1, <2>2, <2>3 DEF LogoutNextFamily, RevokeTokenFamily, TypeOK
<1>9. ASSUME NEW a \in access, LogoutAll(a)
      PROVE  TypeInv'
  BY <1>1, <1>2, <1>9 DEF LogoutAll, RevokeUserTokens, TypeOK, RequestsOK, Minted
<1>10. ASSUME CleanExpiredRefreshTokens
       PROVE  TypeInv'
  BY <1>1, <1>2, <1>10 DEF CleanExpiredRefreshTokens, TypeOK, RequestsOK, Minted
<1> QED
  BY <1>4, <1>5, <1>6, <1>7, <1>8, <1>9, <1>10

(* Actions on accounts, access revocations, the clock and the process. *)
LEMMA TypeInvOthers ==
    ASSUME TypeInv,
           \/ \E p \in Request : \/ KillAccess(p)
                                 \/ KillDeleted(p)
                                 \/ \E u \in User : DeleteUser(p, u)
           \/ \E u \in User : CreateUser(u)
           \/ \E u \in User, status \in {"active", "disabled"} : SetDisabled(u, status)
           \/ \E sources \in SUBSET User, v \in User : MergeUsers(sources, v)
           \/ \E u \in User : UnmergeUser(u)
           \/ CleanExpiredRevocations
           \/ Tick
           \/ Crash
    PROVE  TypeInv'
<1> USE DEF TypeInv
<1>1. ASSUME NEW p \in Request, KillAccess(p)
      PROVE  TypeInv'
  <2>1. req[p].user \in User
    BY <1>1 DEF KillAccess, RequestsOK
  <2>2. /\ access' \subseteq AccessToken
        /\ revokedUntil' \in [User -> Nat]
        /\ voided' \subseteq access'
    BY <1>1, <2>1, RevokeAccessTypes DEF KillAccess
  <2>3. req' \in [Request -> RequestState] /\ RequestsOK'
    BY <1>1, IdleIsRequest, RequestMove DEF KillAccess, Finish, Idle, Rotating, tokenVars
  <2> QED
    BY <1>1, <2>2, <2>3
       DEF KillAccess, TypeOK, AccountsOK, RowsMinted, Stored, Minted, userVars, tokenVars
<1>2. ASSUME NEW p \in Request, KillDeleted(p)
      PROVE  TypeInv'
  <2>1. req[p].user \in User /\ req[p] \in RequestState
    BY <1>2 DEF KillDeleted, RequestsOK, TypeOK
  <2>2. /\ access' \subseteq AccessToken
        /\ revokedUntil' \in [User -> Nat]
        /\ voided' \subseteq access'
    BY <1>2, <2>1, RevokeAccessTypes DEF KillDeleted
  <2> DEFINE r == [req[p] EXCEPT !.stage = "dropDeleted"]
  <2>3. r \in RequestState /\ r.stage = "dropDeleted" /\ r.user = req[p].user
    BY <2>1 DEF RequestState, Stage, Rotating
  <2>4. req' = [req EXCEPT ![p] = r]
    BY <1>2 DEF KillDeleted, Goto, TypeOK
  <2>5. req' \in [Request -> RequestState] /\ RequestsOK'
    BY <1>2, <2>1, <2>3, <2>4, RequestMove DEF KillDeleted, Rotating, tokenVars
  <2> QED
    BY <1>2, <2>2, <2>5
       DEF KillDeleted, TypeOK, AccountsOK, RowsMinted, Stored, Minted, userVars, tokenVars
<1>3. ASSUME NEW p \in Request, NEW u \in User, DeleteUser(p, u)
      PROVE  TypeInv'
  <2> DEFINE r == [Idle EXCEPT !.stage = "killDeleted", !.user = u]
  <2>1. r \in RequestState /\ r.stage = "killDeleted" /\ r.user = u
    BY DEF Idle, RequestState, Stage, Rotating
  <2>2. req' \in [Request -> RequestState] /\ RequestsOK'
    BY <1>3, <2>1, RequestMove DEF DeleteUser, tokenVars, Rotating
  <2> QED
    BY <1>3, <2>2
       DEF DeleteUser, DropUser, AccountsOK, Status, TypeOK, RowsMinted, Stored, Minted, tokenVars, accessVars
<1>4. ASSUME NEW u \in User, NEW status \in {"active", "disabled"}, SetDisabled(u, status)
      PROVE  TypeInv'
  BY <1>4 DEF SetDisabled, SetStatus, AccountsOK, Status, TypeOK, RequestsOK, RowsMinted, Stored, Minted, tokenVars, accessVars
<1>5. ASSUME NEW sources \in SUBSET User, NEW v \in User, MergeUsers(sources, v)
      PROVE  TypeInv'
  BY <1>5 DEF MergeUsers, MergeInto, AccountsOK, Status, TypeOK, RequestsOK, RowsMinted, Stored, Minted, tokenVars, accessVars
<1>6. ASSUME NEW u \in User, UnmergeUser(u)
      PROVE  TypeInv'
  BY <1>6 DEF UnmergeUser, Unmerge, AccountsOK, Status, TypeOK, RequestsOK, RowsMinted, Stored, Minted, tokenVars, accessVars
<1>7. CASE CleanExpiredRevocations
  BY <1>7 DEF CleanExpiredRevocations, TypeOK, AccountsOK, RequestsOK, RowsMinted, Stored, Minted,
              tokenVars, userVars
<1>8. CASE Tick
  BY <1>8 DEF Tick, TypeOK, AccountsOK, RequestsOK, RowsMinted, Stored, Minted, tokenVars, userVars
<1>9. CASE Crash
  BY <1>9, IdleIsRequest
     DEF Crash, TypeOK, AccountsOK, RequestsOK, RowsMinted, Stored, Minted, tokenVars, userVars,
         accessVars, Idle, Rotating
<1>10. ASSUME NEW u \in User, CreateUser(u)
       PROVE  TypeInv'
  BY <1>10 DEF CreateUser, PutUser, AccountsOK, Status, TypeOK, RequestsOK, RowsMinted, Stored, Minted, tokenVars, accessVars
<1> QED
  BY <1>1, <1>2, <1>3, <1>4, <1>5, <1>6, <1>7, <1>8, <1>9, <1>10

LEMMA TypeInvStep == TypeInv /\ [Next]_vars => TypeInv'
<1> SUFFICES ASSUME TypeInv, [Next]_vars PROVE TypeInv'
  OBVIOUS
<1>1. CASE UNCHANGED vars
  BY <1>1 DEF vars, TypeInv, TypeOK, AccountsOK, RequestsOK, RowsMinted, Stored, Minted,
              userVars, tokenVars, accessVars
<1>2. CASE Next
  BY <1>2, TypeInvMoves, TypeInvIssue, TypeInvRows, TypeInvOthers
     DEF Next, Running, Arrive, Proceed, Administer, Prune
<1> QED
  BY <1>1, <1>2

(* Whatever requests, administrators and crashes do, every variable keeps  *)
(* the shape the code gives it, requests hold what their next step reads,  *)
(* and a row exists only for a token that was signed.                      *)
THEOREM TypeCorrect == Spec => []TypeInv
<1>1. TypeInv /\ [Next]_vars => TypeInv'
  BY TypeInvStep
<1> QED
  BY TypeInvInit, <1>1, PTL DEF Spec

(* Of these the shapes alone, which is what the runs look at (the structs  *)
(* of auth.go and oidc.go, the rows of bolt.go).                           *)
THEOREM VariableShapes == Spec => []TypeOK
<1>1. TypeInv => TypeOK
  BY DEF TypeInv
<1> QED
  BY <1>1, TypeCorrect, PTL

----------------------------------------------------------------------------
(* Rotation is single use.                                                 *)

(* The part of RotationInv that is about races. *)
NoRace == SingleLiveToken /\ OneRotationPerFamily /\ RotationHoldsFamily

(* A step that revives no row and starts no rotation keeps it. *)
LEMMA NoRaceShrinks ==
    ASSUME NoRace,
           claims' = claims,
           \A t \in Token : row'[t] = "unused" => row[t] = "unused",
           \A p \in Request : req'[p].stage \in Rotating =>
                req[p].stage \in Rotating /\ req'[p].tok = req[p].tok
    PROVE  NoRace'
BY DEF NoRace, SingleLiveToken, OneRotationPerFamily, RotationHoldsFamily, Minted, FamilyOf

(* The mark and the stage change together: the unused row becomes the      *)
(* rotation in flight.                                                     *)
LEMMA NoRaceConsume ==
    ASSUME TypeInv, NoRace, NEW p \in Request, ConsumeRefreshToken(p)
    PROVE  NoRace'
<1> USE DEF TypeInv
<1> DEFINE t == req[p].tok
<1>1. /\ t \in Token /\ Minted(t)
      /\ claims' = claims
      /\ req[p].stage \notin Rotating
  BY DEF ConsumeRefreshToken, RequestsOK, Rotating
<1>2. CASE Finish(p) /\ UNCHANGED row
  BY <1>1, <1>2, NoRaceShrinks DEF Finish, Idle, Rotating, TypeOK
<1>3. CASE Goto(p, "replayed") /\ UNCHANGED row
  <2>1. \A q \in Request : req'[q].stage \in Rotating =>
            req[q].stage \in Rotating /\ req'[q].tok = req[q].tok
    BY <1>3 DEF Goto, Rotating, TypeOK, RequestState
  <2> QED
    BY <1>1, <1>3, <2>1, NoRaceShrinks
<1>4. CASE /\ row[t] = "unused" /\ Goto(p, "consumed")
           /\ row' = [row EXCEPT ![t] = "used"]
  <2>1. \A s \in Token : row'[s] = "unused" => s # t /\ row[s] = "unused"
    BY <1>1, <1>4 DEF TypeOK
  <2>2. /\ req'[p].stage = "consumed" /\ req'[p].tok = t
        /\ \A q \in Request \ {p} : req'[q] = req[q]
    BY <1>4 DEF Goto, TypeOK, RequestState
  <2>3. SingleLiveToken'
    BY <1>1, <2>1 DEF NoRace, SingleLiveToken, Minted, FamilyOf
  <2>4. \A q \in Request : req[q].stage \in Rotating => FamilyOf(req[q].tok) # FamilyOf(t)
    BY <1>1, <1>4 DEF NoRace, RotationHoldsFamily
  <2>5. OneRotationPerFamily'
    BY <1>1, <2>2, <2>4 DEF NoRace, OneRotationPerFamily, FamilyOf
  <2>6. \A s \in Token : Minted(s) /\ row'[s] = "unused" => FamilyOf(s) # FamilyOf(t)
    BY <1>1, <1>4, <2>1 DEF NoRace, SingleLiveToken
  <2>7. RotationHoldsFamily'
    BY <1>1, <2>1, <2>2, <2>6 DEF NoRace, RotationHoldsFamily, FamilyOf, Minted
  <2> QED
    BY <2>3, <2>5, <2>7 DEF NoRace
<1> QED
  BY <1>2, <1>3, <1>4 DEF ConsumeRefreshToken

(* A saved token is alone in its family: the family is new, or its only    *)
(* rotation is the one that ends with the save.                            *)
LEMMA NoRaceSave ==
    ASSUME TypeInv, NoRace,
           NEW p \in Request, NEW t \in Token, NEW f \in Family,
           NEW u \in User, NEW a \in App,
           ~ Minted(t), SaveRefreshToken(t, f, u, a), Finish(p),
           \A s \in Token : Minted(s) /\ row[s] = "unused" => FamilyOf(s) # f,
           \A q \in Request \ {p} : req[q].stage \in Rotating => FamilyOf(req[q].tok) # f
    PROVE  NoRace'
<1> USE DEF TypeInv
<1>1. /\ claims'[t] = [family |-> f, user |-> u, app |-> a, exp |-> now + RefreshTTL]
      /\ \A s \in Token \ {t} : claims'[s] = claims[s] /\ row'[s] = row[s]
      /\ claims'[t] # None
  BY SaveTypes DEF Minted
<1>2. claims'[t].family = f
  BY <1>1
<1>3. /\ req'[p].stage = "idle"
      /\ \A q \in Request \ {p} : req'[q] = req[q]
  BY DEF Finish, Idle, TypeOK
<1>4. \A q \in Request : req'[q].stage \in Rotating =>
            /\ q # p
            /\ req[q].stage \in Rotating
            /\ req'[q].tok = req[q].tok
            /\ claims'[req[q].tok].family = claims[req[q].tok].family
  BY <1>1, <1>3 DEF RequestsOK, Rotating, Minted
<1>5. SingleLiveToken'
  BY <1>1, <1>2 DEF NoRace, SingleLiveToken, FamilyOf, Minted
<1>6. OneRotationPerFamily'
  BY <1>4 DEF NoRace, OneRotationPerFamily, FamilyOf
<1>7. RotationHoldsFamily'
  BY <1>1, <1>2, <1>4 DEF NoRace, RotationHoldsFamily, FamilyOf, Minted
<1> QED
  BY <1>5, <1>6, <1>7 DEF NoRace

LEMMA NoRaceIssue ==
    ASSUME TypeInv, NoRace, NEW p \in Request, IssueTokenPair(p) \/ IssueSuccessor(p)
    PROVE  NoRace'
<1> USE DEF TypeInv
<1>1. CASE IssueTokenPair(p)
  <2>1. PICK t \in Token, f \in Family :
            /\ ~ Minted(t)
            /\ TokensOfFamily(f) = {}
            /\ SaveRefreshToken(t, f, req[p].user, req[p].app)
    BY <1>1 DEF IssueTokenPair
  <2>2. req[p].user \in User /\ req[p].app \in App
    BY <1>1 DEF IssueTokenPair, RequestsOK
  <2>3. \A s \in Token : Minted(s) => FamilyOf(s) # f
    BY <2>1 DEF TokensOfFamily
  <2>4. \A q \in Request : req[q].stage \in Rotating => FamilyOf(req[q].tok) # f
    BY <2>3 DEF RequestsOK
  <2> QED
    BY <1>1, <2>1, <2>2, <2>3, <2>4, NoRaceSave DEF IssueTokenPair
<1>2. CASE IssueSuccessor(p)
  <2> DEFINE c == claims[req[p].tok]
  <2>1. PICK t \in Token : ~ Minted(t) /\ SaveRefreshToken(t, c.family, req[p].user, c.app)
    BY <1>2 DEF IssueSuccessor
  <2>2. /\ req[p].stage \in Rotating
        /\ req[p].user \in User
        /\ c.family \in Family /\ c.app \in App
        /\ c.family = FamilyOf(req[p].tok)
    BY <1>2 DEF IssueSuccessor, RequestsOK, Rotating, TypeOK, Minted, RefreshClaims, FamilyOf
  <2>3. \A s \in Token : Minted(s) /\ row[s] = "unused" => FamilyOf(s) # c.family
    BY <2>2 DEF NoRace, RotationHoldsFamily
  <2>4. \A q \in Request \ {p} : req[q].stage \in Rotating => FamilyOf(req[q].tok) # c.family
    BY <2>2 DEF NoRace, OneRotationPerFamily
  <2> QED
    BY <1>2, <2>1, <2>2, <2>3, <2>4, NoRaceSave DEF IssueSuccessor
<1> QED
  BY <1>1, <1>2


(* A step that issues no token, revives no row and starts no rotation. *)
Quiet ==
    /\ claims' = claims
    /\ \A t \in Token : row'[t] = "unused" => row[t] = "unused"
    /\ \A p \in Request : req'[p].stage \in Rotating =>
            req[p].stage \in Rotating /\ req'[p].tok = req[p].tok

(* Quiet when the request that moves leaves no rotation behind. *)
LEMMA QuietMove ==
    ASSUME TypeInv, NEW p \in Request, NEW r,
           req' = [req EXCEPT ![p] = r],
           r.stage \in Rotating => req[p].stage \in Rotating /\ r.tok = req[p].tok,
           claims' = claims,
           \/ row' = row
           \/ \E doomed : row' = Without(doomed)
    PROVE  Quiet
<1>1. \A t \in Token : row'[t] = "unused" => row[t] = "unused"
  BY DEF Without
<1>2. \A q \in Request : q # p => req'[q] = req[q]
  BY DEF TypeInv, TypeOK
<1>3. req'[p] = r
  BY DEF TypeInv, TypeOK
<1> QED
  BY <1>1, <1>2, <1>3 DEF Quiet

(* Quiet when no request moves. *)
LEMMA QuietStay ==
    ASSUME req' = req,
           claims' = claims,
           \/ row' = row
           \/ \E doomed : row' = Without(doomed)
    PROVE  Quiet
BY DEF Quiet, Without

(* Every action but the three that rotate or issue is quiet. *)
LEMMA QuietProceed ==
    ASSUME TypeInv, NEW p \in Request,
           \/ RevokeReplayedFamily(p)
           \/ ResolveAccount(p)
           \/ CheckAccessRevoked(p)
           \/ AbandonRotation(p)
           \/ KillAccess(p)
           \/ KillDeleted(p)
           \/ DropDeleted(p)
           \/ LogoutNextFamily(p)
    PROVE  Quiet
<1> USE DEF tokenVars
<1>1. req \in [Request -> RequestState]
  BY DEF TypeInv, TypeOK
<1>2. Idle.stage \notin Rotating
  BY DEF Idle, Rotating
<1>3. CASE RevokeReplayedFamily(p)
  BY <1>2, <1>3, QuietMove DEF RevokeReplayedFamily, RevokeTokenFamily, Finish
<1>4. CASE ResolveAccount(p)
  <2>1. PICK u \in User : req' = [req EXCEPT ![p].stage = "resolved", ![p].user = u]
    BY <1>4 DEF ResolveAccount
  <2> DEFINE r == [req[p] EXCEPT !.stage = "resolved", !.user = u]
  <2>2. r.tok = req[p].tok /\ req' = [req EXCEPT ![p] = r]
    BY <1>1, <2>1 DEF RequestState
  <2> QED
    BY <1>4, <2>2, QuietMove DEF ResolveAccount, Rotating
<1>5. CASE CheckAccessRevoked(p)
  <2> DEFINE r == [req[p] EXCEPT !.stage = "cleared"]
  <2>1. r.tok = req[p].tok /\ req' = [req EXCEPT ![p] = r]
    BY <1>1, <1>5 DEF RequestState, CheckAccessRevoked, Goto
  <2> QED
    BY <1>5, <2>1, QuietMove DEF CheckAccessRevoked, Rotating
<1>6. CASE AbandonRotation(p)
  BY <1>2, <1>6, QuietMove DEF AbandonRotation, Finish
<1>7. CASE KillAccess(p)
  BY <1>2, <1>7, QuietMove DEF KillAccess, Finish
<1>8. CASE KillDeleted(p)
  <2> DEFINE r == [req[p] EXCEPT !.stage = "dropDeleted"]
  <2>1. r.stage = "dropDeleted" /\ req' = [req EXCEPT ![p] = r]
    BY <1>1, <1>8 DEF RequestState, KillDeleted, Goto
  <2> QED
    BY <1>8, <2>1, QuietMove DEF KillDeleted, Rotating
<1>9. CASE DropDeleted(p)
  BY <1>2, <1>9, QuietMove DEF DropDeleted, RevokeUserTokens, Finish
<1>10. CASE LogoutNextFamily(p)
  <2>1. PICK f \in req[p].fams :
            /\ RevokeTokenFamily(f)
            /\ IF req[p].fams = {f} THEN Finish(p)
               ELSE req' = [req EXCEPT ![p].fams = @ \ {f}]
    BY <1>10 DEF LogoutNextFamily
  <2>2. CASE req[p].fams = {f}
    BY <1>2, <2>1, <2>2, QuietMove DEF RevokeTokenFamily, Finish
  <2>3. CASE req[p].fams # {f}
    <3> DEFINE r == [req[p] EXCEPT !.fams = @ \ {f}]
    <3>1. r.stage = "logout" /\ req' = [req EXCEPT ![p] = r]
      BY <1>1, <1>10, <2>1, <2>3 DEF RequestState, LogoutNextFamily
    <3> QED
      BY <2>1, <3>1, QuietMove DEF RevokeTokenFamily, Rotating
  <2> QED
    BY <2>2, <2>3
<1> QED
  BY <1>3, <1>4, <1>5, <1>6, <1>7, <1>8, <1>9, <1>10

LEMMA QuietArrive ==
    ASSUME TypeInv, NEW p \in Request, Arrive(p)
    PROVE  Quiet
<1> USE DEF tokenVars, Idle, Rotating
<1>1. ASSUME NEW u \in User, NEW a \in App, Authenticate(p, u, a)
      PROVE  Quiet
  BY <1>1, QuietMove DEF Authenticate
<1>2. ASSUME NEW t \in Token, NEW via \in {"native", "oidc"}, Present(p, t, via)
      PROVE  Quiet
  BY <1>2, QuietMove DEF Present
<1>3. ASSUME NEW u \in User, RevokeSessions(p, u)
      PROVE  Quiet
  BY <1>3, QuietMove DEF RevokeSessions, RevokeUserTokens
<1>4. ASSUME NEW u \in User, DeleteUser(p, u)
      PROVE  Quiet
  BY <1>4, QuietMove DEF DeleteUser
<1>5. ASSUME NEW u \in User, OIDCLogout(p, u)
      PROVE  Quiet
  BY <1>5, QuietMove DEF OIDCLogout
<1> QED
  BY <1>1, <1>2, <1>3, <1>4, <1>5 DEF Arrive

LEMMA QuietRest ==
    ASSUME TypeInv,
           Administer \/ Prune \/ Tick \/ Crash \/ UNCHANGED vars
    PROVE  Quiet
<1> USE DEF tokenVars
<1>1. CASE Administer
  BY <1>1, QuietStay
     DEF Administer, CreateUser, Impersonate, LogoutAll, SetDisabled, MergeUsers, UnmergeUser,
         RevokeUserTokens
<1>2. CASE Prune
  BY <1>2, QuietStay DEF Prune, CleanExpiredRevocations, CleanExpiredRefreshTokens
<1>3. CASE Tick
  BY <1>3, QuietStay DEF Tick
<1>4. CASE Crash
  BY <1>4 DEF Crash, Quiet, Idle, Rotating
<1>5. CASE UNCHANGED vars
  BY <1>5, QuietStay DEF vars
<1> QED
  BY <1>1, <1>2, <1>3, <1>4, <1>5

LEMMA QuietOrRotates ==
    ASSUME TypeInv, [Next]_vars
    PROVE  \/ Quiet
           \/ \E p \in Request : \/ ConsumeRefreshToken(p)
                                 \/ IssueTokenPair(p)
                                 \/ IssueSuccessor(p)
BY QuietProceed, QuietArrive, QuietRest DEF Next, Running, Proceed

LEMMA NoRaceStep == TypeInv /\ NoRace /\ [Next]_vars => NoRace'
<1> SUFFICES ASSUME TypeInv, NoRace, [Next]_vars PROVE NoRace'
  OBVIOUS
<1>1. CASE Quiet
  BY <1>1, NoRaceShrinks DEF Quiet
<1> QED
  BY <1>1, QuietOrRotates, NoRaceConsume, NoRaceIssue

LEMMA NoRaceInit == Init => NoRace
BY DEF Init, NoRace, SingleLiveToken, OneRotationPerFamily, RotationHoldsFamily,
       Idle, Rotating

(* RotationInv is inductive: the unused row and the rotation in flight     *)
(* hold a family by turns, so every state of a rotation has one holder.    *)
THEOREM OneHolder == Spec => []RotationInv
<1>1. Init => TypeInv /\ NoRace
  BY TypeInvInit, NoRaceInit
<1>2. TypeInv /\ NoRace /\ [Next]_vars => (TypeInv /\ NoRace)'
  BY TypeInvStep, NoRaceStep
<1>3. TypeInv /\ NoRace => RotationInv
  BY DEF TypeInv, NoRace, RotationInv
<1> QED
  BY <1>1, <1>2, <1>3, PTL DEF Spec

(* Rotation is single use: however logins, rotations, revocations, merges  *)
(* and crashes interleave, at most one token of a family can be redeemed.  *)
THEOREM SingleUse == Spec => []SingleLiveToken
<1>1. RotationInv => SingleLiveToken
  BY DEF RotationInv
<1> QED
  BY <1>1, OneHolder, PTL

----------------------------------------------------------------------------
(* A session keeps its app.                                                *)

LEMMA FamilyAppStep == TypeInv /\ FamilyKeepsApp /\ [Next]_vars => FamilyKeepsApp'
<1> SUFFICES ASSUME TypeInv, FamilyKeepsApp, [Next]_vars PROVE FamilyKeepsApp'
  OBVIOUS
<1>1. ASSUME claims' = claims PROVE FamilyKeepsApp'
  BY <1>1 DEF FamilyKeepsApp, FamilyOf, Minted
<1>2. CASE Quiet
  BY <1>1, <1>2 DEF Quiet
<1>3. ASSUME NEW t \in Token, NEW f \in Family, NEW u \in User, NEW a \in App,
             ~ Minted(t), SaveRefreshToken(t, f, u, a),
             \A s \in Token : Minted(s) /\ FamilyOf(s) = f => claims[s].app = a
      PROVE  FamilyKeepsApp'
  <2>1. /\ claims'[t] = [family |-> f, user |-> u, app |-> a, exp |-> now + RefreshTTL]
        /\ \A s \in Token \ {t} : claims'[s] = claims[s]
    BY <1>3, SaveTypes
  <2>2. claims'[t].family = f /\ claims'[t].app = a
    BY <2>1
  <2> QED
    BY <1>3, <2>1, <2>2 DEF FamilyKeepsApp, FamilyOf, Minted
<1>4. ASSUME NEW p \in Request, ConsumeRefreshToken(p) PROVE FamilyKeepsApp'
  BY <1>1, <1>4 DEF ConsumeRefreshToken
<1>5. ASSUME NEW p \in Request, IssueTokenPair(p) PROVE FamilyKeepsApp'
  <2>1. req[p].user \in User /\ req[p].app \in App
    BY <1>5 DEF IssueTokenPair, TypeInv, RequestsOK
  <2> QED
    BY <1>3, <1>5, <2>1 DEF IssueTokenPair, TokensOfFamily
<1>6. ASSUME NEW p \in Request, IssueSuccessor(p) PROVE FamilyKeepsApp'
  <2> DEFINE s == req[p].tok
  <2>1. /\ s \in Token /\ Minted(s)
        /\ req[p].user \in User
        /\ claims[s].family \in Family /\ claims[s].app \in App
    BY <1>6 DEF IssueSuccessor, TypeInv, RequestsOK, Rotating, TypeOK, Minted, RefreshClaims
  <2>2. \A x \in Token : Minted(x) /\ FamilyOf(x) = claims[s].family
            => claims[x].app = claims[s].app
    BY <2>1 DEF FamilyKeepsApp, FamilyOf
  <2> QED
    BY <1>3, <1>6, <2>1, <2>2 DEF IssueSuccessor
<1> QED
  BY <1>2, <1>4, <1>5, <1>6, QuietOrRotates

(* A session opened for an app is refreshed for that app only: neither a   *)
(* merge of its user nor any number of refreshes moves it to another.      *)
THEOREM FamilyApp == Spec => []FamilyKeepsApp
<1>1. Init => TypeInv /\ FamilyKeepsApp
  BY TypeInvInit DEF Init, FamilyKeepsApp, Minted
<1>2. TypeInv /\ FamilyKeepsApp /\ [Next]_vars => (TypeInv /\ FamilyKeepsApp)'
  BY TypeInvStep, FamilyAppStep
<1> QED
  BY <1>1, <1>2, PTL DEF Spec

----------------------------------------------------------------------------
(* A revoked access token stays revoked.                                   *)

(* The steps that touch neither access tokens nor their revocations. *)
LEMMA RevocationStutter ==
    ASSUME RevocationInv, now' = now, UNCHANGED accessVars
    PROVE  RevocationInv'
BY DEF RevocationInv, accessVars

LEMMA RevocationStep == TypeInv /\ RevocationInv /\ [Next]_vars => RevocationInv'
<1> SUFFICES ASSUME TypeInv, RevocationInv, [Next]_vars PROVE RevocationInv'
  OBVIOUS
<1> USE DEF TypeInv
<1>1. /\ now \in Nat /\ AccessTTL \in Nat
      /\ access \subseteq AccessToken /\ voided \subseteq access
      /\ revokedUntil \in [User -> Nat]
  BY TTLAssumption DEF TypeOK
<1>2. ASSUME NEW u \in User, NEW ttl \in Nat, NEW imp \in BOOLEAN, now' = now,
             IssueAccessToken(u, ttl, imp), imp \/ ttl = AccessTTL
      PROVE  RevocationInv'
  BY <1>1, <1>2 DEF IssueAccessToken, RevocationInv
<1>3. ASSUME NEW u \in User, now' = now, RevokeAllUserAccessTokens(u)
      PROVE  RevocationInv'
  BY <1>1, <1>3 DEF RevokeAllUserAccessTokens, RevocationInv, AccessToken
<1>4. ASSUME NEW p \in Request, Proceed(p)
      PROVE  RevocationInv'
  <2>1. CASE IssueTokenPair(p)
    BY <1>1, <1>2, <2>1 DEF IssueTokenPair, RequestsOK
  <2>2. CASE IssueSuccessor(p)
    BY <1>1, <1>2, <2>2 DEF IssueSuccessor, RequestsOK
  <2>3. CASE KillAccess(p)
    BY <1>3, <2>3 DEF KillAccess, RequestsOK
  <2>4. CASE KillDeleted(p)
    BY <1>3, <2>4 DEF KillDeleted, RequestsOK
  <2>5. CASE \/ ConsumeRefreshToken(p) \/ RevokeReplayedFamily(p) \/ ResolveAccount(p)
             \/ CheckAccessRevoked(p) \/ AbandonRotation(p) \/ DropDeleted(p)
             \/ LogoutNextFamily(p)
    BY <2>5, RevocationStutter
       DEF ConsumeRefreshToken, RevokeReplayedFamily, ResolveAccount, CheckAccessRevoked,
           AbandonRotation, DropDeleted, LogoutNextFamily
  <2> QED
    BY <1>4, <2>1, <2>2, <2>3, <2>4, <2>5 DEF Proceed
<1>5. ASSUME NEW p \in Request, Arrive(p)
      PROVE  RevocationInv'
  BY <1>5, RevocationStutter
     DEF Arrive, Authenticate, Present, RevokeSessions, DeleteUser, OIDCLogout
<1>6. CASE Administer
  <2>1. ASSUME NEW u \in User, Impersonate(u) PROVE RevocationInv'
    BY <1>2, <2>1, TTLAssumption DEF Impersonate
  <2> QED
    BY <1>6, <2>1, RevocationStutter
       DEF Administer, CreateUser, LogoutAll, SetDisabled, MergeUsers, UnmergeUser
<1>7. CASE CleanExpiredRevocations
  BY <1>1, <1>7 DEF CleanExpiredRevocations, RevocationInv, AccessToken
<1>8. CASE CleanExpiredRefreshTokens
  BY <1>8, RevocationStutter DEF CleanExpiredRefreshTokens
<1>9. CASE Tick
  BY <1>1, <1>9 DEF Tick, RevocationInv, AccessToken
<1>10. CASE Crash \/ UNCHANGED vars
  BY <1>10, RevocationStutter DEF Crash, vars, accessVars
<1> QED
  BY <1>4, <1>5, <1>6, <1>7, <1>8, <1>9, <1>10 DEF Next, Running, Prune

(* The kill switch lasts: an ordinary access token that a completed        *)
(* revocation covered is never accepted again, whenever the pruner runs.   *)
THEOREM RevokedAccess == Spec => []RevokedAccessStaysRevoked
<1>1. Init => TypeInv /\ RevocationInv
  BY TypeInvInit DEF Init, RevocationInv
<1>2. TypeInv /\ RevocationInv /\ [Next]_vars => (TypeInv /\ RevocationInv)'
  BY TypeInvStep, RevocationStep
<1>3. TypeInv /\ RevocationInv => RevokedAccessStaysRevoked
  BY DEF TypeInv, TypeOK, RevocationInv, RevokedAccessStaysRevoked, Accepted,
         IsUserAccessRevoked, AccessToken
<1> QED
  BY <1>1, <1>2, <1>3, PTL DEF Spec

----------------------------------------------------------------------------
(* A family of refresh tokens implements an abstract session.              *)

(* Phase as a case analysis, and what NoRace says of it. *)
LEMMA PhaseCases ==
    ASSUME NEW f \in Family
    PROVE  /\ Phase(f) = "live" <=> Redeemable(f) # {}
           /\ Phase(f) = "rotating" <=> Redeemable(f) = {} /\ Rotations(f) # {}
           /\ Phase(f) = "over" <=>
                Redeemable(f) = {} /\ Rotations(f) = {} /\ TokensOfFamily(f) # {}
           /\ Phase(f) = "none" <=>
                Redeemable(f) = {} /\ Rotations(f) = {} /\ TokensOfFamily(f) = {}
           /\ Phase(f) \in {"none", "live", "rotating", "over"}
BY DEF Phase

LEMMA PhaseCasesNext ==
    ASSUME NEW f \in Family
    PROVE  /\ Phase(f)' = "live" <=> Redeemable(f)' # {}
           /\ Phase(f)' = "rotating" <=> Redeemable(f)' = {} /\ Rotations(f)' # {}
           /\ Phase(f)' = "over" <=>
                Redeemable(f)' = {} /\ Rotations(f)' = {} /\ TokensOfFamily(f)' # {}
           /\ Phase(f)' = "none" <=>
                Redeemable(f)' = {} /\ Rotations(f)' = {} /\ TokensOfFamily(f)' = {}
           /\ Phase(f)' \in {"none", "live", "rotating", "over"}
BY DEF Phase

LEMMA PhaseInit == Init => Sessions!Init
<1> SUFFICES ASSUME Init PROVE \A f \in Family : Phase(f) = "none"
  BY DEF Sessions!Init
<1> TAKE f \in Family
<1> QED
  BY DEF Init, Phase, Redeemable, TokensOfFamily, Rotations, Minted, Idle, Rotating

(* A quiet step ends sessions at most: Close, for those that end. *)
LEMMA PhaseQuiet ==
    ASSUME TypeInv, NoRace, Quiet
    PROVE  Sessions!Next
<1> DEFINE S == {f \in Family : Phase(f) \in {"live", "rotating"} /\ Phase(f)' = "over"}
<1>1. ASSUME NEW f \in Family
      PROVE  Phase(f)' = IF f \in S THEN "over" ELSE Phase(f)
  <2>1. TokensOfFamily(f)' = TokensOfFamily(f)
    BY DEF Quiet, TokensOfFamily, Minted, FamilyOf
  <2>2. Redeemable(f)' \subseteq Redeemable(f)
    BY <2>1 DEF Quiet, Redeemable, TokensOfFamily
  <2>3. Rotations(f)' \subseteq Rotations(f)
    BY DEF Quiet, Rotations, FamilyOf
  <2>4. Redeemable(f) # {} => Rotations(f) = {}
    BY DEF NoRace, RotationHoldsFamily, Redeemable, Rotations, TokensOfFamily
  <2>5. Rotations(f) # {} => TokensOfFamily(f) # {}
    BY DEF TypeInv, RequestsOK, Rotations, TokensOfFamily
  <2>6. Redeemable(f) # {} => TokensOfFamily(f) # {}
    BY DEF Redeemable
  <2> QED
    BY <2>1, <2>2, <2>3, <2>4, <2>5, <2>6, PhaseCases, PhaseCasesNext
<1>2. [f \in Family |-> Phase(f)]' = [f \in Family |-> IF f \in S THEN "over" ELSE Phase(f)]
  BY <1>1
<1>3. Sessions!Close(S)
  BY <1>2 DEF Sessions!Close
<1> QED
  BY <1>3 DEF Sessions!Next

(* A step that moves one family. *)
LEMMA PhaseMove ==
    ASSUME NEW f \in Family, NEW to,
           Phase(f)' = to,
           \A g \in Family \ {f} : Phase(g)' = Phase(g)
    PROVE  Sessions!Move(f, Phase(f), to)
BY DEF Sessions!Move

(* What Phase(g) depends on. *)
LEMMA PhaseSame ==
    ASSUME NEW g,
           TokensOfFamily(g)' = TokensOfFamily(g),
           Redeemable(g)' = Redeemable(g),
           Rotations(g)' = Rotations(g)
    PROVE  Phase(g)' = Phase(g)
BY DEF Phase

(* Consuming the unused row of a family redeems its session. *)
LEMMA PhaseConsume ==
    ASSUME TypeInv, NoRace, NEW p \in Request, ConsumeRefreshToken(p)
    PROVE  Quiet \/ Sessions!Next
<1> USE DEF TypeInv
<1>1. PICK t \in Token, f \in Family :
        /\ t = req[p].tok /\ f = FamilyOf(t)
        /\ Minted(t)
        /\ claims' = claims
        /\ req[p].stage = "presented"
  BY DEF ConsumeRefreshToken, RequestsOK, TypeOK, Minted, RefreshClaims, FamilyOf
<1>2. CASE Finish(p) /\ UNCHANGED row
  BY <1>1, <1>2, QuietMove DEF Finish, Idle, Rotating
<1>3. CASE Goto(p, "replayed") /\ UNCHANGED row
  <2> DEFINE r == [req[p] EXCEPT !.stage = "replayed"]
  <2>1. r.stage = "replayed" /\ req' = [req EXCEPT ![p] = r]
    BY <1>3 DEF Goto, TypeOK, RequestState
  <2> QED
    BY <1>1, <1>3, <2>1, QuietMove DEF Rotating
<1>4. CASE /\ row[t] = "unused" /\ Goto(p, "consumed")
           /\ row' = [row EXCEPT ![t] = "used"]
  <2>1. /\ row'[t] = "used"
        /\ \A s \in Token \ {t} : row'[s] = row[s]
    BY <1>1, <1>4 DEF TypeOK
  <2>2. /\ req'[p].stage = "consumed" /\ req'[p].tok = t
        /\ \A q \in Request \ {p} : req'[q] = req[q]
    BY <1>1, <1>4 DEF Goto, TypeOK, RequestState
  <2>3. \A g : TokensOfFamily(g)' = TokensOfFamily(g)
    BY <1>1 DEF TokensOfFamily, Minted, FamilyOf
  <2>4. t \in Redeemable(f)
    BY <1>1, <1>4 DEF Redeemable, TokensOfFamily
  <2>5. Redeemable(f)' = {}
    BY <1>1, <1>4, <2>1, <2>3 DEF Redeemable, TokensOfFamily, NoRace, SingleLiveToken
  <2>6. p \in Rotations(f)'
    BY <1>1, <2>2 DEF Rotations, Rotating, FamilyOf
  <2>7. Phase(f) = "live" /\ Phase(f)' = "rotating"
    BY <1>1, <2>4, <2>5, <2>6, PhaseCases, PhaseCasesNext
  <2>8. ASSUME NEW g \in Family \ {f}
        PROVE  Phase(g)' = Phase(g)
    <3>1. Redeemable(g)' = Redeemable(g)
      BY <1>1, <2>1, <2>3 DEF Redeemable, TokensOfFamily
    <3>2. Rotations(g)' = Rotations(g)
      BY <1>1, <2>2 DEF Rotations, FamilyOf, Rotating
    <3> QED
      BY <2>3, <3>1, <3>2, PhaseSame
  <2>9. Sessions!Redeem(f)
    BY <1>1, <2>7, <2>8, PhaseMove DEF Sessions!Redeem
  <2> QED
    BY <1>1, <2>9 DEF Sessions!Next
<1> QED
  BY <1>1, <1>2, <1>3, <1>4 DEF ConsumeRefreshToken

(* Saving a token in a family makes it live and moves no other. *)
LEMMA PhaseSave ==
    ASSUME TypeInv, NoRace,
           NEW p \in Request, NEW t \in Token, NEW f \in Family,
           NEW u \in User, NEW a \in App,
           ~ Minted(t), SaveRefreshToken(t, f, u, a), Finish(p),
           req[p].stage \in Rotating => FamilyOf(req[p].tok) = f
    PROVE  Sessions!Move(f, Phase(f), "live")
<1> USE DEF TypeInv
<1>1. /\ claims'[t] = [family |-> f, user |-> u, app |-> a, exp |-> now + RefreshTTL]
      /\ \A s \in Token \ {t} : claims'[s] = claims[s] /\ row'[s] = row[s]
      /\ claims'[t] # None
      /\ row'[t] = "unused"
  BY SaveTypes DEF Minted
<1>2. claims'[t].family = f
  BY <1>1
<1>3. /\ req'[p].stage = "idle"
      /\ \A q \in Request \ {p} : req'[q] = req[q]
  BY DEF Finish, Idle, TypeOK
<1>4. t \in Redeemable(f)'
  BY <1>1, <1>2 DEF Redeemable, TokensOfFamily, Minted, FamilyOf
<1>5. Phase(f)' = "live"
  BY <1>4, PhaseCasesNext
<1>6. ASSUME NEW g \in Family \ {f}
      PROVE  Phase(g)' = Phase(g)
  <2>1. TokensOfFamily(g)' = TokensOfFamily(g)
    BY <1>1, <1>2 DEF TokensOfFamily, Minted, FamilyOf
  <2>2. Redeemable(g)' = Redeemable(g)
    BY <1>1, <1>2, <2>1 DEF Redeemable, TokensOfFamily, Minted, FamilyOf
  <2>3. \A q \in Request : q \in Rotations(g)' <=> q \in Rotations(g)
    <3> TAKE q \in Request
    <3>1. CASE q = p
      BY <1>3, <3>1 DEF Rotations, Rotating
    <3>2. CASE q # p /\ req[q].stage \in Rotating
      <4>1. req[q].tok \in Token \ {t}
        BY <3>2 DEF RequestsOK
      <4>2. claims'[req[q].tok].family = claims[req[q].tok].family
        BY <1>1, <4>1
      <4> QED
        BY <1>3, <3>2, <4>2 DEF Rotations, FamilyOf
    <3>3. CASE q # p /\ req[q].stage \notin Rotating
      BY <1>3, <3>3 DEF Rotations
    <3> QED
      BY <3>1, <3>2, <3>3
  <2>4. Rotations(g)' = Rotations(g)
    BY <2>3 DEF Rotations
  <2> QED
    BY <2>1, <2>2, <2>4, PhaseSame
<1> QED
  BY <1>5, <1>6, PhaseMove

LEMMA PhaseIssue ==
    ASSUME TypeInv, NoRace, NEW p \in Request, IssueTokenPair(p) \/ IssueSuccessor(p)
    PROVE  Sessions!Next
<1> USE DEF TypeInv
<1>1. CASE IssueTokenPair(p)
  <2>1. PICK u \in User, a \in App :
            u = req[p].user /\ a = req[p].app /\ req[p].stage \notin Rotating
    BY <1>1 DEF IssueTokenPair, RequestsOK, Rotating
  <2>2. PICK t \in Token, f \in Family :
            /\ ~ Minted(t)
            /\ TokensOfFamily(f) = {}
            /\ SaveRefreshToken(t, f, u, a)
    BY <1>1, <2>1 DEF IssueTokenPair
  <2>3. Sessions!Move(f, Phase(f), "live")
    BY <1>1, <2>1, <2>2, PhaseSave DEF IssueTokenPair
  <2>4. Redeemable(f) = {} /\ Rotations(f) = {}
    BY <2>2 DEF Redeemable, Rotations, TokensOfFamily, RequestsOK
  <2>5. Phase(f) = "none"
    BY <2>2, <2>4, PhaseCases
  <2> QED
    BY <2>3, <2>5 DEF Sessions!Open, Sessions!Next
<1>2. CASE IssueSuccessor(p)
  <2>1. PICK f \in Family, u \in User, a \in App :
            /\ f = FamilyOf(req[p].tok)
            /\ u = req[p].user
            /\ a = claims[req[p].tok].app
            /\ req[p].stage \in Rotating
    BY <1>2 DEF IssueSuccessor, RequestsOK, Rotating, TypeOK, Minted, RefreshClaims, FamilyOf
  <2>2. PICK t \in Token : ~ Minted(t) /\ SaveRefreshToken(t, f, u, a)
    BY <1>2, <2>1 DEF IssueSuccessor, FamilyOf
  <2>3. Sessions!Move(f, Phase(f), "live")
    BY <1>2, <2>1, <2>2, PhaseSave DEF IssueSuccessor
  <2>4. Redeemable(f) = {} /\ p \in Rotations(f)
    BY <2>1 DEF Redeemable, Rotations, TokensOfFamily, NoRace, RotationHoldsFamily
  <2>5. Phase(f) = "rotating"
    BY <2>4, PhaseCases
  <2> QED
    BY <2>3, <2>5 DEF Sessions!Renew, Sessions!Next
<1> QED
  BY <1>1, <1>2

(* The tokens, rows and requests of the server implement the abstract      *)
(* sessions: one redemption, one successor, and no way back from "over".   *)
THEOREM Refinement == Spec => ImplementsSessions
<1>1. Init => TypeInv /\ NoRace /\ Sessions!Init
  BY TypeInvInit, NoRaceInit, PhaseInit
<1>2. TypeInv /\ NoRace /\ [Next]_vars => (TypeInv /\ NoRace)'
  BY TypeInvStep, NoRaceStep
<1>3. TypeInv /\ NoRace /\ [Next]_vars => [Sessions!Next]_([f \in Family |-> Phase(f)])
  BY QuietOrRotates, PhaseQuiet, PhaseConsume, PhaseIssue
<1> QED
  BY <1>1, <1>2, <1>3, PTL DEF Spec, ImplementsSessions, Sessions!Spec
============================================================================
