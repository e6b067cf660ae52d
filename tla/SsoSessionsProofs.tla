------------------------- MODULE SsoSessionsProofs -------------------------
(***************************************************************************)
(* Proofs about SsoSessions: types, the absolute limit of a session, what  *)
(* deleting sessions and disabling an account achieve, and that            *)
(* authorization codes are good once.                                      *)
(***************************************************************************)
EXTENDS SsoSessions, TLAPS

Visiting == {"account", "revoked", "touch"}

Acting == Visiting \cup {"final", "block", "purge"} \cup Granting \cup Exchanging

(* What request r knows: a user where it acts for one, a session that was  *)
(* handed out where it has a cookie, and a time within its limit.          *)
Holds(r) ==
    /\ req[r].stage \in Acting => req[r].user \in User
    /\ req[r].stage \in Visiting =>
          /\ req[r].session \in issued
          /\ sessions[req[r].session] # None =>
                req[r].at <= sessions[req[r].session].expires
    /\ req[r].stage = "drop" => req[r].session \in Session

Stored ==
    /\ \A s \in Session : sessions[s] # None =>
          s \in issued /\ sessions[s].lastUsed <= sessions[s].expires
    /\ \A c \in Code : codes[c] # None => c \in drawn

SessionInv ==
    /\ TypeOK
    /\ Stored
    /\ \A r \in Request : Holds(r)

----------------------------------------------------------------------------
(* What a step may do to a stored session.                                 *)

Kept(s) == sessions'[s] = sessions[s] \/ sessions'[s] = None

Touched(s) ==
    /\ sessions[s] # None /\ sessions'[s] \in SessionRow
    /\ sessions'[s].user = sessions[s].user
    /\ sessions'[s].expires = sessions[s].expires
    /\ sessions'[s].lastUsed <= sessions'[s].expires

Opened(s) ==
    /\ s \notin issued /\ s \in issued'
    /\ sessions'[s] \in SessionRow
    /\ sessions'[s].lastUsed <= sessions'[s].expires
    /\ \E r \in Request : /\ req[r].stage \in LoggingIn
                          /\ sessions'[s].user = req[r].user

SessionsMove ==
    /\ sessions' \in [Session -> SessionRow \cup {None}]
    /\ issued \subseteq issued' /\ issued' \subseteq Session
    /\ \A s \in Session : Kept(s) \/ Touched(s) \/ Opened(s)

----------------------------------------------------------------------------
LEMMA TTLFacts ==
    IdleTTL \in Nat \ {0} /\ MaxTTL \in Nat \ {0} /\ CodeTTL \in Nat \ {0} /\ AccessTTL \in Nat \ {0}
BY TTLsArePositive

(* Requests move by Enter, by Finish, or not at all. *)
LEMMA Entered ==
    ASSUME TypeOK, NEW r \in Request, NEW stage \in Stage, NEW u \in User \cup {None},
           NEW s \in Session \cup {None}, NEW t \in Nat, Enter(r, stage, u, s, t)
    PROVE  /\ req' \in [Request -> RequestState]
           /\ req'[r] = [stage |-> stage, user |-> u, session |-> s, at |-> t]
           /\ \A q \in Request : q # r => req'[q] = req[q]
<1> DEFINE x == [stage |-> stage, user |-> u, session |-> s, at |-> t]
<1>1. x \in RequestState BY DEF RequestState
<1>2. req' = [req EXCEPT ![r] = x] /\ req \in [Request -> RequestState]
  BY DEF Enter, TypeOK
<1> HIDE DEF x
<1>3. /\ req' \in [Request -> RequestState] /\ req'[r] = x
      /\ \A q \in Request : q # r => req'[q] = req[q]
  BY <1>1, <1>2
<1> QED BY <1>3 DEF x

LEMMA Finished ==
    ASSUME TypeOK, NEW r \in Request, Finish(r)
    PROVE  /\ req' \in [Request -> RequestState]
           /\ req'[r] = Idle
           /\ \A q \in Request : q # r => req'[q] = req[q]
<1>1. Idle \in RequestState BY DEF Idle, RequestState, Stage
<1> QED BY <1>1 DEF Finish, TypeOK

(* A step that leaves the sessions alone. *)
LEMMA SessionsStay ==
    ASSUME TypeOK, UNCHANGED sessionVars
    PROVE  SessionsMove
BY DEF TypeOK, sessionVars, SessionsMove, Kept

(* Holds survives for the requests a step does not move. *)
LEMMA OthersHold ==
    ASSUME SessionInv, SessionsMove, NEW q \in Request, req'[q] = req[q]
    PROVE  Holds(q)'
<1>1. Holds(q) BY DEF SessionInv
<1>2. CASE req[q].stage \in Visiting
  <2> DEFINE s == req[q].session
  <2>1. s \in issued /\ s \in Session /\ s \in issued'
    BY <1>1, <1>2 DEF Holds, SessionInv, TypeOK, SessionsMove
  <2>2. Kept(s) \/ Touched(s) BY <2>1 DEF SessionsMove, Opened
  <2>3. sessions'[s] # None => req[q].at <= sessions'[s].expires
    BY <1>1, <1>2, <2>2 DEF Kept, Touched, Holds
  <2> QED BY <1>1, <1>2, <2>1, <2>3 DEF Holds
<1>3. CASE req[q].stage \notin Visiting BY <1>1, <1>3 DEF Holds
<1> QED BY <1>2, <1>3

----------------------------------------------------------------------------
LEMMA StepSessions ==
    ASSUME SessionInv, [Next]_vars
    PROVE  SessionsMove
<1>0. TypeOK BY DEF SessionInv
<1>1. ASSUME NEW r \in Request, DeleteSession(r)
      PROVE  SessionsMove
  BY <1>0, <1>1 DEF DeleteSession, TypeOK, SessionsMove, Kept
<1>2. ASSUME NEW r \in Request, TouchSession(r)
      PROVE  SessionsMove
  <2> DEFINE x == req[r].session
             d == [sessions[x] EXCEPT !.lastUsed = req[r].at]
  <2>1. /\ x \in issued /\ x \in Session /\ req[r].at \in Nat
        /\ sessions[x] # None => req[r].at <= sessions[x].expires
    BY <1>0, <1>2 DEF TouchSession, SessionInv, Holds, Visiting, TypeOK, RequestState
  <2>2. CASE sessions[x] = None
    BY <1>0, <1>2, <2>2 DEF TouchSession, TypeOK, SessionsMove, Kept
  <2>3. CASE sessions[x] # None
    <3>1. sessions[x] \in SessionRow BY <1>0, <2>1, <2>3 DEF TypeOK
    <3>2. /\ d \in SessionRow /\ d.user = sessions[x].user
          /\ d.expires = sessions[x].expires /\ d.lastUsed <= d.expires
      BY <2>1, <2>3, <3>1 DEF SessionRow
    <3>3. sessions' = [sessions EXCEPT ![x] = d] /\ UNCHANGED issued
      BY <1>2, <2>3 DEF TouchSession
    <3> HIDE DEF d
    <3>4. sessions'[x] = d /\ \A s \in Session : s # x => sessions'[s] = sessions[s]
      BY <1>0, <2>1, <3>3 DEF TypeOK
    <3>5. Touched(x) BY <2>3, <3>2, <3>4 DEF Touched
    <3>6. \A s \in Session : s # x => Kept(s) BY <3>4 DEF Kept
    <3>7. sessions' \in [Session -> SessionRow \cup {None}]
      BY <1>0, <2>1, <3>2, <3>3 DEF TypeOK
    <3> QED BY <1>0, <3>3, <3>5, <3>6, <3>7 DEF SessionsMove, TypeOK
  <2> QED BY <2>2, <2>3
<1>3. ASSUME NEW r \in Request, CreateSession(r)
      PROVE  SessionsMove
  <2>1. CASE UNCHANGED sessionVars BY <1>0, <2>1, SessionsStay
  <2>2. ASSUME NEW x \in Session \ issued,
               sessions' = [sessions EXCEPT ![x] =
                  [user |-> req[r].user, lastUsed |-> now, expires |-> now + MaxTTL]],
               issued' = issued \cup {x}
        PROVE  SessionsMove
    <3> DEFINE d == [user |-> req[r].user, lastUsed |-> now, expires |-> now + MaxTTL]
    <3>1. req[r].user \in User /\ req[r].stage \in LoggingIn
      BY <1>3 DEF CreateSession, SessionInv, Holds, Acting, Granting, LoggingIn
    <3>2. /\ d \in SessionRow /\ d.user = req[r].user /\ d.lastUsed <= d.expires
      BY <1>0, <3>1, TTLFacts DEF SessionRow, TypeOK
    <3>3. sessions' = [sessions EXCEPT ![x] = d] BY <2>2
    <3> HIDE DEF d
    <3>4. sessions'[x] = d /\ \A s \in Session : s # x => sessions'[s] = sessions[s]
      BY <1>0, <3>3 DEF TypeOK
    <3>5. Opened(x) BY <2>2, <3>1, <3>2, <3>4 DEF Opened
    <3>6. \A s \in Session : s # x => Kept(s) BY <3>4 DEF Kept
    <3>7. sessions' \in [Session -> SessionRow \cup {None}]
      BY <1>0, <3>2, <3>3 DEF TypeOK
    <3> QED BY <1>0, <2>2, <3>5, <3>6, <3>7 DEF SessionsMove, TypeOK
  <2> QED BY <1>3, <2>1, <2>2 DEF CreateSession
<1>4. ASSUME NEW r \in Request, DeleteUserSessions(r)
      PROVE  SessionsMove
  BY <1>0, <1>4 DEF DeleteUserSessions, TypeOK, SessionsMove, Kept
<1>5. ASSUME NEW s \in Session, Logout(s)
      PROVE  SessionsMove
  BY <1>0, <1>5 DEF Logout, TypeOK, SessionsMove, Kept
<1>6. CASE CleanExpiredSessions
  BY <1>0, <1>6 DEF CleanExpiredSessions, TypeOK, SessionsMove, Kept
<1>7. ASSUME NEW r \in Request, Visit(r)
      PROVE  SessionsMove \/ UNCHANGED sessionVars
  BY <1>1, <1>2, <1>7 DEF Visit, GetSession, CheckAccount, CheckAccessRevoked, FinalCheck
<1>8. ASSUME NEW r \in Request, Grant(r)
      PROVE  SessionsMove \/ UNCHANGED sessionVars
  BY <1>3, <1>8
     DEF Grant, Login, SaveOIDCAuthCode, IssueTokens, ConsumeOIDCAuthCode, RedeemCode
<1>9. ASSUME NEW r \in Request, EndSessions(r)
      PROVE  SessionsMove \/ UNCHANGED sessionVars
  BY <1>4, <1>9 DEF EndSessions, RevokeSessions, DeleteUser, LogoutAll, BlockAccess
<1>10. CASE ChangeAccounts \/ CleanExpiredOIDCCodes \/ Tick \/ Crash \/ UNCHANGED vars
  <2>1. UNCHANGED sessionVars
    BY <1>10 DEF ChangeAccounts, CleanExpiredOIDCCodes, Tick, Crash, vars, sessionVars
  <2> QED BY <1>0, <2>1, SessionsStay
<1> QED BY <1>0, <1>5, <1>6, <1>7, <1>8, <1>9, <1>10, SessionsStay DEF Next

----------------------------------------------------------------------------
(* The requests. *)

RequestsHold == req \in [Request -> RequestState] /\ \A q \in Request : Holds(q)

LEMMA EnterHolds ==
    ASSUME SessionInv, SessionsMove,
           NEW r \in Request, NEW stage \in Stage, NEW u \in User \cup {None},
           NEW s \in Session \cup {None}, NEW t \in Nat, Enter(r, stage, u, s, t),
           stage \in Acting => u \in User,
           stage \in Visiting =>
               s \in issued /\ (sessions'[s] # None => t <= sessions'[s].expires),
           stage = "drop" => s \in Session
    PROVE  RequestsHold'
<1>1. TypeOK BY DEF SessionInv
<1>2. /\ req' \in [Request -> RequestState]
      /\ req'[r] = [stage |-> stage, user |-> u, session |-> s, at |-> t]
      /\ \A q \in Request : q # r => req'[q] = req[q]
  BY <1>1, Entered
<1>3. /\ req'[r].stage = stage /\ req'[r].user = u
      /\ req'[r].session = s /\ req'[r].at = t
  BY <1>2
<1>4. issued \subseteq issued' BY DEF SessionsMove
<1>5. Holds(r)'
  <2>1. req'[r].stage \in Acting => req'[r].user \in User BY <1>3
  <2>2. req'[r].stage \in Visiting =>
           /\ req'[r].session \in issued'
           /\ sessions'[req'[r].session] # None =>
                 req'[r].at <= sessions'[req'[r].session].expires
    BY <1>3, <1>4
  <2>3. req'[r].stage = "drop" => req'[r].session \in Session BY <1>3
  <2> QED BY <2>1, <2>2, <2>3 DEF Holds
<1>6. ASSUME NEW q \in Request, q # r PROVE Holds(q)'
  BY <1>2, <1>6, OthersHold
<1> QED BY <1>2, <1>5, <1>6 DEF RequestsHold

LEMMA FinishHolds ==
    ASSUME SessionInv, SessionsMove, NEW r \in Request, Finish(r)
    PROVE  RequestsHold'
<1>1. TypeOK BY DEF SessionInv
<1>2. /\ req' \in [Request -> RequestState] /\ req'[r] = Idle
      /\ \A q \in Request : q # r => req'[q] = req[q]
  BY <1>1, Finished
<1>3. Holds(r)'
  BY <1>2 DEF Holds, Idle, Acting, Visiting, Granting, LoggingIn, Exchanging
<1>4. ASSUME NEW q \in Request, q # r PROVE Holds(q)'
  BY <1>2, <1>4, OthersHold
<1> QED BY <1>2, <1>3, <1>4 DEF RequestsHold

LEMMA StayHolds ==
    ASSUME SessionInv, SessionsMove, UNCHANGED req
    PROVE  RequestsHold'
<1>1. \A q \in Request : Holds(q)' BY OthersHold
<1> QED BY <1>1 DEF RequestsHold, SessionInv, TypeOK

LEMMA VisitHolds ==
    ASSUME SessionInv, SessionsMove, NEW r \in Request, Visit(r)
    PROVE  RequestsHold'
<1> USE DEF Stage, Acting, Visiting, Granting, LoggingIn, Exchanging
<1>0. TypeOK /\ Holds(r) BY DEF SessionInv
<1>1. /\ req[r].session \in Session \cup {None} /\ req[r].at \in Nat
      /\ req[r].user \in User \cup {None}
  BY <1>0 DEF TypeOK, RequestState
<1>2. ASSUME NEW s \in issued, GetSession(r, s) PROVE RequestsHold'
  <2>1. s \in Session /\ now \in Nat BY <1>0, <1>2 DEF TypeOK
  <2>2. CASE Outlived(s)
    <3>1. Enter(r, "drop", None, s, 0) BY <1>2, <2>2 DEF GetSession
    <3> QED BY <2>1, <3>1, EnterHolds
  <2>3. CASE ~ Outlived(s)
    <3>1. /\ Enter(r, "account", sessions[s].user, s, now)
          /\ sessions[s] # None /\ sessions' = sessions
      BY <1>2, <2>3 DEF GetSession, sessionVars
    <3>2. /\ sessions[s] \in SessionRow /\ sessions[s].user \in User
          /\ now <= sessions[s].expires
      BY <1>0, <2>1, <2>3, <3>1 DEF TypeOK, SessionRow, Outlived
    <3> QED BY <1>2, <2>1, <3>1, <3>2, EnterHolds
  <2> QED BY <2>2, <2>3
<1>3. CASE CheckAccount(r)
  <2>1. /\ req[r].session \in issued /\ req[r].session \in Session /\ sessions' = sessions
        /\ sessions[req[r].session] # None => req[r].at <= sessions[req[r].session].expires
    BY <1>0, <1>3 DEF CheckAccount, Holds, TypeOK, sessionVars
  <2>2. ASSUME NEW v \in User, Enter(r, "revoked", v, req[r].session, req[r].at)
        PROVE  RequestsHold'
    BY <1>1, <2>1, <2>2, EnterHolds
  <2>3. CASE Enter(r, "drop", None, req[r].session, 0) BY <2>1, <2>3, EnterHolds
  <2> QED BY <1>3, <2>2, <2>3 DEF CheckAccount
<1>4. CASE CheckAccessRevoked(r)
  <2>1. /\ req[r].session \in issued /\ req[r].session \in Session /\ sessions' = sessions
        /\ req[r].user \in User
        /\ sessions[req[r].session] # None => req[r].at <= sessions[req[r].session].expires
    BY <1>0, <1>4 DEF CheckAccessRevoked, Holds, TypeOK, sessionVars
  <2>2. CASE Enter(r, "touch", req[r].user, req[r].session, req[r].at)
    BY <1>1, <2>1, <2>2, EnterHolds
  <2>3. CASE Enter(r, "drop", None, req[r].session, 0) BY <2>1, <2>3, EnterHolds
  <2> QED BY <1>4, <2>2, <2>3 DEF CheckAccessRevoked
<1>5. CASE DeleteSession(r) BY <1>5, FinishHolds DEF DeleteSession
<1>6. CASE TouchSession(r)
  <2>1. Enter(r, "final", req[r].user, None, 0) /\ req[r].user \in User
    BY <1>0, <1>6 DEF TouchSession, Holds
  <2> QED BY <2>1, EnterHolds
<1>7. CASE FinalCheck(r)
  <2>1. ASSUME NEW v \in User, NEW stage \in {"code", "tokens"}, Enter(r, stage, v, None, 0)
        PROVE  RequestsHold'
    BY <2>1, EnterHolds
  <2> QED BY <1>7, <2>1, FinishHolds DEF FinalCheck
<1> QED BY <1>2, <1>3, <1>4, <1>5, <1>6, <1>7 DEF Visit

LEMMA GrantHolds ==
    ASSUME SessionInv, SessionsMove, NEW r \in Request, Grant(r)
    PROVE  RequestsHold'
<1> USE DEF Stage, Acting, Visiting, Granting, LoggingIn, Exchanging
<1>0. TypeOK /\ Holds(r) BY DEF SessionInv
<1>1. ASSUME NEW v \in User, NEW stage \in Granting \cup Exchanging, Enter(r, stage, v, None, 0)
      PROVE  RequestsHold'
  BY <1>1, EnterHolds
<1>2. ASSUME NEW u \in User, Login(r, u) PROVE RequestsHold'
  BY <1>1, <1>2 DEF Login
<1>3. CASE CreateSession(r)
  BY <1>0, <1>1, <1>3, FinishHolds DEF CreateSession, Holds
<1>4. CASE SaveOIDCAuthCode(r) BY <1>4, FinishHolds DEF SaveOIDCAuthCode
<1>5. CASE IssueTokens(r) BY <1>0, <1>1, <1>5, FinishHolds DEF IssueTokens, Holds
<1>6. ASSUME NEW c \in drawn, ConsumeOIDCAuthCode(r, c) PROVE RequestsHold'
  <2>1. codes[c] \in CodeRow /\ codes[c].user \in User
    BY <1>0, <1>6 DEF ConsumeOIDCAuthCode, TypeOK, CodeRow
  <2> QED BY <1>1, <1>6, <2>1, StayHolds DEF ConsumeOIDCAuthCode
<1>7. CASE RedeemCode(r) BY <1>1, <1>7, FinishHolds DEF RedeemCode
<1> QED BY <1>2, <1>3, <1>4, <1>5, <1>6, <1>7 DEF Grant

LEMMA EndHolds ==
    ASSUME SessionInv, SessionsMove, NEW r \in Request, EndSessions(r)
    PROVE  RequestsHold'
<1> USE DEF Stage, Acting, Visiting, Granting, LoggingIn, Exchanging
<1>0. TypeOK /\ Holds(r) BY DEF SessionInv
<1>1. ASSUME NEW u \in User, NEW stage \in {"block", "purge"}, NEW s \in Session \cup {None},
             Enter(r, stage, u, s, 0)
      PROVE  RequestsHold'
  BY <1>1, EnterHolds
<1>2. ASSUME NEW u \in User, RevokeSessions(r, u) \/ DeleteUser(r, u) PROVE RequestsHold'
  BY <1>1, <1>2 DEF RevokeSessions, DeleteUser
<1>3. ASSUME NEW u \in User, NEW s \in issued \cup {None}, LogoutAll(r, u, s)
      PROVE  RequestsHold'
  <2>1. s \in Session \cup {None} BY <1>0 DEF TypeOK
  <2> QED BY <1>1, <1>3, <2>1 DEF LogoutAll
<1>4. CASE BlockAccess(r) BY <1>0, <1>1, <1>4 DEF BlockAccess, Holds
<1>5. CASE DeleteUserSessions(r)
  <2>1. CASE Finish(r) BY <2>1, FinishHolds
  <2>2. CASE Enter(r, "drop", None, req[r].session, 0) /\ req[r].session # None
    <3>1. req[r].session \in Session BY <1>0, <2>2 DEF TypeOK, RequestState
    <3> QED BY <2>2, <3>1, EnterHolds
  <2> QED BY <1>5, <2>1, <2>2 DEF DeleteUserSessions
<1> QED BY <1>2, <1>3, <1>4, <1>5 DEF EndSessions

----------------------------------------------------------------------------
(* Codes. *)

(* What a step does to the codes and the clock. *)
CodesStay == UNCHANGED <<codeVars, now>>

CodeSaved(c) ==
    /\ c \in Code \ drawn /\ drawn' = drawn \cup {c}
    /\ \E r \in Request :
          /\ req[r].stage = "code" /\ req[r].user \in User
          /\ codes' = [codes EXCEPT ![c] = [user |-> req[r].user, expires |-> now + CodeTTL]]
    /\ UNCHANGED <<exchanges, now>>

CodeConsumed(c) ==
    /\ c \in Code /\ codes[c] # None
    /\ codes' = [codes EXCEPT ![c] = None]
    /\ \/ now <= codes[c].expires /\ exchanges' = [exchanges EXCEPT ![c] = @ + 1]
       \/ ~ (now <= codes[c].expires) /\ UNCHANGED exchanges
    /\ UNCHANGED <<drawn, now>>

CodesMove ==
    \/ CodesStay
    \/ \E c \in Code : CodeSaved(c) \/ CodeConsumed(c)
    \/ CleanExpiredOIDCCodes
    \/ Tick

LEMMA StepCodes ==
    ASSUME SessionInv, [Next]_vars
    PROVE  CodesMove
<1>0. TypeOK BY DEF SessionInv
<1>1. ASSUME NEW r \in Request, SaveOIDCAuthCode(r)
      PROVE  CodesMove
  <2>1. req[r].user \in User
    BY <1>1 DEF SaveOIDCAuthCode, SessionInv, Holds, Acting, Granting
  <2>2. \E c \in Code : CodeSaved(c) BY <1>1, <2>1 DEF SaveOIDCAuthCode, CodeSaved
  <2> QED BY <2>2 DEF CodesMove
<1>2. ASSUME NEW r \in Request, NEW c \in drawn, ConsumeOIDCAuthCode(r, c)
      PROVE  CodesMove
  <2>1. c \in Code BY <1>0 DEF TypeOK
  <2>2. CodeConsumed(c) BY <1>2, <2>1 DEF ConsumeOIDCAuthCode, CodeConsumed
  <2> QED BY <2>1, <2>2 DEF CodesMove
<1>3. ASSUME NEW r \in Request, Visit(r) PROVE CodesStay
  BY <1>3 DEF Visit, GetSession, CheckAccount, CheckAccessRevoked, DeleteSession, TouchSession,
              FinalCheck, CodesStay
<1>4. ASSUME NEW r \in Request, Grant(r) PROVE CodesMove
  <2>1. CASE \E u \in User : Login(r, u) BY <2>1 DEF Login, CodesMove, CodesStay
  <2>2. CASE CreateSession(r) BY <2>2 DEF CreateSession, CodesMove, CodesStay
  <2>3. CASE IssueTokens(r) BY <2>3 DEF IssueTokens, CodesMove, CodesStay
  <2>4. CASE RedeemCode(r) BY <2>4 DEF RedeemCode, CodesMove, CodesStay
  <2> QED BY <1>1, <1>2, <1>4, <2>1, <2>2, <2>3, <2>4 DEF Grant
<1>5. ASSUME NEW r \in Request, EndSessions(r) PROVE CodesStay
  BY <1>5 DEF EndSessions, RevokeSessions, DeleteUser, LogoutAll, BlockAccess, DeleteUserSessions,
              CodesStay
<1>6. CASE ChangeAccounts \/ CleanExpiredSessions \/ Crash \/ \E s \in Session : Logout(s)
  BY <1>6 DEF ChangeAccounts, CleanExpiredSessions, Crash, Logout, CodesMove, CodesStay
<1>7. CASE UNCHANGED vars BY <1>7 DEF vars, codeVars, CodesMove, CodesStay
<1> QED BY <1>3, <1>4, <1>5, <1>6, <1>7 DEF Next, CodesMove

LEMMA CodesKept ==
    ASSUME SessionInv, CodesMove
    PROVE  /\ codes' \in [Code -> CodeRow \cup {None}]
           /\ drawn' \in SUBSET Code
           /\ exchanges' \in [Code -> Nat]
           /\ now' \in Nat
           /\ \A c \in Code : codes'[c] # None => c \in drawn'
<1>0. TypeOK /\ Stored BY DEF SessionInv
<1>1. CASE CodesStay BY <1>0, <1>1 DEF CodesStay, codeVars, TypeOK, Stored
<1>2. ASSUME NEW c \in Code, CodeSaved(c)
      PROVE  /\ codes' \in [Code -> CodeRow \cup {None}]
             /\ drawn' \in SUBSET Code
             /\ exchanges' \in [Code -> Nat]
             /\ now' \in Nat
             /\ \A b \in Code : codes'[b] # None => b \in drawn'
  <2>1. PICK u \in User :
           codes' = [codes EXCEPT ![c] = [user |-> u, expires |-> now + CodeTTL]]
    BY <1>2 DEF CodeSaved
  <2>2. [user |-> u, expires |-> now + CodeTTL] \in CodeRow
    BY <1>0, TTLFacts DEF CodeRow, TypeOK
  <2> QED BY <1>0, <1>2, <2>1, <2>2 DEF CodeSaved, TypeOK, Stored
<1>3. ASSUME NEW c \in Code, CodeConsumed(c)
      PROVE  /\ codes' \in [Code -> CodeRow \cup {None}]
             /\ drawn' \in SUBSET Code
             /\ exchanges' \in [Code -> Nat]
             /\ now' \in Nat
             /\ \A b \in Code : codes'[b] # None => b \in drawn'
  BY <1>0, <1>3 DEF CodeConsumed, TypeOK, Stored
<1>4. CASE CleanExpiredOIDCCodes
  BY <1>0, <1>4 DEF CleanExpiredOIDCCodes, TypeOK, Stored
<1>5. CASE Tick BY <1>0, <1>5 DEF Tick, codeVars, TypeOK, Stored
<1> QED BY <1>1, <1>2, <1>3, <1>4, <1>5 DEF CodesMove

----------------------------------------------------------------------------
(* Accounts and the kill switch. *)

LEMMA StepAccounts ==
    ASSUME SessionInv, [Next]_vars
    PROVE  AccountsOK' /\ revokedUntil' \in [User -> Nat]
<1> USE DEF AccountsOK, Status
<1>0. TypeOK BY DEF SessionInv
<1>1. CASE UNCHANGED <<userVars, revokedUntil>>
  BY <1>0, <1>1 DEF TypeOK, userVars
<1>2. ASSUME NEW r \in Request, Visit(r) PROVE UNCHANGED <<userVars, revokedUntil>>
  BY <1>2 DEF Visit, GetSession, CheckAccount, CheckAccessRevoked, DeleteSession, TouchSession,
              FinalCheck
<1>3. ASSUME NEW r \in Request, Grant(r) PROVE UNCHANGED <<userVars, revokedUntil>>
  BY <1>3 DEF Grant, Login, CreateSession, SaveOIDCAuthCode, IssueTokens, ConsumeOIDCAuthCode,
              RedeemCode
<1>4. ASSUME NEW r \in Request, NEW u \in User, DeleteUser(r, u)
      PROVE  AccountsOK' /\ revokedUntil' \in [User -> Nat]
  BY <1>0, <1>4 DEF DeleteUser, DropUser, TypeOK
<1>5. ASSUME NEW r \in Request, BlockAccess(r)
      PROVE  AccountsOK' /\ revokedUntil' \in [User -> Nat]
  <2>1. UNCHANGED userVars BY <1>5 DEF BlockAccess
  <2>2. AccountsOK' BY <1>0, <2>1 DEF TypeOK, userVars
  <2>3. now + AccessTTL \in Nat BY <1>0, TTLFacts DEF TypeOK
  <2>4. revokedUntil' \in [User -> Nat] BY <1>0, <1>5, <2>3 DEF BlockAccess, TypeOK
  <2> QED BY <2>2, <2>4
<1>6. ASSUME NEW r \in Request, EndSessions(r)
      PROVE  AccountsOK' /\ revokedUntil' \in [User -> Nat]
  BY <1>1, <1>4, <1>5, <1>6 DEF EndSessions, RevokeSessions, LogoutAll, DeleteUserSessions
<1>7. CASE ChangeAccounts
  <2>0. revokedUntil' = revokedUntil BY <1>7 DEF ChangeAccounts
  <2>1. ASSUME NEW u \in User, PutUser(u) PROVE AccountsOK'
    BY <1>0, <2>1 DEF PutUser, TypeOK
  <2>2. ASSUME NEW u \in User, Unmerge(u) PROVE AccountsOK'
    BY <1>0, <2>2 DEF Unmerge, TypeOK
  <2>3. ASSUME NEW u \in User, NEW status \in {"active", "disabled"}, SetStatus(u, status)
        PROVE  AccountsOK'
    BY <1>0, <2>3 DEF SetStatus, TypeOK
  <2>4. ASSUME NEW sources \in SUBSET User, NEW v \in User, MergeInto(sources, v)
        PROVE  AccountsOK'
    BY <1>0, <2>4 DEF MergeInto, TypeOK
  <2>5. AccountsOK' BY <1>7, <2>1, <2>2, <2>3, <2>4 DEF ChangeAccounts
  <2> QED BY <1>0, <2>0, <2>5 DEF TypeOK
<1>8. CASE Tick BY <1>0, <1>8 DEF Tick, userVars, TypeOK
<1>9. CASE \/ CleanExpiredSessions \/ CleanExpiredOIDCCodes \/ Crash
           \/ (\E s \in Session : Logout(s)) \/ UNCHANGED vars
  <2>1. UNCHANGED <<userVars, revokedUntil>>
    BY <1>9 DEF CleanExpiredSessions, CleanExpiredOIDCCodes, Crash, Logout, vars
  <2> QED BY <1>1, <2>1
<1> QED BY <1>1, <1>2, <1>3, <1>6, <1>7, <1>8, <1>9 DEF Next

----------------------------------------------------------------------------
LEMMA SessionInit == Init => SessionInv
<1> SUFFICES ASSUME Init PROVE SessionInv OBVIOUS
<1>1. Idle \in RequestState BY DEF Idle, RequestState, Stage
<1>2. TypeOK BY <1>1 DEF Init, NoAccounts, TypeOK, AccountsOK, Status
<1>3. Stored BY DEF Init, Stored
<1>4. \A r \in Request : Holds(r)
  BY DEF Init, Holds, Idle, Acting, Visiting, Granting, LoggingIn, Exchanging
<1> QED BY <1>2, <1>3, <1>4 DEF SessionInv

LEMMA SessionStep == SessionInv /\ [Next]_vars => SessionInv'
<1> SUFFICES ASSUME SessionInv, [Next]_vars PROVE SessionInv' OBVIOUS
<1>1. SessionsMove BY StepSessions
<1>2. RequestsHold'
  <2>1. ASSUME NEW r \in Request, Visit(r) \/ Grant(r) \/ EndSessions(r) PROVE RequestsHold'
    BY <1>1, <2>1, VisitHolds, GrantHolds, EndHolds
  <2>2. CASE UNCHANGED req BY <1>1, <2>2, StayHolds
  <2>3. CASE Crash
    <3>1. Idle \in RequestState BY DEF Idle, RequestState, Stage
    <3>2. \A q \in Request : req'[q] = Idle BY <2>3 DEF Crash
    <3>3. \A q \in Request : Holds(q)'
      BY <3>2 DEF Holds, Idle, Acting, Visiting, Granting, LoggingIn, Exchanging
    <3> QED BY <2>3, <3>1, <3>3 DEF Crash, RequestsHold
  <2> QED BY <2>1, <2>2, <2>3
          DEF Next, Logout, ChangeAccounts, CleanExpiredSessions, CleanExpiredOIDCCodes, Tick, vars
<1>3. CodesMove BY StepCodes
<1>4. AccountsOK' /\ revokedUntil' \in [User -> Nat] BY StepAccounts
<1>5. TypeOK'
  BY <1>1, <1>2, <1>3, <1>4, CodesKept DEF TypeOK, SessionsMove, RequestsHold
<1>6. Stored'
  <2>1. ASSUME NEW s \in Session, sessions'[s] # None
        PROVE  s \in issued' /\ sessions'[s].lastUsed <= sessions'[s].expires
    BY <1>1, <2>1 DEF SessionsMove, Kept, Touched, Opened, SessionInv, Stored
  <2> QED BY <1>3, <2>1, CodesKept DEF Stored
<1> QED BY <1>2, <1>5, <1>6 DEF SessionInv, RequestsHold

----------------------------------------------------------------------------
(* Theorems. *)

(* Every state of the server satisfies SessionInv.                         *)
THEOREM SessionInvariant == Spec => []SessionInv
BY SessionInit, SessionStep, PTL DEF Spec

(* Sessions, codes, revocation entries and the local state of every        *)
(* handler keep their types.                                               *)
THEOREM SessionTypes == Spec => []TypeOK
<1>1. SessionInv => TypeOK BY DEF SessionInv
<1> QED BY SessionInvariant, <1>1, PTL

(* No session is used beyond its absolute limit, whatever happens between  *)
(* resolveSessionCookie's check of the limit and TouchSession.             *)
THEOREM SessionLimits == Spec => []SessionWithinLimits
<1>1. SessionInv => SessionWithinLimits BY DEF SessionInv, Stored, SessionWithinLimits
<1> QED BY SessionInvariant, <1>1, PTL

(* TouchSession never brings a deleted session back.                       *)
THEOREM Deleted == Spec => SessionStaysDeleted
<1>1. ASSUME SessionInv, [Next]_vars
      PROVE  \A s \in issued : sessions[s] = None => sessions'[s] = None
  <2>1. SessionsMove BY <1>1, StepSessions
  <2>2. issued \subseteq Session BY <1>1 DEF SessionInv, TypeOK
  <2> QED BY <2>1, <2>2 DEF SessionsMove, Kept, Touched, Opened
<1> QED BY SessionInvariant, <1>1, PTL DEF Spec, SessionStaysDeleted

(* When DeleteUserSessions has run, no visit that had read a session of    *)
(* the user before brings one back; only a login does.                     *)
THEOREM SignOut == Spec => SignOutEndsSessions
<1>1. ASSUME SessionInv, [Next]_vars, NEW u \in User, ~ LogsIn(u),
             Purges(u) \/ NoSession(u)
      PROVE  NoSession(u)'
  <2>1. CASE Purges(u)
    <3>1. PICK r \in Request : req[r].user = u /\ DeleteUserSessions(r)
      BY <2>1 DEF Purges
    <3> QED BY <3>1 DEF DeleteUserSessions, NoSession
  <2>2. CASE NoSession(u)
    <3>1. SessionsMove BY <1>1, StepSessions
    <3>2. ASSUME NEW s \in Session, sessions'[s] # None
          PROVE  sessions'[s].user # u
      <4>1. CASE Kept(s) BY <2>2, <3>2, <4>1 DEF Kept, NoSession
      <4>2. CASE Touched(s) BY <2>2, <4>2 DEF Touched, NoSession
      <4>3. CASE Opened(s) BY <1>1, <4>3 DEF Opened, LogsIn
      <4> QED BY <3>1, <4>1, <4>2, <4>3 DEF SessionsMove
    <3> QED BY <3>2 DEF NoSession
  <2> QED BY <1>1, <2>1, <2>2
<1>2. ASSUME SessionInv, [Next]_vars
      PROVE  \A u \in User :
                ~ LogsIn(u) /\ (Purges(u) \/ NoSession(u)) => NoSession(u)'
  BY <1>1, <1>2
<1> QED BY SessionInvariant, <1>2, PTL DEF Spec, SignOutEndsSessions

(* A request comes to act for a user, on the way to a session, a code or   *)
(* tokens, only while the account is active.                               *)
LEMMA StepGrants ==
    ASSUME SessionInv, [Next]_vars, NEW q \in Request, req'[q].stage \in Granting
    PROVE  \/ account[req'[q].user] = "active"
           \/ req[q].stage \in Granting /\ req'[q].user = req[q].user
<1> DEFINE Goal == \/ account[req'[q].user] = "active"
                   \/ req[q].stage \in Granting /\ req'[q].user = req[q].user
<1>0. TypeOK BY DEF SessionInv
<1>1. CASE req'[q] = req[q] BY <1>1
<1>2. ASSUME NEW r \in Request, NEW stage \in Stage, NEW u \in User \cup {None},
             NEW s \in Session \cup {None}, NEW t \in Nat, Enter(r, stage, u, s, t),
             \/ account[u] = "active"
             \/ stage \notin Granting
             \/ req[r].stage \in Granting /\ u = req[r].user
      PROVE  Goal
  <2>0. /\ req'[r] = [stage |-> stage, user |-> u, session |-> s, at |-> t]
        /\ \A p \in Request : p # r => req'[p] = req[p]
    BY <1>0, <1>2, Entered
  <2>1. /\ req'[r].stage = stage /\ req'[r].user = u
        /\ q # r => req'[q] = req[q]
    BY <2>0
  <2> QED BY <1>1, <1>2, <2>1
<1>3. ASSUME NEW r \in Request, Finish(r) PROVE Goal
  BY <1>0, <1>1, <1>3, Finished DEF Idle, Granting, LoggingIn
<1> USE DEF Granting, LoggingIn, Exchanging, Stage
<1>4. \A r \in Request : /\ req[r].user \in User \cup {None}
                         /\ req[r].session \in Session \cup {None} /\ req[r].at \in Nat
  BY <1>0 DEF TypeOK, RequestState
<1> HIDE DEF Goal
<1>5. ASSUME NEW r \in Request, Visit(r) PROVE Goal
  <2>1. ASSUME NEW s \in issued, GetSession(r, s) PROVE Goal
    <3>1. s \in Session /\ now \in Nat /\ sessions[s] \in SessionRow
      BY <1>0, <2>1 DEF TypeOK, GetSession
    <3>2. sessions[s].user \in User BY <3>1 DEF SessionRow
    <3> QED BY <1>2, <2>1, <3>1, <3>2 DEF GetSession
  <2>2. CASE CheckAccount(r) BY <1>2, <1>4, <2>2 DEF CheckAccount
  <2>3. CASE CheckAccessRevoked(r) BY <1>2, <1>4, <2>3 DEF CheckAccessRevoked
  <2>4. CASE DeleteSession(r) BY <1>3, <2>4 DEF DeleteSession
  <2>5. CASE TouchSession(r) BY <1>2, <1>4, <2>5 DEF TouchSession
  <2>6. CASE FinalCheck(r) BY <1>2, <1>3, <2>6 DEF FinalCheck, Active
  <2> QED BY <1>5, <2>1, <2>2, <2>3, <2>4, <2>5, <2>6 DEF Visit
<1>6. ASSUME NEW r \in Request, Grant(r) PROVE Goal
  <2>1. ASSUME NEW u \in User, Login(r, u) PROVE Goal
    BY <1>2, <2>1 DEF Login, Active
  <2>2. CASE CreateSession(r) BY <1>2, <1>3, <1>4, <2>2 DEF CreateSession
  <2>3. CASE SaveOIDCAuthCode(r) BY <1>3, <2>3 DEF SaveOIDCAuthCode
  <2>4. CASE IssueTokens(r) BY <1>2, <1>3, <1>4, <2>4 DEF IssueTokens
  <2>5. ASSUME NEW c \in drawn, ConsumeOIDCAuthCode(r, c) PROVE Goal
    <3>1. codes[c] \in CodeRow /\ codes[c].user \in User
      BY <1>0, <2>5 DEF ConsumeOIDCAuthCode, TypeOK, CodeRow
    <3>2. CASE Enter(r, "redeem", codes[c].user, None, 0) BY <1>2, <3>1, <3>2
    <3>3. CASE UNCHANGED req BY <1>1, <3>3 DEF Goal
    <3> QED BY <2>5, <3>2, <3>3 DEF ConsumeOIDCAuthCode
  <2>6. CASE RedeemCode(r) BY <1>2, <1>3, <2>6 DEF RedeemCode
  <2> QED BY <1>6, <2>1, <2>2, <2>3, <2>4, <2>5, <2>6 DEF Grant
<1>7. ASSUME NEW r \in Request, EndSessions(r) PROVE Goal
  <2>1. ASSUME NEW u \in User, RevokeSessions(r, u) \/ DeleteUser(r, u) PROVE Goal
    BY <1>2, <2>1 DEF RevokeSessions, DeleteUser
  <2>2. ASSUME NEW u \in User, NEW s \in issued \cup {None}, LogoutAll(r, u, s) PROVE Goal
    <3>1. s \in Session \cup {None} BY <1>0 DEF TypeOK
    <3> QED BY <1>2, <2>2, <3>1 DEF LogoutAll
  <2>3. CASE BlockAccess(r) BY <1>2, <1>4, <2>3 DEF BlockAccess
  <2>4. CASE DeleteUserSessions(r) BY <1>2, <1>3, <1>4, <2>4 DEF DeleteUserSessions
  <2> QED BY <1>7, <2>1, <2>2, <2>3, <2>4 DEF EndSessions
<1>8. CASE Crash BY <1>8 DEF Crash, Idle
<1>9. CASE UNCHANGED req BY <1>1, <1>9 DEF Goal
<1> QED
  BY <1>5, <1>6, <1>7, <1>8, <1>9
     DEF Next, Goal, Logout, ChangeAccounts, CleanExpiredSessions, CleanExpiredOIDCCodes, Tick, vars

(* Once the requests past their last check of a disabled account are over, *)
(* the account gets neither session nor code until it is enabled.          *)
THEOREM DisabledShut == Spec => DisabledGetsNothing
<1>1. ASSUME SessionInv, [Next]_vars, NEW u \in User, Shut(u)
      PROVE  /\ Shut(u)' \/ account'[u] # "disabled"
             /\ \A c \in Code :
                   codes'[c] # codes[c] /\ codes'[c] # None => codes'[c].user # u
             /\ \A s \in Session :
                   sessions'[s] # None /\ sessions[s] = None => sessions'[s].user # u
  <2>1. \A q \in Request : ~ (req'[q].user = u /\ req'[q].stage \in Granting)
    BY <1>1, StepGrants DEF Shut
  <2>2. Shut(u)' \/ account'[u] # "disabled" BY <2>1 DEF Shut
  <2>3. ASSUME NEW c \in Code, codes'[c] # codes[c], codes'[c] # None
        PROVE  codes'[c].user # u
    <3>1. CodesMove /\ codes \in [Code -> CodeRow \cup {None}]
      BY <1>1, StepCodes DEF SessionInv, TypeOK
    <3>2. PICK b \in Code : CodeSaved(b)
      BY <2>3, <3>1 DEF CodesMove, CodesStay, codeVars, CodeConsumed, CleanExpiredOIDCCodes, Tick
    <3>3. PICK r \in Request :
             /\ req[r].stage = "code"
             /\ codes' = [codes EXCEPT ![b] = [user |-> req[r].user, expires |-> now + CodeTTL]]
      BY <3>2 DEF CodeSaved
    <3>4. codes'[c].user = req[r].user BY <2>3, <3>1, <3>3
    <3> QED BY <1>1, <3>3, <3>4 DEF Shut, Granting
  <2>4. ASSUME NEW s \in Session, sessions'[s] # None, sessions[s] = None
        PROVE  sessions'[s].user # u
    <3>1. Opened(s)
      BY <1>1, <2>4, StepSessions DEF SessionsMove, Kept, Touched
    <3> QED BY <1>1, <3>1 DEF Opened, Shut, Granting
  <2> QED BY <2>2, <2>3, <2>4
<1>2. ASSUME SessionInv, [Next]_vars
      PROVE  \A u \in User : Shut(u) =>
                /\ Shut(u)' \/ account'[u] # "disabled"
                /\ \A c \in Code :
                      codes'[c] # codes[c] /\ codes'[c] # None => codes'[c].user # u
                /\ \A s \in Session :
                      sessions'[s] # None /\ sessions[s] = None => sessions'[s].user # u
  BY <1>1, <1>2
<1> QED BY SessionInvariant, <1>2, PTL DEF Spec, DisabledGetsNothing

(* The store's codes implement OneTimeCodes: one exchange at most, none    *)
(* after the code expired.                                                 *)
THEOREM CodesOnce == Spec => ImplementsOneTimeCodes
<1>1. Init => Abstract!Init
  BY DEF Init, Abstract!Init, CodeState
<1>2. ASSUME SessionInv, [Next]_vars
      PROVE  [Abstract!Next]_<<CodeState, exchanges>>
  <2>0. TypeOK /\ Stored BY <1>2 DEF SessionInv
  <2>1. CASE CodesStay
    BY <2>1 DEF CodesStay, codeVars, CodeState
  <2>2. ASSUME NEW c \in Code, CodeSaved(c)
        PROVE  Abstract!Next
    <3>1. PICK u \in User :
             codes' = [codes EXCEPT ![c] = [user |-> u, expires |-> now + CodeTTL]]
      BY <2>2 DEF CodeSaved
    <3>2. /\ c \notin drawn /\ drawn' = drawn \cup {c}
          /\ now' = now /\ exchanges' = exchanges
      BY <2>2 DEF CodeSaved
    <3>3. codes'[c] = [user |-> u, expires |-> now + CodeTTL] /\ codes'[c] \in CodeRow
      BY <2>0, <3>1, TTLFacts DEF TypeOK, CodeRow
    <3>4. codes'[c] # None /\ now' <= codes'[c].expires
      BY <2>0, <3>2, <3>3, TTLFacts, NoneIsNoValue DEF TypeOK, CodeRow
    <3>5. \A b \in Code : b # c => codes'[b] = codes[b]
      BY <2>0, <3>1 DEF TypeOK
    <3>6. CodeState[c] = "unissued" BY <3>2 DEF CodeState
    <3>7. CodeState' = [CodeState EXCEPT ![c] = "pending"]
      BY <3>2, <3>4, <3>5 DEF CodeState
    <3> QED BY <3>2, <3>6, <3>7 DEF Abstract!Issue, Abstract!Next
  <2>3. ASSUME NEW c \in Code, CodeConsumed(c)
        PROVE  Abstract!Next \/ UNCHANGED <<CodeState, exchanges>>
    <3>1. /\ codes[c] # None /\ c \in drawn /\ drawn' = drawn /\ now' = now
          /\ codes' = [codes EXCEPT ![c] = None]
      BY <2>0, <2>3 DEF CodeConsumed, Stored
    <3>2. codes'[c] = None /\ \A b \in Code : b # c => codes'[b] = codes[b]
      BY <2>0, <3>1 DEF TypeOK
    <3>3. CASE now <= codes[c].expires /\ exchanges' = [exchanges EXCEPT ![c] = @ + 1]
      <4>1. CodeState[c] = "pending" BY <3>1, <3>3 DEF CodeState
      <4>2. CodeState' = [CodeState EXCEPT ![c] = "over"]
        BY <3>1, <3>2 DEF CodeState
      <4> QED BY <3>3, <4>1, <4>2 DEF Abstract!Exchange, Abstract!Next
    <3>4. CASE ~ (now <= codes[c].expires) /\ UNCHANGED exchanges
      BY <3>1, <3>2, <3>4 DEF CodeState
    <3> QED BY <2>3, <3>3, <3>4 DEF CodeConsumed
  <2>4. CASE CleanExpiredOIDCCodes
    <3>1. /\ drawn' = drawn /\ exchanges' = exchanges /\ now' = now
          /\ \A c \in Code :
                \/ codes'[c] = codes[c]
                \/ codes'[c] = None /\ codes[c].expires < now /\ codes[c] # None
      BY <2>4 DEF CleanExpiredOIDCCodes
    <3>2. \A c \in Code : codes[c] # None => codes[c].expires \in Nat
      BY <2>0 DEF TypeOK, CodeRow
    <3>3. \A c \in Code :
             (codes'[c] # None /\ now' <= codes'[c].expires)
                <=> (codes[c] # None /\ now <= codes[c].expires)
      BY <2>0, <3>1, <3>2 DEF TypeOK
    <3> QED BY <3>1, <3>3 DEF CodeState
  <2>5. CASE Tick
    <3> DEFINE Lapsing == {c \in Code : CodeState[c] = "pending" /\ CodeState'[c] = "over"}
    <3>1. codes' = codes /\ drawn' = drawn /\ exchanges' = exchanges /\ now' = now + 1
      BY <2>5 DEF Tick, codeVars
    <3>2. \A c \in Code : codes[c] # None => codes[c].expires \in Nat
      BY <2>0 DEF TypeOK, CodeRow
    <3>3. \A c \in Code : codes[c] # None /\ now' <= codes[c].expires => now <= codes[c].expires
      BY <2>0, <3>1, <3>2 DEF TypeOK
    <3>4. \A c \in Code :
             \/ CodeState'[c] = CodeState[c]
             \/ CodeState[c] = "pending" /\ CodeState'[c] = "over"
      BY <3>1, <3>3 DEF CodeState
    <3>5. CodeState' = [c \in Code |-> IF c \in Lapsing THEN "over" ELSE CodeState[c]]
      <4>1. CodeState' = [c \in Code |-> CodeState'[c]] BY DEF CodeState
      <4> QED BY <3>4, <4>1
    <3>6. Lapsing \in SUBSET Code /\ \A c \in Lapsing : CodeState[c] = "pending" OBVIOUS
    <3> HIDE DEF Lapsing
    <3> QED BY <3>1, <3>5, <3>6 DEF Abstract!Lapse, Abstract!Next
  <2>6. CodesMove BY <1>2, StepCodes
  <2> QED BY <2>1, <2>2, <2>3, <2>4, <2>5, <2>6 DEF CodesMove
<1> QED
  BY SessionInvariant, <1>1, <1>2, PTL
     DEF Spec, ImplementsOneTimeCodes, Abstract!Spec, Abstract!vars

============================================================================
