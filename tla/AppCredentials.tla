--------------------------- MODULE AppCredentials ---------------------------
(***************************************************************************)
(* The row of a registered app, its secret and the management tokens that  *)
(* are obtained with it (src/internal/handler/admin_apps.go,               *)
(* authenticateApp and handleAppToken of app_selfservice.go).  An update   *)
(* and a rotation read the row, change their fields and save the whole     *)
(* row; a token is issued after the secret was compared.  The clock counts *)
(* half seconds: a token carries its time of issue in whole seconds, the   *)
(* row its rotation exactly.                                               *)
(***************************************************************************)
EXTENDS Integers

CONSTANTS
    Edit,      \* requests of administrators under way at once
    Exchange,  \* exchanges of a secret for a token under way at once
    TokenTTL,  \* cfg.AccessTTL in half seconds
    MaxSecret, \* bound: secrets generated
    MaxSave,   \* bound: updates, rotations and registrations
    LastHalf   \* bound: the last half second of the clock

ASSUME CredentialConstants == TokenTTL \in Nat \ {0} /\ MaxSecret \in Nat \ {0}

VARIABLES
    row,        \* the app: registration, secret, time of rotation, disabled
    secrets,    \* secrets generated so far; the last one is the newest
    edits,      \* updates and rotations under way, with the row they read
    exchanges,  \* exchanges under way, with the secret that was compared
    tokens,     \* management tokens issued
    now,        \* time.Now() in half seconds
    saves,      \* registrations, updates and rotations saved so far
    crossed     \* history: an edit saved a row that another one had changed
                \* since it read it, or a token was issued after the row changed

credentialVars == <<row, secrets, edits, exchanges, tokens, now, saves, crossed>>

NoRow == [registration |-> 0, secret |-> 0, rotatedAt |-> -1, disabled |-> FALSE]
NoEdit == [kind |-> "none", read |-> NoRow]

CredentialInit ==
    /\ row = NoRow /\ secrets = 0 /\ tokens = {} /\ now = 0 /\ saves = 0 /\ crossed = FALSE
    /\ edits = [e \in Edit |-> NoEdit]
    /\ exchanges = [x \in Exchange |-> NoRow]

(* handleCreateApp, CreateApp: an id in use is turned away; the row starts
   without a time of rotation (-1, the zero time).                          *)
RegisterApp ==
    /\ row = NoRow
    /\ secrets < MaxSecret /\ saves < MaxSave
    /\ secrets' = secrets + 1
    /\ saves' = saves + 1
    /\ row' = [registration |-> saves + 1, secret |-> secrets + 1, rotatedAt |-> -1,
               disabled |-> FALSE]
    /\ UNCHANGED <<edits, exchanges, tokens, now, crossed>>

(* handleDeleteApp *)
UnregisterApp ==
    /\ row # NoRow
    /\ row' = NoRow
    /\ UNCHANGED <<secrets, edits, exchanges, tokens, now, saves, crossed>>

(* handleUpdateApp, handleRotateAppSecret: GetApp. *)
ReadApp(e, kind) ==
    /\ edits[e] = NoEdit
    /\ row # NoRow
    /\ edits' = [edits EXCEPT ![e] = [kind |-> kind, read |-> row]]
    /\ UNCHANGED <<row, secrets, exchanges, tokens, now, saves, crossed>>

(* UpdateApp saves the row the request read, with its change, over the one
   stored; a row that is gone is not written.                               *)
UpdateApp(e, changed) ==
    /\ saves < MaxSave
    /\ saves' = saves + 1
    /\ row' = IF row = NoRow THEN row ELSE changed
    /\ crossed' = (crossed \/ row \notin {NoRow, edits[e].read})
    /\ edits' = [edits EXCEPT ![e] = NoEdit]
    /\ UNCHANGED <<exchanges, tokens, now>>

SetDisabled(e) ==
    /\ edits[e].kind = "update"
    /\ UpdateApp(e, [edits[e].read EXCEPT !.disabled = ~@])
    /\ UNCHANGED secrets

(* Mutant of RotateAppSecret: the time of the rotation is not recorded. *)
RotateKeepsTime(e) ==
    /\ now % 2 = 1
    /\ edits[e].kind = "rotate"
    /\ secrets < MaxSecret
    /\ secrets' = secrets + 1
    /\ UpdateApp(e, [edits[e].read EXCEPT !.secret = secrets + 1])

(* A time of rotation carries nanoseconds and falls inside a second. *)
RotateAppSecret(e) ==
    /\ now % 2 = 1
    /\ edits[e].kind = "rotate"
    /\ secrets < MaxSecret
    /\ secrets' = secrets + 1
    /\ UpdateApp(e, [edits[e].read EXCEPT !.secret = secrets + 1, !.rotatedAt = now])

(* handleAppToken: the app must be enabled and the secret the one of the
   row; what was compared is remembered as history until the token is out.  *)
CompareSecret(x) ==
    /\ exchanges[x] = NoRow
    /\ row # NoRow /\ ~row.disabled
    /\ exchanges' = [exchanges EXCEPT ![x] = row]
    /\ UNCHANGED <<row, secrets, edits, tokens, now, saves, crossed>>

IssueAppToken(x) ==
    /\ exchanges[x] # NoRow
    /\ tokens' = tokens \cup {[secret       |-> exchanges[x].secret,
                               registration |-> exchanges[x].registration,
                               issuedAt     |-> now - (now % 2),
                               expiresAt    |-> now + TokenTTL,
                               minted       |-> now]}
    /\ crossed' = (crossed \/ exchanges[x].secret # row.secret)
    /\ exchanges' = [exchanges EXCEPT ![x] = NoRow]
    /\ UNCHANGED <<row, secrets, edits, now, saves>>

(* authenticateApp with a management token. *)
Accepts(t) ==
    /\ now < t.expiresAt
    /\ row # NoRow /\ ~row.disabled
    /\ row.rotatedAt = -1 \/ t.issuedAt >= row.rotatedAt

PassHalfSecond ==
    /\ now < LastHalf
    /\ now' = now + 1
    /\ UNCHANGED <<row, secrets, edits, exchanges, tokens, saves, crossed>>

CredentialNext ==
    \/ RegisterApp \/ UnregisterApp \/ PassHalfSecond
    \/ \E e \in Edit : \/ \E kind \in {"update", "rotate"} : ReadApp(e, kind)
                       \/ SetDisabled(e) \/ RotateAppSecret(e)
    \/ \E x \in Exchange : CompareSecret(x) \/ IssueAppToken(x)

CredentialSpec == CredentialInit /\ [][CredentialNext]_credentialVars

-----------------------------------------------------------------------------

(***************************************************************************)
(* Of the tokens of the app as registered now, those obtained with an      *)
(* older secret are refused from the rotation on, and those obtained with  *)
(* the present one are honoured until they expire, from the second after   *)
(* the rotation; unless the row was saved over another's change or a token *)
(* was issued across a change (SecretRotatedAt in handleRotateAppSecret    *)
(* and authenticateApp).                                                   *)
(***************************************************************************)
RotationRevokesTokens ==
    ~crossed => \A t \in tokens : t.registration = row.registration =>
      /\ Accepts(t) => t.secret = row.secret
      /\ t.secret = row.secret /\ ~row.disabled /\ now < t.expiresAt
           /\ t.minted \div 2 > row.rotatedAt \div 2
         => Accepts(t)

=============================================================================
