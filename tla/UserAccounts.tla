--------------------------- MODULE UserAccounts ---------------------------
(***************************************************************************)
(* The record of one user under concurrent handlers.  Every handler reads  *)
(* the whole record (GetUser, ResolveUser), works on its copy -- a login   *)
(* hashes a password and may ask the directory meanwhile -- and writes the *)
(* whole copy back (UpdateUser).  Each read and each write is atomic, the  *)
(* pair is not.                                                            *)
(*                                                                         *)
(* A password stands for its hash.  Profile fields are left out: a handler *)
(* that only changes those writes its copy back as it was read.            *)
(*                                                                         *)
(* Lockout and password history are runtime settings, read at the moment   *)
(* they are applied: a record may have been counted under one threshold    *)
(* and be judged under another.                                            *)
(***************************************************************************)
EXTENDS Integers, Sequences

CONSTANTS
    Request,       \* handlers that may run at the same time
    Password,      \* passwords
    NoHash,        \* no local password is set
    Gone,          \* the record of a user that was deleted
    Kind,          \* how the user logs in: "applocal", "local", "directory"
    Settings,      \* settings an administrator may save
    MaxAttempts,   \* bound on the count of failed attempts
    MaxTime        \* bound on the clock

ASSUME NoHashIsNoPassword == NoHash \notin Password
ASSUME KindIsKnown == Kind \in {"applocal", "local", "directory"}

(* AccountLockoutThreshold, AccountLockoutDuration and PasswordHistoryCount. A
   threshold of 0 switches the lockout off, a count of 0 the history; the code
   treats a negative number like 0.                                         *)
Setting == [threshold : Nat, duration : Nat, remembered : Nat]

ASSUME SettingsAreSettings == Settings \subseteq Setting
ASSUME MaxAttemptsIsNatural == MaxAttempts \in Nat

VARIABLES
    row,       \* the stored record, or Gone
    now,       \* the clock
    setting,   \* the runtime settings
    op,        \* what each request does
    stage,     \* how far it has come
    copy,      \* its copy of the record, as it will write it
    password,  \* the password a login presented
    viaLDAP,   \* the directory accepted the login
    decision,  \* handleSetDisabled last answered: disabled
    failures,  \* logins refused for a wrong password since the last success,
               \* unlock or expiry, as long as no two requests overlap
    inForce    \* history: the thresholds in force since the record and all
               \* copies of it were last clear

reqVars == <<op, stage, copy, password, viaLDAP>>

vars == <<row, now, setting, reqVars, decision, failures, inForce>>

NoLock == 0

Overlapped == -1

Record == [disabled : BOOLEAN, attempts : Nat, lockedUntil : Nat,
           hash : Password \cup {NoHash}, history : Seq(Password), force : BOOLEAN]

ASSUME GoneIsNoRecord == Gone \notin Record

Operation == {"none", "login", "disable", "enable", "unlock", "profile", "password", "reset"}

Stage == {"idle", "unlock", "verify", "fail", "final", "clear", "sync", "save"}

(* Mutant of UpdateUser: the record is put back whether or not it exists. *)
MutUpsert(c) == row' = c

(* The write fails when the record is gone. *)
UpdateUser(c) == row' = IF row = Gone THEN Gone ELSE c

LockoutIsOn == setting.threshold > 0

LockExpired(c) == LockoutIsOn /\ c.lockedUntil # NoLock /\ now > c.lockedUntil

Locked(c) == LockoutIsOn /\ c.lockedUntil # NoLock /\ now <= c.lockedUntil

(* Mutant of Unlocked: one attempt is taken back. *)
MutUnlockForgivesOne(c) == [c EXCEPT !.attempts = @ - 1, !.lockedUntil = NoLock]

(* No failed attempts and no lock. *)
Unlocked(c) == [c EXCEPT !.attempts = 0, !.lockedUntil = NoLock]

(* Mutant of OneMoreFailure: the account is locked one attempt late. *)
MutLockLate(c) ==
    [c EXCEPT !.attempts = @ + 1,
              !.lockedUntil = IF LockoutIsOn /\ c.attempts >= setting.threshold
                              THEN now + setting.duration ELSE @]

(* recordFailedLogin *)
OneMoreFailure(c) ==
    [c EXCEPT !.attempts = @ + 1,
              !.lockedUntil = IF LockoutIsOn /\ c.attempts + 1 >= setting.threshold
                              THEN now + setting.duration ELSE @]

(* AddToPasswordHistory: the last hashes, as many as are remembered. *)
AddToPasswordHistory(history, hash) ==
    LET longer == Append(history, hash)
        excess == Len(longer) - setting.remembered
    IN  IF excess > 0 THEN SubSeq(longer, excess + 1, Len(longer)) ELSE longer

(* CheckPasswordHistory, when a history is kept at all. *)
RecentlyUsed(c, p) == setting.remembered > 0 /\ \E i \in DOMAIN c.history : c.history[i] = p

(* The record with a new password and the one it replaces remembered. *)
Rotated(c, p) ==
    [c EXCEPT !.hash = p,
              !.history = IF setting.remembered > 0 /\ c.hash # NoHash
                          THEN AddToPasswordHistory(@, c.hash) ELSE @]

----------------------------------------------------------------------------
Init ==
    /\ \E h \in Password \cup {NoHash} :
          row = [disabled |-> FALSE, attempts |-> 0, lockedUntil |-> NoLock,
                 hash |-> h, history |-> <<>>, force |-> FALSE]
    /\ now = 1
    /\ setting \in Settings
    /\ op = [r \in Request |-> "none"]
    /\ stage = [r \in Request |-> "idle"]
    /\ copy = [r \in Request |-> Gone]
    /\ password = [r \in Request |-> NoHash]
    /\ viaLDAP = [r \in Request |-> FALSE]
    /\ decision = FALSE
    /\ failures = 0
    /\ inForce = {setting.threshold}

(* Request r enters stage s with the copy c. *)
Enter(r, s, c) ==
    /\ stage' = [stage EXCEPT ![r] = s]
    /\ copy' = [copy EXCEPT ![r] = c]

(* Request r is over. *)
Finish(r) ==
    /\ Enter(r, "idle", Gone)
    /\ op' = [op EXCEPT ![r] = "none"]
    /\ password' = [password EXCEPT ![r] = NoHash]
    /\ viaLDAP' = [viaLDAP EXCEPT ![r] = FALSE]

(* A new request, which reads the record. *)
Begin(r) ==
    /\ stage[r] = "idle"
    /\ row # Gone
    /\ failures' = IF \A q \in Request : stage[q] = "idle" THEN failures ELSE Overlapped
    /\ UNCHANGED <<row, now, setting, decision>>

(* The count of refusals goes on, or starts again. *)
CountRefusal == failures' = IF failures = Overlapped THEN Overlapped ELSE failures + 1

CountReset == failures' = IF failures = Overlapped THEN Overlapped ELSE 0

----------------------------------------------------------------------------
(* authenticateUser, from the mapping of the user name on. *)

(* The record is read; disabled and locked accounts are refused. *)
LoginRead(r, p) ==
    /\ Begin(r)
    /\ IF row.disabled \/ Locked(row)
       THEN UNCHANGED reqVars
       ELSE /\ IF LockExpired(row) THEN Enter(r, "unlock", Unlocked(row))
                                  ELSE Enter(r, "verify", row)
            /\ op' = [op EXCEPT ![r] = "login"]
            /\ password' = [password EXCEPT ![r] = p]
            /\ UNCHANGED viaLDAP

(* isAccountLocked: an expired lock is cleared. *)
ClearExpiredLock(r) ==
    /\ stage[r] = "unlock"
    /\ UpdateUser(copy[r])
    /\ Enter(r, "verify", copy[r])
    /\ CountReset
    /\ UNCHANGED <<now, setting, decision, op, password, viaLDAP>>

(* The password is the local one: app-local users are logged in at once,   *)
(* others go on to the final checks.                                       *)
VerifyLocal(r) ==
    /\ stage[r] = "verify"
    /\ password[r] = copy[r].hash
    /\ IF Kind = "applocal"
       THEN Finish(r) /\ CountReset
       ELSE Enter(r, "final", Gone) /\ UNCHANGED <<op, password, viaLDAP, failures>>
    /\ UNCHANGED <<row, now, setting, decision>>

(* It is not, but the directory accepts it. *)
VerifyLDAP(r) ==
    /\ stage[r] = "verify"
    /\ password[r] # copy[r].hash
    /\ Kind = "directory"
    /\ Enter(r, "final", Gone)
    /\ viaLDAP' = [viaLDAP EXCEPT ![r] = TRUE]
    /\ UNCHANGED <<row, now, setting, decision, op, password, failures>>

(* Nobody accepts it. *)
VerifyFails(r) ==
    /\ stage[r] = "verify"
    /\ password[r] # copy[r].hash
    /\ copy[r].attempts < MaxAttempts
    /\ Enter(r, "fail", OneMoreFailure(copy[r]))
    /\ UNCHANGED <<row, now, setting, decision, op, password, viaLDAP, failures>>

RecordFailedLogin(r) ==
    /\ stage[r] = "fail"
    /\ UpdateUser(copy[r])
    /\ Finish(r)
    /\ CountRefusal
    /\ UNCHANGED <<now, setting, decision>>

(* Mutant of FinalRead: only the first read looks at Disabled. *)
MutFinalReadOnce(r) ==
    /\ stage[r] = "final"
    /\ IF row = Gone
       THEN Finish(r)
       ELSE /\ IF row.attempts > 0 THEN Enter(r, "clear", Unlocked(row))
                                   ELSE Enter(r, "sync", row)
            /\ UNCHANGED <<op, password, viaLDAP>>
    /\ UNCHANGED <<row, now, setting, decision, failures>>

(* The record is read again: a disabled account is refused, and one that   *)
(* the directory disabled (directoryAccountDisabled).                      *)
FinalRead(r) ==
    /\ stage[r] = "final"
    /\ \/ /\ row # Gone => row.disabled \/ (Kind = "directory" /\ ~ viaLDAP[r])
          /\ Finish(r)
       \/ /\ row # Gone /\ ~ row.disabled
          /\ IF row.attempts > 0 THEN Enter(r, "clear", Unlocked(row))
                                 ELSE Enter(r, "sync", row)
          /\ UNCHANGED <<op, password, viaLDAP>>
    /\ UNCHANGED <<row, now, setting, decision, failures>>

(* Mutant of ClearAttempts: the count is kept over a successful login. *)
MutKeepAttempts(r) ==
    /\ stage[r] = "clear"
    /\ Enter(r, "sync", copy[r])
    /\ UNCHANGED <<row, now, setting, decision, op, password, viaLDAP, failures>>

(* Failed attempts are cleared. *)
ClearAttempts(r) ==
    /\ stage[r] = "clear"
    /\ UpdateUser(copy[r])
    /\ Enter(r, "sync", copy[r])
    /\ UNCHANGED <<now, setting, decision, op, password, viaLDAP, failures>>

(* syncUserFromLDAP writes the copy back when a profile field or a group   *)
(* changed; then the login is granted.                                     *)
SyncUserFromLDAP(r) ==
    /\ stage[r] = "sync"
    /\ IF viaLDAP[r] THEN UpdateUser(copy[r]) \/ UNCHANGED row ELSE UNCHANGED row
    /\ Finish(r)
    /\ CountReset
    /\ UNCHANGED <<now, setting, decision>>

----------------------------------------------------------------------------
(* The handlers that read the record, change their copy and save it. *)

Prepare(r, o, c) ==
    /\ Begin(r)
    /\ Enter(r, "save", c)
    /\ op' = [op EXCEPT ![r] = o]
    /\ UNCHANGED <<password, viaLDAP>>

SetDisabled(r, b) ==
    Prepare(r, IF b THEN "disable" ELSE "enable", [row EXCEPT !.disabled = b])

UnlockAccount(r) == Prepare(r, "unlock", Unlocked(row))

(* handleUpdateUser: profile fields only. *)
UpdateProfile(r) == Prepare(r, "profile", row)

(* handleSetPassword; force_change that is not given leaves the flag. *)
SetPassword(r, p, force) ==
    /\ row # Gone /\ ~ RecentlyUsed(row, p)
    /\ Prepare(r, "password", [Rotated(row, p) EXCEPT !.force = force])

(* handleSetLocalUserPassword, and handleBootstrap with force_password for *)
(* a user with a local name: the history is neither asked nor kept.        *)
OverwritePassword(r, p) ==
    Prepare(r, "password", [row EXCEPT !.hash = p, !.force = Kind = "applocal" /\ @])

(* handleResetPassword: there must be a local password, and the user       *)
(* proves to know it unless the administrator asked for a change.          *)
ResetPassword(r, current, p) ==
    /\ row # Gone /\ row.hash # NoHash
    /\ row.force \/ current = row.hash
    /\ ~ RecentlyUsed(row, p)
    /\ Prepare(r, "reset", [Rotated(row, p) EXCEPT !.force = FALSE])

Save(r) ==
    /\ stage[r] = "save"
    /\ UpdateUser(copy[r])
    /\ Finish(r)
    /\ decision' = IF op[r] \in {"disable", "enable"} THEN op[r] = "disable" ELSE decision
    /\ IF op[r] = "unlock" THEN CountReset ELSE UNCHANGED failures
    /\ UNCHANGED <<now, setting>>

DeleteUser ==
    /\ row' = Gone
    /\ UNCHANGED <<now, setting, reqVars, decision, failures>>

Tick ==
    /\ now < MaxTime
    /\ now' = now + 1
    /\ UNCHANGED <<row, setting, reqVars, decision, failures>>

(* A save of the settings, or a start with others: whoever asks from now    *)
(* on is told the new ones.                                                *)
ChangeSettings ==
    /\ \E s \in Settings : setting' = s
    /\ UNCHANGED <<row, now, reqVars, decision, failures>>

(* Nothing is counted in the record. *)
Clear(c) == c # Gone => c.attempts = 0 /\ c.lockedUntil = NoLock

AllClear == Clear(row) /\ \A r \in Request : Clear(copy[r])

(* The history of thresholds starts again when nothing is counted. *)
Remember == inForce' = (IF AllClear' THEN {} ELSE inForce) \cup {setting'.threshold}

Login(r) ==
    \/ \E p \in Password : LoginRead(r, p)
    \/ ClearExpiredLock(r)
    \/ VerifyLocal(r)
    \/ VerifyLDAP(r)
    \/ VerifyFails(r)
    \/ RecordFailedLogin(r)
    \/ FinalRead(r)
    \/ ClearAttempts(r)
    \/ SyncUserFromLDAP(r)

Administer(r) ==
    \/ \E b \in BOOLEAN : SetDisabled(r, b)
    \/ UnlockAccount(r)
    \/ UpdateProfile(r)
    \/ \E p \in Password, force \in BOOLEAN : SetPassword(r, p, force)
    \/ \E p \in Password : OverwritePassword(r, p)
    \/ \E p, q \in Password : ResetPassword(r, p, q)
    \/ Save(r)

Next ==
    /\ \/ \E r \in Request : Login(r) \/ Administer(r)
       \/ DeleteUser
       \/ Tick
       \/ ChangeSettings
    /\ Remember

Spec == Init /\ [][Next]_vars

----------------------------------------------------------------------------
(* Properties.                                                             *)

TypeOK ==
    /\ row \in Record \cup {Gone}
    /\ now \in Nat \ {0}
    /\ setting \in Setting
    /\ op \in [Request -> Operation]
    /\ stage \in [Request -> Stage]
    /\ copy \in [Request -> Record \cup {Gone}]
    /\ password \in [Request -> Password \cup {NoHash}]
    /\ viaLDAP \in [Request -> BOOLEAN]
    /\ decision \in BOOLEAN
    /\ failures \in Nat \cup {Overlapped}
    /\ inForce \in SUBSET Nat

(* Count and lock against the thresholds ts: a lock means that one of them  *)
(* was reached, and no lock that one was not; the count goes past none of   *)
(* them alone.  A threshold of 0 bounds nothing.                           *)
Agrees(c, ts) ==
    c # Gone =>
      /\ c.lockedUntil # NoLock => \E t \in ts : 0 < t /\ t <= c.attempts
      /\ c.lockedUntil = NoLock => \E t \in ts : t = 0 \/ c.attempts < t
      /\ \E t \in ts : t = 0 \/ c.attempts <= t

(* Count and lock agree with the thresholds that were in force while the    *)
(* count was made (recordFailedLogin, isAccountLocked, handleUnlockAccount; *)
(* the threshold is read anew each time, getAccountLockoutThreshold).  With *)
(* one threshold t since the record and all copies were clear, an account   *)
(* is locked exactly when its count reached t and the count never passes t, *)
(* whatever updates of concurrent requests are lost; a changed setting is   *)
(* felt until the next unlock, expiry or success, and no longer.           *)
LockMatchesAttempts == Agrees(row, inForce)

(* docs/API.md:1059, failed_login_attempts is the "number of consecutive   *)
(* failed login attempts": with one request at a time, the count is that   *)
(* of the refusals since the last success, unlock or expiry.  Not so for   *)
(* app-local users: their login returns before the count is cleared, and   *)
(* failures add up over successes (authenticateUser, auth.go:147).         *)
AttemptsAreConsecutive ==
    Kind # "applocal" =>
      (row # Gone /\ failures # Overlapped /\ (\A r \in Request : stage[r] = "idle")
         => row.attempts = failures)

(* A deleted record does not come back: a handler that read it before the  *)
(* deletion fails to write it (UpdateUser).                                *)
DeletedStaysDeleted == [][row = Gone => row' = Gone]_vars

(* A login of request r succeeds in this step. *)
Granted(r) == stage[r] \in {"verify", "sync"} /\ stage'[r] = "idle"

(* The account is disabled and no request in flight holds a copy that says *)
(* otherwise.                                                              *)
DisabledForAll ==
    /\ row # Gone /\ row.disabled
    /\ \A r \in Request : copy[r] # Gone => copy[r].disabled

(* docs/ARCHITECTURE.md:459, "Disabled users cannot authenticate": once    *)
(* the requests that had read the record before have finished, nobody logs *)
(* in and the account stays disabled until a handler is asked to enable it *)
(* (or the user is deleted).                                               *)
DisabledIsFinal ==
    [][DisabledForAll =>
          /\ \/ DisabledForAll'
             \/ row' = Gone
             \/ \E r \in Request : op[r] # "enable" /\ op'[r] = "enable"
          /\ \A r \in Request : ~ Granted(r)]_vars

(* docs/API.md:1170, "Disabled users cannot log in", at once: after the     *)
(* administrator was told that the account is disabled, no login passes    *)
(* the check of Disabled.                                                  *)
DisabledCannotLogIn ==
    [][\A r \in Request : op[r] = "none" /\ op'[r] = "login" => ~ decision]_vars

============================================================================
