------------------------ MODULE UserAccountsProofs ------------------------
(***************************************************************************)
(* Proofs about UserAccounts, for every number of requests: what lost      *)
(* updates and changed settings cannot break.                              *)
(***************************************************************************)
EXTENDS UserAccounts, TLAPS

(* What request r holds at each stage, its copy judged by the thresholds   *)
(* T: a login never holds a record that is disabled, and none that is      *)
(* locked when it compares the password, unless lockout was off.           *)
Holds(r, T) ==
    /\ Agrees(copy[r], T)
    /\ stage[r] \in {"idle", "final"} => copy[r] = Gone
    /\ stage[r] \in {"unlock", "verify", "fail", "clear", "sync"} =>
          copy[r] # Gone /\ ~ copy[r].disabled
    /\ stage[r] \in {"unlock", "verify"} => copy[r].lockedUntil = NoLock \/ 0 \in T
    /\ stage[r] = "save" => copy[r] # Gone
    /\ stage[r] = "idle" => op[r] = "none"
    /\ op[r] = "enable" => stage[r] = "save" /\ ~ copy[r].disabled

(* The record and its copies, judged by the thresholds T. *)
Sound(T) == TypeOK /\ Agrees(row, T) /\ \A r \in Request : Holds(r, T)

(* The inductive invariant. *)
AccountInv == Sound(inForce) /\ setting.threshold \in inForce

(* A step that changes no setting, from a state judged by T; which         *)
(* thresholds are remembered after it is settled at the end (AccountStep). *)
Steady(T) ==
    /\ Sound(T) /\ setting.threshold \in T
    /\ setting' = setting /\ inForce' \in SUBSET Nat

----------------------------------------------------------------------------
(* The functions on records. *)

LEMMA UnlockedRecord ==
    ASSUME NEW c \in Record
    PROVE  /\ Unlocked(c) \in Record
           /\ Unlocked(c).attempts = 0
           /\ Unlocked(c).disabled = c.disabled
           /\ Unlocked(c).lockedUntil = NoLock
<1> DEFINE d == [c EXCEPT !.attempts = 0]
<1>1. d \in Record BY DEF Record
<1>2. Unlocked(c) = [d EXCEPT !.lockedUntil = NoLock] BY DEF Unlocked
<1>3. Unlocked(c) \in Record
  <2>1. NoLock \in Nat BY DEF NoLock
  <2> HIDE DEF d
  <2> QED BY <1>1, <1>2, <2>1 DEF Record
<1>4. /\ Unlocked(c).attempts = 0 /\ Unlocked(c).lockedUntil = NoLock
      /\ Unlocked(c).disabled = c.disabled
  BY DEF Unlocked, Record
<1> QED BY <1>3, <1>4

(* A record in which nothing is counted agrees with any thresholds. *)
LEMMA ClearAgrees ==
    ASSUME NEW c, Clear(c), NEW T \in SUBSET Nat, T # {}
    PROVE  Agrees(c, T)
<1>1. PICK t \in T : t \in Nat OBVIOUS
<1>2. t = 0 \/ 0 < t BY <1>1
<1> QED BY <1>1, <1>2 DEF Clear, Agrees

LEMMA UnlockedAgrees ==
    ASSUME NEW c \in Record, NEW T \in SUBSET Nat, T # {}
    PROVE  Agrees(Unlocked(c), T)
BY UnlockedRecord, ClearAgrees DEF Clear

(* recordFailedLogin, whatever the threshold is now. *)
LEMMA FailureRecord ==
    ASSUME NEW c \in Record, setting \in Setting, now \in Nat \ {0}
    PROVE  /\ OneMoreFailure(c) \in Record
           /\ OneMoreFailure(c).attempts = c.attempts + 1
           /\ OneMoreFailure(c).disabled = c.disabled
           /\ IF LockoutIsOn /\ c.attempts + 1 >= setting.threshold
              THEN OneMoreFailure(c).lockedUntil # NoLock
              ELSE OneMoreFailure(c).lockedUntil = c.lockedUntil
<1> DEFINE reached == LockoutIsOn /\ c.attempts + 1 >= setting.threshold
           until == IF reached THEN now + setting.duration ELSE c.lockedUntil
           d == [c EXCEPT !.attempts = @ + 1]
<1>1. d \in Record /\ d.attempts = c.attempts + 1 /\ d.disabled = c.disabled BY DEF Record
<1>2. OneMoreFailure(c) = [d EXCEPT !.lockedUntil = until] BY DEF OneMoreFailure
<1>3. until \in Nat /\ (reached => until # NoLock) BY DEF Setting, Record, NoLock
<1>4. OneMoreFailure(c) \in Record /\ OneMoreFailure(c).lockedUntil = until
      /\ OneMoreFailure(c).attempts = d.attempts /\ OneMoreFailure(c).disabled = d.disabled
  <2> HIDE DEF d, until
  <2> QED BY <1>1, <1>2, <1>3 DEF Record
<1> QED BY <1>1, <1>3, <1>4

(* A failure counted on a record that is not locked, or while lockout was  *)
(* off, keeps count and lock together.                                     *)
LEMMA FailureAgrees ==
    ASSUME NEW T \in SUBSET Nat, setting \in Setting, setting.threshold \in T, now \in Nat \ {0},
           NEW c \in Record, c # Gone, Agrees(c, T), c.lockedUntil = NoLock \/ 0 \in T
    PROVE  Agrees(OneMoreFailure(c), T)
<1> DEFINE d == OneMoreFailure(c)
           t == setting.threshold
<1>1. c.attempts \in Nat /\ t \in T /\ t \in Nat BY DEF Record, Setting
<1>2. /\ d.attempts = c.attempts + 1
      /\ IF t > 0 /\ c.attempts + 1 >= t THEN d.lockedUntil # NoLock
                                         ELSE d.lockedUntil = c.lockedUntil
  BY FailureRecord DEF LockoutIsOn
<1> HIDE DEF d, t
<1>3. \E u \in T : u = 0 \/ d.attempts <= u
  <2>1. CASE 0 \in T BY <2>1
  <2>2. CASE c.lockedUntil = NoLock
    <3>1. PICK u \in T : u = 0 \/ c.attempts < u BY <2>2 DEF Agrees
    <3> QED BY <1>1, <1>2, <3>1
  <2> QED BY <2>1, <2>2
<1>4. ASSUME d.lockedUntil # NoLock PROVE \E u \in T : 0 < u /\ u <= d.attempts
  <2>1. CASE t > 0 /\ c.attempts + 1 >= t BY <1>1, <1>2, <2>1
  <2>2. CASE ~ (t > 0 /\ c.attempts + 1 >= t)
    <3>1. PICK u \in T : 0 < u /\ u <= c.attempts BY <1>2, <1>4, <2>2 DEF Agrees
    <3> QED BY <1>1, <1>2, <3>1
  <2> QED BY <2>1, <2>2
<1>5. ASSUME d.lockedUntil = NoLock PROVE \E u \in T : u = 0 \/ d.attempts < u
  BY <1>1, <1>2, <1>5
<1>6. Agrees(d, T) BY <1>3, <1>4, <1>5 DEF Agrees
<1> QED BY <1>6 DEF d

(* AddToPasswordHistory keeps a sequence of passwords. *)
LEMMA HistoryIsSequence ==
    ASSUME NEW h \in Seq(Password), NEW p \in Password, setting \in Setting
    PROVE  AddToPasswordHistory(h, p) \in Seq(Password)
<1> DEFINE longer == Append(h, p)
           excess == Len(longer) - setting.remembered
<1>1. longer \in Seq(Password) /\ Len(longer) \in Nat OBVIOUS
<1>2. CASE excess > 0
  <2>1. excess + 1 \in Nat /\ excess + 1 >= 1
    BY <1>1, <1>2 DEF Setting
  <2>2. SubSeq(longer, excess + 1, Len(longer)) \in Seq(Password)
    BY <1>1, <2>1
  <2> QED BY <2>2, <1>2 DEF AddToPasswordHistory
<1>3. CASE ~ (excess > 0)
  BY <1>1, <1>3 DEF AddToPasswordHistory
<1> QED BY <1>2, <1>3

LEMMA RotatedRecord ==
    ASSUME NEW c \in Record, NEW p \in Password, setting \in Setting
    PROVE  /\ Rotated(c, p) \in Record
           /\ Rotated(c, p).attempts = c.attempts
           /\ Rotated(c, p).lockedUntil = c.lockedUntil
           /\ Rotated(c, p).disabled = c.disabled
<1> DEFINE d == [c EXCEPT !.hash = p]
           remembered == IF setting.remembered > 0 /\ c.hash # NoHash
                         THEN AddToPasswordHistory(c.history, c.hash) ELSE c.history
<1>1. d \in Record BY DEF Record
<1>2. Rotated(c, p) = [d EXCEPT !.history = remembered] BY DEF Rotated
<1>3. remembered \in Seq(Password)
  <2>1. c.hash \in Password \cup {NoHash} /\ c.history \in Seq(Password)
    BY DEF Record
  <2> QED BY <2>1, HistoryIsSequence
<1>4. Rotated(c, p) \in Record
  <2> HIDE DEF d, remembered
  <2> QED BY <1>1, <1>2, <1>3 DEF Record
<1> QED BY <1>4 DEF Rotated, Record

----------------------------------------------------------------------------
(* The shapes that steps are made of. *)

(* Request r enters stage s with copy c. *)
LEMMA EnterStep ==
    ASSUME TypeOK, NEW r \in Request, NEW s \in Stage,
           NEW c \in Record \cup {Gone}, Enter(r, s, c)
    PROVE  /\ stage' \in [Request -> Stage]
           /\ copy' \in [Request -> Record \cup {Gone}]
           /\ stage'[r] = s /\ copy'[r] = c
           /\ \A q \in Request \ {r} : stage'[q] = stage[q] /\ copy'[q] = copy[q]
BY DEF TypeOK, Enter

LEMMA FinishStep ==
    ASSUME TypeOK, NEW r \in Request, Finish(r)
    PROVE  /\ stage' \in [Request -> Stage]
           /\ copy' \in [Request -> Record \cup {Gone}]
           /\ op' \in [Request -> Operation]
           /\ password' \in [Request -> Password \cup {NoHash}]
           /\ viaLDAP' \in [Request -> BOOLEAN]
           /\ stage'[r] = "idle" /\ copy'[r] = Gone /\ op'[r] = "none"
           /\ \A q \in Request \ {r} : stage'[q] = stage[q] /\ copy'[q] = copy[q] /\ op'[q] = op[q]
BY EnterStep DEF TypeOK, Finish, Stage, Operation, Enter

(* Only request r moved, and it holds what it should. *)
LEMMA OthersHold ==
    ASSUME NEW T \in SUBSET Nat, Steady(T), NEW r \in Request,
           \A q \in Request \ {r} : stage'[q] = stage[q] /\ copy'[q] = copy[q] /\ op'[q] = op[q],
           Holds(r, T)'
    PROVE  \A q \in Request : Holds(q, T)'
BY DEF Steady, Sound, Holds, Agrees

(* The write of a copy that is held. *)
LEMMA WriteStep ==
    ASSUME NEW T \in SUBSET Nat, Steady(T), NEW r \in Request, copy[r] # Gone, UpdateUser(copy[r])
    PROVE  row' \in Record \cup {Gone} /\ Agrees(row', T)
BY DEF Steady, Sound, TypeOK, Holds, UpdateUser, Agrees

(* A handler that prepares the copy c. *)
LEMMA PrepareStep ==
    ASSUME NEW T \in SUBSET Nat, Steady(T), NEW r \in Request, NEW o \in Operation, NEW c \in Record,
           Prepare(r, o, c), Agrees(c, T), o = "enable" => ~ c.disabled
    PROVE  Sound(T)'
<1> USE DEF Steady, Sound
<1>1. c # Gone BY GoneIsNoRecord
<1>2. /\ stage' \in [Request -> Stage]
      /\ copy' \in [Request -> Record \cup {Gone}]
      /\ stage'[r] = "save" /\ copy'[r] = c
      /\ \A q \in Request \ {r} : stage'[q] = stage[q] /\ copy'[q] = copy[q]
  BY EnterStep DEF Prepare, Stage
<1>3. op' \in [Request -> Operation] /\ op'[r] = o
      /\ \A q \in Request \ {r} : op'[q] = op[q]
  BY DEF Prepare, TypeOK
<1>4. row' = row /\ now' = now /\ decision' = decision /\ failures' \in Nat \cup {Overlapped}
  BY DEF Prepare, Begin, TypeOK
<1>5. password' = password /\ viaLDAP' = viaLDAP BY DEF Prepare
<1>6. TypeOK' BY <1>2, <1>3, <1>4, <1>5 DEF TypeOK
<1>7. Holds(r, T)' BY <1>1, <1>2, <1>3 DEF Holds, Agrees
<1>8. \A q \in Request : Holds(q, T)' BY <1>2, <1>3, <1>7, OthersHold
<1>9. Agrees(row, T)' BY <1>4 DEF Agrees
<1> QED BY <1>6, <1>8, <1>9

----------------------------------------------------------------------------
(* The handlers of the administrator and of the user. *)

LEMMA AdministerStep ==
    ASSUME NEW T \in SUBSET Nat, Steady(T), NEW r \in Request, Administer(r)
    PROVE  Sound(T)'
<1> USE DEF Steady, Sound
<1>1. row # Gone => row \in Record BY DEF TypeOK
<1>2. ASSUME NEW b \in BOOLEAN, SetDisabled(r, b)
      PROVE  Sound(T)'
  <2> DEFINE c == [row EXCEPT !.disabled = b]
             o == IF b THEN "disable" ELSE "enable"
  <2>1. row # Gone BY <1>2 DEF SetDisabled, Prepare, Begin
  <2>2. c \in Record /\ Agrees(c, T) /\ c.disabled = b
    BY <1>1, <2>1 DEF Record, Agrees
  <2>3. o \in Operation /\ (o = "enable" => ~ b) BY DEF Operation
  <2>4. Prepare(r, o, c) BY <1>2 DEF SetDisabled
  <2> HIDE DEF c, o
  <2> QED BY <2>2, <2>3, <2>4, PrepareStep
<1>3. CASE UnlockAccount(r)
  <2>1. row # Gone BY <1>3 DEF UnlockAccount, Prepare, Begin
  <2>2. Unlocked(row) \in Record /\ Agrees(Unlocked(row), T)
    BY <1>1, <2>1, UnlockedRecord, UnlockedAgrees
  <2>3. "unlock" \in Operation BY DEF Operation
  <2> QED BY <1>3, <2>2, <2>3, PrepareStep DEF UnlockAccount
<1>4. CASE UpdateProfile(r)
  <2>1. row # Gone BY <1>4 DEF UpdateProfile, Prepare, Begin
  <2>2. "profile" \in Operation BY DEF Operation
  <2> QED BY <1>1, <1>4, <2>1, <2>2, PrepareStep DEF UpdateProfile
<1>5. ASSUME NEW p \in Password, NEW force \in BOOLEAN, SetPassword(r, p, force)
      PROVE  Sound(T)'
  <2> DEFINE c == [Rotated(row, p) EXCEPT !.force = force]
  <2>1. row # Gone BY <1>5 DEF SetPassword
  <2>2. /\ Rotated(row, p) \in Record
        /\ Rotated(row, p).attempts = row.attempts
        /\ Rotated(row, p).lockedUntil = row.lockedUntil
    BY <1>1, <2>1, RotatedRecord DEF TypeOK
  <2>3. c \in Record /\ Agrees(c, T)
    BY <1>1, <2>1, <2>2 DEF Record, Agrees
  <2>4. "password" \in Operation BY DEF Operation
  <2>5. Prepare(r, "password", c) BY <1>5 DEF SetPassword
  <2> HIDE DEF c
  <2> QED BY <2>3, <2>4, <2>5, PrepareStep
<1>6. ASSUME NEW p \in Password, OverwritePassword(r, p)
      PROVE  Sound(T)'
  <2> DEFINE d == [row EXCEPT !.hash = p]
             flag == Kind = "applocal" /\ row.force
             c == [d EXCEPT !.force = flag]
  <2>1. row # Gone BY <1>6 DEF OverwritePassword, Prepare, Begin
  <2>2. d \in Record /\ d.attempts = row.attempts /\ d.lockedUntil = row.lockedUntil
    BY <1>1, <2>1 DEF Record
  <2>3. flag \in BOOLEAN OBVIOUS
  <2>4. c \in Record /\ Agrees(c, T)
    <3> HIDE DEF d, flag
    <3> QED BY <2>1, <2>2, <2>3 DEF Record, Agrees
  <2>5. "password" \in Operation BY DEF Operation
  <2>6. Prepare(r, "password", c) BY <1>6 DEF OverwritePassword
  <2> HIDE DEF c
  <2> QED BY <2>4, <2>5, <2>6, PrepareStep
<1>7. ASSUME NEW p \in Password, NEW q \in Password, ResetPassword(r, p, q)
      PROVE  Sound(T)'
  <2> DEFINE c == [Rotated(row, q) EXCEPT !.force = FALSE]
  <2>1. row # Gone BY <1>7 DEF ResetPassword
  <2>2. /\ Rotated(row, q) \in Record
        /\ Rotated(row, q).attempts = row.attempts
        /\ Rotated(row, q).lockedUntil = row.lockedUntil
    BY <1>1, <2>1, RotatedRecord DEF TypeOK
  <2>3. c \in Record /\ Agrees(c, T)
    BY <1>1, <2>1, <2>2 DEF Record, Agrees
  <2>4. "reset" \in Operation BY DEF Operation
  <2>5. Prepare(r, "reset", c) BY <1>7 DEF ResetPassword
  <2> HIDE DEF c
  <2> QED BY <2>3, <2>4, <2>5, PrepareStep
<1>8. CASE Save(r)
  <2>1. copy[r] # Gone BY <1>8 DEF Save, Holds
  <2>2. row' \in Record \cup {Gone} /\ Agrees(row', T)
    BY <1>8, <2>1, WriteStep DEF Save
  <2>3. failures' \in Nat \cup {Overlapped}
    BY <1>8 DEF Save, CountReset, TypeOK
  <2>4. decision' \in BOOLEAN /\ now' = now BY <1>8 DEF Save, TypeOK
  <2>5. Finish(r) BY <1>8 DEF Save
  <2>6. TypeOK' BY <2>2, <2>3, <2>4, <2>5, FinishStep DEF TypeOK
  <2>7. Holds(r, T)' BY <2>5, FinishStep DEF Holds, Agrees
  <2>8. \A q \in Request : Holds(q, T)' BY <2>5, <2>7, FinishStep, OthersHold
  <2> QED BY <2>2, <2>6, <2>8 DEF Agrees
<1> QED BY <1>2, <1>3, <1>4, <1>5, <1>6, <1>7, <1>8 DEF Administer

----------------------------------------------------------------------------
(* The steps of a login. *)

(* Request r goes on with its login: at stage s, with copy c.              *)
LEMMA LoginGoesOn ==
    ASSUME NEW T \in SUBSET Nat, Steady(T), NEW r \in Request,
           NEW s \in {"unlock", "verify", "fail", "final", "clear", "sync"},
           NEW c \in Record \cup {Gone}, Enter(r, s, c),
           op' \in [Request -> Operation], op'[r] # "enable",
           \A q \in Request \ {r} : op'[q] = op[q],
           password' \in [Request -> Password \cup {NoHash}],
           viaLDAP' \in [Request -> BOOLEAN],
           now' = now, decision' = decision, failures' \in Nat \cup {Overlapped},
           row' \in Record \cup {Gone}, Agrees(row', T), Agrees(c, T),
           s = "final" => c = Gone,
           s # "final" => c # Gone /\ ~ c.disabled,
           s \in {"unlock", "verify"} => c.lockedUntil = NoLock \/ 0 \in T
    PROVE  Sound(T)'
<1> USE DEF Steady, Sound
<1>1. s \in Stage BY DEF Stage
<1>2. /\ stage' \in [Request -> Stage]
      /\ copy' \in [Request -> Record \cup {Gone}]
      /\ stage'[r] = s /\ copy'[r] = c
      /\ \A q \in Request \ {r} : stage'[q] = stage[q] /\ copy'[q] = copy[q]
  BY <1>1, EnterStep
<1>3. TypeOK' BY <1>2 DEF TypeOK
<1>4. Holds(r, T)' BY <1>2 DEF Holds, Agrees
<1>5. \A q \in Request : Holds(q, T)' BY <1>2, <1>4, OthersHold
<1> QED BY <1>3, <1>5 DEF Agrees

(* Request r ends its login. *)
LEMMA LoginEnds ==
    ASSUME NEW T \in SUBSET Nat, Steady(T), NEW r \in Request, Finish(r),
           now' = now, decision' = decision, failures' \in Nat \cup {Overlapped},
           row' \in Record \cup {Gone}, Agrees(row', T)
    PROVE  Sound(T)'
<1> USE DEF Steady, Sound
<1>1. TypeOK' BY FinishStep DEF TypeOK
<1>2. Holds(r, T)' BY FinishStep DEF Holds, Agrees
<1>3. \A q \in Request : Holds(q, T)' BY <1>2, FinishStep, OthersHold
<1> QED BY <1>1, <1>3 DEF Agrees

LEMMA LoginReadStep ==
    ASSUME NEW T \in SUBSET Nat, Steady(T), NEW r \in Request, NEW p \in Password, LoginRead(r, p)
    PROVE  Sound(T)'
<1> USE DEF Steady, Sound
<1>1. /\ row' = row /\ now' = now /\ decision' = decision
      /\ failures' \in Nat \cup {Overlapped} /\ row # Gone
  BY DEF LoginRead, Begin, TypeOK
<1>2. row \in Record BY <1>1 DEF TypeOK
<1>3. CASE row.disabled \/ Locked(row)
  <2>1. UNCHANGED reqVars BY <1>3 DEF LoginRead
  <2> QED BY <1>1, <2>1 DEF reqVars, TypeOK, Holds, Agrees
<1>4. CASE ~ (row.disabled \/ Locked(row))
  <2>1. /\ op' = [op EXCEPT ![r] = "login"]
        /\ password' = [password EXCEPT ![r] = p]
        /\ viaLDAP' = viaLDAP
    BY <1>4 DEF LoginRead
  <2>2. /\ op' \in [Request -> Operation] /\ op'[r] = "login"
        /\ \A q \in Request \ {r} : op'[q] = op[q]
        /\ password' \in [Request -> Password \cup {NoHash}]
        /\ viaLDAP' \in [Request -> BOOLEAN]
    BY <2>1 DEF TypeOK, Operation
  <2>3. CASE LockExpired(row)
    <3>1. Enter(r, "unlock", Unlocked(row)) BY <1>4, <2>3 DEF LoginRead
    <3>2. /\ Unlocked(row) \in Record /\ Unlocked(row) # Gone
          /\ Agrees(Unlocked(row), T) /\ ~ Unlocked(row).disabled
          /\ Unlocked(row).lockedUntil = NoLock
      BY <1>2, <1>4, UnlockedRecord, UnlockedAgrees, GoneIsNoRecord
    <3> QED BY <1>1, <2>2, <3>1, <3>2, LoginGoesOn DEF TypeOK
  <2>4. CASE ~ LockExpired(row)
    <3>1. Enter(r, "verify", row) BY <1>4, <2>4 DEF LoginRead
    <3>2. row.lockedUntil = NoLock \/ 0 \in T
      BY <1>2, <1>4, <2>4 DEF Locked, LockExpired, LockoutIsOn, Record, Setting, TypeOK, NoLock
    <3> QED BY <1>1, <1>2, <1>4, <2>2, <3>1, <3>2, LoginGoesOn
  <2> QED BY <2>3, <2>4
<1> QED BY <1>3, <1>4

LEMMA LoginStep ==
    ASSUME NEW T \in SUBSET Nat, Steady(T), NEW r \in Request, Login(r)
    PROVE  Sound(T)'
<1> USE DEF Steady, Sound
<1>1. ASSUME NEW p \in Password, LoginRead(r, p)
      PROVE  Sound(T)'
  BY <1>1, LoginReadStep
<1>2. CASE ClearExpiredLock(r)
  <2>1. /\ copy[r] # Gone /\ copy[r] \in Record /\ ~ copy[r].disabled
        /\ copy[r].lockedUntil = NoLock \/ 0 \in T
        /\ Agrees(copy[r], T) /\ op[r] # "enable"
    BY <1>2 DEF ClearExpiredLock, Holds, TypeOK
  <2>2. row' \in Record \cup {Gone} /\ Agrees(row', T)
    BY <1>2, <2>1, WriteStep DEF ClearExpiredLock
  <2>3. failures' \in Nat \cup {Overlapped}
    BY <1>2 DEF ClearExpiredLock, CountReset, TypeOK
  <2> QED BY <1>2, <2>1, <2>2, <2>3, LoginGoesOn DEF ClearExpiredLock, TypeOK
<1>3. CASE VerifyLocal(r)
  <2>1. row' = row /\ now' = now /\ decision' = decision BY <1>3 DEF VerifyLocal
  <2>2. failures' \in Nat \cup {Overlapped}
    BY <1>3 DEF VerifyLocal, CountReset, TypeOK
  <2>3. CASE Kind = "applocal"
    <3>1. Finish(r) BY <1>3, <2>3 DEF VerifyLocal
    <3> QED BY <2>1, <2>2, <3>1, LoginEnds DEF TypeOK
  <2>4. CASE Kind # "applocal"
    <3>1. op[r] # "enable" BY <1>3 DEF VerifyLocal, Holds
    <3>2. Agrees(Gone, T) BY DEF Agrees
    <3> QED BY <1>3, <2>1, <2>2, <2>4, <3>1, <3>2, LoginGoesOn DEF VerifyLocal, TypeOK
  <2> QED BY <2>3, <2>4
<1>4. CASE VerifyLDAP(r)
  <2>1. op[r] # "enable" BY <1>4 DEF VerifyLDAP, Holds
  <2>2. Agrees(Gone, T) BY DEF Agrees
  <2>3. viaLDAP' \in [Request -> BOOLEAN] BY <1>4 DEF VerifyLDAP, TypeOK
  <2> QED BY <1>4, <2>1, <2>2, <2>3, LoginGoesOn DEF VerifyLDAP, TypeOK
<1>5. CASE VerifyFails(r)
  <2>1. /\ copy[r] # Gone /\ copy[r] \in Record /\ ~ copy[r].disabled
        /\ copy[r].lockedUntil = NoLock \/ 0 \in T
        /\ Agrees(copy[r], T) /\ op[r] # "enable"
    BY <1>5 DEF VerifyFails, Holds, TypeOK
  <2>2. /\ OneMoreFailure(copy[r]) \in Record /\ OneMoreFailure(copy[r]) # Gone
        /\ Agrees(OneMoreFailure(copy[r]), T) /\ ~ OneMoreFailure(copy[r]).disabled
    BY <2>1, FailureRecord, FailureAgrees, GoneIsNoRecord DEF TypeOK
  <2> QED BY <1>5, <2>1, <2>2, LoginGoesOn DEF VerifyFails, TypeOK
<1>6. CASE RecordFailedLogin(r)
  <2>1. copy[r] # Gone BY <1>6 DEF RecordFailedLogin, Holds
  <2>2. row' \in Record \cup {Gone} /\ Agrees(row', T)
    BY <1>6, <2>1, WriteStep DEF RecordFailedLogin
  <2>3. failures' \in Nat \cup {Overlapped}
    BY <1>6 DEF RecordFailedLogin, CountRefusal, TypeOK, Overlapped
  <2> QED BY <1>6, <2>2, <2>3, LoginEnds DEF RecordFailedLogin
<1>7. CASE FinalRead(r)
  <2>1. /\ row' = row /\ now' = now /\ decision' = decision /\ failures' = failures
    BY <1>7 DEF FinalRead
  <2>2. CASE Finish(r)
    BY <2>1, <2>2, LoginEnds DEF TypeOK
  <2>3. CASE /\ row # Gone /\ ~ row.disabled
             /\ IF row.attempts > 0 THEN Enter(r, "clear", Unlocked(row))
                                    ELSE Enter(r, "sync", row)
             /\ UNCHANGED <<op, password, viaLDAP>>
    <3>1. row \in Record BY <2>3 DEF TypeOK
    <3>2. op[r] # "enable" BY <1>7 DEF FinalRead, Holds
    <3>3. /\ Unlocked(row) \in Record /\ Unlocked(row) # Gone
          /\ Agrees(Unlocked(row), T) /\ ~ Unlocked(row).disabled
      BY <2>3, <3>1, UnlockedRecord, UnlockedAgrees, GoneIsNoRecord
    <3>4. CASE row.attempts > 0
      BY <2>1, <2>3, <3>1, <3>2, <3>3, <3>4, LoginGoesOn DEF TypeOK
    <3>5. CASE ~ (row.attempts > 0)
      BY <2>1, <2>3, <3>1, <3>2, <3>5, LoginGoesOn DEF TypeOK
    <3> QED BY <3>4, <3>5
  <2> QED BY <1>7, <2>2, <2>3 DEF FinalRead
<1>8. CASE ClearAttempts(r)
  <2>1. /\ copy[r] # Gone /\ copy[r] \in Record /\ ~ copy[r].disabled
        /\ Agrees(copy[r], T) /\ op[r] # "enable"
    BY <1>8 DEF ClearAttempts, Holds, TypeOK
  <2>2. row' \in Record \cup {Gone} /\ Agrees(row', T)
    BY <1>8, <2>1, WriteStep DEF ClearAttempts
  <2> QED BY <1>8, <2>1, <2>2, LoginGoesOn DEF ClearAttempts, TypeOK
<1>9. CASE SyncUserFromLDAP(r)
  <2>1. copy[r] # Gone BY <1>9 DEF SyncUserFromLDAP, Holds
  <2>2. UpdateUser(copy[r]) \/ UNCHANGED row BY <1>9 DEF SyncUserFromLDAP
  <2>3. row' \in Record \cup {Gone} /\ Agrees(row', T)
    BY <2>1, <2>2, WriteStep DEF TypeOK
  <2>4. failures' \in Nat \cup {Overlapped}
    BY <1>9 DEF SyncUserFromLDAP, CountReset, TypeOK
  <2> QED BY <1>9, <2>3, <2>4, LoginEnds DEF SyncUserFromLDAP
<1> QED BY <1>1, <1>2, <1>3, <1>4, <1>5, <1>6, <1>7, <1>8, <1>9 DEF Login

----------------------------------------------------------------------------
(* Only ChangeSettings changes the settings. *)
LEMMA LoginSetting ==
    ASSUME NEW r \in Request, Login(r)
    PROVE  setting' = setting
BY DEF Login, LoginRead, Begin, ClearExpiredLock, VerifyLocal, VerifyLDAP, VerifyFails,
       RecordFailedLogin, FinalRead, ClearAttempts, SyncUserFromLDAP

LEMMA AdministerSetting ==
    ASSUME NEW r \in Request, Administer(r)
    PROVE  setting' = setting
BY DEF Administer, SetDisabled, UnlockAccount, UpdateProfile, SetPassword, OverwritePassword,
       ResetPassword, Prepare, Begin, Save

LEMMA StepSetting ==
    ASSUME TypeOK, Next
    PROVE  setting' \in Setting
<1>1. ASSUME NEW r \in Request, Login(r) \/ Administer(r)
      PROVE  setting' = setting
  BY <1>1, LoginSetting, AdministerSetting
<1>2. CASE DeleteUser \/ Tick BY <1>2 DEF DeleteUser, Tick, TypeOK
<1>3. CASE ChangeSettings BY <1>3, SettingsAreSettings DEF ChangeSettings
<1> QED BY <1>1, <1>2, <1>3 DEF Next, TypeOK

----------------------------------------------------------------------------
LEMMA AccountInit == Init => AccountInv
<1> SUFFICES ASSUME Init PROVE AccountInv OBVIOUS
<1>1. PICK h \in Password \cup {NoHash} :
          row = [disabled |-> FALSE, attempts |-> 0, lockedUntil |-> NoLock,
                 hash |-> h, history |-> <<>>, force |-> FALSE]
  BY DEF Init
<1>2. row \in Record BY <1>1 DEF Record, NoLock
<1>3. /\ now \in Nat \ {0}
      /\ decision \in BOOLEAN
      /\ failures \in Nat \cup {Overlapped}
  <2>1. now \in Nat \ {0} BY DEF Init
  <2>2. decision \in BOOLEAN BY Zenon DEF Init
  <2>3. failures \in Nat \cup {Overlapped} BY DEF Init
  <2> QED BY <2>1, <2>2, <2>3
<1>4. /\ op \in [Request -> Operation]
      /\ stage \in [Request -> Stage]
      /\ copy \in [Request -> Record \cup {Gone}]
      /\ password \in [Request -> Password \cup {NoHash}]
      /\ viaLDAP \in [Request -> BOOLEAN]
  <2>1. /\ op = [r \in Request |-> "none"]
        /\ stage = [r \in Request |-> "idle"]
        /\ copy = [r \in Request |-> Gone]
        /\ password = [r \in Request |-> NoHash]
        /\ viaLDAP = [r \in Request |-> FALSE]
    BY DEF Init
  <2> QED BY <2>1 DEF Operation, Stage
<1>5. setting \in Setting /\ inForce = {setting.threshold} /\ inForce \in SUBSET Nat
  BY SettingsAreSettings DEF Init, Setting
<1>6. TypeOK BY <1>2, <1>3, <1>4, <1>5 DEF TypeOK
<1>7. Agrees(row, inForce) BY <1>1, <1>5, ClearAgrees DEF Clear
<1>8. \A r \in Request : Holds(r, inForce) BY DEF Init, Holds, Agrees
<1> QED BY <1>5, <1>6, <1>7, <1>8 DEF AccountInv, Sound

(* What stays sound by the thresholds so far is sound by those that are     *)
(* remembered: more of them, or one alone when nothing is counted.         *)
LEMMA RememberStep ==
    ASSUME NEW T \in SUBSET Nat, T = inForce, Remember, setting' \in Setting,
           NEW U \in SUBSET Nat, U = T \cup {setting'.threshold}, Sound(U)'
    PROVE  AccountInv'
<1>1. setting'.threshold \in Nat BY DEF Setting
<1>2. CASE ~ AllClear'
  <2>1. inForce' = U BY <1>2 DEF Remember
  <2> QED BY <2>1 DEF AccountInv
<1>3. CASE AllClear'
  <2>1. inForce' = {setting'.threshold} BY <1>3 DEF Remember
  <2>2. TypeOK' BY DEF Sound
  <2>3. Agrees(row, inForce)'
    BY <1>1, <1>3, <2>1 DEF AllClear, Clear, Agrees
  <2>4. ASSUME NEW r \in Request PROVE Holds(r, inForce)'
    <3>1. Clear(copy[r])' BY <1>3 DEF AllClear
    <3>2. Agrees(copy[r], inForce)' BY <1>1, <2>1, <3>1 DEF Clear, Agrees
    <3>3. copy'[r] # Gone => copy'[r].lockedUntil = NoLock BY <3>1 DEF Clear
    <3>4. Holds(r, U)' BY DEF Sound
    <3> QED BY <3>2, <3>3, <3>4 DEF Holds
  <2> QED BY <2>1, <2>2, <2>3, <2>4 DEF AccountInv, Sound
<1> QED BY <1>2, <1>3

LEMMA AccountStep == AccountInv /\ [Next]_vars => AccountInv'
<1> SUFFICES ASSUME AccountInv, [Next]_vars PROVE AccountInv' OBVIOUS
<1>1. PICK T : T = inForce OBVIOUS
<1>2. Sound(T) /\ T \in SUBSET Nat /\ setting.threshold \in T
  BY <1>1 DEF AccountInv, Sound, TypeOK
<1>3. CASE UNCHANGED vars
  BY <1>3 DEF vars, reqVars, AccountInv, Sound, TypeOK, Holds, Agrees
<1>4. CASE Next
  <2>1. Remember BY <1>4 DEF Next
  <2>2. setting' \in Setting /\ inForce' \in SUBSET Nat
    <3>1. setting' \in Setting
      BY <1>2, <1>4, StepSetting DEF Sound
    <3> QED BY <1>1, <1>2, <2>1, <3>1 DEF Remember, Setting
  <2>3. ASSUME setting' = setting, Sound(T)' PROVE AccountInv'
    <3>1. T \cup {setting'.threshold} = T BY <1>2, <2>3
    <3> QED BY <1>1, <1>2, <2>1, <2>2, <2>3, <3>1, RememberStep
  <2>4. ASSUME setting' = setting PROVE Steady(T)
    BY <1>2, <2>2, <2>4 DEF Steady
  <2>5. ASSUME NEW r \in Request, Login(r)
        PROVE  AccountInv'
    <3>1. setting' = setting BY <2>5, LoginSetting
    <3> QED BY <1>2, <2>3, <2>4, <2>5, <3>1, LoginStep
  <2>6. ASSUME NEW r \in Request, Administer(r)
        PROVE  AccountInv'
    <3>1. setting' = setting BY <2>6, AdministerSetting
    <3> QED BY <1>2, <2>3, <2>4, <2>6, <3>1, AdministerStep
  <2>7. CASE DeleteUser
    <3>1. setting' = setting BY <2>7 DEF DeleteUser
    <3>2. Sound(T)'
      BY <1>2, <2>2, <2>7 DEF DeleteUser, Sound, TypeOK, reqVars, Holds, Agrees
    <3> QED BY <2>3, <3>1, <3>2
  <2>8. CASE Tick
    <3>1. setting' = setting BY <2>8 DEF Tick
    <3>2. Sound(T)'
      BY <1>2, <2>2, <2>8 DEF Tick, Sound, TypeOK, reqVars, Holds, Agrees
    <3> QED BY <2>3, <3>1, <3>2
  <2>9. CASE ChangeSettings
    <3> PICK U : U = T \cup {setting'.threshold} OBVIOUS
    <3>1. U \in SUBSET Nat BY <1>2, <2>2 DEF Setting
    <3>2. Agrees(row, U)' BY <1>2, <2>9 DEF ChangeSettings, Sound, Agrees
    <3>3. ASSUME NEW r \in Request PROVE Holds(r, U)'
      <4>1. Holds(r, T) BY <1>2 DEF Sound
      <4> QED BY <2>9, <4>1 DEF ChangeSettings, reqVars, Holds, Agrees
    <3>4. TypeOK' BY <1>2, <2>2, <2>9 DEF ChangeSettings, Sound, TypeOK, reqVars
    <3>5. Sound(U)' BY <3>2, <3>3, <3>4 DEF Sound
    <3> QED BY <1>1, <1>2, <2>1, <2>2, <3>1, <3>5, RememberStep
  <2> QED BY <1>4, <2>5, <2>6, <2>7, <2>8, <2>9 DEF Next
<1> QED BY <1>3, <1>4

(* The inductive invariant: the record and every copy of it are            *)
(* consistent, and a login holds no record that is disabled.               *)
THEOREM AccountInvariant == Spec => []AccountInv
BY AccountInit, AccountStep, PTL DEF Spec

(* Everything stays in its type. *)
THEOREM AccountTypes == Spec => []TypeOK
<1>1. AccountInv => TypeOK BY DEF AccountInv, Sound
<1> QED BY <1>1, AccountInvariant, PTL

(* However many requests overlap, whatever updates are lost and however    *)
(* often the threshold changes, the count of failures and the lock agree   *)
(* with the thresholds in force since the record was last clear.           *)
THEOREM LockConsistency == Spec => []LockMatchesAttempts
<1>1. AccountInv => LockMatchesAttempts
  BY DEF AccountInv, Sound, LockMatchesAttempts
<1> QED BY <1>1, AccountInvariant, PTL

----------------------------------------------------------------------------
(* Begin and Prepare need a record, every other write is an UpdateUser.    *)
LEMMA GoneStep ==
    ASSUME [Next]_vars, row = Gone
    PROVE  row' = Gone
<1>1. ASSUME NEW r \in Request, Login(r)
      PROVE  row' = Gone
  BY <1>1 DEF Login, LoginRead, Begin, ClearExpiredLock, VerifyLocal, VerifyLDAP, VerifyFails,
              RecordFailedLogin, FinalRead, ClearAttempts, SyncUserFromLDAP, UpdateUser
<1>2. ASSUME NEW r \in Request, Administer(r)
      PROVE  row' = Gone
  BY <1>2 DEF Administer, SetDisabled, UnlockAccount, UpdateProfile, SetPassword, OverwritePassword,
              ResetPassword, Prepare, Begin, Save, UpdateUser
<1>3. CASE DeleteUser BY <1>3 DEF DeleteUser
<1>4. CASE Tick BY <1>4 DEF Tick
<1>5. CASE ChangeSettings BY <1>5 DEF ChangeSettings
<1>6. CASE UNCHANGED vars BY <1>6 DEF vars
<1> QED BY <1>1, <1>2, <1>3, <1>4, <1>5, <1>6 DEF Next

(* No handler that read the user before the deletion brings it back.       *)
THEOREM Deletion == Spec => DeletedStaysDeleted
<1>1. [Next]_vars => [row = Gone => row' = Gone]_vars BY GoneStep
<1> QED BY <1>1, PTL DEF Spec, DeletedStaysDeleted

----------------------------------------------------------------------------
(* What DisabledIsFinal asks of a step. *)
StaysDisabled ==
    /\ \/ DisabledForAll'
       \/ row' = Gone
       \/ \E r \in Request : op[r] # "enable" /\ op'[r] = "enable"
    /\ \A r \in Request : ~ Granted(r)

(* When the account is disabled for all, no login is past its first read   *)
(* except those about to read again.                                       *)
LEMMA NobodyInside ==
    ASSUME AccountInv, DisabledForAll, NEW r \in Request
    PROVE  stage[r] \in {"idle", "final", "save"}
BY DEF AccountInv, Sound, TypeOK, Holds, Stage, DisabledForAll

(* A handler that prepares a copy which is still disabled. *)
LEMMA PrepareStaysDisabled ==
    ASSUME AccountInv, DisabledForAll, NEW r \in Request, NEW o \in Operation, NEW c \in Record,
           Prepare(r, o, c), c.disabled
    PROVE  StaysDisabled
<1> USE DEF AccountInv, Sound
<1>1. "save" \in Stage BY DEF Stage
<1>2. /\ stage'[r] = "save" /\ copy'[r] = c
      /\ \A q \in Request \ {r} : stage'[q] = stage[q] /\ copy'[q] = copy[q]
  BY <1>1, EnterStep DEF Prepare
<1>3. row' = row BY DEF Prepare, Begin
<1>4. DisabledForAll' BY <1>2, <1>3 DEF DisabledForAll
<1>5. \A q \in Request : ~ Granted(q) BY <1>2, NobodyInside DEF Granted
<1> QED BY <1>4, <1>5 DEF StaysDisabled

LEMMA DisabledStep ==
    ASSUME AccountInv, DisabledForAll, [Next]_vars
    PROVE  StaysDisabled
<1> USE DEF AccountInv, Sound
<1>1. row \in Record /\ row # Gone /\ row.disabled BY DEF TypeOK, DisabledForAll
<1>2. ASSUME NEW r \in Request, Login(r)
      PROVE  StaysDisabled
  <2>1. stage[r] \in {"idle", "final", "save"} BY NobodyInside
  <2>2. CASE \E p \in Password : LoginRead(r, p)
    <3>1. row' = row /\ UNCHANGED reqVars
      BY <2>2, <1>1 DEF LoginRead, Begin
    <3>2. \A q \in Request : ~ Granted(q) BY <3>1 DEF reqVars, Granted
    <3> QED BY <3>1, <3>2 DEF reqVars, DisabledForAll, StaysDisabled
  <2>3. CASE FinalRead(r)
    <3>1. Finish(r) /\ row' = row BY <2>3, <1>1 DEF FinalRead
    <3>2. DisabledForAll' BY <3>1, FinishStep DEF DisabledForAll
    <3>3. stage[r] = "final" BY <2>3 DEF FinalRead
    <3>4. \A q \in Request : ~ Granted(q)
      BY <3>1, <3>3, FinishStep, NobodyInside DEF Granted
    <3> QED BY <3>2, <3>4 DEF StaysDisabled
  <2> QED
    BY <1>2, <2>1, <2>2, <2>3
       DEF Login, ClearExpiredLock, VerifyLocal, VerifyLDAP, VerifyFails, RecordFailedLogin,
           ClearAttempts, SyncUserFromLDAP
<1>3. ASSUME NEW r \in Request, Administer(r)
      PROVE  StaysDisabled
  <2>1. ASSUME NEW b \in BOOLEAN, SetDisabled(r, b)
        PROVE  StaysDisabled
    <3> DEFINE c == [row EXCEPT !.disabled = b]
    <3>1. c \in Record /\ c.disabled = b BY <1>1 DEF Record
    <3>2. CASE b
      <4>1. "disable" \in Operation BY DEF Operation
      <4>2. Prepare(r, "disable", c) BY <2>1, <3>2 DEF SetDisabled
      <4> HIDE DEF c
      <4> QED BY <3>1, <3>2, <4>1, <4>2, PrepareStaysDisabled
    <3>3. CASE ~ b
      <4>1. Prepare(r, "enable", c) BY <2>1, <3>3 DEF SetDisabled
      <4>2. stage[r] = "idle" /\ op'[r] = "enable"
        BY <4>1 DEF Prepare, Begin, TypeOK
      <4>3. op[r] # "enable" BY <4>2 DEF Holds
      <4>4. "save" \in Stage BY DEF Stage
      <4>5. \A q \in Request : ~ Granted(q)
        BY <3>1, <4>1, <4>4, EnterStep, NobodyInside DEF Granted, Prepare
      <4> QED BY <4>2, <4>3, <4>5 DEF StaysDisabled
    <3> QED BY <3>2, <3>3
  <2>2. CASE UnlockAccount(r)
    <3>1. "unlock" \in Operation BY DEF Operation
    <3> QED BY <1>1, <2>2, <3>1, UnlockedRecord, PrepareStaysDisabled DEF UnlockAccount
  <2>3. CASE UpdateProfile(r)
    <3>1. "profile" \in Operation BY DEF Operation
    <3> QED BY <1>1, <2>3, <3>1, PrepareStaysDisabled DEF UpdateProfile
  <2>4. ASSUME NEW p \in Password, NEW force \in BOOLEAN, SetPassword(r, p, force)
        PROVE  StaysDisabled
    <3> DEFINE c == [Rotated(row, p) EXCEPT !.force = force]
    <3>1. Rotated(row, p) \in Record /\ Rotated(row, p).disabled = row.disabled
      BY <1>1, RotatedRecord DEF TypeOK
    <3>2. c \in Record /\ c.disabled BY <1>1, <3>1 DEF Record
    <3>3. "password" \in Operation BY DEF Operation
    <3>4. Prepare(r, "password", c) BY <2>4 DEF SetPassword
    <3> HIDE DEF c
    <3> QED BY <3>2, <3>3, <3>4, PrepareStaysDisabled
  <2>5. ASSUME NEW p \in Password, OverwritePassword(r, p)
        PROVE  StaysDisabled
    <3> DEFINE d == [row EXCEPT !.hash = p]
               flag == Kind = "applocal" /\ row.force
               c == [d EXCEPT !.force = flag]
    <3>1. d \in Record /\ d.disabled BY <1>1 DEF Record
    <3>2. flag \in BOOLEAN OBVIOUS
    <3>3. c \in Record /\ c.disabled
      <4> HIDE DEF d, flag
      <4> QED BY <3>1, <3>2 DEF Record
    <3>4. "password" \in Operation BY DEF Operation
    <3>5. Prepare(r, "password", c) BY <2>5 DEF OverwritePassword
    <3> HIDE DEF c
    <3> QED BY <3>3, <3>4, <3>5, PrepareStaysDisabled
  <2>6. ASSUME NEW p \in Password, NEW q \in Password, ResetPassword(r, p, q)
        PROVE  StaysDisabled
    <3> DEFINE c == [Rotated(row, q) EXCEPT !.force = FALSE]
    <3>1. Rotated(row, q) \in Record /\ Rotated(row, q).disabled = row.disabled
      BY <1>1, RotatedRecord DEF TypeOK
    <3>2. c \in Record /\ c.disabled BY <1>1, <3>1 DEF Record
    <3>3. "reset" \in Operation BY DEF Operation
    <3>4. Prepare(r, "reset", c) BY <2>6 DEF ResetPassword
    <3> HIDE DEF c
    <3> QED BY <3>2, <3>3, <3>4, PrepareStaysDisabled
  <2>7. CASE Save(r)
    <3>1. copy[r] # Gone /\ copy[r].disabled BY <2>7 DEF Save, Holds, DisabledForAll
    <3>2. row' = copy[r] /\ Finish(r) BY <2>7, <1>1 DEF Save, UpdateUser
    <3>3. DisabledForAll' BY <3>1, <3>2, FinishStep DEF DisabledForAll
    <3>4. \A q \in Request : ~ Granted(q)
      BY <3>2, FinishStep, NobodyInside DEF Granted
    <3> QED BY <3>3, <3>4 DEF StaysDisabled
  <2> QED BY <1>3, <2>1, <2>2, <2>3, <2>4, <2>5, <2>6, <2>7 DEF Administer
<1>4. CASE DeleteUser
  <2>1. row' = Gone /\ UNCHANGED reqVars BY <1>4 DEF DeleteUser
  <2>2. \A q \in Request : ~ Granted(q) BY <2>1 DEF reqVars, Granted
  <2> QED BY <2>1, <2>2 DEF StaysDisabled
<1>5. CASE Tick \/ ChangeSettings \/ UNCHANGED vars
  <2>1. row' = row /\ UNCHANGED reqVars BY <1>5 DEF Tick, ChangeSettings, vars
  <2>2. \A q \in Request : ~ Granted(q) BY <2>1 DEF reqVars, Granted
  <2> QED BY <2>1, <2>2 DEF reqVars, DisabledForAll, StaysDisabled
<1> QED BY <1>2, <1>3, <1>4, <1>5 DEF Next

(* Once the requests that had read the record before are over, disabling   *)
(* an account is final: it stays disabled and nobody logs in, until a      *)
(* handler is asked to enable it.                                          *)
THEOREM Disabling == Spec => DisabledIsFinal
<1>1. AccountInv /\ [Next]_vars => [DisabledForAll => StaysDisabled]_vars
  BY DisabledStep
<1>2. Spec => [][DisabledForAll => StaysDisabled]_vars
  BY <1>1, AccountInvariant, PTL DEF Spec
<1>3. [DisabledForAll => StaysDisabled]_vars =>
          [DisabledForAll =>
              /\ \/ DisabledForAll'
                 \/ row' = Gone
                 \/ \E r \in Request : op[r] # "enable" /\ op'[r] = "enable"
              /\ \A r \in Request : ~ Granted(r)]_vars
  BY DEF StaysDisabled
<1> QED BY <1>2, <1>3, PTL DEF DisabledIsFinal

----------------------------------------------------------------------------
(* The count of refusals, as long as requests do not overlap: whoever is   *)
(* under way is alone and holds a copy of the record it found.             *)
AllIdle == \A r \in Request : stage[r] = "idle"

CountedAt(r) ==
    /\ stage[r] \in {"verify", "final"} => row.attempts = failures
    /\ stage[r] = "verify" => copy[r].attempts = failures
    /\ stage[r] = "fail" => copy[r].attempts = failures + 1
    /\ stage[r] \in {"unlock", "clear", "sync"} => copy[r].attempts = 0
    /\ stage[r] = "sync" => row.attempts = 0
    /\ stage[r] = "save" =>
          /\ row.attempts = failures
          /\ copy[r].attempts = IF op[r] = "unlock" THEN 0 ELSE failures

CountInv ==
    failures # Overlapped =>
      /\ \A p, q \in Request : stage[p] # "idle" /\ stage[q] # "idle" => p = q
      /\ row # Gone =>
            /\ AllIdle => row.attempts = failures
            /\ \A r \in Request : CountedAt(r)

(* What a step of request r leaves: the others idle, r where its count is. *)
LEMMA OneMoved ==
    ASSUME NEW r \in Request,
           \A q \in Request \ {r} : stage'[q] = "idle",
           (row # Gone => (stage[r] = "idle" => row.attempts = failures) /\ CountedAt(r))'
    PROVE  CountInv'
BY DEF CountInv, CountedAt, AllIdle

(* A request that goes on is alone; one that begins without overlapping too. *)
LEMMA AloneWhenMoving ==
    ASSUME CountInv, failures # Overlapped, NEW r \in Request, stage[r] # "idle"
    PROVE  \A q \in Request \ {r} : stage[q] = "idle"
BY DEF CountInv

LEMMA BeginsAlone ==
    ASSUME AccountInv, CountInv, NEW r \in Request, Begin(r), failures' # Overlapped
    PROVE  /\ AllIdle /\ failures' = failures /\ failures \in Nat
           /\ row' = row /\ row \in Record /\ row.attempts = failures
BY DEF Begin, AllIdle, CountInv, AccountInv, Sound, TypeOK

(* Handlers that read, change and save. *)
LEMMA PrepareCounts ==
    ASSUME AccountInv, CountInv, NEW r \in Request, NEW o \in Operation, NEW c \in Record,
           Prepare(r, o, c), c.attempts = IF o = "unlock" THEN 0 ELSE row.attempts
    PROVE  CountInv'
<1> SUFFICES ASSUME failures' # Overlapped PROVE CountInv'
  BY DEF CountInv
<1>1. /\ AllIdle /\ failures' = failures /\ row' = row /\ row.attempts = failures
  BY BeginsAlone DEF Prepare
<1>2. /\ stage'[r] = "save" /\ copy'[r] = c
      /\ \A q \in Request \ {r} : stage'[q] = stage[q]
  BY EnterStep DEF Prepare, Stage, AccountInv, Sound
<1>3. op'[r] = o BY DEF Prepare, AccountInv, Sound, TypeOK
<1>4. CountedAt(r)' BY <1>1, <1>2, <1>3 DEF CountedAt
<1>5. \A q \in Request \ {r} : stage'[q] = "idle" BY <1>1, <1>2 DEF AllIdle
<1> QED BY <1>2, <1>4, <1>5, OneMoved

LEMMA AdministerCounts ==
    ASSUME AccountInv, CountInv, NEW r \in Request, Administer(r)
    PROVE  CountInv'
<1>1. row # Gone => row \in Record BY DEF AccountInv, Sound, TypeOK
<1>2. ASSUME NEW b \in BOOLEAN, SetDisabled(r, b)
      PROVE  CountInv'
  <2> DEFINE c == [row EXCEPT !.disabled = b]
             o == IF b THEN "disable" ELSE "enable"
  <2>1. row # Gone BY <1>2 DEF SetDisabled, Prepare, Begin
  <2>2. c \in Record /\ c.attempts = row.attempts BY <1>1, <2>1 DEF Record
  <2>3. o \in Operation /\ o # "unlock" BY DEF Operation
  <2>4. Prepare(r, o, c) BY <1>2 DEF SetDisabled
  <2> HIDE DEF c, o
  <2> QED BY <2>2, <2>3, <2>4, PrepareCounts
<1>3. CASE UnlockAccount(r)
  <2>1. row # Gone BY <1>3 DEF UnlockAccount, Prepare, Begin
  <2>2. Unlocked(row) \in Record BY <1>1, <2>1, UnlockedRecord
  <2>3. Unlocked(row).attempts = 0 BY <1>1, <2>1 DEF Unlocked, Record
  <2>4. "unlock" \in Operation BY DEF Operation
  <2> QED BY <1>3, <2>2, <2>3, <2>4, PrepareCounts DEF UnlockAccount
<1>4. CASE UpdateProfile(r)
  <2>1. row # Gone BY <1>4 DEF UpdateProfile, Prepare, Begin
  <2>2. "profile" \in Operation BY DEF Operation
  <2> QED BY <1>1, <1>4, <2>1, <2>2, PrepareCounts DEF UpdateProfile
<1>5. ASSUME NEW p \in Password, NEW force \in BOOLEAN, SetPassword(r, p, force)
      PROVE  CountInv'
  <2> DEFINE c == [Rotated(row, p) EXCEPT !.force = force]
  <2>1. row # Gone BY <1>5 DEF SetPassword
  <2>2. Rotated(row, p) \in Record /\ Rotated(row, p).attempts = row.attempts
    BY <1>1, <2>1, RotatedRecord DEF AccountInv, Sound, TypeOK
  <2>3. c \in Record /\ c.attempts = row.attempts BY <2>2 DEF Record
  <2>4. "password" \in Operation BY DEF Operation
  <2>5. Prepare(r, "password", c) BY <1>5 DEF SetPassword
  <2> HIDE DEF c
  <2> QED BY <2>3, <2>4, <2>5, PrepareCounts
<1>6. ASSUME NEW p \in Password, OverwritePassword(r, p)
      PROVE  CountInv'
  <2> DEFINE d == [row EXCEPT !.hash = p]
             flag == Kind = "applocal" /\ row.force
             c == [d EXCEPT !.force = flag]
  <2>1. row # Gone BY <1>6 DEF OverwritePassword, Prepare, Begin
  <2>2. d \in Record /\ d.attempts = row.attempts BY <1>1, <2>1 DEF Record
  <2>3. c \in Record /\ c.attempts = row.attempts
    <3>1. flag \in BOOLEAN OBVIOUS
    <3> HIDE DEF d, flag
    <3> QED BY <2>2, <3>1 DEF Record
  <2>4. "password" \in Operation BY DEF Operation
  <2>5. Prepare(r, "password", c) BY <1>6 DEF OverwritePassword
  <2> HIDE DEF c
  <2> QED BY <2>3, <2>4, <2>5, PrepareCounts
<1>7. ASSUME NEW p \in Password, NEW q \in Password, ResetPassword(r, p, q)
      PROVE  CountInv'
  <2> DEFINE c == [Rotated(row, q) EXCEPT !.force = FALSE]
  <2>1. row # Gone BY <1>7 DEF ResetPassword
  <2>2. Rotated(row, q) \in Record /\ Rotated(row, q).attempts = row.attempts
    BY <1>1, <2>1, RotatedRecord DEF AccountInv, Sound, TypeOK
  <2>3. c \in Record /\ c.attempts = row.attempts BY <2>2 DEF Record
  <2>4. "reset" \in Operation BY DEF Operation
  <2>5. Prepare(r, "reset", c) BY <1>7 DEF ResetPassword
  <2> HIDE DEF c
  <2> QED BY <2>3, <2>4, <2>5, PrepareCounts
<1>8. CASE Save(r)
  <2> SUFFICES ASSUME failures' # Overlapped PROVE CountInv'
    BY DEF CountInv
  <2>1. stage[r] = "save" /\ UpdateUser(copy[r]) /\ Finish(r) BY <1>8 DEF Save
  <2>2. failures # Overlapped /\ failures' = IF op[r] = "unlock" THEN 0 ELSE failures
    BY <1>8 DEF Save, CountReset
  <2>3. /\ stage'[r] = "idle"
        /\ \A q \in Request \ {r} : stage'[q] = "idle"
    BY <2>1, <2>2, FinishStep, AloneWhenMoving DEF AccountInv, Sound
  <2>4. row # Gone => row' = copy[r] /\ copy[r].attempts = failures'
    BY <2>1, <2>2 DEF UpdateUser, CountInv, CountedAt
  <2>5. row = Gone => row' = Gone BY <2>1 DEF UpdateUser
  <2> QED BY <2>3, <2>4, <2>5, OneMoved DEF CountedAt
<1> QED BY <1>2, <1>3, <1>4, <1>5, <1>6, <1>7, <1>8 DEF Administer

(* A login that goes on, alone, at a stage with a copy. *)
LEMMA GoesOnCounts ==
    ASSUME AccountInv, CountInv, failures # Overlapped, NEW r \in Request, stage[r] # "idle",
           NEW s \in {"unlock", "verify", "fail", "final", "clear", "sync"},
           NEW c \in Record \cup {Gone}, Enter(r, s, c),
           row' # Gone =>
             /\ s \in {"verify", "final"} => row'.attempts = failures'
             /\ s = "verify" => c.attempts = failures'
             /\ s = "fail" => c.attempts = failures' + 1
             /\ s \in {"unlock", "clear", "sync"} => c.attempts = 0
             /\ s = "sync" => row'.attempts = 0
    PROVE  CountInv'
<1>1. /\ stage'[r] = s /\ copy'[r] = c
      /\ \A q \in Request \ {r} : stage'[q] = stage[q]
  BY EnterStep DEF Stage, AccountInv, Sound
<1>2. \A q \in Request \ {r} : stage'[q] = "idle" BY <1>1, AloneWhenMoving
<1>3. (row # Gone => (stage[r] = "idle" => row.attempts = failures) /\ CountedAt(r))'
  BY <1>1 DEF CountedAt
<1> QED BY <1>2, <1>3, OneMoved

LEMMA EndsCounts ==
    ASSUME AccountInv, CountInv, failures # Overlapped, NEW r \in Request, stage[r] # "idle",
           Finish(r), row' # Gone => row'.attempts = failures'
    PROVE  CountInv'
<1>1. /\ stage'[r] = "idle"
      /\ \A q \in Request \ {r} : stage'[q] = "idle"
  BY FinishStep, AloneWhenMoving DEF AccountInv, Sound
<1> QED BY <1>1, OneMoved DEF CountedAt

LEMMA LoginCounts ==
    ASSUME AccountInv, CountInv, NEW r \in Request, Login(r), Kind # "applocal"
    PROVE  CountInv'
<1> SUFFICES ASSUME failures' # Overlapped PROVE CountInv'
  BY DEF CountInv
<1>1. row # Gone => row \in Record BY DEF AccountInv, Sound, TypeOK
<1>2. stage[r] # "idle" => copy[r] = Gone \/ copy[r] \in Record BY DEF AccountInv, Sound, TypeOK
<1>3. ASSUME NEW p \in Password, LoginRead(r, p)
      PROVE  CountInv'
  <2>1. /\ AllIdle /\ failures' = failures /\ row' = row /\ row \in Record
        /\ row.attempts = failures
    BY <1>3, BeginsAlone DEF LoginRead
  <2>2. CASE row.disabled \/ Locked(row)
    <3>1. stage' = stage BY <1>3, <2>2 DEF LoginRead, reqVars
    <3> QED BY <2>1, <3>1, OneMoved DEF AllIdle, CountedAt
  <2>3. CASE ~ (row.disabled \/ Locked(row))
    <3> DEFINE s == IF LockExpired(row) THEN "unlock" ELSE "verify"
               c == IF LockExpired(row) THEN Unlocked(row) ELSE row
    <3>1. Enter(r, s, c) BY <1>3, <2>3 DEF LoginRead
    <3>2. c \in Record /\ c.attempts = IF s = "unlock" THEN 0 ELSE failures
      BY <2>1, UnlockedRecord DEF Unlocked, Record
    <3>3. s \in Stage /\ s \in {"unlock", "verify"} BY DEF Stage
    <3> HIDE DEF s, c
    <3>4. /\ stage'[r] = s /\ copy'[r] = c
          /\ \A q \in Request \ {r} : stage'[q] = stage[q]
      BY <3>1, <3>2, <3>3, EnterStep DEF AccountInv, Sound
    <3>5. \A q \in Request \ {r} : stage'[q] = "idle" BY <2>1, <3>4 DEF AllIdle
    <3>6. (row # Gone => (stage[r] = "idle" => row.attempts = failures) /\ CountedAt(r))'
      BY <2>1, <3>2, <3>3, <3>4 DEF CountedAt
    <3> QED BY <3>5, <3>6, OneMoved
  <2> QED BY <2>2, <2>3
<1>4. CASE ClearExpiredLock(r)
  <2>1. stage[r] = "unlock" /\ copy[r] \in Record
    BY <1>4 DEF ClearExpiredLock, AccountInv, Sound, Holds, TypeOK
  <2>2. failures # Overlapped /\ failures' = 0 BY <1>4 DEF ClearExpiredLock, CountReset
  <2>3. row' # Gone => row' = copy[r] /\ copy[r].attempts = 0
    BY <1>4, <2>1, <2>2 DEF ClearExpiredLock, UpdateUser, CountInv, CountedAt
  <2> QED BY <1>4, <2>1, <2>2, <2>3, GoesOnCounts DEF ClearExpiredLock
<1>5. CASE VerifyLocal(r) \/ VerifyLDAP(r)
  <2>1. /\ stage[r] = "verify" /\ Enter(r, "final", Gone)
        /\ failures' = failures /\ row' = row
    BY <1>5 DEF VerifyLocal, VerifyLDAP
  <2>2. row # Gone => row.attempts = failures BY <2>1 DEF CountInv, CountedAt
  <2> QED BY <2>1, <2>2, GoesOnCounts
<1>6. CASE VerifyFails(r)
  <2>1. /\ stage[r] = "verify" /\ Enter(r, "fail", OneMoreFailure(copy[r]))
        /\ failures' = failures /\ row' = row
    BY <1>6 DEF VerifyFails
  <2>2. /\ copy[r] \in Record /\ copy[r] # Gone /\ setting \in Setting /\ now \in Nat \ {0}
    BY <2>1 DEF AccountInv, Sound, Holds, TypeOK
  <2>3. OneMoreFailure(copy[r]) \in Record BY <2>2, FailureRecord
  <2>4. OneMoreFailure(copy[r]).attempts = copy[r].attempts + 1
    BY <2>2, FailureRecord
  <2>5. row # Gone => copy[r].attempts = failures BY <2>1 DEF CountInv, CountedAt
  <2> QED BY <2>1, <2>3, <2>4, <2>5, GoesOnCounts
<1>7. CASE RecordFailedLogin(r)
  <2>1. stage[r] = "fail" /\ Finish(r) BY <1>7 DEF RecordFailedLogin
  <2>2. failures # Overlapped /\ failures' = failures + 1 BY <1>7 DEF RecordFailedLogin, CountRefusal
  <2>3. row' # Gone => row'.attempts = failures'
    BY <1>7, <2>1, <2>2 DEF RecordFailedLogin, UpdateUser, CountInv, CountedAt
  <2> QED BY <2>1, <2>2, <2>3, EndsCounts
<1>8. CASE FinalRead(r)
  <2>1. stage[r] = "final" /\ row' = row /\ failures' = failures BY <1>8 DEF FinalRead
  <2>2. row # Gone => row.attempts = failures BY <2>1 DEF CountInv, CountedAt
  <2>3. CASE Finish(r) BY <2>1, <2>2, <2>3, EndsCounts
  <2>4. CASE /\ row # Gone
             /\ IF row.attempts > 0 THEN Enter(r, "clear", Unlocked(row))
                                    ELSE Enter(r, "sync", row)
    <3>1. row \in Record /\ row.attempts \in Nat BY <1>1, <2>4 DEF Record
    <3>2. Unlocked(row) \in Record /\ Unlocked(row).attempts = 0
      BY <3>1, UnlockedRecord DEF Unlocked, Record
    <3>3. CASE row.attempts > 0
      BY <2>1, <2>4, <3>2, <3>3, GoesOnCounts
    <3>4. CASE ~ (row.attempts > 0)
      <4>1. row.attempts = 0 BY <3>1, <3>4
      <4> QED BY <2>1, <2>4, <3>1, <3>4, <4>1, GoesOnCounts
    <3> QED BY <3>3, <3>4
  <2> QED BY <1>8, <2>3, <2>4 DEF FinalRead
<1>9. CASE ClearAttempts(r)
  <2>1. /\ stage[r] = "clear" /\ copy[r] \in Record /\ failures' = failures
        /\ Enter(r, "sync", copy[r])
    BY <1>9 DEF ClearAttempts, AccountInv, Sound, Holds, TypeOK
  <2>2. row' # Gone => row' = copy[r] /\ copy[r].attempts = 0
    BY <1>9, <2>1 DEF ClearAttempts, UpdateUser, CountInv, CountedAt
  <2> QED BY <2>1, <2>2, GoesOnCounts
<1>10. CASE SyncUserFromLDAP(r)
  <2>1. stage[r] = "sync" /\ Finish(r) BY <1>10 DEF SyncUserFromLDAP
  <2>2. failures # Overlapped /\ failures' = 0 BY <1>10 DEF SyncUserFromLDAP, CountReset
  <2>3. row' \in {row, Gone, copy[r]} /\ (row = Gone => row' = Gone)
    BY <1>10 DEF SyncUserFromLDAP, UpdateUser
  <2>4. row # Gone => row.attempts = 0 /\ copy[r].attempts = 0
    BY <2>1, <2>2 DEF CountInv, CountedAt
  <2>5. row' # Gone => row'.attempts = failures' BY <2>2, <2>3, <2>4
  <2> QED BY <2>1, <2>2, <2>5, EndsCounts
<1> QED BY <1>3, <1>4, <1>5, <1>6, <1>7, <1>8, <1>9, <1>10 DEF Login

LEMMA CountStep ==
    ASSUME AccountInv, CountInv, [Next]_vars, Kind # "applocal"
    PROVE  CountInv'
<1>1. ASSUME NEW r \in Request, Login(r)
      PROVE  CountInv'
  BY <1>1, LoginCounts
<1>2. ASSUME NEW r \in Request, Administer(r)
      PROVE  CountInv'
  BY <1>2, AdministerCounts
<1>3. CASE DeleteUser
  BY <1>3 DEF DeleteUser, reqVars, CountInv
<1>4. CASE Tick
  BY <1>4 DEF Tick, reqVars, CountInv, AllIdle, CountedAt
<1>5. CASE ChangeSettings
  BY <1>5 DEF ChangeSettings, reqVars, CountInv, AllIdle, CountedAt
<1>6. CASE UNCHANGED vars
  BY <1>6 DEF vars, reqVars, CountInv, AllIdle, CountedAt
<1> QED BY <1>1, <1>2, <1>3, <1>4, <1>5, <1>6 DEF Next

(* For users other than app-local ones, whose successes clear nothing,     *)
(* failed_login_attempts is the number of consecutive refusals, whatever   *)
(* one request at a time does in between (recordFailedLogin,               *)
(* authenticateUser).                                                      *)
THEOREM Consecutive == Spec => []AttemptsAreConsecutive
<1>1. Init => CountInv
  <2> SUFFICES ASSUME Init PROVE CountInv
    OBVIOUS
  <2>1. /\ stage = [r \in Request |-> "idle"] /\ failures = 0
        /\ row.attempts = 0
    BY DEF Init
  <2> QED BY <2>1 DEF CountInv, CountedAt, AllIdle
<1>2. CASE Kind = "applocal"
  <2>1. AttemptsAreConsecutive BY <1>2 DEF AttemptsAreConsecutive
  <2> QED BY <2>1, PTL
<1>3. CASE Kind # "applocal"
  <2>1. AccountInv /\ CountInv /\ [Next]_vars => CountInv' BY <1>3, CountStep
  <2>2. CountInv => AttemptsAreConsecutive
    BY DEF CountInv, AllIdle, AttemptsAreConsecutive
  <2> QED BY <1>1, <2>1, <2>2, AccountInvariant, PTL DEF Spec
<1> QED BY <1>2, <1>3

============================================================================
