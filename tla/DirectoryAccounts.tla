------------------------- MODULE DirectoryAccounts -------------------------
(***************************************************************************)
(* Users whose credential lives in the directory                           *)
(* (src/internal/handler/auth.go, admin_ldap.go): the record a first login *)
(* creates for a person, the names mapped to it, and the question every    *)
(* later use of the record asks the directory.  While the directory cannot *)
(* be reached, the outage policy answers from the time of the last check,  *)
(* kept in memory and, less often, in the store.                           *)
(*                                                                         *)
(* One person of the directory is followed.  The directory is configured.  *)
(* Account flags and passwords kept by SimpleAuth itself are in            *)
(* UserAccounts.  A unit of the clock is minutes: none passes between an   *)
(* answer of the directory and the stamp of that answer.                   *)
(***************************************************************************)
EXTENDS Integers, Sequences

CONSTANTS
    Login,     \* logins and other uses of a record under way at once
    Name,      \* names the person types, or a Kerberos ticket carries
    Sam,       \* the person's sAMAccountName
    SamForms,  \* the names a search for sAMAccountName finds: it ignores case
    Record,    \* GUIDs
    NoRecord,
    OutagePolicy, Grace, Throttle,  \* directoryOutagePolicy, dirCheckPersistEvery
    LastTime   \* bound of the clock

ASSUME DirectoryConstants ==
    /\ SamForms \subseteq Name /\ Sam \in SamForms /\ NoRecord \notin Record
    /\ OutagePolicy \in {"allow", "block", "grace"}
    /\ Grace \in Nat /\ Throttle \in Nat \ {0} /\ LastTime \in Nat

VARIABLES
    account,     \* the person's account: active, disabled (or expired) or gone
    reachable,   \* whether the directory answers
    clock,
    records,     \* none, or whether the record carries the sAMAccountName
    ldap, local, \* [name -> record], the identity mappings of the two providers
    checked,     \* time of the last check, in memory; -1: none
    stored,      \* the same in the row "dircheck:<guid>"
    logins,      \* the calls under way
    outage,      \* history: the last answer the outage policy gave
    activeAt,    \* history: the last time the account was active
    confirmed,   \* history: the last time a check of the record was stamped
    misfortunes  \* history: which of those below have happened

directoryVars == <<account, reachable, clock, records, ldap, local, checked, stored, logins,
                   outage, activeAt, confirmed, misfortunes>>

(* A stamp was not saved, by a failing store or a stop; a stamp was read from
   the store while a newer one went into memory; two first logins overlapped;
   another form of the name than the sAMAccountName was typed or imported.  *)
Misfortune == {"unsaved", "crossed", "overlap", "alias"}

NoLogin == [step |-> "none", kind |-> "none", name |-> Sam, guid |-> NoRecord, stamp |-> -1]
NoOutage == [allowed |-> FALSE, since |-> 0, unconfirmed |-> LastTime + Grace, excused |-> TRUE]

DirectoryInit ==
    /\ account = "active" /\ reachable = TRUE /\ clock = 0 /\ activeAt = 0
    /\ records = [r \in Record |-> "none"]
    /\ ldap = [n \in Name |-> NoRecord] /\ local = [n \in Name |-> NoRecord]
    /\ checked = [r \in Record |-> -1] /\ stored = [r \in Record |-> -1]
    /\ confirmed = [r \in Record |-> -1]
    /\ logins = [c \in Login |-> NoLogin]
    /\ outage = NoOutage
    /\ misfortunes = {}

Enter(c, call) == logins[c] = NoLogin /\ logins' = [logins EXCEPT ![c] = call]
Move(c, step) == logins' = [logins EXCEPT ![c].step = step]
MoveFor(c, step, r) == logins' = [logins EXCEPT ![c].step = step, ![c].guid = r]
Leave(c) == logins' = [logins EXCEPT ![c] = NoLogin]

theRecords == <<records, ldap, local>>
theStamps == <<checked, stored, confirmed>>
theWorld == <<account, reachable, clock, activeAt>>

-----------------------------------------------------------------------------
(* The ways into a record. *)

(* authenticateUser with the directory's password. *)
BeginBind(c, n) ==
    /\ Enter(c, [NoLogin EXCEPT !.step = "bind", !.kind = "password", !.name = n])
    /\ misfortunes' = misfortunes \cup (IF n = Sam THEN {} ELSE {"alias"})
    /\ UNCHANGED <<theWorld, theRecords, theStamps, outage>>

(* authenticateUser with a password SimpleAuth keeps, which comes first. *)
BeginLocal(c, n) ==
    /\ local[n] # NoRecord
    /\ Enter(c, [NoLogin EXCEPT !.step = "status", !.guid = local[n]])
    /\ UNCHANGED <<theWorld, theRecords, theStamps, outage, misfortunes>>

(* A refresh, a session cookie, a userinfo request: the user is known. *)
BeginSession(c, r) ==
    /\ records[r] # "none"
    /\ Enter(c, [NoLogin EXCEPT !.step = "status", !.guid = r])
    /\ UNCHANGED <<theWorld, theRecords, theStamps, outage, misfortunes>>

(* resolveKerberosUser; the ticket carries n. *)
BeginKerberos(c, n) ==
    /\ Enter(c, [NoLogin EXCEPT !.step = "ticket", !.kind = "kerberos", !.name = n])
    /\ UNCHANGED <<theWorld, theRecords, theStamps, outage, misfortunes>>

(* handleImportLDAPUsers: a name that is mapped, or that the directory does
   not find, is passed over.                                                *)
BeginImport(c, n) ==
    /\ ldap[n] = NoRecord
    /\ reachable /\ account # "gone" /\ n \in SamForms
    /\ Enter(c, [NoLogin EXCEPT !.step = "create", !.kind = "import", !.name = n])
    /\ misfortunes' = misfortunes \cup (IF n = Sam THEN {} ELSE {"alias"})
    /\ UNCHANGED <<theWorld, theRecords, theStamps, outage>>

(* LDAPAuthenticate, whose filter may find every name; then the mapping. *)
Bind(c) ==
    /\ logins[c].step = "bind"
    /\ IF ~reachable \/ account # "active" THEN Leave(c)
       ELSE IF ldap[logins[c].name] # NoRecord THEN MoveFor(c, "confirm", ldap[logins[c].name])
       ELSE Move(c, "create")
    /\ UNCHANGED <<theWorld, theRecords, theStamps, outage, misfortunes>>

(* The mappings of the ticket's name, and the search for it. *)
Ticket(c) ==
    LET n == logins[c].name
        mapped == IF ldap[n] # NoRecord THEN ldap[n] ELSE local[n]
        found == reachable /\ account # "gone" /\ n \in SamForms
    IN
    /\ logins[c].step = "ticket"
    /\ CASE mapped = NoRecord /\ found /\ account = "active" -> Move(c, "double")
         [] mapped # NoRecord /\ found /\ account = "active" -> MoveFor(c, "confirm", mapped)
         [] mapped # NoRecord /\ ~found -> MoveFor(c, "status", mapped)
         [] OTHER -> Leave(c)
    /\ UNCHANGED <<theWorld, theRecords, theStamps, outage, misfortunes>>

-----------------------------------------------------------------------------
(* A first login. *)

(* Mutant of DoubleCheck: only the ticket's own name is looked up again. *)
DoubleCheckTicketName(c) ==
    LET n == logins[c].name IN
    /\ logins[c].step = "double"
    /\ IF ldap[n] # NoRecord THEN Leave(c) ELSE Move(c, "create")
    /\ UNCHANGED <<theWorld, theRecords, theStamps, outage, misfortunes>>

(* The sAMAccountName of the answer may be mapped although the ticket's name
   is not; the ticket's name is remembered then.                            *)
DoubleCheck(c) ==
    LET n == logins[c].name IN
    /\ logins[c].step = "double"
    /\ ldap' = IF ldap[Sam] # NoRecord THEN [ldap EXCEPT ![n] = ldap[Sam]] ELSE ldap
    /\ IF ldap[Sam] # NoRecord \/ ldap[n] # NoRecord THEN Leave(c) ELSE Move(c, "create")
    /\ UNCHANGED <<theWorld, records, local, theStamps, outage, misfortunes>>

(* Another first login found no mapping either and has not mapped yet. *)
Overlap(c) ==
    IF \E d \in Login \ {c} : logins[d].step \in {"create", "map"} THEN {"overlap"} ELSE {}

CreateRecord(c) ==
    /\ logins[c].step = "create"
    /\ \E r \in Record :
         /\ records[r] = "none"
         /\ records' = [records EXCEPT ![r] = IF logins[c].kind = "import" THEN "unnamed" ELSE "named"]
         /\ MoveFor(c, "map", r)
    /\ misfortunes' = misfortunes \cup Overlap(c)
    /\ UNCHANGED <<theWorld, ldap, local, theStamps, outage>>

(* A password login maps the name that was typed first, a ticket the name of
   the answer; an import maps the one name, for the provider "ldap" only.   *)
FirstName(call) == IF call.kind = "kerberos" THEN Sam ELSE call.name

(* A record made from a ticket needs no update. *)
AfterNames(call) == IF call.kind = "kerberos" THEN "record" ELSE "confirm"

MapName(c) ==
    LET n == FirstName(logins[c]) IN
    /\ logins[c].step = "map"
    /\ ldap' = [ldap EXCEPT ![n] = logins[c].guid]
    /\ local' = IF logins[c].kind = "import" THEN local ELSE [local EXCEPT ![n] = logins[c].guid]
    /\ CASE logins[c].kind = "import" -> Leave(c)
         [] logins[c].kind # "import" /\ logins[c].name # Sam -> Move(c, "also")
         [] OTHER -> Move(c, AfterNames(logins[c]))
    /\ misfortunes' = misfortunes \cup Overlap(c)
    /\ UNCHANGED <<theWorld, records, theStamps, outage>>

MapOtherName(c) ==
    LET n == IF logins[c].kind = "kerberos" THEN logins[c].name ELSE Sam IN
    /\ logins[c].step = "also"
    /\ ldap' = [ldap EXCEPT ![n] = logins[c].guid]
    /\ local' = [local EXCEPT ![n] = logins[c].guid]
    /\ Move(c, AfterNames(logins[c]))
    /\ UNCHANGED <<theWorld, records, theStamps, outage, misfortunes>>

-----------------------------------------------------------------------------
(* The account is active: the profile is brought up to date and the check  *)
(* is stamped.                                                             *)

(* syncUserFromLDAP: the name is filled in, a missing mapping of it added. *)
SyncNames(c) ==
    /\ logins[c].step = "confirm"
    /\ records' = [records EXCEPT ![logins[c].guid] = "named"]
    /\ ldap' = IF ldap[Sam] = NoRecord THEN [ldap EXCEPT ![Sam] = logins[c].guid] ELSE ldap
    /\ local' = IF local[Sam] = NoRecord THEN [local EXCEPT ![Sam] = logins[c].guid] ELSE local
    /\ Move(c, "record")
    /\ UNCHANGED <<theWorld, theStamps, outage, misfortunes>>

(* Mutant of RecordDirectoryCheck: the stamp never reaches the store. *)
StampInMemoryOnly(c) ==
    LET r == logins[c].guid IN
    /\ logins[c].step = "record"
    /\ checked' = [checked EXCEPT ![r] = clock]
    /\ confirmed' = [confirmed EXCEPT ![r] = clock]
    /\ Leave(c)
    /\ UNCHANGED <<theWorld, theRecords, stored, outage, misfortunes>>

(* recordDirectoryCheck: a recent stamp is left alone, in both places. *)
RecordDirectoryCheck(c) ==
    LET r == logins[c].guid
        recent == checked[r] >= 0 /\ clock - checked[r] < Throttle
    IN
    /\ logins[c].step = "record"
    /\ confirmed' = [confirmed EXCEPT ![r] = clock]
    /\ checked' = IF recent THEN checked ELSE [checked EXCEPT ![r] = clock]
    /\ IF recent THEN Leave(c) ELSE Move(c, "persist")
    /\ UNCHANGED <<theWorld, theRecords, stored, outage, misfortunes>>

(* The error of the store is not looked at. *)
PersistCheck(c) ==
    /\ logins[c].step = "persist"
    /\ \/ stored' = [stored EXCEPT ![logins[c].guid] = clock] /\ UNCHANGED misfortunes
       \/ misfortunes' = misfortunes \cup {"unsaved"} /\ UNCHANGED stored
    /\ Leave(c)
    /\ UNCHANGED <<theWorld, theRecords, checked, confirmed, outage>>

-----------------------------------------------------------------------------
(* directoryAccountDisabled *)

(* What the outage policy answers to a record last checked at that time. *)
AllowedInOutage(last) ==
    \/ OutagePolicy = "allow"
    \/ OutagePolicy = "grace" /\ last >= 0 /\ clock - last < Grace

Answer(r, allowed, excuses) ==
    outage' = [allowed     |-> allowed,
               since       |-> clock - activeAt,
               unconfirmed |-> IF confirmed[r] < 0 THEN LastTime + Grace ELSE clock - confirmed[r],
               excused     |-> excuses \cap {"unsaved", "crossed"} # {}]

(* Mutant of DirectoryOutageDenies: being let in counts as a check. *)
AnswerRenews(c) ==
    LET r == logins[c].guid
        allowed == AllowedInOutage(checked[r])
    IN
    /\ logins[c].step = "outage"
    /\ IF checked[r] < 0 /\ OutagePolicy = "grace"
       THEN /\ logins' = [logins EXCEPT ![c].step = "load", ![c].stamp = stored[r]]
            /\ UNCHANGED <<checked, outage>>
       ELSE /\ Answer(r, allowed, misfortunes)
            /\ Leave(c)
            /\ checked' = IF allowed THEN [checked EXCEPT ![r] = clock] ELSE checked
    /\ UNCHANGED <<theWorld, theRecords, stored, confirmed, misfortunes>>

(* directoryOutageDenies, lastDirectoryCheck: the stamp in memory decides;
   only without one is the stored stamp read, and put into memory.          *)
DirectoryOutageDenies(c) ==
    LET r == logins[c].guid IN
    /\ logins[c].step = "outage"
    /\ IF checked[r] < 0 /\ OutagePolicy = "grace"
       THEN /\ logins' = [logins EXCEPT ![c].step = "load", ![c].stamp = stored[r]]
            /\ UNCHANGED outage
       ELSE /\ Answer(r, AllowedInOutage(checked[r]), misfortunes)
            /\ Leave(c)
    /\ UNCHANGED <<theWorld, theRecords, theStamps, misfortunes>>

LoadLastCheck(c) ==
    LET r == logins[c].guid IN
    /\ logins[c].step = "load"
    /\ checked' = IF logins[c].stamp < 0 THEN checked ELSE [checked EXCEPT ![r] = logins[c].stamp]
    /\ misfortunes' = misfortunes \cup (IF checked[r] > logins[c].stamp THEN {"crossed"} ELSE {})
    /\ Answer(r, AllowedInOutage(logins[c].stamp), misfortunes')
    /\ Leave(c)
    /\ UNCHANGED <<theWorld, theRecords, stored, confirmed>>

(* A record without a sAMAccountName is looked for under one of its names,
   one without either is not of the directory.                              *)
LookedUpAs(r) == IF records[r] = "named" THEN {Sam} ELSE {n \in Name : ldap[n] = r}

DirectoryAccountStatus(c) ==
    LET r == logins[c].guid IN
    /\ logins[c].step = "status"
    /\ \/ LookedUpAs(r) = {} /\ Leave(c)
       \/ \E n \in LookedUpAs(r) :
            \/ reachable /\ account = "active" /\ n \in SamForms /\ Move(c, "record")
            \/ reachable /\ (account # "active" \/ n \notin SamForms) /\ Leave(c)
            \/ ~reachable /\ Move(c, "outage")
    /\ UNCHANGED <<theWorld, theRecords, theStamps, outage, misfortunes>>

-----------------------------------------------------------------------------
(* The directory, the clock and the process. *)

ChangeAccount(state) ==
    /\ state # account
    /\ account' = state
    /\ activeAt' = IF state = "active" THEN clock ELSE activeAt
    /\ UNCHANGED <<reachable, clock, theRecords, theStamps, logins, outage, misfortunes>>

ChangeReachable ==
    /\ reachable' = ~reachable
    /\ UNCHANGED <<account, clock, activeAt, theRecords, theStamps, logins, outage, misfortunes>>

(* Between an answer of the directory and the last effect of it. *)
Answered == {"double", "create", "map", "also", "confirm", "record", "persist"}

PassMinutes ==
    /\ clock < LastTime
    /\ \A c \in Login : logins[c].step \notin Answered
    /\ clock' = clock + 1
    /\ activeAt' = IF account = "active" THEN clock + 1 ELSE activeAt
    /\ UNCHANGED <<account, reachable, theRecords, theStamps, logins, outage, misfortunes>>

(* The process stops: what is in memory goes, the calls too. *)
StopDirectory ==
    /\ checked' = [r \in Record |-> -1]
    /\ logins' = [c \in Login |-> NoLogin]
    /\ misfortunes' = misfortunes
         \cup (IF \E c \in Login : logins[c].step = "persist" THEN {"unsaved"} ELSE {})
         \cup (IF \E c \in Login : logins[c].step \in {"map", "also"} THEN {"overlap"} ELSE {})
    /\ UNCHANGED <<theWorld, theRecords, stored, confirmed, outage>>

FirstLoginSteps ==
    \E c \in Login :
      \/ \E n \in Name : BeginBind(c, n) \/ BeginKerberos(c, n) \/ BeginImport(c, n)
      \/ Bind(c) \/ Ticket(c) \/ DoubleCheck(c) \/ CreateRecord(c) \/ MapName(c) \/ MapOtherName(c)
      \/ SyncNames(c) \/ RecordDirectoryCheck(c) \/ PersistCheck(c)

LaterUseSteps ==
    \E c \in Login :
      \/ \E n \in Name : BeginLocal(c, n)
      \/ \E r \in Record : BeginSession(c, r)
      \/ DirectoryAccountStatus(c) \/ DirectoryOutageDenies(c) \/ LoadLastCheck(c)

WorldSteps ==
    \/ \E state \in {"active", "disabled", "gone"} : ChangeAccount(state)
    \/ ChangeReachable \/ PassMinutes \/ StopDirectory

DirectoryNext == FirstLoginSteps \/ LaterUseSteps \/ WorldSteps

DirectorySpec == DirectoryInit /\ [][DirectoryNext]_directoryVars

-----------------------------------------------------------------------------

(***************************************************************************)
(* In an outage the policy grace lets a user in only when the account was  *)
(* active less than the grace period ago; being let in does not lengthen   *)
(* the period, and neither does a restart (directoryOutageDenies,          *)
(* recordDirectoryCheck, lastDirectoryCheck).                              *)
(***************************************************************************)
GraceIsEarned ==
    outage.allowed => OutagePolicy = "allow" \/ outage.since < Grace

(***************************************************************************)
(* In an outage the policy grace turns away only a user whose last check   *)
(* is older than the grace period, give or take the throttle of the        *)
(* stamps, restarts included; unless a stamp could not be saved or one was *)
(* read from the store while a newer one went into memory.                 *)
(***************************************************************************)
GraceIsGranted ==
    OutagePolicy = "grace" /\ ~outage.allowed /\ ~outage.excused =>
      outage.unconfirmed > Grace - Throttle

(***************************************************************************)
(* A person has one record, under whatever forms of the name Kerberos      *)
(* tickets carry, as long as no two first logins overlap and no other form *)
(* than the sAMAccountName is typed or imported (resolveKerberosUser,      *)
(* authenticateUser, handleImportLDAPUsers).                               *)
(***************************************************************************)
OneRecordPerPerson ==
    misfortunes \cap {"overlap", "alias"} = {} =>
      \A r, s \in Record : records[r] # "none" /\ records[s] # "none" => r = s

=============================================================================
