------------------------------ MODULE AppUsers ------------------------------
(***************************************************************************)
(* What an app keeps under its id: its local users, their usernames, its   *)
(* role assignments and its administrators                                 *)
(* (src/internal/handler/app_selfservice.go, app_admin.go, admin_apps.go   *)
(* and the store calls they make).  Every call reads the app first and     *)
(* writes in later store transactions; only the creation of local users    *)
(* holds a lock (localUserMu).  Deletions, whole-document saves of the     *)
(* assignments, the deletion of the app and a stop of the server fall in   *)
(* between.  An app id can be registered again after its deletion.         *)
(***************************************************************************)
EXTENDS Naturals, FiniteSets

CONSTANTS
    Call,      \* calls of the app's API under way at once
    Username,
    LocalUser, \* GUIDs
    NoUser,
    MaxApps    \* bound: times the app id is registered

ASSUME NoUserIsNoGUID == NoUser \notin LocalUser

VARIABLES
    app,       \* registration of the app id now in force, 0: none
    apps,      \* registrations so far
    owned,     \* [guid -> registration it was created under, 0: no record]
    names,     \* [username -> guid], the provider "applocal:<app id>"
    assigned,  \* usernames the app's authorization document assigns roles to
    admins,    \* registrations whose calls added the administrators listed
    lock,      \* calls that hold localUserMu
    calls,     \* the calls under way
    used,      \* GUIDs given out
    mishaps,   \* history: which of the overlaps below have happened
    written    \* history: usernames an operator's document assigned

appVars == <<app, apps, owned, names, assigned, admins, lock, calls, used, mishaps, written>>

(* A call that passed the app check of a registration and writes after it
   ended; a deletion of a user whom another call deletes or still creates; a
   document saved over a newer one; a server stopped inside a call; a look-up
   of a username that failed and showed it free.                            *)
Mishap == {"late", "raced", "lost", "stopped", "unread"}

NoCall == [step |-> "none", under |-> 0, name |-> "", guid |-> NoUser, left |-> {},
           roles |-> FALSE, doc |-> {}, unread |-> FALSE]

AppInit ==
    /\ app = 0 /\ apps = 0
    /\ owned = [u \in LocalUser |-> 0]
    /\ names = [n \in Username |-> NoUser]
    /\ assigned = {} /\ admins = {} /\ lock = {} /\ used = {} /\ mishaps = {} /\ written = {}
    /\ calls = [c \in Call |-> NoCall]

Late(c) == IF calls[c].under = app THEN {} ELSE {"late"}

Goto(c, step) == calls' = [calls EXCEPT ![c].step = step]
Return(c) == calls' = [calls EXCEPT ![c] = NoCall] /\ lock' = lock \ {c}

(* requireApp, requireAppAdmin: the app is there when the call begins. *)
Begin(c, call) ==
    /\ app # 0
    /\ calls[c] = NoCall
    /\ calls' = [calls EXCEPT ![c] = [call EXCEPT !.under = app]]
    /\ UNCHANGED <<app, apps, owned, names, assigned, admins, lock, used, mishaps, written>>

-----------------------------------------------------------------------------
(* handleCreateLocalUser *)

BeginCreate(c, n, withRoles) ==
    Begin(c, [NoCall EXCEPT !.step = "check", !.name = n, !.roles = withRoles])

(* Mutant of CheckUsername: the lock is not taken. *)
CheckUsernameUnlocked(c) ==
    /\ calls[c].step = "check"
    /\ IF names[calls[c].name] # NoUser
       THEN Return(c)
       ELSE /\ calls' = [calls EXCEPT ![c].step = "create", ![c].doc = assigned]
            /\ UNCHANGED lock
    /\ UNCHANGED <<app, apps, owned, names, assigned, admins, used, mishaps, written>>

(* Under localUserMu: a username that is taken ends the call, but the error
   of a failed look-up is dropped and shows the username free; the
   assignments are loaded before anything is created.                       *)
CheckUsername(c) ==
    LET taken == names[calls[c].name] # NoUser IN
    /\ calls[c].step = "check"
    /\ lock = {}
    /\ \/ taken /\ Return(c) /\ UNCHANGED mishaps
       \/ /\ calls' = [calls EXCEPT ![c].step = "create", ![c].doc = assigned,
                                     ![c].unread = taken]
          /\ lock' = {c}
          /\ mishaps' = mishaps \cup (IF taken THEN {"unread"} ELSE {})
    /\ UNCHANGED <<app, apps, owned, names, assigned, admins, used, written>>

CreateUser(c) ==
    /\ calls[c].step = "create"
    /\ \E u \in LocalUser \ used :
         /\ owned' = [owned EXCEPT ![u] = calls[c].under]
         /\ used' = used \cup {u}
         /\ calls' = [calls EXCEPT ![c].step = "map", ![c].guid = u]
    /\ mishaps' = mishaps \cup Late(c)
    /\ UNCHANGED <<app, apps, names, assigned, admins, lock, written>>

MapUsername(c) ==
    /\ calls[c].step = "map"
    /\ names' = [names EXCEPT ![calls[c].name] = calls[c].guid]
    /\ IF calls[c].roles THEN Goto(c, "roles") /\ UNCHANGED lock ELSE Return(c)
    /\ mishaps' = mishaps \cup Late(c)
    /\ UNCHANGED <<app, apps, owned, assigned, admins, used, written>>

AssignRoles(c) ==
    /\ calls[c].step = "roles"
    /\ assigned' = calls[c].doc \cup {calls[c].name}
    /\ mishaps' = mishaps \cup Late(c) \cup (IF assigned = calls[c].doc THEN {} ELSE {"lost"})
    /\ Return(c)
    /\ UNCHANGED <<app, apps, owned, names, admins, used, written>>

(* Mutant of Undo: the account is taken back, its username is not. *)
UndoLeavesUsername(c) ==
    /\ calls[c].step \in {"map", "roles"}
    /\ owned' = [owned EXCEPT ![calls[c].guid] = 0]
    /\ Return(c)
    /\ UNCHANGED <<app, apps, names, assigned, admins, used, mishaps, written>>

(* A failed save takes back what the call had written; the roles of the
   username stay as they are.                                               *)
Undo(c) ==
    /\ calls[c].step \in {"map", "roles"}
    /\ owned' = [owned EXCEPT ![calls[c].guid] = 0]
    /\ names' = IF calls[c].step = "roles"
                THEN [names EXCEPT ![calls[c].name] = NoUser] ELSE names
    /\ Return(c)
    /\ UNCHANGED <<app, apps, assigned, admins, used, mishaps, written>>

-----------------------------------------------------------------------------
(* handleDeleteLocalUser: the user and the usernames are read, then the    *)
(* record goes, and every username listed with its role assignment.        *)

BeginDelete(c, u) ==
    /\ owned[u] # 0
    /\ Begin(c, [NoCall EXCEPT !.step = "drop", !.guid = u,
                               !.left = {n \in Username : names[n] = u}])

(* Another call deletes the user or is still creating it. *)
Overlapped(u, listed) ==
    \/ owned[u] = 0
    \/ listed # {n \in Username : names[n] = u}
    \/ \E c \in Call : calls[c].guid = u /\ calls[c].step \in {"map", "roles"}

DropUser(c) ==
    /\ calls[c].step = "drop"
    /\ owned' = [owned EXCEPT ![calls[c].guid] = 0]
    /\ mishaps' = mishaps \cup Late(c)
         \cup (IF Overlapped(calls[c].guid, calls[c].left) THEN {"raced"} ELSE {})
    /\ IF calls[c].left = {} THEN Return(c) ELSE Goto(c, "unmap") /\ UNCHANGED lock
    /\ UNCHANGED <<app, apps, names, assigned, admins, used, written>>

(* One username goes, then the assignments are read. *)
UnmapUsername(c) ==
    /\ calls[c].step = "unmap"
    /\ \E n \in calls[c].left :
         /\ names' = [names EXCEPT ![n] = NoUser]
         /\ calls' = [calls EXCEPT ![c].step = "read", ![c].name = n, ![c].left = @ \ {n}]
    /\ mishaps' = mishaps \cup Late(c)
    /\ UNCHANGED <<app, apps, owned, assigned, admins, lock, used, written>>

ReadAssignments(c) ==
    /\ calls[c].step = "read"
    /\ calls' = [calls EXCEPT ![c].step = "unassign", ![c].doc = assigned]
    /\ UNCHANGED <<app, apps, owned, names, assigned, admins, lock, used, mishaps, written>>

(* The document is saved only when it named the username. *)
UnassignRoles(c) ==
    /\ calls[c].step = "unassign"
    /\ IF calls[c].name \in calls[c].doc
       THEN /\ assigned' = calls[c].doc \ {calls[c].name}
            /\ mishaps' = mishaps \cup Late(c)
                 \cup (IF assigned = calls[c].doc THEN {} ELSE {"lost"})
            /\ written' = written \ {calls[c].name}
       ELSE UNCHANGED <<assigned, mishaps, written>>
    /\ IF calls[c].left = {} THEN Return(c) ELSE Goto(c, "unmap") /\ UNCHANGED lock
    /\ UNCHANGED <<app, apps, owned, names, admins, used>>

-----------------------------------------------------------------------------
(* handleSetAppAuthz, handleSetOwnAuthz, handleAppBootstrap: the document   *)
(* of the request replaces the one stored, whatever it was.                *)

BeginAuthz(c, doc) == Begin(c, [NoCall EXCEPT !.step = "authz", !.doc = doc])

SaveAppAuthz(c) ==
    /\ calls[c].step = "authz"
    /\ assigned' = calls[c].doc
    /\ written' = calls[c].doc
    /\ mishaps' = mishaps \cup Late(c)
    /\ Return(c)
    /\ UNCHANGED <<app, apps, owned, names, admins, used>>

(* addAppAdmin, removeAppAdmin *)
BeginAdmin(c) == Begin(c, [NoCall EXCEPT !.step = "admin"])

AddAppAdmin(c) ==
    /\ calls[c].step = "admin"
    /\ admins' = admins \cup {calls[c].under}
    /\ mishaps' = mishaps \cup Late(c)
    /\ Return(c)
    /\ UNCHANGED <<app, apps, owned, names, assigned, used, written>>

RemoveAppAdmin(c) ==
    /\ calls[c].step = "admin"
    /\ admins' = {}
    /\ Return(c)
    /\ UNCHANGED <<app, apps, owned, names, assigned, used, mishaps, written>>

-----------------------------------------------------------------------------
(* handleCreateApp, handleDeleteApp: one transaction each. *)

CreateApp ==
    /\ app = 0 /\ apps < MaxApps
    /\ app' = apps + 1 /\ apps' = apps + 1
    /\ UNCHANGED <<owned, names, assigned, admins, lock, calls, used, mishaps, written>>

(* Mutant of DeleteApp: the cascade leaves the local users out. *)
DeleteAppKeepsUsers ==
    /\ app' = 0 /\ assigned' = {} /\ admins' = {} /\ written' = {}
    /\ UNCHANGED <<apps, owned, names, lock, calls, used, mishaps>>

(* DeleteApp takes the app's users with their usernames, its assignments
   and its administrators.                                                  *)
DeleteApp ==
    /\ app # 0
    /\ app' = 0
    /\ owned' = [u \in LocalUser |-> 0]
    /\ names' = [n \in Username |->
                   IF names[n] # NoUser /\ owned[names[n]] # 0 THEN NoUser ELSE names[n]]
    /\ assigned' = {} /\ admins' = {} /\ written' = {}
    /\ UNCHANGED <<apps, lock, calls, used, mishaps>>

(* The server stops and starts again. *)
StopAppCalls ==
    /\ \E c \in Call : calls[c] # NoCall
    /\ calls' = [c \in Call |-> NoCall]
    /\ lock' = {}
    /\ mishaps' = mishaps \cup {"stopped"}
    /\ UNCHANGED <<app, apps, owned, names, assigned, admins, used, written>>

AppNext ==
    \/ \E c \in Call :
         \/ \E n \in Username, withRoles \in BOOLEAN : BeginCreate(c, n, withRoles)
         \/ CheckUsername(c) \/ CreateUser(c) \/ MapUsername(c) \/ AssignRoles(c) \/ Undo(c)
         \/ \E u \in LocalUser : BeginDelete(c, u)
         \/ DropUser(c) \/ UnmapUsername(c) \/ ReadAssignments(c) \/ UnassignRoles(c)
         \/ \E doc \in SUBSET Username : BeginAuthz(c, doc)
         \/ SaveAppAuthz(c)
         \/ BeginAdmin(c) \/ AddAppAdmin(c) \/ RemoveAppAdmin(c)
    \/ CreateApp \/ DeleteApp \/ StopAppCalls

AppSpec == AppInit /\ [][AppNext]_appVars

-----------------------------------------------------------------------------

AppTypeOK ==
    /\ app \in 0 .. MaxApps /\ apps \in 0 .. MaxApps
    /\ owned \in [LocalUser -> 0 .. MaxApps]
    /\ names \in [Username -> LocalUser \cup {NoUser}]
    /\ assigned \subseteq Username /\ written \subseteq Username
    /\ admins \subseteq 0 .. MaxApps
    /\ lock \subseteq Call /\ used \subseteq LocalUser
    /\ mishaps \subseteq Mishap

(***************************************************************************)
(* The creation of a local user never takes a username over from the       *)
(* account that has it: a username only ever goes from one account to none *)
(* (localUserMu in handleCreateLocalUser), except where the creation       *)
(* failed to look up that very username and dropped the error.             *)
(***************************************************************************)
UsernamesAreNotTaken ==
    [][\A n \in Username : names[n] # NoUser =>
         \/ names'[n] \in {names[n], NoUser}
         \/ \E c \in Call : calls[c].unread /\ calls[c].name = n]_appVars

(***************************************************************************)
(* A registered app id finds nothing of an earlier registration under it:  *)
(* no account, no role assignment, no administrator; only a call that      *)
(* passed its app check before the deletion and wrote after it can leave   *)
(* some (DeleteApp and every call of requireApp).                          *)
(***************************************************************************)
AppStartsEmpty ==
    "late" \notin mishaps =>
      /\ \A u \in LocalUser : owned[u] \in {0, app}
      /\ admins \subseteq {app} \ {0}
      /\ app = 0 => assigned = {}

(***************************************************************************)
(* Between calls, and unless one of the named overlaps happened, every     *)
(* account has a username, every username an account, and only usernames   *)
(* that exist or that an operator's document named hold roles: neither a   *)
(* failed save nor a deletion leaves half a user or a role behind          *)
(* (handleCreateLocalUser and its undo, handleDeleteLocalUser).            *)
(***************************************************************************)
LocalUsersAreWhole ==
    mishaps = {} /\ (\A c \in Call : calls[c] = NoCall) =>
      /\ \A u \in LocalUser : owned[u] # 0 => \E n \in Username : names[n] = u
      /\ \A n \in Username : names[n] # NoUser => owned[names[n]] # 0
      /\ \A n \in assigned \ written : names[n] # NoUser

=============================================================================
