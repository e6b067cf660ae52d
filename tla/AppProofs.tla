----------------------------- MODULE AppProofs ------------------------------
(***************************************************************************)
(* Proofs about AppUsers and AppCredentials: usernames are not taken over, *)
(* an app id that is registered again starts empty, between calls no half  *)
(* of a local user is left, and a rotation of the secret of an app ends    *)
(* the tokens obtained with the old one and no others.                     *)
(***************************************************************************)
EXTENDS AppUsers, AppCredentials, TLAPS

-----------------------------------------------------------------------------
(* The local users of an app: AppUsers. *)

Steps ==
    {"none", "check", "create", "map", "roles", "drop", "unmap", "read", "unassign", "authz", "admin"}

Creating == {"map", "roles"}
Deleting == {"unmap", "read", "unassign"}

CallState ==
    [step : Steps, under : Nat, name : Username \cup {""}, guid : LocalUser \cup {NoUser},
     left : SUBSET Username, roles : BOOLEAN, doc : SUBSET Username, unread : BOOLEAN]

(* Registrations are numbered; a call under way began under one of them and
   has the username and the user its step needs.                            *)
CallOK(c) ==
    /\ calls[c].step # "none" => calls[c].under \in 1 .. apps
    /\ calls[c].step \in {"check", "create", "read", "unassign"} \cup Creating =>
         calls[c].name \in Username
    /\ calls[c].step \in {"drop"} \cup Creating \cup Deleting => calls[c].guid \in used

AppTypes ==
    /\ apps \in Nat /\ app \in {0, apps}
    /\ owned \in [LocalUser -> Nat]
    /\ names \in [Username -> LocalUser \cup {NoUser}]
    /\ assigned \subseteq Username /\ written \subseteq Username
    /\ admins \subseteq Nat
    /\ used \subseteq LocalUser /\ mishaps \subseteq Mishap
    /\ calls \in [Call -> CallState]
    /\ \A c \in Call : CallOK(c)
    /\ \A u \in LocalUser : owned[u] # 0 => u \in used
    /\ \A n \in Username : names[n] # NoUser => names[n] \in used

(* A call that creates a user has the lock, and its username is free until
   the call maps it, unless the call could not look it up.                  *)
HasLock(c) ==
    /\ calls[c].step \in {"create"} \cup Creating => lock = {c}
    /\ calls[c].step \in {"create", "map"} =>
         calls[c].unread \/ names[calls[c].name] = NoUser

LockInv == \A c \in Call : HasLock(c)

(* Between the calls: who has a record has a username or is given one now;
   who has a username has a record or is deleted now; a username with roles
   is in use, or its roles are about to go.                                 *)
EveryUserNamed ==
    \A u \in LocalUser : owned[u] # 0 =>
      \/ \E n \in Username : names[n] = u
      \/ \E c \in Call : calls[c].step = "map" /\ calls[c].guid = u

EveryNameOwned ==
    \A n \in Username : names[n] # NoUser =>
      \/ owned[names[n]] # 0
      \/ \E c \in Call : calls[c].step \in Deleting /\ n \in calls[c].left /\ calls[c].guid = names[n]

Unassigning(n) ==
    \E c \in Call : /\ calls[c].name = n
                    /\ \/ calls[c].step = "read"
                       \/ calls[c].step = "unassign" /\ n \in calls[c].doc

EveryRoleNamed ==
    \A n \in assigned \ written :
      \/ Unassigning(n)
      \/ names[n] # NoUser /\ \A c \in Call : calls[c].step = "roles" => calls[c].name # n

(* A deletion works on a user without a record that no other call deletes or
   creates, and on usernames that are that user's.                          *)
DeletesAlone(c) ==
    calls[c].step \in Deleting =>
      /\ owned[calls[c].guid] = 0
      /\ \A n \in calls[c].left : names[n] = calls[c].guid
      /\ \A d \in Call \ {c} :
           calls[d].step \in Creating \cup Deleting => calls[d].guid # calls[c].guid

(* A creation works on a user with no other username, as long as the app is
   the one it began under.                                                  *)
CreatesOwn(c) ==
    calls[c].step \in Creating =>
      /\ \A n \in Username : names[n] = calls[c].guid => n = calls[c].name /\ calls[c].step = "roles"
      /\ calls[c].under = app /\ calls[c].step = "map" => owned[calls[c].guid] # 0
      /\ calls[c].under = app /\ calls[c].step = "roles" => names[calls[c].name] = calls[c].guid
      /\ calls[c].step = "roles" => names[calls[c].name] \in {calls[c].guid, NoUser}

WholeInv ==
    mishaps = {} =>
      /\ EveryUserNamed /\ EveryNameOwned /\ EveryRoleNamed
      /\ \A c \in Call : DeletesAlone(c) /\ CreatesOwn(c)

AppInv == AppTypes /\ LockInv /\ AppStartsEmpty /\ WholeInv

(* A look-up that failed is remembered. *)
UnreadInv == \A c \in Call : calls[c].unread => "unread" \in mishaps

-----------------------------------------------------------------------------

LEMMA NoCallFacts ==
    /\ NoCall \in CallState /\ NoCall.step = "none" /\ NoCall.guid = NoUser /\ NoCall.left = {}
    /\ ~NoCall.unread
BY DEF NoCall, CallState, Steps

LEMMA CallMoves ==
    ASSUME AppTypes, NEW c \in Call, NEW call \in CallState, calls' = [calls EXCEPT ![c] = call]
    PROVE  /\ calls' \in [Call -> CallState] /\ calls'[c] = call
           /\ \A d \in Call \ {c} : calls'[d] = calls[d]
BY DEF AppTypes

(* The records and documents stay typed; the moved call has what it needs. *)
LEMMA TypesKeep ==
    ASSUME AppTypes, NEW c \in Call, NEW call \in CallState, calls' = [calls EXCEPT ![c] = call],
           UNCHANGED <<app, apps>>,
           owned' \in [LocalUser -> Nat], names' \in [Username -> LocalUser \cup {NoUser}],
           assigned' \subseteq Username, written' \subseteq Username, admins' \subseteq Nat,
           used' \subseteq LocalUser, used \subseteq used', mishaps' \subseteq Mishap,
           \A u \in LocalUser : owned'[u] # 0 => u \in used',
           \A n \in Username : names'[n] # NoUser => names'[n] \in used',
           call.step # "none" => call.under \in 1 .. apps,
           call.step \in {"check", "create", "read", "unassign"} \cup Creating => call.name \in Username,
           call.step \in {"drop"} \cup Creating \cup Deleting => call.guid \in used'
    PROVE  AppTypes'
<1>1. /\ calls' \in [Call -> CallState] /\ calls'[c] = call
      /\ \A d \in Call \ {c} : calls'[d] = calls[d]
  BY CallMoves
<1>2. ASSUME NEW d \in Call PROVE CallOK(d)'
  <2>1. CASE d = c BY <1>1, <2>1 DEF CallOK
  <2>2. CASE d # c
    <3>1. CallOK(d) /\ calls'[d] = calls[d] BY <1>1, <2>2 DEF AppTypes
    <3> QED BY <3>1 DEF CallOK
  <2> QED BY <2>1, <2>2
<1> QED BY <1>1, <1>2 DEF AppTypes

(* A call that neither creates nor deletes changes nothing of the users. *)
LEMMA QuietWhole ==
    ASSUME AppTypes, WholeInv, NEW c \in Call, NEW call \in CallState,
           calls' = [calls EXCEPT ![c] = call],
           calls[c].step \notin Creating \cup Deleting, call.step \notin Creating \cup Deleting,
           UNCHANGED <<app, owned, names, assigned, written>>, mishaps \subseteq mishaps'
    PROVE  WholeInv'
<1> SUFFICES ASSUME mishaps' = {}
             PROVE  /\ EveryUserNamed' /\ EveryNameOwned' /\ EveryRoleNamed'
                    /\ \A d \in Call : (DeletesAlone(d) /\ CreatesOwn(d))'
  BY DEF WholeInv
<1>1. /\ calls'[c] = call /\ \A d \in Call \ {c} : calls'[d] = calls[d]
  BY CallMoves
<1>2. /\ EveryUserNamed /\ EveryNameOwned /\ EveryRoleNamed
      /\ \A d \in Call : DeletesAlone(d) /\ CreatesOwn(d)
  BY DEF WholeInv
<1>3. EveryUserNamed' BY <1>1, <1>2 DEF EveryUserNamed, Creating
<1>4. EveryNameOwned' BY <1>1, <1>2 DEF EveryNameOwned
<1>5. EveryRoleNamed'
  <2>1. \A n \in Username : Unassigning(n) => Unassigning(n)'
    BY <1>1 DEF Unassigning, Deleting
  <2> QED BY <1>1, <1>2, <2>1 DEF EveryRoleNamed, AppTypes, Creating
<1>6. \A d \in Call : DeletesAlone(d)' BY <1>1, <1>2 DEF DeletesAlone
<1>7. \A d \in Call : CreatesOwn(d)' BY <1>1, <1>2 DEF CreatesOwn
<1> QED BY <1>3, <1>4, <1>5, <1>6, <1>7

LEMMA InitialApps == AppInit => AppInv
<1> SUFFICES ASSUME AppInit PROVE AppInv OBVIOUS
<1>1. NoCall \in CallState /\ NoCall.step = "none" BY NoCallFacts
<1>2. /\ app = 0 /\ apps = 0 /\ owned = [u \in LocalUser |-> 0]
      /\ names = [n \in Username |-> NoUser]
      /\ assigned = {} /\ admins = {} /\ used = {} /\ mishaps = {} /\ written = {}
      /\ calls = [c \in Call |-> NoCall]
  BY DEF AppInit
<1>3. AppTypes BY <1>1, <1>2 DEF AppTypes, CallOK, Creating, Deleting
<1>4. LockInv BY <1>1, <1>2 DEF LockInv, HasLock, Creating
<1>5. AppStartsEmpty BY <1>2 DEF AppStartsEmpty
<1>6. WholeInv
  BY <1>1, <1>2 DEF WholeInv, EveryUserNamed, EveryNameOwned, EveryRoleNamed, DeletesAlone,
                    CreatesOwn, Creating, Deleting
<1> QED BY <1>3, <1>4, <1>5, <1>6 DEF AppInv

(* Such a step keeps the invariant; a call that is about to create takes the
   lock.                                                                    *)
LEMMA QuietStep ==
    ASSUME AppInv, NEW c \in Call, NEW call \in CallState, calls' = [calls EXCEPT ![c] = call],
           calls[c].step \notin Creating \cup Deleting, call.step \notin Creating \cup Deleting,
           call.step # "none" => call.under \in 1 .. apps,
           call.step \in {"check", "create"} => call.name \in Username,
           call.step = "drop" => call.guid \in used,
           call.step = "create" => lock = {} /\ lock' = {c} /\ (call.unread \/ names[call.name] = NoUser),
           call.step # "create" => lock' \in {lock, lock \ {c}},
           UNCHANGED <<app, apps, owned, names, assigned, used, written>>,
           mishaps \subseteq mishaps', mishaps' \subseteq Mishap, admins' \subseteq Nat,
           "late" \notin mishaps' => admins' \subseteq admins \cup ({app} \ {0})
    PROVE  AppInv'
<1>1. AppTypes /\ WholeInv BY DEF AppInv
<1>2. AppTypes'
  <2>1. /\ owned \in [LocalUser -> Nat] /\ names \in [Username -> LocalUser \cup {NoUser}]
        /\ assigned \subseteq Username /\ written \subseteq Username /\ used \subseteq LocalUser
        /\ \A u \in LocalUser : owned[u] # 0 => u \in used
        /\ \A n \in Username : names[n] # NoUser => names[n] \in used
    BY <1>1 DEF AppTypes
  <2>2. /\ call.step \in {"check", "create", "read", "unassign"} \cup Creating => call.name \in Username
        /\ call.step \in {"drop"} \cup Creating \cup Deleting => call.guid \in used
    BY DEF Creating, Deleting
  <2> QED BY <1>1, <2>1, <2>2, TypesKeep
<1>3. /\ calls'[c] = call /\ \A d \in Call \ {c} : calls'[d] = calls[d]
  BY <1>1, CallMoves
<1>4. LockInv'
  <2>1. HasLock(c)' BY <1>3 DEF HasLock, Creating
  <2>2. ASSUME NEW d \in Call \ {c} PROVE HasLock(d)'
    <3>1. HasLock(d) /\ calls'[d] = calls[d] BY <1>3 DEF AppInv, LockInv
    <3> QED BY <3>1 DEF HasLock
  <2> QED BY <2>1, <2>2 DEF LockInv
<1>5. AppStartsEmpty' BY DEF AppInv, AppStartsEmpty
<1>6. WholeInv' BY <1>1, QuietWhole
<1> QED BY <1>2, <1>4, <1>5, <1>6 DEF AppInv

-----------------------------------------------------------------------------
(* One lemma per action. *)

(* A call of the app's API begins, with what the request says. *)
LEMMA BeginKeeps ==
    ASSUME AppInv, NEW c \in Call, NEW call \in CallState,
           call.step \in {"check", "drop", "authz", "admin"},
           call.step = "check" => call.name \in Username,
           call.step = "drop" => call.guid \in used,
           Begin(c, call)
    PROVE  AppInv'
<1> DEFINE new == [call EXCEPT !.under = app]
<1>1. /\ calls[c] = NoCall /\ app # 0 /\ calls' = [calls EXCEPT ![c] = new]
      /\ UNCHANGED <<app, apps, owned, names, assigned, admins, lock, used, mishaps, written>>
  BY DEF Begin
<1>2. /\ new \in CallState /\ new.step = call.step /\ new.under = app /\ new.name = call.name
      /\ new.guid = call.guid /\ app \in 1 .. apps
  <2>1. app \in Nat /\ app \in 1 .. apps BY <1>1 DEF AppInv, AppTypes
  <2> QED BY <2>1 DEF CallState
<1>3. calls[c].step = "none" BY <1>1, NoCallFacts
<1>4. mishaps \subseteq Mishap /\ admins \subseteq Nat BY DEF AppInv, AppTypes
<1>5. "none" \notin Creating \cup Deleting
      /\ new.step \notin Creating \cup Deleting \cup {"create", "none"}
  BY <1>2 DEF Creating, Deleting
<1> HIDE DEF new
<1> QED BY <1>1, <1>2, <1>3, <1>4, <1>5, QuietStep

LEMMA BeginsKeep ==
    ASSUME AppInv, NEW c \in Call,
           \/ \E n \in Username, withRoles \in BOOLEAN : BeginCreate(c, n, withRoles)
           \/ \E u \in LocalUser : BeginDelete(c, u)
           \/ \E doc \in SUBSET Username : BeginAuthz(c, doc)
           \/ BeginAdmin(c)
    PROVE  AppInv'
<1> USE NoCallFacts
<1>1. ASSUME NEW n \in Username, NEW withRoles \in BOOLEAN, BeginCreate(c, n, withRoles)
      PROVE  AppInv'
  <2> DEFINE call == [NoCall EXCEPT !.step = "check", !.name = n, !.roles = withRoles]
  <2>1. call \in CallState /\ call.step = "check" /\ call.name = n
    BY DEF CallState, Steps
  <2>2. Begin(c, call) BY <1>1 DEF BeginCreate
  <2> HIDE DEF call
  <2> QED BY <2>1, <2>2, BeginKeeps
<1>2. ASSUME NEW u \in LocalUser, BeginDelete(c, u)
      PROVE  AppInv'
  <2> DEFINE listed == {n \in Username : names[n] = u}
             call == [NoCall EXCEPT !.step = "drop", !.guid = u, !.left = listed]
  <2>1. listed \in SUBSET Username OBVIOUS
  <2>2. Begin(c, call) BY <1>2 DEF BeginDelete
  <2>3. u \in used BY <1>2 DEF BeginDelete, AppInv, AppTypes
  <2> HIDE DEF listed
  <2>4. call \in CallState /\ call.step = "drop" /\ call.guid = u
    BY <2>1 DEF CallState, Steps
  <2> HIDE DEF call
  <2> QED BY <2>2, <2>3, <2>4, BeginKeeps
<1>3. ASSUME NEW doc \in SUBSET Username, BeginAuthz(c, doc)
      PROVE  AppInv'
  <2> DEFINE call == [NoCall EXCEPT !.step = "authz", !.doc = doc]
  <2>1. call \in CallState /\ call.step = "authz" BY DEF CallState, Steps
  <2>2. Begin(c, call) BY <1>3 DEF BeginAuthz
  <2> HIDE DEF call
  <2> QED BY <2>1, <2>2, BeginKeeps
<1>4. ASSUME BeginAdmin(c) PROVE AppInv'
  <2> DEFINE call == [NoCall EXCEPT !.step = "admin"]
  <2>1. call \in CallState /\ call.step = "admin" BY DEF CallState, Steps
  <2>2. Begin(c, call) BY <1>4 DEF BeginAdmin
  <2> HIDE DEF call
  <2> QED BY <2>1, <2>2, BeginKeeps
<1> QED BY <1>1, <1>2, <1>3, <1>4

LEMMA CheckUsernameKeeps ==
    ASSUME AppInv, NEW c \in Call, CheckUsername(c)
    PROVE  AppInv'
<1> DEFINE taken == names[calls[c].name] # NoUser
<1>1. /\ calls[c].step = "check" /\ lock = {} /\ calls[c] \in CallState /\ CallOK(c)
      /\ UNCHANGED <<app, apps, owned, names, assigned, admins, used, written>>
      /\ mishaps \subseteq Mishap /\ admins \subseteq Nat /\ assigned \in SUBSET Username
  BY DEF CheckUsername, AppInv, AppTypes
<1>2. calls[c].name \in Username /\ calls[c].under \in 1 .. apps BY <1>1 DEF CallOK
<1>3. {"check", "none", "create"} \cap (Creating \cup Deleting) = {} BY DEF Creating, Deleting
<1>4. "late" \notin mishaps' => admins' \subseteq admins \cup ({app} \ {0}) BY <1>1
<1>5. CASE Return(c) /\ UNCHANGED mishaps
  <2>1. calls' = [calls EXCEPT ![c] = NoCall] /\ lock' = lock \ {c}
    BY <1>5 DEF Return
  <2> QED BY <1>1, <1>3, <1>4, <1>5, <2>1, NoCallFacts, QuietStep
<1>6. CASE /\ calls' = [calls EXCEPT ![c].step = "create", ![c].doc = assigned, ![c].unread = taken]
           /\ lock' = {c} /\ mishaps' = mishaps \cup (IF taken THEN {"unread"} ELSE {})
  <2> DEFINE call == [calls[c] EXCEPT !.step = "create", !.doc = assigned, !.unread = taken]
  <2>1. calls' = [calls EXCEPT ![c] = call] /\ lock' = {c}
    BY <1>6
  <2>2. /\ call \in CallState /\ call.step = "create" /\ call.name = calls[c].name
        /\ call.under = calls[c].under /\ (call.unread \/ names[call.name] = NoUser)
    BY <1>1 DEF CallState, Steps
  <2>3. mishaps \subseteq mishaps' /\ mishaps' \subseteq Mishap BY <1>1, <1>6 DEF Mishap
  <2> HIDE DEF call
  <2> QED BY <1>1, <1>2, <1>3, <1>4, <2>1, <2>2, <2>3, QuietStep
<1> QED BY <1>5, <1>6 DEF CheckUsername

LEMMA AdminKeeps ==
    ASSUME AppInv, NEW c \in Call, AddAppAdmin(c) \/ RemoveAppAdmin(c)
    PROVE  AppInv'
<1>1. /\ calls[c].step = "admin" /\ calls[c] \in CallState /\ CallOK(c)
      /\ UNCHANGED <<app, apps, owned, names, assigned, used, written>>
      /\ calls' = [calls EXCEPT ![c] = NoCall] /\ lock' = lock \ {c}
      /\ mishaps \subseteq Mishap /\ admins \subseteq Nat /\ apps \in Nat
  BY DEF AddAppAdmin, RemoveAppAdmin, Return, AppInv, AppTypes
<1>2. calls[c].under \in Nat /\ calls[c].under # 0
  <2>1. calls[c].under \in 1 .. apps /\ apps \in Nat BY <1>1 DEF CallOK
  <2> QED BY <2>1
<1>3. /\ mishaps' \in {mishaps, mishaps \cup Late(c)} /\ admins' \in {{}, admins \cup {calls[c].under}}
      /\ admins' # {} => mishaps' = mishaps \cup Late(c)
  BY DEF AddAppAdmin, RemoveAppAdmin
<1>4. Late(c) \subseteq Mishap /\ (calls[c].under # app => "late" \in Late(c))
  BY DEF Late, Mishap
<1>5. {"admin", "none"} \cap (Creating \cup Deleting) = {} BY DEF Creating, Deleting
<1>6. /\ mishaps \subseteq mishaps' /\ mishaps' \subseteq Mishap /\ admins' \subseteq Nat
      /\ "late" \notin mishaps' => admins' \subseteq admins \cup ({app} \ {0})
  BY <1>1, <1>2, <1>3, <1>4
<1> QED BY <1>1, <1>5, <1>6, NoCallFacts, QuietStep

LEMMA CreateUserKeeps ==
    ASSUME AppInv, NEW c \in Call, CreateUser(c)
    PROVE  AppInv'
<1>1. PICK u \in LocalUser \ used :
        /\ owned' = [owned EXCEPT ![u] = calls[c].under]
        /\ used' = used \cup {u}
        /\ calls' = [calls EXCEPT ![c].step = "map", ![c].guid = u]
  BY DEF CreateUser
<1> DEFINE call == [calls[c] EXCEPT !.step = "map", !.guid = u]
<1>2. /\ calls[c].step = "create" /\ calls[c] \in CallState /\ CallOK(c) /\ AppTypes
      /\ mishaps' = mishaps \cup Late(c)
      /\ UNCHANGED <<app, apps, names, assigned, admins, lock, written>>
      /\ owned \in [LocalUser -> Nat] /\ used \subseteq LocalUser /\ apps \in Nat
      /\ names \in [Username -> LocalUser \cup {NoUser}]
  BY DEF CreateUser, AppInv, AppTypes
<1>3. /\ call \in CallState /\ call.step = "map" /\ call.guid = u /\ call.name = calls[c].name
      /\ call.under = calls[c].under /\ call.unread = calls[c].unread
  BY <1>2 DEF CallState, Steps
<1>4. calls' = [calls EXCEPT ![c] = call] BY <1>1, <1>2 DEF AppTypes
<1> HIDE DEF call
<1>5. calls[c].name \in Username /\ calls[c].under \in 1 .. apps /\ calls[c].under \in Nat \ {0}
  BY <1>2 DEF CallOK
<1>6. /\ calls'[c] = call /\ \A d \in Call \ {c} : calls'[d] = calls[d]
  BY <1>2, <1>3, <1>4, CallMoves
<1>7. /\ owned' \in [LocalUser -> Nat] /\ owned'[u] = calls[c].under
      /\ \A v \in LocalUser \ {u} : owned'[v] = owned[v]
  BY <1>1, <1>2, <1>5
<1>8. Late(c) \subseteq Mishap /\ (calls[c].under # app => "late" \in Late(c))
  BY DEF Late, Mishap
<1>9. \A n \in Username : names[n] # NoUser => names[n] \in used BY DEF AppInv, AppTypes
<1>10. AppTypes'
  <2>1. /\ assigned' \subseteq Username /\ written' \subseteq Username /\ admins' \subseteq Nat
        /\ used' \subseteq LocalUser /\ mishaps' \subseteq Mishap
    BY <1>1, <1>2, <1>8 DEF AppTypes
  <2>2. \A v \in LocalUser : owned'[v] # 0 => v \in used'
    BY <1>1, <1>2, <1>7 DEF AppTypes
  <2>3. used \subseteq used' /\ u \in used' BY <1>1
  <2>4. names' = names /\ \A n \in Username : names'[n] # NoUser => names'[n] \in used'
    BY <1>2, <1>9, <2>3
  <2>5. call.under \in 1 .. apps /\ call.name \in Username /\ call.guid \in used'
    BY <1>3, <1>5, <2>3
  <2>6. UNCHANGED <<app, apps>> /\ names' \in [Username -> LocalUser \cup {NoUser}]
    BY <1>2, <2>4
  <2> QED BY <1>2, <1>3, <1>4, <1>7, <2>1, <2>2, <2>3, <2>4, <2>5, <2>6, TypesKeep
<1>11. LockInv' BY <1>2, <1>3, <1>6 DEF AppInv, LockInv, HasLock, Creating
<1>12. AppStartsEmpty' BY <1>2, <1>7, <1>8 DEF AppInv, AppStartsEmpty
<1>13. WholeInv'
  <2> SUFFICES ASSUME mishaps' = {}
               PROVE  /\ EveryUserNamed' /\ EveryNameOwned' /\ EveryRoleNamed'
                      /\ \A d \in Call : (DeletesAlone(d) /\ CreatesOwn(d))'
    BY DEF WholeInv
  <2>1. mishaps = {} /\ calls[c].under = app BY <1>2, <1>8
  <2>2. /\ EveryUserNamed /\ EveryNameOwned /\ EveryRoleNamed
        /\ \A d \in Call : DeletesAlone(d) /\ CreatesOwn(d)
    BY <2>1 DEF AppInv, WholeInv
  <2>3. \A d \in Call : calls[d].step \in Creating \cup Deleting => calls[d].guid \in used
    BY DEF AppInv, AppTypes, CallOK
  <2>4. EveryUserNamed'
    BY <1>2, <1>3, <1>6, <1>7, <2>2 DEF EveryUserNamed
  <2>5. EveryNameOwned'
    <3>1. ASSUME NEW n \in Username, names[n] # NoUser
          PROVE  \/ owned'[names[n]] # 0
                 \/ \E d \in Call : /\ calls'[d].step \in Deleting /\ n \in calls'[d].left
                                    /\ calls'[d].guid = names[n]
      <4>1. names[n] \in LocalUser \ {u} BY <1>2, <1>9, <3>1
      <4>2. CASE owned[names[n]] # 0 BY <1>7, <4>1, <4>2
      <4>3. CASE \E d \in Call : /\ calls[d].step \in Deleting /\ n \in calls[d].left
                                 /\ calls[d].guid = names[n]
        BY <1>2, <1>6, <4>3 DEF Deleting
      <4> QED BY <2>2, <3>1, <4>2, <4>3 DEF EveryNameOwned
    <3> QED BY <1>2, <3>1 DEF EveryNameOwned
  <2>6. EveryRoleNamed'
    <3>1. \A n \in Username : Unassigning(n) => Unassigning(n)'
      BY <1>2, <1>6 DEF Unassigning
    <3> QED BY <1>2, <1>3, <1>6, <2>2, <3>1 DEF EveryRoleNamed, AppTypes
  <2>7. ASSUME NEW d \in Call PROVE DeletesAlone(d)'
    <3>1. CASE d = c BY <1>3, <1>6, <3>1 DEF DeletesAlone, Deleting
    <3>2. CASE d # c /\ calls[d].step \in Deleting
      <4>1. calls'[d] = calls[d] /\ calls[d].guid \in used /\ calls[d].guid \in LocalUser \ {u}
        BY <1>2, <1>6, <2>3, <3>2
      <4>2. owned'[calls[d].guid] = 0 BY <1>7, <2>2, <3>2, <4>1 DEF DeletesAlone
      <4>3. \A e \in Call \ {d} : calls'[e].step \in Creating \cup Deleting => calls'[e].guid # calls[d].guid
        BY <1>3, <1>6, <2>2, <3>2, <4>1 DEF DeletesAlone
      <4> QED BY <1>2, <2>2, <3>2, <4>1, <4>2, <4>3 DEF DeletesAlone
    <3>3. CASE d # c /\ calls[d].step \notin Deleting BY <1>6, <3>3 DEF DeletesAlone
    <3> QED BY <3>1, <3>2, <3>3
  <2>8. ASSUME NEW d \in Call PROVE CreatesOwn(d)'
    <3>1. CASE d = c
      <4>1. \A n \in Username : names[n] # u BY <1>1, <1>2, <1>9, NoUserIsNoGUID
      <4> QED BY <1>2, <1>3, <1>5, <1>6, <1>7, <3>1, <4>1 DEF CreatesOwn
    <3>2. CASE d # c /\ calls[d].step \in Creating
      <4>1. calls'[d] = calls[d] /\ calls[d].guid \in LocalUser \ {u}
        BY <1>2, <1>6, <2>3, <3>2
      <4> QED BY <1>2, <1>7, <2>2, <3>2, <4>1 DEF CreatesOwn
    <3>3. CASE d # c /\ calls[d].step \notin Creating BY <1>6, <3>3 DEF CreatesOwn
    <3> QED BY <3>1, <3>2, <3>3
  <2> QED BY <2>4, <2>5, <2>6, <2>7, <2>8
<1> QED BY <1>10, <1>11, <1>12, <1>13 DEF AppInv

(* While one call creates a user no other does. *)
LEMMA CreatesAlone ==
    ASSUME AppInv, NEW c \in Call, calls[c].step \in {"create"} \cup Creating
    PROVE  /\ lock = {c}
           /\ \A d \in Call \ {c} : calls[d].step \notin {"create"} \cup Creating
BY DEF AppInv, LockInv, HasLock

LEMMA LateFacts ==
    ASSUME NEW c \in Call
    PROVE  Late(c) \subseteq Mishap /\ (calls[c].under # app => "late" \in Late(c))
BY DEF Late, Mishap

LEMMA MapUsernameKeeps ==
    ASSUME AppInv, UnreadInv, NEW c \in Call, MapUsername(c)
    PROVE  AppInv'
<1> DEFINE name == calls[c].name
           g == calls[c].guid
           next == [calls[c] EXCEPT !.step = "roles"]
<1>1. /\ calls[c].step = "map" /\ calls[c] \in CallState /\ CallOK(c) /\ AppTypes
      /\ names' = [names EXCEPT ![name] = g]
      /\ mishaps' = mishaps \cup Late(c)
      /\ UNCHANGED <<app, apps, owned, assigned, admins, used, written>>
      /\ owned \in [LocalUser -> Nat] /\ used \subseteq LocalUser
      /\ names \in [Username -> LocalUser \cup {NoUser}]
  BY DEF MapUsername, AppInv, AppTypes
<1>2. PICK call \in {next, NoCall} : calls' = [calls EXCEPT ![c] = call]
  <2>1. CASE calls[c].roles BY <1>1, <2>1 DEF MapUsername, Goto, AppTypes
  <2>2. CASE ~calls[c].roles BY <2>2 DEF MapUsername, Return
  <2> QED BY <2>1, <2>2
<1>3. lock' = lock \/ (lock' = lock \ {c} /\ call = NoCall)
  <2>1. CASE calls[c].roles BY <2>1 DEF MapUsername
  <2>2. CASE ~calls[c].roles
    <3>1. calls' = [calls EXCEPT ![c] = NoCall] /\ lock' = lock \ {c} BY <2>2 DEF MapUsername, Return
    <3>2. calls'[c] = NoCall /\ calls'[c] = call BY <1>1, <1>2, <3>1 DEF AppTypes
    <3> QED BY <3>1, <3>2
  <2> QED BY <2>1, <2>2
<1>4. /\ call \in CallState
      /\ \/ call.step = "none"
         \/ call.step = "roles" /\ call.name = name /\ call.guid = g /\ call.under = calls[c].under
  BY <1>1, <1>2, NoCallFacts DEF CallState, Steps
<1>5. name \in Username /\ g \in used /\ g \in LocalUser /\ calls[c].under \in 1 .. apps
  BY <1>1 DEF CallOK, Creating
<1>6. /\ calls'[c] = call /\ \A d \in Call \ {c} : calls'[d] = calls[d]
  BY <1>1, <1>2, <1>4, CallMoves
<1>7. /\ lock = {c} /\ (mishaps = {} => names[name] = NoUser)
      /\ \A d \in Call \ {c} : calls[d].step \notin {"create"} \cup Creating
  BY <1>1, CreatesAlone DEF AppInv, LockInv, HasLock, Creating, UnreadInv
<1> HIDE DEF name, g, next
<1>8. /\ names' \in [Username -> LocalUser \cup {NoUser}] /\ names'[name] = g
      /\ \A n \in Username \ {name} : names'[n] = names[n]
  BY <1>1, <1>5
<1>9. AppTypes'
  <2>1. /\ assigned' \subseteq Username /\ written' \subseteq Username /\ admins' \subseteq Nat
        /\ used' \subseteq LocalUser /\ used \subseteq used' /\ mishaps' \subseteq Mishap
        /\ \A u \in LocalUser : owned'[u] # 0 => u \in used'
        /\ \A n \in Username : names[n] # NoUser => names[n] \in used
    BY <1>1, LateFacts DEF AppTypes
  <2>2. \A n \in Username : names'[n] # NoUser => names'[n] \in used'
    BY <1>1, <1>5, <1>8, <2>1
  <2>3. /\ call.step # "none" => call.under \in 1 .. apps
        /\ call.step \in {"check", "create", "read", "unassign"} \cup Creating => call.name \in Username
        /\ call.step \in {"drop"} \cup Creating \cup Deleting => call.guid \in used'
    BY <1>1, <1>4, <1>5 DEF Creating, Deleting
  <2> QED BY <1>1, <1>2, <1>4, <1>8, <2>1, <2>2, <2>3, TypesKeep
<1>10. LockInv'
  <2>1. HasLock(c)'
    BY <1>3, <1>4, <1>6, <1>7, NoCallFacts DEF HasLock, Creating
  <2>2. ASSUME NEW d \in Call \ {c} PROVE HasLock(d)' BY <1>6, <1>7, <2>2 DEF HasLock, Creating
  <2> QED BY <2>1, <2>2 DEF LockInv
<1>11. AppStartsEmpty' BY <1>1 DEF AppInv, AppStartsEmpty
<1>12. WholeInv'
  <2> SUFFICES ASSUME mishaps' = {}
               PROVE  /\ EveryUserNamed' /\ EveryNameOwned' /\ EveryRoleNamed'
                      /\ \A d \in Call : (DeletesAlone(d) /\ CreatesOwn(d))'
    BY DEF WholeInv
  <2>1. mishaps = {} /\ calls[c].under = app /\ names[name] = NoUser BY <1>1, <1>7, LateFacts
  <2>2. /\ EveryUserNamed /\ EveryNameOwned /\ EveryRoleNamed
        /\ \A d \in Call : DeletesAlone(d) /\ CreatesOwn(d)
    BY <2>1 DEF AppInv, WholeInv
  <2>3. /\ owned[g] # 0 /\ \A n \in Username : names[n] # g
    BY <1>1, <2>1, <2>2 DEF CreatesOwn, Creating, g
  <2>4. EveryUserNamed'
    <3>1. ASSUME NEW u \in LocalUser, owned[u] # 0
          PROVE  \/ \E n \in Username : names'[n] = u
                 \/ \E d \in Call : calls'[d].step = "map" /\ calls'[d].guid = u
      <4>1. CASE u = g BY <1>5, <1>8, <4>1
      <4>2. CASE \E n \in Username : names[n] = u BY <1>8, <2>1, <4>2, NoUserIsNoGUID
      <4>3. CASE u # g /\ \E d \in Call : calls[d].step = "map" /\ calls[d].guid = u
        BY <1>6, <4>3 DEF g
      <4> QED BY <2>2, <3>1, <4>1, <4>2, <4>3 DEF EveryUserNamed
    <3> QED BY <1>1, <3>1 DEF EveryUserNamed
  <2>5. EveryNameOwned'
    <3>1. ASSUME NEW n \in Username, names'[n] # NoUser
          PROVE  \/ owned'[names'[n]] # 0
                 \/ \E d \in Call : /\ calls'[d].step \in Deleting /\ n \in calls'[d].left
                                    /\ calls'[d].guid = names'[n]
      <4>1. CASE n = name BY <1>1, <1>8, <2>3, <4>1
      <4>2. CASE n # name
        <5>1. names'[n] = names[n] BY <1>8, <4>2
        <5>2. CASE owned[names[n]] # 0 BY <1>1, <5>1, <5>2
        <5>3. CASE \E d \in Call : /\ calls[d].step \in Deleting /\ n \in calls[d].left
                                   /\ calls[d].guid = names[n]
          BY <1>1, <1>6, <5>1, <5>3 DEF Deleting
        <5> QED BY <2>2, <3>1, <5>1, <5>2, <5>3 DEF EveryNameOwned
      <4> QED BY <4>1, <4>2
    <3> QED BY <3>1 DEF EveryNameOwned
  <2>6. EveryRoleNamed'
    <3>1. \A n \in Username : Unassigning(n) => Unassigning(n)'
      BY <1>1, <1>6 DEF Unassigning
    <3>2. ASSUME NEW n \in assigned \ written, ~Unassigning(n)
          PROVE  names'[n] # NoUser /\ \A d \in Call : calls'[d].step = "roles" => calls'[d].name # n
      <4>1. n \in Username /\ names[n] # NoUser BY <1>1, <2>2, <3>2 DEF EveryRoleNamed, AppTypes
      <4>2. n # name /\ names'[n] = names[n] BY <1>8, <2>1, <4>1
      <4>3. \A d \in Call \ {c} : calls'[d].step # "roles" BY <1>6, <1>7 DEF Creating
      <4> QED BY <1>4, <1>6, <4>1, <4>2, <4>3
    <3> QED BY <1>1, <3>1, <3>2 DEF EveryRoleNamed, AppTypes
  <2>7. ASSUME NEW d \in Call PROVE DeletesAlone(d)'
    <3>1. CASE d = c BY <1>4, <1>6, <3>1 DEF DeletesAlone, Deleting
    <3>2. CASE d # c /\ calls[d].step \in Deleting
      <4>1. calls'[d] = calls[d] /\ calls[d].guid \in LocalUser /\ calls[d].left \subseteq Username
        BY <1>1, <1>6, <3>2 DEF AppTypes, CallOK, CallState
      <4>2. \A n \in calls[d].left : names[n] = calls[d].guid BY <2>2, <3>2 DEF DeletesAlone
      <4>3. \A n \in calls[d].left : names'[n] = names[n]
        BY <1>8, <2>1, <4>1, <4>2, NoUserIsNoGUID
      <4>4. calls[d].guid # g BY <1>1, <2>2, <3>2 DEF DeletesAlone, Creating, g
      <4>5. \A e \in Call \ {d} : calls'[e].step \in Creating \cup Deleting => calls'[e].guid # calls[d].guid
        BY <1>4, <1>6, <2>2, <3>2, <4>4 DEF DeletesAlone, Creating, Deleting
      <4> QED BY <1>1, <2>2, <3>2, <4>1, <4>2, <4>3, <4>5 DEF DeletesAlone
    <3>3. CASE d # c /\ calls[d].step \notin Deleting BY <1>6, <3>3 DEF DeletesAlone
    <3> QED BY <3>1, <3>2, <3>3
  <2>8. ASSUME NEW d \in Call PROVE CreatesOwn(d)'
    <3>1. CASE d = c
      BY <1>4, <1>6, <1>8, <2>3, <3>1 DEF CreatesOwn, Creating
    <3>2. CASE d # c BY <1>6, <1>7, <3>2 DEF CreatesOwn
    <3> QED BY <3>1, <3>2
  <2> QED BY <2>4, <2>5, <2>6, <2>7, <2>8
<1> QED BY <1>9, <1>10, <1>11, <1>12 DEF AppInv

(* What the end of a call leaves to the others. *)
LEMMA ReturnLocks ==
    ASSUME AppInv, NEW c \in Call, calls' = [calls EXCEPT ![c] = NoCall], lock' = lock \ {c},
           \A n \in Username : names'[n] \in {names[n], NoUser}
    PROVE  LockInv'
<1>1. /\ calls'[c] = NoCall /\ \A d \in Call \ {c} : calls'[d] = calls[d]
  BY NoCallFacts, CallMoves DEF AppInv
<1>2. HasLock(c)' BY <1>1, NoCallFacts DEF HasLock, Creating
<1>3. ASSUME NEW d \in Call \ {c} PROVE HasLock(d)'
  <2>1. HasLock(d) /\ CallOK(d) /\ calls'[d] = calls[d] BY <1>1 DEF AppInv, AppTypes, LockInv
  <2> QED BY <2>1 DEF HasLock, CallOK, Creating
<1> QED BY <1>2, <1>3 DEF LockInv

(* A call that ends with no user or username of its own left to do. *)
LEMMA ReturnTypes ==
    ASSUME AppTypes, NEW c \in Call, calls' = [calls EXCEPT ![c] = NoCall],
           UNCHANGED <<app, apps, admins, used>>,
           owned' \in [LocalUser -> Nat], \A u \in LocalUser : owned'[u] \in {owned[u], 0},
           names' \in [Username -> LocalUser \cup {NoUser}],
           \A n \in Username : names'[n] \in {names[n], NoUser},
           assigned' \subseteq Username, written' \subseteq Username, mishaps' \subseteq Mishap
    PROVE  AppTypes'
<1>1. /\ admins' \subseteq Nat /\ used' \subseteq LocalUser /\ used \subseteq used'
      /\ \A u \in LocalUser : owned'[u] # 0 => u \in used'
      /\ \A n \in Username : names'[n] # NoUser => names'[n] \in used'
  BY DEF AppTypes
<1>2. "none" \notin {"check", "create", "read", "unassign", "drop"} \cup Creating \cup Deleting
  BY DEF Creating, Deleting
<1> QED BY <1>1, <1>2, NoCallFacts, TypesKeep

LEMMA AssignRolesKeeps ==
    ASSUME AppInv, NEW c \in Call, AssignRoles(c)
    PROVE  AppInv'
<1> DEFINE name == calls[c].name
<1>1. /\ calls[c].step = "roles" /\ calls[c] \in CallState /\ CallOK(c) /\ AppTypes
      /\ assigned' = calls[c].doc \cup {name}
      /\ mishaps' = mishaps \cup Late(c) \cup (IF assigned = calls[c].doc THEN {} ELSE {"lost"})
      /\ calls' = [calls EXCEPT ![c] = NoCall] /\ lock' = lock \ {c}
      /\ UNCHANGED <<app, apps, owned, names, admins, used, written>>
      /\ owned \in [LocalUser -> Nat] /\ names \in [Username -> LocalUser \cup {NoUser}]
      /\ written \subseteq Username /\ apps \in Nat
  BY DEF AssignRoles, Return, AppInv, AppTypes
<1>2. name \in Username /\ calls[c].under \in 1 .. apps /\ calls[c].guid \in LocalUser
  BY <1>1 DEF CallOK, Creating, AppTypes
<1>3. /\ calls'[c] = NoCall /\ \A d \in Call \ {c} : calls'[d] = calls[d]
  BY <1>1, NoCallFacts, CallMoves
<1>4. assigned' \subseteq Username /\ mishaps' \subseteq Mishap
  BY <1>1, <1>2, LateFacts DEF CallState, AppTypes, Mishap
<1>5. AppTypes' BY <1>1, <1>4, ReturnTypes
<1>6. LockInv' BY <1>1, ReturnLocks
<1>7. AppStartsEmpty'
  <2> SUFFICES ASSUME "late" \notin mishaps'
               PROVE  (/\ \A u \in LocalUser : owned[u] \in {0, app}
                       /\ admins \subseteq {app} \ {0} /\ (app = 0 => assigned = {}))'
    BY DEF AppStartsEmpty
  <2>1. "late" \notin mishaps /\ calls[c].under = app BY <1>1, LateFacts
  <2>2. app # 0 BY <1>1, <1>2, <2>1
  <2> QED BY <1>1, <2>1, <2>2 DEF AppInv, AppStartsEmpty
<1>8. WholeInv'
  <2> SUFFICES ASSUME mishaps' = {}
               PROVE  /\ EveryUserNamed' /\ EveryNameOwned' /\ EveryRoleNamed'
                      /\ \A d \in Call : (DeletesAlone(d) /\ CreatesOwn(d))'
    BY DEF WholeInv
  <2>1. mishaps = {} /\ calls[c].under = app /\ assigned = calls[c].doc BY <1>1, LateFacts
  <2>2. /\ EveryUserNamed /\ EveryNameOwned /\ EveryRoleNamed
        /\ \A d \in Call : DeletesAlone(d) /\ CreatesOwn(d)
    BY <2>1 DEF AppInv, WholeInv
  <2>3. EveryUserNamed' BY <1>1, <1>3, <2>2 DEF EveryUserNamed
  <2>4. EveryNameOwned' BY <1>1, <1>3, <2>2 DEF EveryNameOwned, Deleting
  <2>5. EveryRoleNamed'
    <3>1. \A n \in Username : Unassigning(n) => Unassigning(n)'
      BY <1>1, <1>3 DEF Unassigning
    <3>2. \A d \in Call : calls'[d].step # "roles"
      BY <1>1, <1>3, CreatesAlone, NoCallFacts DEF Creating
    <3>3. names[name] # NoUser
      BY <1>1, <1>2, <2>1, <2>2, NoUserIsNoGUID DEF CreatesOwn, Creating
    <3>4. ASSUME NEW n \in assigned' \ written, n # name, ~Unassigning(n)
          PROVE  names[n] # NoUser
      BY <1>1, <2>1, <2>2, <3>4 DEF EveryRoleNamed
    <3> QED BY <1>1, <1>4, <3>1, <3>2, <3>3, <3>4 DEF EveryRoleNamed
  <2>6. \A d \in Call : DeletesAlone(d)'
    BY <1>1, <1>3, <2>2, NoCallFacts DEF DeletesAlone, Creating, Deleting
  <2>7. \A d \in Call : CreatesOwn(d)'
    BY <1>1, <1>3, <2>2, NoCallFacts DEF CreatesOwn, Creating
  <2> QED BY <2>3, <2>4, <2>5, <2>6, <2>7
<1> QED BY <1>5, <1>6, <1>7, <1>8 DEF AppInv

LEMMA UndoKeeps ==
    ASSUME AppInv, NEW c \in Call, Undo(c)
    PROVE  AppInv'
<1> DEFINE name == calls[c].name
           g == calls[c].guid
<1>1. /\ calls[c].step \in Creating /\ calls[c] \in CallState /\ CallOK(c) /\ AppTypes
      /\ owned' = [owned EXCEPT ![g] = 0]
      /\ names' = IF calls[c].step = "roles" THEN [names EXCEPT ![name] = NoUser] ELSE names
      /\ calls' = [calls EXCEPT ![c] = NoCall] /\ lock' = lock \ {c}
      /\ UNCHANGED <<app, apps, assigned, admins, used, mishaps, written>>
      /\ owned \in [LocalUser -> Nat] /\ names \in [Username -> LocalUser \cup {NoUser}]
      /\ assigned \subseteq Username /\ written \subseteq Username /\ mishaps \subseteq Mishap
  BY DEF Undo, Return, AppInv, AppTypes, Creating
<1>2. name \in Username /\ g \in LocalUser
  BY <1>1 DEF CallOK, AppTypes
<1>3. /\ calls'[c] = NoCall /\ \A d \in Call \ {c} : calls'[d] = calls[d]
  BY <1>1, NoCallFacts, CallMoves
<1>4. \A d \in Call \ {c} : calls[d].step \notin Creating BY <1>1, CreatesAlone
<1> HIDE DEF name, g
<1>5. /\ owned' \in [LocalUser -> Nat] /\ owned'[g] = 0
      /\ \A u \in LocalUser \ {g} : owned'[u] = owned[u]
      /\ \A u \in LocalUser : owned'[u] \in {owned[u], 0}
  BY <1>1, <1>2
<1>6. /\ names' \in [Username -> LocalUser \cup {NoUser}]
      /\ \A n \in Username : names'[n] \in {names[n], NoUser}
      /\ \A n \in Username : n # name \/ calls[c].step # "roles" => names'[n] = names[n]
      /\ calls[c].step = "roles" => names'[name] = NoUser
  BY <1>1, <1>2
<1>7. AppTypes' BY <1>1, <1>5, <1>6, ReturnTypes
<1>8. LockInv' BY <1>1, <1>6, ReturnLocks
<1>9. AppStartsEmpty' BY <1>1, <1>5 DEF AppInv, AppStartsEmpty
<1>10. WholeInv'
  <2> SUFFICES ASSUME mishaps' = {}
               PROVE  /\ EveryUserNamed' /\ EveryNameOwned' /\ EveryRoleNamed'
                      /\ \A d \in Call : (DeletesAlone(d) /\ CreatesOwn(d))'
    BY DEF WholeInv
  <2>1. mishaps = {} BY <1>1
  <2>2. /\ EveryUserNamed /\ EveryNameOwned /\ EveryRoleNamed
        /\ \A d \in Call : DeletesAlone(d) /\ CreatesOwn(d)
    BY <2>1 DEF AppInv, WholeInv
  <2>3. /\ \A n \in Username : names[n] = g => n = name /\ calls[c].step = "roles"
        /\ calls[c].step = "roles" => names[name] \in {g, NoUser}
    BY <1>1, <2>2 DEF CreatesOwn, g, name
  <2>4. EveryUserNamed'
    <3>1. ASSUME NEW u \in LocalUser, owned'[u] # 0
          PROVE  \/ \E n \in Username : names'[n] = u
                 \/ \E d \in Call : calls'[d].step = "map" /\ calls'[d].guid = u
      <4>1. u # g /\ owned[u] # 0 BY <1>5, <3>1
      <4>2. CASE \E n \in Username : names[n] = u
        BY <1>6, <2>3, <4>1, <4>2, NoUserIsNoGUID
      <4>3. CASE \E d \in Call : calls[d].step = "map" /\ calls[d].guid = u
        BY <1>3, <4>1, <4>3 DEF g
      <4> QED BY <2>2, <4>1, <4>2, <4>3 DEF EveryUserNamed
    <3> QED BY <3>1 DEF EveryUserNamed
  <2>5. EveryNameOwned'
    <3>1. ASSUME NEW n \in Username, names'[n] # NoUser
          PROVE  \/ owned'[names'[n]] # 0
                 \/ \E d \in Call : /\ calls'[d].step \in Deleting /\ n \in calls'[d].left
                                    /\ calls'[d].guid = names'[n]
      <4>1. names'[n] = names[n] /\ names[n] # g BY <1>6, <2>3, <3>1
      <4>2. CASE owned[names[n]] # 0 BY <1>1, <1>5, <3>1, <4>1, <4>2
      <4>3. CASE \E d \in Call : /\ calls[d].step \in Deleting /\ n \in calls[d].left
                                 /\ calls[d].guid = names[n]
        BY <1>1, <1>3, <4>1, <4>3 DEF Creating, Deleting
      <4> QED BY <2>2, <3>1, <4>1, <4>2, <4>3 DEF EveryNameOwned
    <3> QED BY <3>1 DEF EveryNameOwned
  <2>6. EveryRoleNamed'
    <3>1. \A n \in Username : Unassigning(n) => Unassigning(n)'
      BY <1>1, <1>3 DEF Unassigning, Creating
    <3>2. ASSUME NEW n \in assigned \ written, ~Unassigning(n)
          PROVE  names'[n] # NoUser /\ \A d \in Call : calls'[d].step # "roles"
      <4>1. /\ n \in Username /\ names[n] # NoUser
            /\ \A d \in Call : calls[d].step = "roles" => calls[d].name # n
        BY <1>1, <2>2, <3>2 DEF EveryRoleNamed
      <4>2. names'[n] = names[n] BY <1>6, <4>1 DEF name
      <4> QED BY <1>3, <1>4, <4>1, <4>2, NoCallFacts DEF Creating
    <3> QED BY <1>1, <3>1, <3>2 DEF EveryRoleNamed
  <2>7. ASSUME NEW d \in Call PROVE DeletesAlone(d)'
    <3>1. CASE d # c /\ calls[d].step \in Deleting
      <4>1. calls'[d] = calls[d] /\ calls[d].guid \in LocalUser /\ calls[d].left \subseteq Username
        BY <1>1, <1>3, <3>1 DEF AppTypes, CallOK, CallState
      <4>2. calls[d].guid # g BY <1>1, <2>2, <3>1 DEF DeletesAlone, g
      <4>3. \A n \in calls[d].left : names[n] = calls[d].guid BY <2>2, <3>1 DEF DeletesAlone
      <4>4. \A n \in calls[d].left : names'[n] = calls[d].guid
        BY <1>6, <2>3, <4>1, <4>2, <4>3, NoUserIsNoGUID
      <4>5. owned'[calls[d].guid] = 0 BY <1>5, <2>2, <3>1, <4>1 DEF DeletesAlone
      <4>6. \A e \in Call \ {d} : calls'[e].step \in Creating \cup Deleting => calls'[e].guid # calls[d].guid
        BY <1>3, <2>2, <3>1, NoCallFacts DEF DeletesAlone, Creating, Deleting
      <4> QED BY <4>1, <4>4, <4>5, <4>6 DEF DeletesAlone
    <3>2. CASE d = c \/ calls[d].step \notin Deleting
      BY <1>3, <3>2, NoCallFacts DEF DeletesAlone, Deleting
    <3> QED BY <3>1, <3>2
  <2>8. \A d \in Call : CreatesOwn(d)' BY <1>3, <1>4, NoCallFacts DEF CreatesOwn, Creating
  <2> QED BY <2>4, <2>5, <2>6, <2>7, <2>8
<1> QED BY <1>7, <1>8, <1>9, <1>10 DEF AppInv

LEMMA DropUserKeeps ==
    ASSUME AppInv, NEW c \in Call, DropUser(c)
    PROVE  AppInv'
<1> DEFINE g == calls[c].guid
           listed == calls[c].left
           raced == IF Overlapped(g, listed) THEN {"raced"} ELSE {}
           next == [calls[c] EXCEPT !.step = "unmap"]
<1>1. /\ calls[c].step = "drop" /\ calls[c] \in CallState /\ CallOK(c) /\ AppTypes
      /\ owned' = [owned EXCEPT ![g] = 0]
      /\ mishaps' = mishaps \cup Late(c) \cup raced
      /\ UNCHANGED <<app, apps, names, assigned, admins, used, written>>
      /\ owned \in [LocalUser -> Nat] /\ names \in [Username -> LocalUser \cup {NoUser}]
      /\ assigned \subseteq Username /\ written \subseteq Username /\ used \subseteq LocalUser
      /\ admins \subseteq Nat
  BY DEF DropUser, AppInv, AppTypes
<1>2. PICK call \in {next, NoCall} :
        calls' = [calls EXCEPT ![c] = call] /\ (call = next \/ listed = {})
  <2>1. CASE listed = {} BY <2>1 DEF DropUser, Return
  <2>2. CASE listed # {} BY <1>1, <2>2 DEF DropUser, Goto, AppTypes
  <2> QED BY <2>1, <2>2
<1>3. lock' \in {lock, lock \ {c}} BY DEF DropUser, Return
<1>4. /\ call \in CallState
      /\ \/ call.step = "none" /\ listed = {}
         \/ call.step = "unmap" /\ call.guid = g /\ call.left = listed /\ call.under = calls[c].under
  BY <1>1, <1>2, NoCallFacts DEF CallState, Steps
<1>5. g \in LocalUser /\ g \in used /\ calls[c].under \in 1 .. apps
  BY <1>1 DEF CallOK, AppTypes
<1> HIDE DEF next
<1>6. /\ calls'[c] = call /\ \A d \in Call \ {c} : calls'[d] = calls[d]
  <2>1. AppTypes /\ call \in CallState /\ calls' = [calls EXCEPT ![c] = call]
    BY <1>2, <1>4 DEF AppInv
  <2> QED BY <2>1, CallMoves
<1>7. mishaps' \subseteq Mishap BY <1>1, LateFacts DEF AppTypes, Mishap
<1>8. /\ owned' \in [LocalUser -> Nat] /\ owned'[g] = 0
      /\ \A u \in LocalUser \ {g} : owned'[u] = owned[u]
      /\ \A u \in LocalUser : owned'[u] \in {owned[u], 0}
  <2> HIDE DEF g
  <2> QED BY <1>1, <1>5
<1>9. AppTypes'
  <2>1. /\ \A u \in LocalUser : owned'[u] # 0 => u \in used
        /\ \A n \in Username : names[n] # NoUser => names[n] \in used
    BY <1>1, <1>8 DEF AppTypes
  <2>2. /\ call.step # "none" => call.under \in 1 .. apps
        /\ call.step \in {"check", "create", "read", "unassign"} \cup Creating => call.name \in Username
        /\ call.step \in {"drop"} \cup Creating \cup Deleting => call.guid \in used
    BY <1>4, <1>5 DEF Creating, Deleting
  <2>3. /\ AppTypes /\ call \in CallState /\ calls' = [calls EXCEPT ![c] = call]
        /\ UNCHANGED <<app, apps>>
    BY <1>2, <1>4 DEF AppInv, DropUser
  <2>4. /\ names' \in [Username -> LocalUser \cup {NoUser}] /\ assigned' \subseteq Username
        /\ written' \subseteq Username /\ admins' \subseteq Nat /\ used' \subseteq LocalUser
        /\ used' = used /\ names' = names
    BY <1>1
  <2> QED BY <1>7, <1>8, <2>1, <2>2, <2>3, <2>4, TypesKeep
<1>10. LockInv'
  <2>1. HasLock(c)' BY <1>4, <1>6 DEF HasLock, Creating
  <2>2. ASSUME NEW d \in Call \ {c} PROVE HasLock(d)'
    <3>1. HasLock(d) /\ calls'[d] = calls[d] BY <1>6 DEF AppInv, LockInv
    <3> QED BY <1>1, <1>3, <3>1 DEF HasLock
  <2> QED BY <2>1, <2>2 DEF LockInv
<1>11. AppStartsEmpty' BY <1>1, <1>8 DEF AppInv, AppStartsEmpty
<1>12. WholeInv'
  <2> SUFFICES ASSUME mishaps' = {}
               PROVE  /\ EveryUserNamed' /\ EveryNameOwned' /\ EveryRoleNamed'
                      /\ \A d \in Call : (DeletesAlone(d) /\ CreatesOwn(d))'
    BY DEF WholeInv
  <2>1. mishaps = {} /\ ~Overlapped(g, listed) BY <1>1
  <2>2. /\ EveryUserNamed /\ EveryNameOwned /\ EveryRoleNamed
        /\ \A d \in Call : DeletesAlone(d) /\ CreatesOwn(d)
    BY <2>1 DEF AppInv, WholeInv
  <2>3. /\ owned[g] # 0 /\ listed = {n \in Username : names[n] = g}
        /\ \A d \in Call : calls[d].step \in Creating => calls[d].guid # g
    BY <2>1 DEF Overlapped, Creating
  <2>4. \A d \in Call : calls[d].step \in Deleting => calls[d].guid # g
    BY <2>2, <2>3 DEF DeletesAlone
  <2> HIDE DEF g, listed, raced
  <2>5. EveryUserNamed'
    BY <1>1, <1>6, <1>8, <2>2 DEF EveryUserNamed
  <2>6. EveryNameOwned'
    <3>1. ASSUME NEW n \in Username, names[n] # NoUser
          PROVE  \/ owned'[names[n]] # 0
                 \/ \E d \in Call : /\ calls'[d].step \in Deleting /\ n \in calls'[d].left
                                    /\ calls'[d].guid = names[n]
      <4>1. CASE names[n] = g
        <5>1. n \in listed BY <2>3, <4>1
        <5> QED BY <1>4, <1>6, <4>1, <5>1 DEF Deleting
      <4>2. CASE names[n] # g /\ owned[names[n]] # 0 BY <1>1, <1>8, <3>1, <4>2
      <4>3. CASE \E d \in Call : /\ calls[d].step \in Deleting /\ n \in calls[d].left
                                 /\ calls[d].guid = names[n]
        BY <1>1, <1>6, <4>3 DEF Deleting
      <4> QED BY <2>2, <3>1, <4>1, <4>2, <4>3 DEF EveryNameOwned
    <3> QED BY <1>1, <3>1 DEF EveryNameOwned
  <2>7. EveryRoleNamed'
    <3>1. \A n \in Username : Unassigning(n) => Unassigning(n)'
      BY <1>1, <1>6 DEF Unassigning
    <3> QED BY <1>1, <1>4, <1>6, <2>2, <3>1 DEF EveryRoleNamed
  <2>8. ASSUME NEW d \in Call PROVE DeletesAlone(d)'
    <3>1. CASE d = c
      BY <1>1, <1>4, <1>6, <1>8, <2>3, <2>4, <3>1 DEF DeletesAlone, Creating, Deleting
    <3>2. CASE d # c /\ calls[d].step \in Deleting
      <4>1. calls'[d] = calls[d] /\ calls[d].guid \in LocalUser \ {g}
        BY <1>1, <1>6, <2>4, <3>2 DEF AppTypes, CallOK
      <4>2. \A e \in Call \ {d} : calls'[e].step \in Creating \cup Deleting => calls'[e].guid # calls[d].guid
        <5>1. calls'[c].step \in Creating \cup Deleting => calls'[c].guid = g
          BY <1>4, <1>6 DEF Creating, Deleting
        <5>2. \A e \in Call \ {c, d} : calls[e].step \in Creating \cup Deleting => calls[e].guid # calls[d].guid
          BY <2>2, <3>2 DEF DeletesAlone
        <5> QED BY <1>6, <4>1, <5>1, <5>2
      <4> QED BY <1>1, <1>8, <2>2, <3>2, <4>1, <4>2 DEF DeletesAlone
    <3>3. CASE d # c /\ calls[d].step \notin Deleting BY <1>6, <3>3 DEF DeletesAlone
    <3> QED BY <3>1, <3>2, <3>3
  <2>9. ASSUME NEW d \in Call PROVE CreatesOwn(d)'
    <3>1. CASE d # c /\ calls[d].step \in Creating
      <4>1. calls'[d] = calls[d] /\ calls[d].guid \in LocalUser \ {g}
        BY <1>1, <1>6, <2>3, <3>1 DEF AppTypes, CallOK
      <4> QED BY <1>1, <1>8, <2>2, <3>1, <4>1 DEF CreatesOwn
    <3>2. CASE d = c \/ calls[d].step \notin Creating
      BY <1>4, <1>6, <3>2 DEF CreatesOwn, Creating
    <3> QED BY <3>1, <3>2
  <2> QED BY <2>5, <2>6, <2>7, <2>8, <2>9
<1> QED BY <1>9, <1>10, <1>11, <1>12 DEF AppInv

LEMMA UnmapUsernameKeeps ==
    ASSUME AppInv, NEW c \in Call, UnmapUsername(c)
    PROVE  AppInv'
<1>1. PICK name \in calls[c].left :
        /\ names' = [names EXCEPT ![name] = NoUser]
        /\ calls' = [calls EXCEPT ![c].step = "read", ![c].name = name, ![c].left = @ \ {name}]
  BY DEF UnmapUsername
<1> DEFINE g == calls[c].guid
           call == [calls[c] EXCEPT !.step = "read", !.name = name, !.left = calls[c].left \ {name}]
<1>2. /\ calls[c].step = "unmap" /\ calls[c] \in CallState /\ CallOK(c) /\ AppTypes
      /\ mishaps' = mishaps \cup Late(c)
      /\ UNCHANGED <<app, apps, owned, assigned, admins, lock, used, written>>
      /\ owned \in [LocalUser -> Nat] /\ names \in [Username -> LocalUser \cup {NoUser}]
      /\ assigned \subseteq Username /\ written \subseteq Username /\ used \subseteq LocalUser
      /\ admins \subseteq Nat
  BY DEF UnmapUsername, AppInv, AppTypes
<1>3. name \in Username BY <1>2 DEF CallState
<1>4. /\ call \in CallState /\ call.step = "read" /\ call.name = name /\ call.guid = g
      /\ call.left = calls[c].left \ {name} /\ call.under = calls[c].under
  BY <1>2, <1>3 DEF CallState, Steps
<1>5. calls' = [calls EXCEPT ![c] = call] BY <1>1, <1>2 DEF AppTypes
<1> HIDE DEF call
<1>6. g \in LocalUser /\ g \in used /\ calls[c].under \in 1 .. apps
  BY <1>2 DEF CallOK, Deleting
<1>7. /\ calls'[c] = call /\ \A d \in Call \ {c} : calls'[d] = calls[d]
  BY <1>2, <1>4, <1>5, CallMoves
<1>8. /\ names' \in [Username -> LocalUser \cup {NoUser}] /\ names'[name] = NoUser
      /\ \A n \in Username \ {name} : names'[n] = names[n]
  BY <1>1, <1>2, <1>3
<1> HIDE DEF g
<1>9. mishaps' \subseteq Mishap BY <1>2, LateFacts DEF AppTypes
<1>10. AppTypes'
  <2>1. /\ \A u \in LocalUser : owned[u] # 0 => u \in used
        /\ \A n \in Username : names'[n] # NoUser => names'[n] \in used
    BY <1>2, <1>8 DEF AppTypes
  <2>2. /\ call.step # "none" => call.under \in 1 .. apps
        /\ call.step \in {"check", "create", "read", "unassign"} \cup Creating => call.name \in Username
        /\ call.step \in {"drop"} \cup Creating \cup Deleting => call.guid \in used
    BY <1>3, <1>4, <1>6 DEF Creating, Deleting
  <2> QED BY <1>2, <1>4, <1>5, <1>8, <1>9, <2>1, <2>2, TypesKeep
<1>11. LockInv'
  <2>1. HasLock(c)' BY <1>4, <1>7 DEF HasLock, Creating
  <2>2. ASSUME NEW d \in Call \ {c} PROVE HasLock(d)'
    <3>1. HasLock(d) /\ CallOK(d) /\ calls'[d] = calls[d]
      BY <1>7 DEF AppInv, AppTypes, LockInv
    <3> QED BY <1>2, <1>8, <3>1 DEF HasLock, CallOK, Creating
  <2> QED BY <2>1, <2>2 DEF LockInv
<1>12. AppStartsEmpty' BY <1>2 DEF AppInv, AppStartsEmpty
<1>13. WholeInv'
  <2> SUFFICES ASSUME mishaps' = {}
               PROVE  /\ EveryUserNamed' /\ EveryNameOwned' /\ EveryRoleNamed'
                      /\ \A d \in Call : (DeletesAlone(d) /\ CreatesOwn(d))'
    BY DEF WholeInv
  <2>1. mishaps = {} BY <1>2
  <2>2. /\ EveryUserNamed /\ EveryNameOwned /\ EveryRoleNamed
        /\ \A d \in Call : DeletesAlone(d) /\ CreatesOwn(d)
    BY <2>1 DEF AppInv, WholeInv
  <2>3. owned[g] = 0 /\ names[name] = g /\ \A n \in calls[c].left : names[n] = g
    BY <1>2, <2>2 DEF DeletesAlone, Deleting, g
  <2>4. EveryUserNamed'
    <3>1. ASSUME NEW u \in LocalUser, owned[u] # 0
          PROVE  \/ \E n \in Username : names'[n] = u
                 \/ \E d \in Call : calls'[d].step = "map" /\ calls'[d].guid = u
      <4>1. CASE \E n \in Username : names[n] = u BY <1>8, <2>3, <3>1, <4>1
      <4>2. CASE \E d \in Call : calls[d].step = "map" /\ calls[d].guid = u
        BY <1>2, <1>7, <4>2
      <4> QED BY <2>2, <3>1, <4>1, <4>2 DEF EveryUserNamed
    <3> QED BY <1>2, <3>1 DEF EveryUserNamed
  <2>5. EveryNameOwned'
    <3>1. ASSUME NEW n \in Username, names'[n] # NoUser
          PROVE  \/ owned'[names'[n]] # 0
                 \/ \E d \in Call : /\ calls'[d].step \in Deleting /\ n \in calls'[d].left
                                    /\ calls'[d].guid = names'[n]
      <4>1. n # name /\ names'[n] = names[n] BY <1>8, <3>1
      <4>2. CASE owned[names[n]] # 0 BY <1>2, <4>1, <4>2
      <4>3. ASSUME NEW d \in Call, calls[d].step \in Deleting, n \in calls[d].left,
                   calls[d].guid = names[n]
            PROVE  calls'[d].step \in Deleting /\ n \in calls'[d].left /\ calls'[d].guid = names'[n]
        <5>1. CASE d = c BY <1>4, <1>7, <4>1, <4>3, <5>1 DEF Deleting, g
        <5>2. CASE d # c BY <1>7, <4>1, <4>3, <5>2
        <5> QED BY <5>1, <5>2
      <4> QED BY <2>2, <3>1, <4>1, <4>2, <4>3 DEF EveryNameOwned
    <3> QED BY <3>1 DEF EveryNameOwned
  <2>6. EveryRoleNamed'
    <3>1. \A n \in Username : Unassigning(n) => Unassigning(n)'
      BY <1>2, <1>7 DEF Unassigning
    <3>2. Unassigning(name)' BY <1>4, <1>7 DEF Unassigning
    <3>3. ASSUME NEW n \in assigned \ written, n # name, ~Unassigning(n)
          PROVE  names'[n] # NoUser /\ \A d \in Call : calls'[d].step = "roles" => calls'[d].name # n
      <4>1. /\ n \in Username /\ names[n] # NoUser
            /\ \A d \in Call : calls[d].step = "roles" => calls[d].name # n
        BY <1>2, <2>2, <3>3 DEF EveryRoleNamed
      <4> QED BY <1>4, <1>7, <1>8, <3>3, <4>1
    <3> QED BY <1>2, <3>1, <3>2, <3>3 DEF EveryRoleNamed
  <2>7. ASSUME NEW d \in Call PROVE DeletesAlone(d)'
    <3>1. CASE d = c
      <4>1. \A n \in call.left : names'[n] = g
        BY <1>2, <1>4, <1>8, <2>3 DEF CallState
      <4>2. \A e \in Call \ {c} : calls'[e].step \in Creating \cup Deleting => calls'[e].guid # g
        BY <1>2, <1>7, <2>2 DEF DeletesAlone, Deleting, g
      <4> QED BY <1>2, <1>4, <1>7, <2>3, <3>1, <4>1, <4>2 DEF DeletesAlone
    <3>2. CASE d # c /\ calls[d].step \in Deleting
      <4>1. calls'[d] = calls[d] /\ calls[d].left \subseteq Username
        BY <1>2, <1>7, <3>2 DEF AppTypes, CallState
      <4>2. calls[d].guid # g BY <1>2, <2>2, <3>2 DEF DeletesAlone, Deleting, g
      <4>3. \A n \in calls[d].left : names'[n] = calls[d].guid
        BY <1>8, <2>2, <2>3, <3>2, <4>1, <4>2 DEF DeletesAlone
      <4>4. \A e \in Call \ {d} : calls'[e].step \in Creating \cup Deleting => calls'[e].guid # calls[d].guid
        <5>1. calls'[c].guid = g BY <1>4, <1>7
        <5>2. \A e \in Call \ {c, d} : calls[e].step \in Creating \cup Deleting => calls[e].guid # calls[d].guid
          BY <2>2, <3>2 DEF DeletesAlone
        <5> QED BY <1>7, <4>2, <5>1, <5>2
      <4> QED BY <1>2, <2>2, <3>2, <4>1, <4>3, <4>4 DEF DeletesAlone
    <3>3. CASE d # c /\ calls[d].step \notin Deleting BY <1>7, <3>3 DEF DeletesAlone
    <3> QED BY <3>1, <3>2, <3>3
  <2>8. ASSUME NEW d \in Call PROVE CreatesOwn(d)'
    <3>1. CASE d # c /\ calls[d].step \in Creating
      <4>1. /\ calls'[d] = calls[d] /\ calls[d].guid \in LocalUser /\ calls[d].name \in Username
            /\ calls[d].guid # g
        BY <1>2, <1>7, <2>2, <3>1 DEF AppTypes, CallOK, DeletesAlone, Deleting, g
      <4>2. \A n \in Username : names'[n] = calls[d].guid => names[n] = calls[d].guid
        BY <1>8, <4>1, NoUserIsNoGUID
      <4>3. names[calls[d].name] = calls[d].guid => names'[calls[d].name] = calls[d].guid
        BY <1>8, <2>3, <4>1
      <4>4. names'[calls[d].name] \in {names[calls[d].name], NoUser} BY <1>8, <4>1
      <4> QED BY <1>2, <2>2, <3>1, <4>1, <4>2, <4>3, <4>4 DEF CreatesOwn
    <3>2. CASE d = c \/ calls[d].step \notin Creating
      BY <1>4, <1>7, <3>2 DEF CreatesOwn, Creating
    <3> QED BY <3>1, <3>2
  <2> QED BY <2>4, <2>5, <2>6, <2>7, <2>8
<1> QED BY <1>10, <1>11, <1>12, <1>13 DEF AppInv

LEMMA ReadAssignmentsKeeps ==
    ASSUME AppInv, NEW c \in Call, ReadAssignments(c)
    PROVE  AppInv'
<1> DEFINE call == [calls[c] EXCEPT !.step = "unassign", !.doc = assigned]
<1>1. /\ calls[c].step = "read" /\ calls[c] \in CallState /\ CallOK(c) /\ AppTypes
      /\ UNCHANGED <<app, apps, owned, names, assigned, admins, lock, used, mishaps, written>>
      /\ owned \in [LocalUser -> Nat] /\ names \in [Username -> LocalUser \cup {NoUser}]
      /\ assigned \in SUBSET Username /\ written \subseteq Username /\ used \subseteq LocalUser
      /\ admins \subseteq Nat /\ mishaps \subseteq Mishap
  BY DEF ReadAssignments, AppInv, AppTypes
<1>2. /\ call \in CallState /\ call.step = "unassign" /\ call.name = calls[c].name
      /\ call.guid = calls[c].guid /\ call.left = calls[c].left /\ call.doc = assigned
      /\ call.under = calls[c].under
  BY <1>1 DEF CallState, Steps
<1>3. calls' = [calls EXCEPT ![c] = call] BY <1>1 DEF ReadAssignments, AppTypes
<1> HIDE DEF call
<1>4. /\ calls[c].guid \in used /\ calls[c].name \in Username /\ calls[c].under \in 1 .. apps
  BY <1>1 DEF CallOK, Deleting
<1>5. /\ calls'[c] = call /\ \A d \in Call \ {c} : calls'[d] = calls[d]
  BY <1>1, <1>2, <1>3, CallMoves
<1>6. AppTypes'
  <2>1. /\ \A u \in LocalUser : owned[u] # 0 => u \in used
        /\ \A n \in Username : names[n] # NoUser => names[n] \in used
    BY <1>1 DEF AppTypes
  <2>2. /\ call.step # "none" => call.under \in 1 .. apps
        /\ call.step \in {"check", "create", "read", "unassign"} \cup Creating => call.name \in Username
        /\ call.step \in {"drop"} \cup Creating \cup Deleting => call.guid \in used
    BY <1>2, <1>4
  <2> QED BY <1>1, <1>2, <1>3, <2>1, <2>2, TypesKeep
<1>7. LockInv' BY <1>1, <1>2, <1>5 DEF AppInv, LockInv, HasLock, Creating
<1>8. AppStartsEmpty' BY <1>1 DEF AppInv, AppStartsEmpty
<1>9. WholeInv'
  <2> SUFFICES ASSUME mishaps' = {}
               PROVE  /\ EveryUserNamed' /\ EveryNameOwned' /\ EveryRoleNamed'
                      /\ \A d \in Call : (DeletesAlone(d) /\ CreatesOwn(d))'
    BY DEF WholeInv
  <2>1. /\ EveryUserNamed /\ EveryNameOwned /\ EveryRoleNamed
        /\ \A d \in Call : DeletesAlone(d) /\ CreatesOwn(d)
    BY <1>1 DEF AppInv, WholeInv
  <2>2. EveryUserNamed' BY <1>1, <1>2, <1>5, <2>1 DEF EveryUserNamed
  <2>3. EveryNameOwned'
    BY <1>1, <1>2, <1>5, <2>1 DEF EveryNameOwned, Deleting
  <2>4. EveryRoleNamed'
    <3>1. \A n \in assigned : Unassigning(n) => Unassigning(n)'
      BY <1>1, <1>2, <1>5 DEF Unassigning
    <3> QED BY <1>1, <1>2, <1>5, <2>1, <3>1 DEF EveryRoleNamed
  <2>5. \A d \in Call : DeletesAlone(d)'
    BY <1>1, <1>2, <1>5, <2>1 DEF DeletesAlone, Deleting
  <2>6. \A d \in Call : CreatesOwn(d)'
    BY <1>1, <1>2, <1>5, <2>1 DEF CreatesOwn, Creating
  <2> QED BY <2>2, <2>3, <2>4, <2>5, <2>6
<1> QED BY <1>6, <1>7, <1>8, <1>9 DEF AppInv

LEMMA UnassignRolesKeeps ==
    ASSUME AppInv, NEW c \in Call, UnassignRoles(c)
    PROVE  AppInv'
<1> DEFINE name == calls[c].name
           next == [calls[c] EXCEPT !.step = "unmap"]
<1>1. /\ calls[c].step = "unassign" /\ calls[c] \in CallState /\ CallOK(c) /\ AppTypes
      /\ UNCHANGED <<app, apps, owned, names, admins, used>>
      /\ owned \in [LocalUser -> Nat] /\ names \in [Username -> LocalUser \cup {NoUser}]
      /\ assigned \subseteq Username /\ written \subseteq Username /\ used \subseteq LocalUser
      /\ admins \subseteq Nat /\ mishaps \subseteq Mishap
  BY DEF UnassignRoles, AppInv, AppTypes
<1>2. PICK call \in {next, NoCall} :
        calls' = [calls EXCEPT ![c] = call] /\ (call = next \/ calls[c].left = {})
  <2>1. CASE calls[c].left = {} BY <2>1 DEF UnassignRoles, Return
  <2>2. CASE calls[c].left # {} BY <1>1, <2>2 DEF UnassignRoles, Goto, AppTypes
  <2> QED BY <2>1, <2>2
<1>3. lock' \in {lock, lock \ {c}} BY DEF UnassignRoles, Return
<1>4. /\ call \in CallState /\ call.left = calls[c].left
      /\ \/ call.step = "none" /\ calls[c].left = {}
         \/ call.step = "unmap" /\ call.guid = calls[c].guid /\ call.under = calls[c].under
  BY <1>1, <1>2, NoCallFacts DEF CallState, Steps
<1> HIDE DEF next
<1>5. /\ calls[c].guid \in used /\ calls[c].under \in 1 .. apps /\ calls[c].under \in Nat \ {0}
  <2>1. calls[c].guid \in used /\ calls[c].under \in 1 .. apps /\ calls[c].under \in Nat
    BY <1>1 DEF CallOK, Deleting, CallState
  <2> QED BY <2>1
<1>6. /\ calls'[c] = call /\ \A d \in Call \ {c} : calls'[d] = calls[d]
  BY <1>2, <1>4, CallMoves DEF AppInv
<1>7. \/ /\ name \in calls[c].doc /\ assigned' = calls[c].doc \ {name}
         /\ mishaps' = mishaps \cup Late(c) \cup (IF assigned = calls[c].doc THEN {} ELSE {"lost"})
         /\ written' = written \ {name}
      \/ name \notin calls[c].doc /\ UNCHANGED <<assigned, mishaps, written>>
  BY DEF UnassignRoles
<1> HIDE DEF name
<1>8. assigned' \subseteq Username /\ written' \subseteq Username /\ mishaps' \subseteq Mishap
  BY <1>1, <1>7, LateFacts DEF CallState, Mishap
<1>9. AppTypes'
  <2>1. /\ \A u \in LocalUser : owned[u] # 0 => u \in used
        /\ \A n \in Username : names[n] # NoUser => names[n] \in used
    BY <1>1 DEF AppTypes
  <2>2. /\ call.step # "none" => call.under \in 1 .. apps
        /\ call.step \in {"check", "create", "read", "unassign"} \cup Creating => call.name \in Username
        /\ call.step \in {"drop"} \cup Creating \cup Deleting => call.guid \in used
    BY <1>4, <1>5 DEF Creating, Deleting
  <2> QED BY <1>1, <1>2, <1>4, <1>8, <2>1, <2>2, TypesKeep
<1>10. LockInv'
  <2>1. HasLock(c)' BY <1>4, <1>6 DEF HasLock, Creating
  <2>2. ASSUME NEW d \in Call \ {c} PROVE HasLock(d)'
    <3>1. HasLock(d) /\ calls'[d] = calls[d] BY <1>6 DEF AppInv, LockInv
    <3> QED BY <1>1, <1>3, <3>1 DEF HasLock
  <2> QED BY <2>1, <2>2 DEF LockInv
<1>11. AppStartsEmpty'
  <2>1. CASE name \notin calls[c].doc
    BY <1>1, <1>7, <2>1 DEF AppInv, AppStartsEmpty
  <2>2. CASE "late" \notin mishaps' /\ name \in calls[c].doc
    <3>1. "late" \notin mishaps /\ calls[c].under = app BY <1>7, <2>2, LateFacts
    <3>2. app # 0 BY <1>5, <3>1
    <3> QED BY <1>1, <3>1, <3>2 DEF AppInv, AppStartsEmpty
  <2>3. CASE "late" \in mishaps' BY <2>3 DEF AppStartsEmpty
  <2> QED BY <2>1, <2>2, <2>3
<1>12. WholeInv'
  <2> SUFFICES ASSUME mishaps' = {}
               PROVE  /\ EveryUserNamed' /\ EveryNameOwned' /\ EveryRoleNamed'
                      /\ \A d \in Call : (DeletesAlone(d) /\ CreatesOwn(d))'
    BY DEF WholeInv
  <2>1. mishaps = {} /\ (name \in calls[c].doc => assigned = calls[c].doc) BY <1>7
  <2>2. /\ EveryUserNamed /\ EveryNameOwned /\ EveryRoleNamed
        /\ \A d \in Call : DeletesAlone(d) /\ CreatesOwn(d)
    BY <2>1 DEF AppInv, WholeInv
  <2>3. EveryUserNamed' BY <1>1, <1>6, <2>2 DEF EveryUserNamed
  <2>4. EveryNameOwned'
    <3>1. ASSUME NEW n \in Username, NEW d \in Call, calls[d].step \in Deleting, n \in calls[d].left
          PROVE  calls'[d].step \in Deleting /\ n \in calls'[d].left /\ calls'[d].guid = calls[d].guid
      <4>1. CASE d = c BY <1>4, <1>6, <3>1, <4>1 DEF Deleting
      <4>2. CASE d # c BY <1>6, <3>1, <4>2
      <4> QED BY <4>1, <4>2
    <3> QED BY <1>1, <2>2, <3>1 DEF EveryNameOwned
  <2>5. EveryRoleNamed'
    <3>1. ASSUME NEW n \in assigned' \ written'
          PROVE  /\ n \in assigned \ written
                 /\ Unassigning(n) => Unassigning(n)'
      <4>1. n \in assigned \ written BY <1>7, <2>1, <3>1
      <4>2. ~(name = n /\ n \in calls[c].doc) BY <1>7, <3>1
      <4> QED BY <1>1, <1>6, <4>1, <4>2 DEF Unassigning, name
    <3>2. \A d \in Call : calls'[d].step = "roles" => calls[d].step = "roles" /\ calls'[d] = calls[d]
      BY <1>4, <1>6
    <3> QED BY <1>1, <2>2, <3>1, <3>2 DEF EveryRoleNamed
  <2>6. ASSUME NEW d \in Call PROVE DeletesAlone(d)'
    <3>1. /\ calls'[c].step \in Creating \cup Deleting => calls'[c].guid = calls[c].guid
          /\ calls'[c].left = calls[c].left
      BY <1>4, <1>6 DEF Creating, Deleting
    <3>2. calls[c].step \in Deleting BY <1>1 DEF Deleting
    <3>3. \A e \in Call : calls'[e].step \in Creating \cup Deleting =>
            calls[e].step \in Creating \cup Deleting /\ calls'[e].guid = calls[e].guid
      BY <1>6, <3>1, <3>2
    <3>4. CASE calls'[d].step \in Deleting
      <4>1. calls[d].step \in Deleting /\ calls'[d].guid = calls[d].guid /\ calls'[d].left = calls[d].left
        BY <1>6, <3>1, <3>2, <3>4
      <4> QED BY <1>1, <2>2, <3>3, <4>1 DEF DeletesAlone
    <3>5. CASE calls'[d].step \notin Deleting BY <3>5 DEF DeletesAlone
    <3> QED BY <3>4, <3>5
  <2>7. \A d \in Call : CreatesOwn(d)'
    BY <1>1, <1>4, <1>6, <2>2 DEF CreatesOwn, Creating
  <2> QED BY <2>3, <2>4, <2>5, <2>6, <2>7
<1> QED BY <1>9, <1>10, <1>11, <1>12 DEF AppInv

LEMMA SaveAppAuthzKeeps ==
    ASSUME AppInv, NEW c \in Call, SaveAppAuthz(c)
    PROVE  AppInv'
<1>1. /\ calls[c].step = "authz" /\ calls[c] \in CallState /\ CallOK(c) /\ AppTypes
      /\ assigned' = calls[c].doc /\ written' = calls[c].doc
      /\ mishaps' = mishaps \cup Late(c)
      /\ calls' = [calls EXCEPT ![c] = NoCall] /\ lock' = lock \ {c}
      /\ UNCHANGED <<app, apps, owned, names, admins, used>>
      /\ owned \in [LocalUser -> Nat] /\ names \in [Username -> LocalUser \cup {NoUser}]
  BY DEF SaveAppAuthz, Return, AppInv, AppTypes
<1>2. calls[c].under \in Nat \ {0}
  <2>1. calls[c].under \in 1 .. apps /\ calls[c].under \in Nat BY <1>1 DEF CallOK, CallState
  <2> QED BY <2>1
<1>3. /\ calls'[c] = NoCall /\ \A d \in Call \ {c} : calls'[d] = calls[d]
  BY <1>1, NoCallFacts, CallMoves
<1>4. assigned' \subseteq Username /\ written' \subseteq Username /\ mishaps' \subseteq Mishap
  BY <1>1, LateFacts DEF CallState, AppTypes
<1>5. AppTypes' BY <1>1, <1>4, ReturnTypes
<1>6. LockInv' BY <1>1, ReturnLocks
<1>7. AppStartsEmpty'
  <2>1. CASE "late" \in mishaps' BY <2>1 DEF AppStartsEmpty
  <2>2. CASE "late" \notin mishaps'
    <3>1. "late" \notin mishaps /\ app # 0 BY <1>1, <1>2, <2>2, LateFacts
    <3> QED BY <1>1, <3>1 DEF AppInv, AppStartsEmpty
  <2> QED BY <2>1, <2>2
<1>8. WholeInv'
  <2> SUFFICES ASSUME mishaps' = {}
               PROVE  /\ EveryUserNamed' /\ EveryNameOwned' /\ EveryRoleNamed'
                      /\ \A d \in Call : (DeletesAlone(d) /\ CreatesOwn(d))'
    BY DEF WholeInv
  <2>1. /\ EveryUserNamed /\ EveryNameOwned
        /\ \A d \in Call : DeletesAlone(d) /\ CreatesOwn(d)
    BY <1>1 DEF AppInv, WholeInv
  <2>2. EveryUserNamed' BY <1>1, <1>3, <2>1 DEF EveryUserNamed
  <2>3. EveryNameOwned' BY <1>1, <1>3, <2>1 DEF EveryNameOwned, Deleting
  <2>4. EveryRoleNamed' BY <1>1 DEF EveryRoleNamed
  <2>5. \A d \in Call : DeletesAlone(d)'
    BY <1>1, <1>3, <2>1, NoCallFacts DEF DeletesAlone, Creating, Deleting
  <2>6. \A d \in Call : CreatesOwn(d)'
    BY <1>1, <1>3, <2>1, NoCallFacts DEF CreatesOwn, Creating
  <2> QED BY <2>2, <2>3, <2>4, <2>5, <2>6
<1> QED BY <1>5, <1>6, <1>7, <1>8 DEF AppInv

LEMMA CreateAppKeeps ==
    ASSUME AppInv, CreateApp
    PROVE  AppInv'
<1>1. /\ app = 0 /\ app' = apps + 1 /\ apps' = apps + 1 /\ apps \in Nat
      /\ UNCHANGED <<owned, names, assigned, admins, lock, calls, used, mishaps, written>>
  BY DEF CreateApp, AppInv, AppTypes
<1>2. ASSUME NEW c \in Call PROVE CallOK(c)'
  <2>1. CallOK(c) /\ calls[c].under \in Nat BY DEF AppInv, AppTypes, CallState
  <2> QED BY <1>1, <2>1 DEF CallOK
<1>3. AppTypes' BY <1>1, <1>2 DEF AppInv, AppTypes
<1>4. LockInv' BY <1>1 DEF AppInv, LockInv, HasLock
<1>5. AppStartsEmpty' BY <1>1 DEF AppInv, AppStartsEmpty
<1>6. WholeInv'
  <2> SUFFICES ASSUME mishaps' = {}
               PROVE  /\ EveryUserNamed' /\ EveryNameOwned' /\ EveryRoleNamed'
                      /\ \A d \in Call : (DeletesAlone(d) /\ CreatesOwn(d))'
    BY DEF WholeInv
  <2>1. /\ EveryUserNamed /\ EveryNameOwned /\ EveryRoleNamed
        /\ \A d \in Call : DeletesAlone(d) /\ CreatesOwn(d)
    BY <1>1 DEF AppInv, WholeInv
  <2>2. EveryUserNamed' /\ EveryNameOwned' BY <1>1, <2>1 DEF EveryUserNamed, EveryNameOwned
  <2>3. EveryRoleNamed' BY <1>1, <2>1 DEF EveryRoleNamed, Unassigning
  <2>4. \A d \in Call : DeletesAlone(d)' BY <1>1, <2>1 DEF DeletesAlone
  <2>5. ASSUME NEW d \in Call PROVE CreatesOwn(d)'
    <3>1. CASE calls[d].step \in Creating
      <4>1. calls[d].step # "none" BY <3>1 DEF Creating
      <4>2. calls[d].under \in 1 .. apps /\ calls[d].under \in Nat
        BY <4>1 DEF AppInv, AppTypes, CallOK, CallState
      <4>3. calls[d].under # app' BY <1>1, <4>2
      <4> QED BY <1>1, <2>1, <3>1, <4>3 DEF CreatesOwn
    <3>2. CASE calls[d].step \notin Creating BY <1>1, <3>2 DEF CreatesOwn
    <3> QED BY <3>1, <3>2
  <2> QED BY <2>2, <2>3, <2>4, <2>5
<1> QED BY <1>3, <1>4, <1>5, <1>6 DEF AppInv

LEMMA DeleteAppKeeps ==
    ASSUME AppInv, DeleteApp
    PROVE  AppInv'
<1>1. /\ app' = 0 /\ assigned' = {} /\ admins' = {} /\ written' = {}
      /\ owned' = [u \in LocalUser |-> 0]
      /\ names' = [n \in Username |->
                     IF names[n] # NoUser /\ owned[names[n]] # 0 THEN NoUser ELSE names[n]]
      /\ UNCHANGED <<apps, lock, calls, used, mishaps>>
      /\ names \in [Username -> LocalUser \cup {NoUser}] /\ calls \in [Call -> CallState]
  BY DEF DeleteApp, AppInv, AppTypes
<1>2. /\ names' \in [Username -> LocalUser \cup {NoUser}]
      /\ \A n \in Username : /\ names'[n] \in {names[n], NoUser}
                             /\ names[n] # NoUser /\ owned[names[n]] = 0 => names'[n] = names[n]
                             /\ names'[n] # NoUser => owned[names[n]] = 0
  BY <1>1
<1>3. ASSUME NEW c \in Call PROVE CallOK(c)'
  <2>1. CallOK(c) BY DEF AppInv, AppTypes
  <2> QED BY <1>1, <2>1 DEF CallOK
<1>4. AppTypes' BY <1>1, <1>2, <1>3 DEF AppInv, AppTypes
<1>5. LockInv'
  <2>1. ASSUME NEW c \in Call PROVE HasLock(c)'
    <3>1. HasLock(c) /\ CallOK(c) BY DEF AppInv, AppTypes, LockInv
    <3> QED BY <1>1, <1>2, <3>1 DEF HasLock, CallOK, Creating
  <2> QED BY <2>1 DEF LockInv
<1>6. AppStartsEmpty' BY <1>1 DEF AppStartsEmpty
<1>7. WholeInv'
  <2> SUFFICES ASSUME mishaps' = {}
               PROVE  /\ EveryUserNamed' /\ EveryNameOwned' /\ EveryRoleNamed'
                      /\ \A d \in Call : (DeletesAlone(d) /\ CreatesOwn(d))'
    BY DEF WholeInv
  <2>1. EveryNameOwned /\ \A d \in Call : DeletesAlone(d) /\ CreatesOwn(d)
    BY <1>1 DEF AppInv, WholeInv
  <2>2. EveryUserNamed' /\ EveryRoleNamed' BY <1>1 DEF EveryUserNamed, EveryRoleNamed
  <2>3. EveryNameOwned'
    <3>1. ASSUME NEW n \in Username, names'[n] # NoUser
          PROVE  \E d \in Call : /\ calls'[d].step \in Deleting /\ n \in calls'[d].left
                               /\ calls'[d].guid = names'[n]
      <4>1. names'[n] = names[n] /\ owned[names[n]] = 0 BY <1>2, <3>1
      <4> QED BY <1>1, <2>1, <3>1, <4>1 DEF EveryNameOwned
    <3> QED BY <3>1 DEF EveryNameOwned
  <2>4. ASSUME NEW d \in Call PROVE DeletesAlone(d)'
    <3>1. CASE calls[d].step \in Deleting
      <4>1. calls[d].guid \in LocalUser /\ calls[d].left \subseteq Username
        BY <1>1, <3>1 DEF AppInv, AppTypes, CallOK, CallState
      <4>2. /\ owned[calls[d].guid] = 0 /\ \A n \in calls[d].left : names[n] = calls[d].guid
        BY <2>1, <3>1 DEF DeletesAlone
      <4>3. \A n \in calls[d].left : names'[n] = calls[d].guid
        BY <1>2, <4>1, <4>2, NoUserIsNoGUID
      <4> QED BY <1>1, <2>1, <3>1, <4>1, <4>3 DEF DeletesAlone
    <3>2. CASE calls[d].step \notin Deleting BY <1>1, <3>2 DEF DeletesAlone
    <3> QED BY <3>1, <3>2
  <2>5. ASSUME NEW d \in Call PROVE CreatesOwn(d)'
    <3>1. CASE calls[d].step \in Creating
      <4>1. calls[d].step # "none" BY <3>1 DEF Creating
      <4>2. /\ calls[d].under \in 1 .. apps /\ calls[d].under \in Nat
            /\ calls[d].guid \in LocalUser /\ calls[d].name \in Username
        BY <1>1, <3>1, <4>1 DEF AppInv, AppTypes, CallOK, CallState
      <4>3. calls[d].under # app' BY <1>1, <4>2
      <4>4. /\ \A n \in Username : names'[n] = calls[d].guid => names[n] = calls[d].guid
            /\ names'[calls[d].name] \in {names[calls[d].name], NoUser}
        BY <1>2, <4>2, NoUserIsNoGUID
      <4> QED BY <1>1, <2>1, <3>1, <4>2, <4>3, <4>4 DEF CreatesOwn
    <3>2. CASE calls[d].step \notin Creating BY <1>1, <3>2 DEF CreatesOwn
    <3> QED BY <3>1, <3>2
  <2> QED BY <2>2, <2>3, <2>4, <2>5
<1> QED BY <1>4, <1>5, <1>6, <1>7 DEF AppInv

LEMMA StopAppCallsKeeps ==
    ASSUME AppInv, StopAppCalls
    PROVE  AppInv'
<1>1. /\ calls' = [c \in Call |-> NoCall] /\ mishaps' = mishaps \cup {"stopped"}
      /\ UNCHANGED <<app, apps, owned, names, assigned, admins, used, written>>
  BY DEF StopAppCalls
<1>2. AppTypes'
  BY <1>1, NoCallFacts DEF AppInv, AppTypes, CallOK, Creating, Deleting, Mishap
<1>3. LockInv' BY <1>1, NoCallFacts DEF LockInv, HasLock, Creating
<1>4. AppStartsEmpty' BY <1>1 DEF AppInv, AppStartsEmpty
<1>5. WholeInv' BY <1>1 DEF WholeInv
<1> QED BY <1>2, <1>3, <1>4, <1>5 DEF AppInv

-----------------------------------------------------------------------------

LEMMA AppStep == AppInv /\ UnreadInv /\ [AppNext]_appVars => AppInv'
<1> SUFFICES ASSUME AppInv, UnreadInv, [AppNext]_appVars PROVE AppInv' OBVIOUS
<1>1. CASE UNCHANGED appVars
  <2>1. UNCHANGED <<app, apps, owned, names, assigned, admins, lock, calls, used, mishaps, written>>
    BY <1>1 DEF appVars
  <2>2. AppTypes' BY <2>1 DEF AppInv, AppTypes, CallOK
  <2>3. LockInv' BY <2>1 DEF AppInv, LockInv, HasLock
  <2>4. AppStartsEmpty' BY <2>1 DEF AppInv, AppStartsEmpty
  <2>5. WholeInv'
    BY <2>1 DEF AppInv, WholeInv, EveryUserNamed, EveryNameOwned, EveryRoleNamed, Unassigning,
                DeletesAlone, CreatesOwn
  <2> QED BY <2>2, <2>3, <2>4, <2>5 DEF AppInv
<1>2. ASSUME NEW c \in Call,
             \/ \E n \in Username, withRoles \in BOOLEAN : BeginCreate(c, n, withRoles)
             \/ CheckUsername(c) \/ CreateUser(c) \/ MapUsername(c) \/ AssignRoles(c) \/ Undo(c)
             \/ \E u \in LocalUser : BeginDelete(c, u)
             \/ DropUser(c) \/ UnmapUsername(c) \/ ReadAssignments(c) \/ UnassignRoles(c)
             \/ \E doc \in SUBSET Username : BeginAuthz(c, doc)
             \/ SaveAppAuthz(c)
             \/ BeginAdmin(c) \/ AddAppAdmin(c) \/ RemoveAppAdmin(c)
      PROVE  AppInv'
  BY <1>2, BeginsKeep, CheckUsernameKeeps, CreateUserKeeps, MapUsernameKeeps, AssignRolesKeeps,
     UndoKeeps, DropUserKeeps, UnmapUsernameKeeps, ReadAssignmentsKeeps, UnassignRolesKeeps,
     SaveAppAuthzKeeps, AdminKeeps
<1>3. CASE CreateApp \/ DeleteApp \/ StopAppCalls
  BY <1>3, CreateAppKeeps, DeleteAppKeeps, StopAppCallsKeeps
<1> QED BY <1>1, <1>2, <1>3 DEF AppNext

LEMMA UnreadStays ==
    ASSUME calls \in [Call -> CallState], NEW c \in Call, NEW call,
           calls' = [calls EXCEPT ![c] = call], call.unread => calls[c].unread
    PROVE  \A d \in Call : calls'[d].unread => calls[d].unread
OBVIOUS

(* Of the steps only CheckUsername sets the mark, and then the mishap with it. *)
LEMMA UnreadStep == AppInv /\ UnreadInv /\ [AppNext]_appVars => UnreadInv'
<1> SUFFICES ASSUME AppInv, UnreadInv, [AppNext]_appVars, NEW d \in Call, calls'[d].unread
             PROVE  "unread" \in mishaps'
  BY DEF UnreadInv
<1> USE NoCallFacts
<1>1. calls \in [Call -> CallState] /\ (calls[d].unread => "unread" \in mishaps)
  BY DEF AppInv, AppTypes, UnreadInv
<1>2. CASE UNCHANGED appVars BY <1>1, <1>2 DEF appVars
<1>3. ASSUME NEW c \in Call, CheckUsername(c) PROVE "unread" \in mishaps'
  <2>1. CASE Return(c) /\ UNCHANGED mishaps BY <1>1, <2>1 DEF Return
  <2>2. CASE /\ calls' = [calls EXCEPT ![c].step = "create", ![c].doc = assigned,
                                       ![c].unread = (names[calls[c].name] # NoUser)]
             /\ mishaps' = mishaps \cup (IF names[calls[c].name] # NoUser THEN {"unread"} ELSE {})
    <3>1. CASE d = c BY <1>1, <2>2, <3>1 DEF CallState
    <3>2. CASE d # c BY <1>1, <2>2, <3>2
    <3> QED BY <3>1, <3>2
  <2> QED BY <1>3, <2>1, <2>2 DEF CheckUsername
<1>4. ASSUME NEW c \in Call,
             \/ \E n \in Username, withRoles \in BOOLEAN : BeginCreate(c, n, withRoles)
             \/ \E u \in LocalUser : BeginDelete(c, u)
             \/ \E doc \in SUBSET Username : BeginAuthz(c, doc)
             \/ BeginAdmin(c)
      PROVE  "unread" \in mishaps'
  <2>1. PICK call \in CallState : Begin(c, call) /\ ~call.unread
    <3>1. ASSUME NEW n \in Username, NEW withRoles \in BOOLEAN, BeginCreate(c, n, withRoles)
          PROVE  \E call \in CallState : Begin(c, call) /\ ~call.unread
      <4> DEFINE new == [NoCall EXCEPT !.step = "check", !.name = n, !.roles = withRoles]
      <4>1. new \in CallState /\ ~new.unread BY DEF CallState, Steps
      <4>2. Begin(c, new) BY <3>1 DEF BeginCreate
      <4> QED BY <4>1, <4>2
    <3>2. ASSUME NEW u \in LocalUser, BeginDelete(c, u)
          PROVE  \E call \in CallState : Begin(c, call) /\ ~call.unread
      <4> DEFINE listed == {n \in Username : names[n] = u}
                 new == [NoCall EXCEPT !.step = "drop", !.guid = u, !.left = listed]
      <4>1. listed \in SUBSET Username OBVIOUS
      <4>2. Begin(c, new) BY <3>2 DEF BeginDelete
      <4> HIDE DEF listed
      <4>3. new \in CallState /\ ~new.unread BY <4>1 DEF CallState, Steps
      <4> QED BY <4>2, <4>3
    <3>3. ASSUME NEW doc \in SUBSET Username, BeginAuthz(c, doc)
          PROVE  \E call \in CallState : Begin(c, call) /\ ~call.unread
      <4> DEFINE new == [NoCall EXCEPT !.step = "authz", !.doc = doc]
      <4>1. new \in CallState /\ ~new.unread BY DEF CallState, Steps
      <4>2. Begin(c, new) BY <3>3 DEF BeginAuthz
      <4> QED BY <4>1, <4>2
    <3>4. ASSUME BeginAdmin(c)
          PROVE  \E call \in CallState : Begin(c, call) /\ ~call.unread
      <4> DEFINE new == [NoCall EXCEPT !.step = "admin"]
      <4>1. new \in CallState /\ ~new.unread BY DEF CallState, Steps
      <4>2. Begin(c, new) BY <3>4 DEF BeginAdmin
      <4> QED BY <4>1, <4>2
    <3> QED BY <1>4, <3>1, <3>2, <3>3, <3>4
  <2>2. /\ calls' = [calls EXCEPT ![c] = [call EXCEPT !.under = app]]
        /\ mishaps' = mishaps
    BY <2>1 DEF Begin
  <2> QED BY <1>1, <2>1, <2>2
<1>5. ASSUME NEW c \in Call,
             \/ CreateUser(c) \/ MapUsername(c) \/ AssignRoles(c) \/ Undo(c)
             \/ DropUser(c) \/ UnmapUsername(c) \/ ReadAssignments(c) \/ UnassignRoles(c)
             \/ SaveAppAuthz(c) \/ AddAppAdmin(c) \/ RemoveAppAdmin(c)
      PROVE  "unread" \in mishaps'
  <2>1. mishaps \subseteq mishaps'
    BY <1>5 DEF CreateUser, MapUsername, AssignRoles, Undo, DropUser, UnmapUsername,
                ReadAssignments, UnassignRoles, SaveAppAuthz, AddAppAdmin, RemoveAppAdmin
  <2>2. calls'[d].unread => calls[d].unread
    <3>1. CASE CreateUser(c)
      <4>1. PICK u \in LocalUser : calls' = [calls EXCEPT ![c].step = "map", ![c].guid = u]
        BY <3>1 DEF CreateUser
      <4>2. calls' = [calls EXCEPT ![c] = [calls[c] EXCEPT !.step = "map", !.guid = u]]
        BY <1>1, <4>1
      <4> QED BY <1>1, <4>2, UnreadStays DEF CallState
    <3>2. CASE MapUsername(c) \/ DropUser(c) \/ UnassignRoles(c)
      <4>1. calls' = [calls EXCEPT ![c] = NoCall] \/ \E step \in Steps : calls' = [calls EXCEPT ![c].step = step]
        BY <3>2 DEF MapUsername, DropUser, UnassignRoles, Return, Goto, Steps
      <4>2. CASE calls' = [calls EXCEPT ![c] = NoCall] BY <1>1, <4>2, UnreadStays
      <4>3. ASSUME NEW step \in Steps, calls' = [calls EXCEPT ![c].step = step]
            PROVE  calls'[d].unread => calls[d].unread
        BY <1>1, <4>3, UnreadStays DEF CallState
      <4> QED BY <4>1, <4>2, <4>3
    <3>3. CASE UnmapUsername(c)
      <4>1. PICK n \in calls[c].left :
              calls' = [calls EXCEPT ![c].step = "read", ![c].name = n, ![c].left = @ \ {n}]
        BY <3>3 DEF UnmapUsername
      <4>2. calls' = [calls EXCEPT ![c] =
                        [calls[c] EXCEPT !.step = "read", !.name = n, !.left = @ \ {n}]]
        BY <1>1, <4>1
      <4> QED BY <1>1, <4>2, UnreadStays DEF CallState
    <3>4. CASE ReadAssignments(c)
      <4>1. calls' = [calls EXCEPT ![c] = [calls[c] EXCEPT !.step = "unassign", !.doc = assigned]]
        BY <1>1, <3>4 DEF ReadAssignments
      <4> QED BY <1>1, <4>1, UnreadStays DEF CallState
    <3>5. CASE \/ AssignRoles(c) \/ Undo(c) \/ SaveAppAuthz(c)
               \/ AddAppAdmin(c) \/ RemoveAppAdmin(c)
      BY <1>1, <3>5 DEF AssignRoles, Undo, SaveAppAuthz, AddAppAdmin, RemoveAppAdmin, Return
    <3> QED BY <1>5, <3>1, <3>2, <3>3, <3>4, <3>5
  <2> QED BY <1>1, <2>1, <2>2
<1>6. CASE CreateApp \/ DeleteApp BY <1>1, <1>6 DEF CreateApp, DeleteApp
<1>7. CASE StopAppCalls BY <1>7 DEF StopAppCalls
<1> QED BY <1>2, <1>3, <1>4, <1>5, <1>6, <1>7 DEF AppNext

(***************************************************************************)
(* The invariant the others follow from.                                   *)
(***************************************************************************)
THEOREM AppInvariant == AppSpec => [](AppInv /\ UnreadInv)
<1>1. AppInit => AppInv /\ UnreadInv BY InitialApps, NoCallFacts DEF AppInit, UnreadInv
<1>2. AppInv /\ UnreadInv /\ [AppNext]_appVars => (AppInv /\ UnreadInv)' BY AppStep, UnreadStep
<1> QED BY <1>1, <1>2, PTL DEF AppSpec

(***************************************************************************)
(* A registered app id finds nothing of an earlier registration, unless a  *)
(* call of that one wrote after its end (DeleteApp, requireApp).           *)
(***************************************************************************)
THEOREM StartsEmpty == AppSpec => []AppStartsEmpty
<1>1. AppInv => AppStartsEmpty BY DEF AppInv
<1> QED BY <1>1, AppInvariant, PTL

(***************************************************************************)
(* Between calls and without one of the named overlaps, accounts and       *)
(* usernames match and roles belong to usernames that exist, after any     *)
(* number of creations, failures and deletions (handleCreateLocalUser,     *)
(* handleDeleteLocalUser).                                                 *)
(***************************************************************************)
THEOREM UsersWhole == AppSpec => []LocalUsersAreWhole
<1>1. ASSUME AppInv PROVE LocalUsersAreWhole
  <2> SUFFICES ASSUME mishaps = {}, \A c \in Call : calls[c] = NoCall
               PROVE  /\ \A u \in LocalUser : owned[u] # 0 => \E n \in Username : names[n] = u
                      /\ \A n \in Username : names[n] # NoUser => owned[names[n]] # 0
                      /\ \A n \in assigned \ written : names[n] # NoUser
    BY DEF LocalUsersAreWhole
  <2>1. \A c \in Call : calls[c].step = "none" BY NoCallFacts
  <2>2. EveryUserNamed /\ EveryNameOwned /\ EveryRoleNamed BY <1>1 DEF AppInv, WholeInv
  <2>3. \A u \in LocalUser : owned[u] # 0 => \E n \in Username : names[n] = u
    BY <2>1, <2>2 DEF EveryUserNamed
  <2>4. \A n \in Username : names[n] # NoUser => owned[names[n]] # 0
    BY <2>1, <2>2 DEF EveryNameOwned, Deleting
  <2>5. \A n \in assigned \ written : names[n] # NoUser
    BY <2>1, <2>2 DEF EveryRoleNamed, Unassigning
  <2> QED BY <2>3, <2>4, <2>5
<1> QED BY <1>1, AppInvariant, PTL

(***************************************************************************)
(* No creation takes a username over from the account that has it, unless  *)
(* it failed to look that username up (localUserMu in                      *)
(* handleCreateLocalUser).                                                 *)
(***************************************************************************)
THEOREM NamesStay == AppSpec => UsernamesAreNotTaken
<1>1. ASSUME AppInv, [AppNext]_appVars
      PROVE  [\A n \in Username : names[n] # NoUser =>
                \/ names'[n] \in {names[n], NoUser}
                \/ \E c \in Call : calls[c].unread /\ calls[c].name = n]_appVars
  <2>1. names \in [Username -> LocalUser \cup {NoUser}] BY <1>1 DEF AppInv, AppTypes
  <2> SUFFICES ASSUME NEW n \in Username, names[n] # NoUser,
                      ~ \E c \in Call : calls[c].unread /\ calls[c].name = n
               PROVE  names'[n] \in {names[n], NoUser}
    OBVIOUS
  <2>2. CASE UNCHANGED names BY <2>2
  <2>3. ASSUME NEW c \in Call, MapUsername(c) PROVE names'[n] = names[n]
    <3>1. names' = [names EXCEPT ![calls[c].name] = calls[c].guid] /\ calls[c].step = "map"
      BY <2>3 DEF MapUsername
    <3>2. calls[c].name # n BY <1>1, <3>1 DEF AppInv, LockInv, HasLock
    <3> QED BY <2>1, <3>1, <3>2
  <2>4. ASSUME NEW c \in Call, Undo(c) \/ UnmapUsername(c)
        PROVE  names'[n] \in {names[n], NoUser}
    BY <2>1, <2>4 DEF Undo, UnmapUsername
  <2>5. CASE DeleteApp BY <2>1, <2>5 DEF DeleteApp
  <2>6. ASSUME NEW c \in Call,
               \/ \E m \in Username, withRoles \in BOOLEAN : BeginCreate(c, m, withRoles)
               \/ CheckUsername(c) \/ CreateUser(c) \/ AssignRoles(c)
               \/ \E u \in LocalUser : BeginDelete(c, u)
               \/ DropUser(c) \/ ReadAssignments(c) \/ UnassignRoles(c)
               \/ \E doc \in SUBSET Username : BeginAuthz(c, doc)
               \/ SaveAppAuthz(c)
               \/ BeginAdmin(c) \/ AddAppAdmin(c) \/ RemoveAppAdmin(c)
        PROVE  UNCHANGED names
    BY <2>6 DEF BeginCreate, BeginDelete, BeginAuthz, BeginAdmin, Begin, CheckUsername, CreateUser,
                AssignRoles, DropUser, ReadAssignments, UnassignRoles, SaveAppAuthz, AddAppAdmin,
                RemoveAppAdmin
  <2>7. CASE CreateApp \/ StopAppCalls BY <2>2, <2>7 DEF CreateApp, StopAppCalls
  <2> QED BY <1>1, <2>2, <2>3, <2>4, <2>5, <2>6, <2>7 DEF AppNext, appVars
<1> QED BY <1>1, AppInvariant, PTL DEF UsernamesAreNotTaken, AppSpec

-----------------------------------------------------------------------------
(* The secret of an app: AppCredentials. *)

Registration ==
    [registration : 1 .. saves, secret : 1 .. secrets, rotatedAt : {-1} \cup (0 .. now),
     disabled : BOOLEAN]

(* Rows, copies and tokens carry numbers handed out already; a token carries
   the second it was minted in.                                             *)
CredentialTypes ==
    /\ secrets \in Nat /\ now \in Nat /\ saves \in Nat /\ crossed \in BOOLEAN
    /\ row \in Registration \cup {NoRow}
    /\ edits \in [Edit -> [kind : {"none", "update", "rotate"}, read : Registration \cup {NoRow}]]
    /\ \A e \in Edit : edits[e].kind # "none" => edits[e].read \in Registration
    /\ exchanges \in [Exchange -> Registration \cup {NoRow}]
    /\ tokens \subseteq [secret : 1 .. secrets, registration : 1 .. saves, issuedAt : Nat,
                         expiresAt : Int, minted : 0 .. now]
    /\ \A t \in tokens : t.issuedAt = t.minted - (t.minted % 2)

(* A token of the app as registered now, obtained with an older secret, was
   issued before the last rotation.                                         *)
OldSecretsPrecede ==
    \A t \in tokens : t.registration = row.registration /\ t.secret # row.secret =>
      row.rotatedAt # -1 /\ t.issuedAt < row.rotatedAt

CredentialInv == CredentialTypes /\ (~crossed => OldSecretsPrecede)

(* What was handed out stays handed out as the counters grow. *)
LEMMA NumbersGrow ==
    ASSUME CredentialTypes, secrets' \in Nat, saves' \in Nat, now' \in Nat,
           secrets' >= secrets, saves' >= saves, now' >= now
    PROVE  Registration \subseteq Registration'
BY DEF CredentialTypes, Registration

(* An edit saves its copy with a change: the row is that or stays missing. *)
LEMMA SavedRow ==
    ASSUME CredentialInv, CredentialConstants, NEW e \in Edit, SetDisabled(e) \/ RotateAppSecret(e)
    PROVE  CredentialInv'
<1> DEFINE read == edits[e].read
<1>0. /\ row \in Registration \cup {NoRow}
      /\ secrets \in Nat /\ now \in Nat /\ saves \in Nat /\ crossed \in BOOLEAN
  BY DEF CredentialInv, CredentialTypes
<1>1. /\ now' = now /\ tokens' = tokens /\ exchanges' = exchanges /\ saves' = saves + 1
      /\ edits' = [edits EXCEPT ![e] = NoEdit]
      /\ crossed' = (crossed \/ row \notin {NoRow, read})
      /\ secrets' \in {secrets, secrets + 1}
  BY DEF SetDisabled, RotateAppSecret, UpdateApp
<1>2. read \in Registration
  BY DEF CredentialInv, CredentialTypes, SetDisabled, RotateAppSecret
<1>3. Registration \subseteq Registration' BY <1>0, <1>1, NumbersGrow DEF CredentialInv
<1>4. CASE SetDisabled(e)
  <2> DEFINE changed == [read EXCEPT !.disabled = ~@]
  <2>1. row' = IF row = NoRow THEN row ELSE changed BY <1>4 DEF SetDisabled, UpdateApp
  <2>2. /\ changed \in Registration /\ changed.registration = read.registration
        /\ changed.secret = read.secret /\ changed.rotatedAt = read.rotatedAt
    BY <1>2 DEF Registration
  <2> HIDE DEF changed
  <2>3. row' \in Registration' \cup {NoRow} BY <1>0, <1>3, <2>1, <2>2
  <2>4. ~crossed' => /\ ~crossed /\ row'.registration = row.registration
                     /\ row'.secret = row.secret /\ row'.rotatedAt = row.rotatedAt
    BY <1>1, <2>1, <2>2
  <2>5. CredentialTypes'
    BY <1>0, <1>1, <1>3, <2>3 DEF CredentialInv, CredentialTypes, NoEdit
  <2> QED BY <1>1, <2>4, <2>5 DEF CredentialInv, OldSecretsPrecede
<1>5. CASE RotateAppSecret(e)
  <2> DEFINE changed == [read EXCEPT !.secret = secrets + 1, !.rotatedAt = now]
  <2>1. /\ row' = IF row = NoRow THEN row ELSE changed
        /\ secrets' = secrets + 1 /\ now % 2 = 1
    BY <1>5 DEF RotateAppSecret, UpdateApp
  <2> DEFINE given == [read EXCEPT !.secret = secrets + 1]
  <2>2. /\ changed \in Registration' /\ changed.registration = read.registration
        /\ changed.secret = secrets + 1 /\ changed.rotatedAt = now
    <3>1. /\ given \in Registration' /\ given.registration = read.registration
          /\ given.secret = secrets + 1
      BY <1>0, <1>1, <1>2, <2>1 DEF Registration
    <3>2. changed = [given EXCEPT !.rotatedAt = now] BY <1>2 DEF Registration
    <3> HIDE DEF given, changed
    <3> QED BY <1>0, <1>1, <3>1, <3>2 DEF Registration
  <2> HIDE DEF changed
  <2>3. row' \in Registration' \cup {NoRow} BY <1>0, <2>1, <2>2
  <2>5. CredentialTypes'
    BY <1>0, <1>1, <1>3, <2>1, <2>3 DEF CredentialInv, CredentialTypes, NoEdit
  <2>6. ASSUME ~crossed', NEW t \in tokens, t.registration = row'.registration
        PROVE  row'.rotatedAt # -1 /\ t.issuedAt < row'.rotatedAt
    <3>1. ~crossed /\ row \in {NoRow, read} BY <1>1, <2>6
    <3>2. /\ t.registration \in 1 .. saves /\ t.minted \in 0 .. now
          /\ t.issuedAt = t.minted - (t.minted % 2)
      BY DEF CredentialInv, CredentialTypes
    <3>3. row # NoRow BY <2>1, <2>6, <3>2 DEF NoRow
    <3>4. row'.rotatedAt = now BY <2>1, <2>2, <3>3
    <3> QED BY <1>0, <2>1, <3>2, <3>4
  <2> QED BY <1>1, <2>5, <2>6 DEF CredentialInv, OldSecretsPrecede
<1> QED BY <1>4, <1>5

LEMMA IssuedToken ==
    ASSUME CredentialInv, CredentialConstants, NEW x \in Exchange, IssueAppToken(x)
    PROVE  CredentialInv'
<1> DEFINE t0 == [secret       |-> exchanges[x].secret,
                  registration |-> exchanges[x].registration,
                  issuedAt     |-> now - (now % 2),
                  expiresAt    |-> now + TokenTTL,
                  minted       |-> now]
<1>1. /\ tokens' = tokens \cup {t0}
      /\ crossed' = (crossed \/ exchanges[x].secret # row.secret)
      /\ exchanges' = [exchanges EXCEPT ![x] = NoRow]
      /\ UNCHANGED <<row, secrets, edits, now, saves>>
  BY DEF IssueAppToken
<1>2. exchanges[x] \in Registration BY DEF CredentialInv, CredentialTypes, IssueAppToken
<1>3. now \in Nat /\ TokenTTL \in Nat BY DEF CredentialInv, CredentialTypes, CredentialConstants
<1>4. /\ t0 \in [secret : 1 .. secrets, registration : 1 .. saves, issuedAt : Nat,
                 expiresAt : Int, minted : 0 .. now]
      /\ t0.issuedAt = t0.minted - (t0.minted % 2) /\ t0.secret = exchanges[x].secret
  BY <1>2, <1>3 DEF Registration
<1> HIDE DEF t0
<1>5. Registration' = Registration BY <1>1 DEF Registration
<1>6. CredentialTypes' BY <1>1, <1>4, <1>5 DEF CredentialInv, CredentialTypes
<1>7. ~crossed' => OldSecretsPrecede'
  BY <1>1, <1>4 DEF CredentialInv, OldSecretsPrecede
<1> QED BY <1>6, <1>7 DEF CredentialInv

LEMMA CredentialStep ==
    ASSUME CredentialInv, CredentialConstants, [CredentialNext]_credentialVars
    PROVE  CredentialInv'
<1>0. secrets \in Nat /\ now \in Nat /\ saves \in Nat BY DEF CredentialInv, CredentialTypes
<1>1. CASE UNCHANGED credentialVars
  BY <1>1 DEF credentialVars, CredentialInv, CredentialTypes, OldSecretsPrecede, Registration
<1>2. CASE RegisterApp
  <2> DEFINE fresh == [registration |-> saves + 1, secret |-> secrets + 1, rotatedAt |-> -1,
                       disabled |-> FALSE]
  <2>1. /\ row' = fresh /\ secrets' = secrets + 1 /\ saves' = saves + 1
        /\ UNCHANGED <<edits, exchanges, tokens, now, crossed>>
    BY <1>2 DEF RegisterApp
  <2>2. Registration \subseteq Registration' BY <1>0, <2>1, NumbersGrow DEF CredentialInv
  <2>3. fresh \in Registration' BY <1>0, <2>1 DEF Registration
  <2>4. fresh.registration = saves + 1 OBVIOUS
  <2> HIDE DEF fresh
  <2>5. CredentialTypes' BY <1>0, <2>1, <2>2, <2>3 DEF CredentialInv, CredentialTypes
  <2>6. \A t \in tokens : t.registration \in 1 .. saves BY DEF CredentialInv, CredentialTypes
  <2> QED BY <1>0, <2>1, <2>4, <2>5, <2>6 DEF CredentialInv, OldSecretsPrecede
<1>3. CASE UnregisterApp
  <2>1. row' = NoRow /\ UNCHANGED <<secrets, edits, exchanges, tokens, now, saves, crossed>>
    BY <1>3 DEF UnregisterApp
  <2>2. Registration' = Registration BY <2>1 DEF Registration
  <2>3. CredentialTypes' BY <2>1, <2>2 DEF CredentialInv, CredentialTypes
  <2>4. \A t \in tokens : t.registration # row'.registration
    BY <2>1 DEF CredentialInv, CredentialTypes, NoRow
  <2> QED BY <2>1, <2>3, <2>4 DEF CredentialInv, OldSecretsPrecede
<1>4. CASE PassHalfSecond
  <2>1. now' = now + 1 /\ UNCHANGED <<row, secrets, edits, exchanges, tokens, saves, crossed>>
    BY <1>4 DEF PassHalfSecond
  <2>2. Registration \subseteq Registration' BY <1>0, <2>1, NumbersGrow DEF CredentialInv
  <2>3. CredentialTypes' BY <1>0, <2>1, <2>2 DEF CredentialInv, CredentialTypes
  <2> QED BY <2>1, <2>3 DEF CredentialInv, OldSecretsPrecede
<1>5. ASSUME NEW e \in Edit, NEW kind \in {"update", "rotate"}, ReadApp(e, kind)
      PROVE  CredentialInv'
  <2>1. /\ row # NoRow
        /\ edits' = [edits EXCEPT ![e] = [kind |-> kind, read |-> row]]
        /\ UNCHANGED <<row, secrets, exchanges, tokens, now, saves, crossed>>
    BY <1>5 DEF ReadApp
  <2>2. Registration' = Registration BY <2>1 DEF Registration
  <2>3. CredentialTypes' BY <2>1, <2>2 DEF CredentialInv, CredentialTypes
  <2> QED BY <2>1, <2>3 DEF CredentialInv, OldSecretsPrecede
<1>6. ASSUME NEW x \in Exchange, CompareSecret(x) PROVE CredentialInv'
  <2>1. /\ exchanges' = [exchanges EXCEPT ![x] = row]
        /\ UNCHANGED <<row, secrets, edits, tokens, now, saves, crossed>>
    BY <1>6 DEF CompareSecret
  <2>2. Registration' = Registration BY <2>1 DEF Registration
  <2>3. CredentialTypes' BY <2>1, <2>2 DEF CredentialInv, CredentialTypes
  <2> QED BY <2>1, <2>3 DEF CredentialInv, OldSecretsPrecede
<1> QED BY <1>1, <1>2, <1>3, <1>4, <1>5, <1>6, SavedRow, IssuedToken DEF CredentialNext

THEOREM CredentialInvariant == CredentialSpec => []CredentialInv
<1>1. CredentialInit => CredentialInv
  <2> SUFFICES ASSUME CredentialInit PROVE CredentialTypes /\ OldSecretsPrecede
    BY DEF CredentialInv
  <2>1. row = NoRow /\ secrets = 0 /\ tokens = {} /\ now = 0 /\ saves = 0 /\ crossed = FALSE
    BY DEF CredentialInit
  <2>2. edits \in [Edit -> [kind : {"none", "update", "rotate"}, read : Registration \cup {NoRow}]]
    BY DEF CredentialInit, NoEdit
  <2>3. \A e \in Edit : edits[e].kind = "none" BY DEF CredentialInit, NoEdit
  <2>4. exchanges \in [Exchange -> Registration \cup {NoRow}] BY DEF CredentialInit
  <2> QED BY <2>1, <2>2, <2>3, <2>4 DEF CredentialTypes, OldSecretsPrecede
<1> QED BY <1>1, CredentialStep, CredentialConstants, PTL DEF CredentialSpec

(***************************************************************************)
(* Without a save or an issue across another's change, a rotation ends the *)
(* tokens of the older secrets at once and keeps those of the new one,     *)
(* although a token carries whole seconds and the row an exact time        *)
(* (handleRotateAppSecret, authenticateApp).                               *)
(***************************************************************************)
THEOREM RotationRevokes == CredentialSpec => []RotationRevokesTokens
<1>1. ASSUME CredentialInv PROVE RotationRevokesTokens
  <2> SUFFICES ASSUME ~crossed, NEW t \in tokens, t.registration = row.registration
               PROVE  /\ Accepts(t) => t.secret = row.secret
                      /\ t.secret = row.secret /\ ~row.disabled /\ now < t.expiresAt
                           /\ t.minted \div 2 > row.rotatedAt \div 2
                         => Accepts(t)
    BY DEF RotationRevokesTokens
  <2>1. /\ t.registration \in 1 .. saves /\ t.minted \in 0 .. now /\ now \in Nat
        /\ t.issuedAt = t.minted - (t.minted % 2)
        /\ t.secret # row.secret => row.rotatedAt # -1 /\ t.issuedAt < row.rotatedAt
    BY <1>1 DEF CredentialInv, CredentialTypes, OldSecretsPrecede
  <2>2. row # NoRow BY <2>1 DEF NoRow
  <2>3. row.rotatedAt \in {-1} \cup (0 .. now)
    BY <1>1, <2>2 DEF CredentialInv, CredentialTypes, Registration
  <2>4. Accepts(t) => t.secret = row.secret BY <2>1, <2>3 DEF Accepts
  <2>5. t.minted \div 2 > row.rotatedAt \div 2 => t.issuedAt >= row.rotatedAt BY <2>1, <2>3
  <2> QED BY <2>2, <2>4, <2>5 DEF Accepts
<1> QED BY <1>1, CredentialInvariant, PTL

=============================================================================
