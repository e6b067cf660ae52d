------------------------- MODULE PostgresMappings -------------------------
(***************************************************************************)
(* Users and identity mappings as the Postgres backend keeps them: one     *)
(* relation (provider, external_id) -> user_guid, and every operation one  *)
(* statement or one transaction.  It is what the BoltDB backend, with its  *)
(* two buckets, has to look like from outside.                             *)
(***************************************************************************)
EXTENDS FiniteSets

CONSTANTS
    User,       \* GUIDs, those not given to anybody yet included
    App,        \* registered apps
    Mapping,    \* pairs (provider, external id)
    None        \* no app, no user

VARIABLES
    status,     \* sa_users: "unborn", "stored" or "deleted"
    ownerApp,   \* sa_users: OwnerAppID of the row, None for a directory user
    owner       \* sa_identity_mappings: user_guid of each mapping

vars == <<status, ownerApp, owner>>

Init ==
    /\ status \in [User -> {"unborn", "stored", "deleted"}]
    /\ ownerApp \in [User -> App \cup {None}]
    /\ owner \in [Mapping -> User \cup {None}]

CreateUser(u, a) ==
    /\ status[u] = "unborn"
    /\ status' = [status EXCEPT ![u] = "stored"]
    /\ ownerApp' = [ownerApp EXCEPT ![u] = a]
    /\ UNCHANGED owner

(* The mappings of a deleted user stay. *)
DeleteUser(u) ==
    /\ status[u] # "unborn"
    /\ status' = [status EXCEPT ![u] = "deleted"]
    /\ UNCHANGED <<ownerApp, owner>>

(* INSERT ... ON CONFLICT (provider, external_id) DO UPDATE: the GUID is   *)
(* not looked up.                                                          *)
SetIdentityMapping(m, u) ==
    /\ status[u] # "unborn"
    /\ owner' = [owner EXCEPT ![m] = u]
    /\ UNCHANGED <<status, ownerApp>>

DeleteIdentityMapping(m) ==
    /\ owner' = [owner EXCEPT ![m] = None]
    /\ UNCHANGED <<status, ownerApp>>

(* A source that has no row is passed over. *)
MergeUsers(sources, v) ==
    /\ sources # {} /\ \A s \in sources : status[s] # "unborn"
    /\ status[v] = "unborn"
    /\ status' = [status EXCEPT ![v] = "stored"]
    /\ ownerApp' = [ownerApp EXCEPT ![v] = None]
    /\ owner' = [m \in Mapping |-> IF owner[m] \in sources THEN v ELSE owner[m]]

(* DELETE ... WHERE user_guid IN (SELECT guid ... owner_app_id = $1) *)
DeleteApp(a) ==
    LET locals == {u \in User : status[u] = "stored" /\ ownerApp[u] = a} IN
    /\ status' = [u \in User |-> IF u \in locals THEN "deleted" ELSE status[u]]
    /\ owner' = [m \in Mapping |-> IF owner[m] \in locals THEN None ELSE owner[m]]
    /\ UNCHANGED ownerApp

(* GetMappingsForUser *)
MappingsOf(u) == {m \in Mapping : owner[m] = u}

Next ==
    \/ \E u \in User, a \in App \cup {None} : CreateUser(u, a)
    \/ \E u \in User : DeleteUser(u)
    \/ \E m \in Mapping, u \in User : SetIdentityMapping(m, u)
    \/ \E m \in Mapping : DeleteIdentityMapping(m)
    \/ \E sources \in SUBSET User, v \in User : MergeUsers(sources, v)
    \/ \E a \in App : DeleteApp(a)

Spec == Init /\ [][Next]_vars

============================================================================
