------------------------- MODULE IdentityMappings -------------------------
(***************************************************************************)
(* Users and identity mappings in BoltDB.  The bucket identity_mappings    *)
(* maps the composite key "provider:externalID" to a GUID; the bucket      *)
(* idx_mappings_by_guid lists the mappings of each GUID.  Every operation  *)
(* is one transaction on both.                                             *)
(*                                                                         *)
(* A provider and an external id are strings that may contain ':'.  Here   *)
(* such a string is the sequence of its parts between the colons, so that  *)
(* joining two of them with ':' is concatenation.                          *)
(***************************************************************************)
EXTENDS Sequences, FiniteSets

CONSTANTS
    User,       \* GUIDs, those not given to anybody yet included
    App,        \* registered apps
    Mapping,    \* records [provider, externalID] of such sequences
    None,       \* no app, no user
    SkipRepair  \* SA_SKIP_MAPPING_REPAIR=1

ASSUME NoneIsNoUser == None \notin User
ASSUME SkipRepairIsBoolean == SkipRepair \in BOOLEAN

VARIABLES
    status,     \* bucket users: "unborn", "stored" or "deleted"
    ownerApp,   \* bucket users: OwnerAppID
    forward,    \* bucket identity_mappings: GUID under each composite key
    index,      \* bucket idx_mappings_by_guid: the list of each GUID, as a set
    open        \* OpenBolt has returned

vars == <<status, ownerApp, forward, index, open>>

mappingKey(m) == m.provider \o m.externalID

Key == {mappingKey(m) : m \in Mapping}

(* No two mappings share a composite key. *)
Unambiguous ==
    \A m1, m2 \in Mapping : mappingKey(m1) = mappingKey(m2) => m1 = m2

ResolveMapping(m) == forward[mappingKey(m)]

GetMappingsForUser(u) == index[u]

(* The mappings whose forward entry names u. *)
Owned(u) == {m \in Mapping : ResolveMapping(m) = u}

(* mappingSplits: every mapping the index lists, for any user. *)
Listed == UNION {index[u] : u \in User}

(* Mutant of splitMappingKey: always split at the first colon. *)
MutSplitAtFirstColon(k) ==
    [provider |-> <<Head(k)>>, externalID |-> Tail(k)]

(* The mapping behind a composite key: as the index recorded it, or split  *)
(* at the first colon where the index knows nothing.                       *)
splitMappingKey(k) ==
    IF \E m \in Listed : mappingKey(m) = k
    THEN CHOOSE m \in Listed : mappingKey(m) = k
    ELSE [provider |-> <<Head(k)>>, externalID |-> Tail(k)]

ListAllMappings ==
    {[mapping |-> splitMappingKey(k), guid |-> forward[k]] :
        k \in {x \in Key : forward[x] # None}}

(* Mutant of addMappingToIndex: the index records the split of the key. *)
MutAddSplitToIndex(idx, u, m) ==
    [idx EXCEPT ![u] = @ \cup {MutSplitAtFirstColon(mappingKey(m))}]

(* addMappingToIndex and removeMappingFromIndex, on a value of the index. *)
addMappingToIndex(idx, u, m) == [idx EXCEPT ![u] = @ \cup {m}]

removeMappingFromIndex(idx, u, m) == [idx EXCEPT ![u] = @ \ {m}]

----------------------------------------------------------------------------
(* A data directory as an earlier version left it: what the forward bucket *)
(* says is in the index, but a mapping that was pointed at another user    *)
(* may still be listed for the previous one.                               *)
Init ==
    /\ status \in [User -> {"unborn", "stored"}]
    /\ ownerApp = [u \in User |-> None]
    /\ forward \in [Key -> {u \in User : status[u] = "stored"} \cup {None}]
    /\ index \in [User -> SUBSET Mapping]
    /\ \A u \in User :
        /\ Owned(u) \subseteq index[u]
        /\ status[u] = "unborn" => index[u] = {}
    /\ open = FALSE

(* OpenBolt: repairMappingIndex prunes what the forward bucket does not    *)
(* back, and adds nothing.                                                 *)
Open ==
    /\ ~ open
    /\ open' = TRUE
    /\ index' = IF SkipRepair THEN index
                ELSE [u \in User |-> {m \in index[u] : ResolveMapping(m) = u}]
    /\ UNCHANGED <<status, ownerApp, forward>>

(* The process stops; every committed transaction is on disk. *)
Stop ==
    /\ open
    /\ open' = FALSE
    /\ UNCHANGED <<status, ownerApp, forward, index>>

CreateUser(u, a) ==
    /\ open
    /\ status[u] = "unborn"
    /\ status' = [status EXCEPT ![u] = "stored"]
    /\ ownerApp' = [ownerApp EXCEPT ![u] = a]
    /\ UNCHANGED <<forward, index, open>>

(* Neither bucket of mappings is touched. *)
DeleteUser(u) ==
    /\ open
    /\ status[u] # "unborn"
    /\ status' = [status EXCEPT ![u] = "deleted"]
    /\ UNCHANGED <<ownerApp, forward, index, open>>

(* Mutant of SetIdentityMapping: the previous owner keeps its index entry. *)
MutSetWithoutRetract(m, u) ==
    /\ open
    /\ status[u] # "unborn"
    /\ forward' = [forward EXCEPT ![mappingKey(m)] = u]
    /\ index' = addMappingToIndex(index, u, m)
    /\ UNCHANGED <<status, ownerApp, open>>

(* Retract from the previous owner, then index for the new one. *)
SetIdentityMapping(m, u) ==
    LET prevOwner == ResolveMapping(m)
        retracted == IF prevOwner \in {None, u} THEN index
                     ELSE removeMappingFromIndex(index, prevOwner, m)
    IN
    /\ open
    /\ status[u] # "unborn"
    /\ forward' = [forward EXCEPT ![mappingKey(m)] = u]
    /\ index' = addMappingToIndex(retracted, u, m)
    /\ UNCHANGED <<status, ownerApp, open>>

DeleteIdentityMapping(m) ==
    LET guid == ResolveMapping(m) IN
    /\ open
    /\ guid # None
    /\ forward' = [forward EXCEPT ![mappingKey(m)] = None]
    /\ index' = removeMappingFromIndex(index, guid, m)
    /\ UNCHANGED <<status, ownerApp, open>>

(* All that the index lists for the sources goes to the new user.  A       *)
(* source without a row fails the transaction.                             *)
MergeUsers(sources, v) ==
    LET moved == UNION {index[s] : s \in sources} IN
    /\ open
    /\ sources # {}
    /\ \A s \in sources : status[s] = "stored"
    /\ status[v] = "unborn"
    /\ status' = [status EXCEPT ![v] = "stored"]
    /\ ownerApp' = [ownerApp EXCEPT ![v] = None]
    /\ forward' = [k \in Key |-> IF \E m \in moved : mappingKey(m) = k THEN v
                                 ELSE forward[k]]
    /\ index' = [u \in User |-> IF u = v THEN index[v] \cup moved
                                ELSE IF u \in sources THEN {} ELSE index[u]]
    /\ UNCHANGED open

(* Mutant of DeleteApp: the users go, their forward entries stay. *)
MutDeleteAppKeepsForward(a) ==
    LET locals == {u \in User : status[u] = "stored" /\ ownerApp[u] = a} IN
    /\ open
    /\ status' = [u \in User |-> IF u \in locals THEN "deleted" ELSE status[u]]
    /\ index' = [u \in User |-> IF u \in locals THEN {} ELSE index[u]]
    /\ UNCHANGED <<ownerApp, forward, open>>

(* The cascade over the app's local users: of the mappings the index lists *)
(* for a user, those whose forward entry still names that user.            *)
DeleteApp(a) ==
    LET locals == {u \in User : status[u] = "stored" /\ ownerApp[u] = a}
        freed  == {mappingKey(m) : m \in {x \in Mapping :
                      \E u \in locals : x \in index[u] /\ ResolveMapping(x) = u}}
    IN
    /\ open
    /\ status' = [u \in User |-> IF u \in locals THEN "deleted" ELSE status[u]]
    /\ forward' = [k \in Key |-> IF k \in freed THEN None ELSE forward[k]]
    /\ index' = [u \in User |-> IF u \in locals THEN {} ELSE index[u]]
    /\ UNCHANGED <<ownerApp, open>>

Next ==
    \/ Open
    \/ Stop
    \/ \E u \in User, a \in App \cup {None} : CreateUser(u, a)
    \/ \E u \in User : DeleteUser(u)
    \/ \E m \in Mapping, u \in User : SetIdentityMapping(m, u)
    \/ \E m \in Mapping : DeleteIdentityMapping(m)
    \/ \E sources \in SUBSET User, v \in User : MergeUsers(sources, v)
    \/ \E a \in App : DeleteApp(a)

Spec == Init /\ [][Next]_vars

----------------------------------------------------------------------------
(* Properties.                                                             *)

(* The buckets have the shape the code gives them. *)
TypeOK ==
    /\ status \in [User -> {"unborn", "stored", "deleted"}]
    /\ ownerApp \in [User -> App \cup {None}]
    /\ forward \in [Key -> User \cup {None}]
    /\ index \in [User -> SUBSET Mapping]
    /\ open \in BOOLEAN

(* The reverse index is derived state (SetIdentityMapping, H14): once the  *)
(* database is open it lists for each user the mappings that resolve to    *)
(* that user, no other and none less, through every sequence of re-points, *)
(* merges, cascades and restarts.                                          *)
LookupsAgree == open => \A u \in User : GetMappingsForUser(u) = Owned(u)

(* "So an applocal provider round-trips intact" (ListAllMappings, M38):    *)
(* the listing, which has to take composite keys apart again, names every  *)
(* mapping with the user it resolves to, whatever was re-pointed, merged   *)
(* or dropped before.                                                      *)
ListingRoundTrips ==
    ListAllMappings = {[mapping |-> m, guid |-> ResolveMapping(m)] :
                          m \in {x \in Mapping : ResolveMapping(x) # None}}

(* Also while the database is closed, the index misses nothing. *)
IndexCovers == \A u \in User : Owned(u) \subseteq index[u]

(* A user that does not exist yet owns nothing and is listed nowhere. *)
UnbornOwnNothing ==
    \A u \in User : status[u] = "unborn" => index[u] = {}

(* The inductive invariant behind LookupsAgree and ImplementsPostgres. *)
MappingInv == TypeOK /\ LookupsAgree /\ IndexCovers /\ UnbornOwnNothing

(* "This makes Bolt identical" (DeleteApp) and "this restores backend      *)
(* parity" (SetIdentityMapping): seen through ResolveMapping, the two      *)
(* buckets behave as the one relation of Postgres.                         *)
Postgres == INSTANCE PostgresMappings
                WITH owner <- [m \in Mapping |-> ResolveMapping(m)]

ImplementsPostgres == Postgres!Spec

============================================================================
