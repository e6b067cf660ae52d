---------------------- MODULE IdentityMappingsProofs ----------------------
(***************************************************************************)
(* Proofs about IdentityMappings: when composite keys are unambiguous and  *)
(* the repair is not skipped, the reverse index is exactly the inverse of  *)
(* the forward bucket, the listing round-trips, and the two buckets        *)
(* implement the one relation of Postgres.                                 *)
(***************************************************************************)
EXTENDS IdentityMappings, TLAPS

(* A composite key is in the domain of the forward bucket, and what it     *)
(* resolves to is a user or nobody.                                        *)
LEMMA KeyOfMapping ==
    ASSUME TypeOK
    PROVE  /\ \A m \in Mapping : mappingKey(m) \in Key
           /\ \A m \in Mapping : ResolveMapping(m) \in User \cup {None}
BY DEF TypeOK, Key, ResolveMapping

(* Every operation leaves both buckets well formed. *)
LEMMA TypeStep ==
    ASSUME TypeOK, [Next]_vars
    PROVE  TypeOK'
<1> USE DEF TypeOK
<1>1. CASE Open
  <2>1. CASE SkipRepair BY <1>1, <2>1 DEF Open
  <2>2. CASE ~ SkipRepair BY <1>1, <2>2 DEF Open
  <2> QED BY <2>1, <2>2
<1>2. CASE Stop BY <1>2 DEF Stop
<1>3. ASSUME NEW u \in User, NEW a \in App \cup {None}, CreateUser(u, a)
      PROVE  TypeOK'
  BY <1>3 DEF CreateUser
<1>4. ASSUME NEW u \in User, DeleteUser(u)
      PROVE  TypeOK'
  BY <1>4 DEF DeleteUser
<1>5. ASSUME NEW m \in Mapping, NEW u \in User, SetIdentityMapping(m, u)
      PROVE  TypeOK'
  <2>1. mappingKey(m) \in Key BY KeyOfMapping
  <2>2. CASE ResolveMapping(m) \in {None, u}
    BY <1>5, <2>1, <2>2 DEF SetIdentityMapping, addMappingToIndex
  <2>3. CASE ResolveMapping(m) \notin {None, u}
    BY <1>5, <2>1, <2>3 DEF SetIdentityMapping, addMappingToIndex, removeMappingFromIndex
  <2> QED BY <2>2, <2>3
<1>6. ASSUME NEW m \in Mapping, DeleteIdentityMapping(m)
      PROVE  TypeOK'
  <2>1. mappingKey(m) \in Key BY KeyOfMapping
  <2> QED BY <1>6, <2>1 DEF DeleteIdentityMapping, removeMappingFromIndex
<1>7. ASSUME NEW sources \in SUBSET User, NEW v \in User, MergeUsers(sources, v)
      PROVE  TypeOK'
  <2>1. UNION {index[s] : s \in sources} \subseteq Mapping OBVIOUS
  <2> QED BY <1>7, <2>1 DEF MergeUsers
<1>8. ASSUME NEW a \in App, DeleteApp(a)
      PROVE  TypeOK'
  BY <1>8 DEF DeleteApp
<1>9. CASE UNCHANGED vars BY <1>9 DEF vars
<1> QED BY <1>1, <1>2, <1>3, <1>4, <1>5, <1>6, <1>7, <1>8, <1>9 DEF Next

(* The index is the inverse of the forward bucket. *)
Exact == \A u \in User : index[u] = Owned(u)

(* Re-pointing a mapping: the previous owner loses it, the new one has it, *)
(* every other entry stays.                                                *)
LEMMA SetKeepsExact ==
    ASSUME TypeOK, Exact, Unambiguous,
           NEW m \in Mapping, NEW u \in User, SetIdentityMapping(m, u)
    PROVE  Exact'
<1>1. mappingKey(m) \in Key BY KeyOfMapping
<1>2. \A n \in Mapping : forward'[mappingKey(n)] = IF n = m THEN u ELSE forward[mappingKey(n)]
  BY <1>1, KeyOfMapping DEF SetIdentityMapping, Unambiguous, TypeOK
<1>3. ASSUME NEW w \in User
      PROVE  index'[w] = IF w = u THEN index[w] \cup {m} ELSE index[w] \ {m}
  <2>1. CASE ResolveMapping(m) \in {None, u}
    <3>1. w # u => m \notin index[w]
      BY <2>1, NoneIsNoUser DEF Exact, Owned
    <3> QED BY <2>1, <3>1 DEF SetIdentityMapping, addMappingToIndex, TypeOK
  <2>2. CASE ResolveMapping(m) \notin {None, u}
    <3>1. w # ResolveMapping(m) => m \notin index[w]
      BY DEF Exact, Owned
    <3> QED BY <2>2, <3>1 DEF SetIdentityMapping, addMappingToIndex, removeMappingFromIndex, TypeOK
  <2> QED BY <2>1, <2>2
<1> QED BY <1>2, <1>3 DEF Exact, Owned, ResolveMapping

(* Deleting a mapping takes it from its owner only. *)
LEMMA DeleteKeepsExact ==
    ASSUME TypeOK, Exact, Unambiguous,
           NEW m \in Mapping, DeleteIdentityMapping(m)
    PROVE  Exact'
<1>1. mappingKey(m) \in Key BY KeyOfMapping
<1>2. \A n \in Mapping : forward'[mappingKey(n)] = IF n = m THEN None ELSE forward[mappingKey(n)]
  BY <1>1, KeyOfMapping DEF DeleteIdentityMapping, Unambiguous, TypeOK
<1>3. ASSUME NEW w \in User
      PROVE  index'[w] = index[w] \ {m}
  <2>1. w # ResolveMapping(m) => m \notin index[w]
    BY DEF Exact, Owned
  <2> QED BY <2>1 DEF DeleteIdentityMapping, removeMappingFromIndex, TypeOK
<1> QED BY <1>2, <1>3, NoneIsNoUser DEF Exact, Owned, ResolveMapping

(* What a merge writes to the forward bucket, mapping by mapping: the      *)
(* sources' mappings go to the new user, the others stay.                  *)
LEMMA MergeForward ==
    ASSUME TypeOK, Exact, Unambiguous,
           NEW sources \in SUBSET User, NEW v \in User, MergeUsers(sources, v),
           NEW n \in Mapping
    PROVE  forward'[mappingKey(n)] = IF forward[mappingKey(n)] \in sources THEN v
                                     ELSE forward[mappingKey(n)]
<1> DEFINE moved == UNION {index[s] : s \in sources}
<1>1. mappingKey(n) \in Key BY KeyOfMapping
<1>2. moved \subseteq Mapping BY DEF TypeOK
<1>3. n \in moved <=> forward[mappingKey(n)] \in sources
  BY DEF Exact, Owned, ResolveMapping
<1>4. (\E m \in moved : mappingKey(m) = mappingKey(n)) <=> n \in moved
  BY <1>2 DEF Unambiguous
<1>5. forward'[mappingKey(n)] = IF \E m \in moved : mappingKey(m) = mappingKey(n) THEN v
                                ELSE forward[mappingKey(n)]
  BY <1>1 DEF MergeUsers
<1> QED BY <1>3, <1>4, <1>5

LEMMA MergeKeepsExact ==
    ASSUME TypeOK, Exact, Unambiguous, UnbornOwnNothing,
           NEW sources \in SUBSET User, NEW v \in User, MergeUsers(sources, v)
    PROVE  Exact'
<1> DEFINE moved == UNION {index[s] : s \in sources}
<1>1. \A n \in Mapping : forward'[mappingKey(n)] =
          IF forward[mappingKey(n)] \in sources THEN v ELSE forward[mappingKey(n)]
  BY MergeForward
<1>2. v \notin sources BY DEF MergeUsers
<1>3. index[v] = {} BY DEF MergeUsers, UnbornOwnNothing
<1>4. \A n \in Mapping : n \in moved <=> forward[mappingKey(n)] \in sources
  BY DEF Exact, Owned, ResolveMapping
<1>5. moved \subseteq Mapping BY DEF TypeOK
<1>6. ASSUME NEW w \in User
      PROVE  index'[w] = Owned(w)'
  <2>1. CASE w = v
    <3>1. index'[w] = moved BY <2>1, <1>3 DEF MergeUsers
    <3>2. \A n \in Mapping : forward[mappingKey(n)] # v
      BY <1>3 DEF Exact, Owned, ResolveMapping
    <3> QED BY <3>1, <3>2, <2>1, <1>1, <1>4, <1>5 DEF Owned, ResolveMapping
  <2>2. CASE w \in sources
    <3>1. index'[w] = {} BY <2>2, <1>2 DEF MergeUsers
    <3> QED BY <3>1, <2>2, <1>1, <1>2 DEF Owned, ResolveMapping
  <2>3. CASE w # v /\ w \notin sources
    <3>1. index'[w] = index[w] BY <2>3 DEF MergeUsers
    <3>2. index[w] = Owned(w) BY DEF Exact
    <3> QED BY <3>1, <3>2, <2>3, <1>1 DEF Owned, ResolveMapping
  <2> QED BY <2>1, <2>2, <2>3
<1> QED BY <1>6 DEF Exact

(* What the cascade of DeleteApp writes: the mappings of the app's local   *)
(* users resolve to nobody, the others stay.                               *)
LEMMA CascadeForward ==
    ASSUME TypeOK, Exact, Unambiguous,
           NEW a \in App, DeleteApp(a), NEW n \in Mapping
    PROVE  forward'[mappingKey(n)] =
               IF forward[mappingKey(n)] \in {u \in User : status[u] = "stored" /\ ownerApp[u] = a}
               THEN None ELSE forward[mappingKey(n)]
<1> DEFINE locals == {u \in User : status[u] = "stored" /\ ownerApp[u] = a}
           held(x) == \E u \in locals : x \in index[u] /\ ResolveMapping(x) = u
           freed == {mappingKey(m) : m \in {x \in Mapping : held(x)}}
<1>1. mappingKey(n) \in Key BY KeyOfMapping
<1>2. held(n) <=> forward[mappingKey(n)] \in locals
  BY DEF Exact, Owned, ResolveMapping
<1>3. mappingKey(n) \in freed <=> held(n)
  BY DEF Unambiguous
<1>4. forward'[mappingKey(n)] = IF mappingKey(n) \in freed THEN None ELSE forward[mappingKey(n)]
  BY <1>1 DEF DeleteApp
<1> QED BY <1>2, <1>3, <1>4

LEMMA CascadeKeepsExact ==
    ASSUME TypeOK, Exact, Unambiguous, NEW a \in App, DeleteApp(a)
    PROVE  Exact'
<1> DEFINE locals == {u \in User : status[u] = "stored" /\ ownerApp[u] = a}
<1>1. \A n \in Mapping : forward'[mappingKey(n)] =
          IF forward[mappingKey(n)] \in locals THEN None ELSE forward[mappingKey(n)]
  BY CascadeForward
<1>2. ASSUME NEW w \in User
      PROVE  index'[w] = IF w \in locals THEN {} ELSE index[w]
  BY DEF DeleteApp
<1>3. ASSUME NEW w \in User
      PROVE  index[w] = Owned(w)
  BY DEF Exact
<1>4. ASSUME NEW w \in User
      PROVE  index'[w] = Owned(w)'
  <2>1. CASE w \in locals
    BY <2>1, <1>1, <1>2, NoneIsNoUser DEF Owned, ResolveMapping
  <2>2. CASE w \notin locals
    BY <2>2, <1>1, <1>2, <1>3, NoneIsNoUser DEF Owned, ResolveMapping
  <2> QED BY <2>1, <2>2
<1> QED BY <1>4 DEF Exact

(* Opening prunes what is stranded and, because nothing is missing, leaves *)
(* the exact inverse.                                                      *)
LEMMA OpenMakesExact ==
    ASSUME TypeOK, IndexCovers, ~ SkipRepair, Open
    PROVE  Exact'
<1>1. \A u \in User : index'[u] = {m \in index[u] : ResolveMapping(m) = u}
  BY DEF Open
<1>2. \A u \in User : Owned(u) \subseteq index[u] BY DEF IndexCovers
<1>3. \A u \in User : index[u] \subseteq Mapping BY DEF TypeOK
<1>4. forward' = forward BY DEF Open
<1> QED BY <1>1, <1>2, <1>3, <1>4 DEF Exact, Owned, ResolveMapping

----------------------------------------------------------------------------
(* While the database is open the index is exact; this and coverage are    *)
(* the two halves of the invariant.                                        *)
LEMMA AgreeIsExact ==
    ASSUME LookupsAgree, open
    PROVE  Exact
BY DEF LookupsAgree, GetMappingsForUser, Exact

LEMMA ExactSuffices ==
    ASSUME Exact'
    PROVE  LookupsAgree' /\ IndexCovers'
BY DEF LookupsAgree, GetMappingsForUser, Exact, IndexCovers

(* Both halves, over every step.                                           *)
LEMMA AgreeStep ==
    ASSUME MappingInv, Unambiguous, ~ SkipRepair, [Next]_vars
    PROVE  LookupsAgree' /\ IndexCovers'
<1> USE DEF MappingInv
<1>1. CASE Open
  BY <1>1, OpenMakesExact, ExactSuffices
<1>2. CASE Stop
  BY <1>2 DEF Stop, LookupsAgree, IndexCovers, Owned, ResolveMapping
<1>3. ASSUME NEW u \in User, NEW a \in App \cup {None}, CreateUser(u, a)
      PROVE  LookupsAgree' /\ IndexCovers'
  BY <1>3 DEF CreateUser, LookupsAgree, GetMappingsForUser, IndexCovers, Owned, ResolveMapping
<1>4. ASSUME NEW u \in User, DeleteUser(u)
      PROVE  LookupsAgree' /\ IndexCovers'
  BY <1>4 DEF DeleteUser, LookupsAgree, GetMappingsForUser, IndexCovers, Owned, ResolveMapping
<1>5. ASSUME NEW m \in Mapping, NEW u \in User, SetIdentityMapping(m, u)
      PROVE  LookupsAgree' /\ IndexCovers'
  <2>1. open BY <1>5 DEF SetIdentityMapping
  <2> QED BY <1>5, <2>1, AgreeIsExact, SetKeepsExact, ExactSuffices
<1>6. ASSUME NEW m \in Mapping, DeleteIdentityMapping(m)
      PROVE  LookupsAgree' /\ IndexCovers'
  <2>1. open BY <1>6 DEF DeleteIdentityMapping
  <2> QED BY <1>6, <2>1, AgreeIsExact, DeleteKeepsExact, ExactSuffices
<1>7. ASSUME NEW sources \in SUBSET User, NEW v \in User, MergeUsers(sources, v)
      PROVE  LookupsAgree' /\ IndexCovers'
  <2>1. open BY <1>7 DEF MergeUsers
  <2> QED BY <1>7, <2>1, AgreeIsExact, MergeKeepsExact, ExactSuffices
<1>8. ASSUME NEW a \in App, DeleteApp(a)
      PROVE  LookupsAgree' /\ IndexCovers'
  <2>1. open BY <1>8 DEF DeleteApp
  <2> QED BY <1>8, <2>1, AgreeIsExact, CascadeKeepsExact, ExactSuffices
<1>9. CASE UNCHANGED vars
  BY <1>9 DEF vars, LookupsAgree, GetMappingsForUser, IndexCovers, Owned, ResolveMapping
<1> QED BY <1>1, <1>2, <1>3, <1>4, <1>5, <1>6, <1>7, <1>8, <1>9 DEF Next

(* A GUID that nobody has yet is given no mapping.                         *)
LEMMA UnbornStep ==
    ASSUME TypeOK, UnbornOwnNothing, [Next]_vars
    PROVE  UnbornOwnNothing'
<1> USE DEF TypeOK, UnbornOwnNothing
<1>1. CASE Open BY <1>1 DEF Open
<1>2. CASE Stop BY <1>2 DEF Stop
<1>3. ASSUME NEW u \in User, NEW a \in App \cup {None}, CreateUser(u, a)
      PROVE  UnbornOwnNothing'
  BY <1>3 DEF CreateUser
<1>4. ASSUME NEW u \in User, DeleteUser(u)
      PROVE  UnbornOwnNothing'
  BY <1>4 DEF DeleteUser
<1>5. ASSUME NEW m \in Mapping, NEW u \in User, SetIdentityMapping(m, u)
      PROVE  UnbornOwnNothing'
  BY <1>5, KeyOfMapping DEF SetIdentityMapping, addMappingToIndex, removeMappingFromIndex
<1>6. ASSUME NEW m \in Mapping, DeleteIdentityMapping(m)
      PROVE  UnbornOwnNothing'
  BY <1>6 DEF DeleteIdentityMapping, removeMappingFromIndex
<1>7. ASSUME NEW sources \in SUBSET User, NEW v \in User, MergeUsers(sources, v)
      PROVE  UnbornOwnNothing'
  BY <1>7 DEF MergeUsers
<1>8. ASSUME NEW a \in App, DeleteApp(a)
      PROVE  UnbornOwnNothing'
  BY <1>8 DEF DeleteApp
<1>9. CASE UNCHANGED vars BY <1>9 DEF vars
<1> QED BY <1>1, <1>2, <1>3, <1>4, <1>5, <1>6, <1>7, <1>8, <1>9 DEF Next

LEMMA InitMapping == Init => MappingInv
<1> SUFFICES ASSUME Init PROVE MappingInv OBVIOUS
<1>1. TypeOK BY DEF Init, TypeOK
<1>2. LookupsAgree BY DEF Init, LookupsAgree
<1>3. IndexCovers BY DEF Init, IndexCovers
<1>4. UnbornOwnNothing BY DEF Init, UnbornOwnNothing
<1> QED BY <1>1, <1>2, <1>3, <1>4 DEF MappingInv

(* Both buckets are well formed under every sequence of operations,        *)
(* whatever the keys and whether or not the repair runs.                   *)
THEOREM MappingTypes == Spec => []TypeOK
<1>1. Init => TypeOK BY InitMapping DEF MappingInv
<1>2. TypeOK /\ [Next]_vars => TypeOK' BY TypeStep
<1> QED BY <1>1, <1>2, PTL DEF Spec

(* The inductive invariant: with unambiguous keys and the repair at open,  *)
(* the index is the inverse of the forward bucket while the database is    *)
(* open and misses nothing while it is closed (repairMappingIndex prunes   *)
(* and never rebuilds).                                                    *)
THEOREM MappingInvariant ==
    ASSUME Unambiguous, ~ SkipRepair
    PROVE  Spec => []MappingInv
<1>1. Init => MappingInv BY InitMapping
<1>2. MappingInv /\ [Next]_vars => MappingInv'
  BY TypeStep, AgreeStep, UnbornStep DEF MappingInv
<1> QED BY <1>1, <1>2, PTL DEF Spec

(* GetMappingsForUser returns exactly the mappings that resolve to the     *)
(* user (the derived index of SetIdentityMapping, H14).                    *)
THEOREM IndexIsInverse ==
    ASSUME Unambiguous, ~ SkipRepair
    PROVE  Spec => []LookupsAgree
<1>1. Spec => []MappingInv BY MappingInvariant
<1>2. MappingInv => LookupsAgree BY DEF MappingInv
<1> QED BY <1>1, <1>2, PTL

(* The listing of the administrator takes every composite key apart into   *)
(* the provider and external id it was made of (ListAllMappings, M38).     *)
THEOREM Listing ==
    ASSUME Unambiguous, ~ SkipRepair
    PROVE  Spec => []ListingRoundTrips
<1>1. Spec => []MappingInv BY MappingInvariant
<1>2. ASSUME MappingInv
      PROVE  ListingRoundTrips
  <2> USE <1>2 DEF MappingInv
  <2>1. Listed \subseteq Mapping BY DEF Listed, TypeOK
  <2>2. ASSUME NEW m \in Mapping, ResolveMapping(m) # None
        PROVE  splitMappingKey(mappingKey(m)) = m
    <3>1. m \in Listed
      BY <2>2, KeyOfMapping DEF IndexCovers, Owned, Listed
    <3>2. \A n \in Listed : mappingKey(n) = mappingKey(m) => n = m
      BY <2>1 DEF Unambiguous
    <3>3. (CHOOSE n \in Listed : mappingKey(n) = mappingKey(m)) = m
      BY <3>1, <3>2
    <3> QED BY <3>1, <3>3 DEF splitMappingKey
  <2>3. \A k \in Key : \E m \in Mapping : k = mappingKey(m)
    BY DEF Key
  <2>4. \A m \in Mapping : mappingKey(m) \in Key
    BY DEF Key
  <2> DEFINE expected == {[mapping |-> m, guid |-> ResolveMapping(m)] :
                             m \in {x \in Mapping : ResolveMapping(x) # None}}
  <2>5. ListAllMappings \subseteq expected
    BY <2>2, <2>3 DEF ListAllMappings, ResolveMapping
  <2>6. expected \subseteq ListAllMappings
    BY <2>2, <2>4 DEF ListAllMappings, ResolveMapping
  <2> QED BY <2>5, <2>6 DEF ListingRoundTrips
<1> QED BY <1>1, <1>2, PTL

----------------------------------------------------------------------------
(* The initial states of the two buckets are states of the relation.       *)
LEMMA RelationInit == Init => Postgres!Init
BY KeyOfMapping, InitMapping DEF Init, Postgres!Init, MappingInv, TypeOK

(* Every operation on the two buckets is that of the relation or leaves    *)
(* the relation alone (Open, Stop).                                        *)
LEMMA RelationStep ==
    ASSUME MappingInv, Unambiguous, [Next]_vars
    PROVE  [Postgres!Next]_(Postgres!vars)
<1> USE DEF MappingInv
<1>1. CASE Open
  BY <1>1 DEF Open, Postgres!vars, ResolveMapping
<1>2. CASE Stop
  BY <1>2 DEF Stop, Postgres!vars, ResolveMapping
<1>3. ASSUME NEW u \in User, NEW a \in App \cup {None}, CreateUser(u, a)
      PROVE  Postgres!CreateUser(u, a)
  BY <1>3 DEF CreateUser, Postgres!CreateUser, ResolveMapping
<1>4. ASSUME NEW u \in User, DeleteUser(u)
      PROVE  Postgres!DeleteUser(u)
  BY <1>4 DEF DeleteUser, Postgres!DeleteUser, ResolveMapping
<1>5. ASSUME NEW m \in Mapping, NEW u \in User, SetIdentityMapping(m, u)
      PROVE  Postgres!SetIdentityMapping(m, u)
  <2>1. mappingKey(m) \in Key BY KeyOfMapping
  <2>2. \A n \in Mapping : forward'[mappingKey(n)] = IF n = m THEN u ELSE forward[mappingKey(n)]
    BY <1>5, <2>1, KeyOfMapping DEF SetIdentityMapping, Unambiguous, TypeOK
  <2> QED BY <1>5, <2>2 DEF SetIdentityMapping, Postgres!SetIdentityMapping, ResolveMapping
<1>6. ASSUME NEW m \in Mapping, DeleteIdentityMapping(m)
      PROVE  Postgres!DeleteIdentityMapping(m)
  <2>1. mappingKey(m) \in Key BY KeyOfMapping
  <2>2. \A n \in Mapping : forward'[mappingKey(n)] = IF n = m THEN None ELSE forward[mappingKey(n)]
    BY <1>6, <2>1, KeyOfMapping DEF DeleteIdentityMapping, Unambiguous, TypeOK
  <2> QED BY <1>6, <2>2 DEF DeleteIdentityMapping, Postgres!DeleteIdentityMapping, ResolveMapping
<1>7. ASSUME NEW sources \in SUBSET User, NEW v \in User, MergeUsers(sources, v)
      PROVE  Postgres!MergeUsers(sources, v)
  <2>1. open BY <1>7 DEF MergeUsers
  <2>2. \A n \in Mapping : forward'[mappingKey(n)] =
            IF forward[mappingKey(n)] \in sources THEN v ELSE forward[mappingKey(n)]
    BY <1>7, <2>1, AgreeIsExact, MergeForward
  <2> QED BY <1>7, <2>2 DEF MergeUsers, Postgres!MergeUsers, ResolveMapping
<1>8. ASSUME NEW a \in App, DeleteApp(a)
      PROVE  Postgres!DeleteApp(a)
  <2>1. open BY <1>8 DEF DeleteApp
  <2>2. \A n \in Mapping : forward'[mappingKey(n)] =
            IF forward[mappingKey(n)] \in {u \in User : status[u] = "stored" /\ ownerApp[u] = a}
            THEN None ELSE forward[mappingKey(n)]
    BY <1>8, <2>1, AgreeIsExact, CascadeForward
  <2> QED BY <1>8, <2>2 DEF DeleteApp, Postgres!DeleteApp, ResolveMapping
<1>9. CASE UNCHANGED vars
  BY <1>9 DEF vars, Postgres!vars, ResolveMapping
<1> QED BY <1>1, <1>2, <1>3, <1>4, <1>5, <1>6, <1>7, <1>8, <1>9 DEF Next, Postgres!Next

(* "This restores backend parity": BoltDB's two buckets implement the      *)
(* relation of Postgres for every set of users, apps and mappings whose    *)
(* composite keys are unambiguous.                                         *)
THEOREM BackendParity ==
    ASSUME Unambiguous, ~ SkipRepair
    PROVE  Spec => ImplementsPostgres
<1>1. Spec => []MappingInv BY MappingInvariant
<1>2. Init => Postgres!Init BY RelationInit
<1>3. MappingInv /\ [Next]_vars => [Postgres!Next]_(Postgres!vars) BY RelationStep
<1> QED BY <1>1, <1>2, <1>3, PTL DEF Spec, ImplementsPostgres, Postgres!Spec
============================================================================
