-------------------------- MODULE CentralMigration --------------------------
(***************************************************************************)
(* A standalone deployment moves into one app of a central one             *)
(* (src/internal/migrate/bundle.go, migration_central.go and               *)
(* migration_standalone.go of src/internal/handler).  The standalone packs *)
(* its users and roles and posts them with a migration token; the central  *)
(* checks the token and the bundle, claims the token, and then writes the  *)
(* app, its local users and its assignments one after the other.  Commits  *)
(* take turns (migrationMu) and the creation of local users is shut out    *)
(* (localUserMu); administrators, failing writes and stops are not.  The   *)
(* standalone may lose the answer and try again.                           *)
(***************************************************************************)
EXTENDS Naturals, FiniteSets

CONSTANTS
    Commit,       \* calls of handleMigrationCommit under way at once
    Creator,      \* calls that create a local user themselves
    Username,
    Sources,      \* what the standalone's directory may hold
    SameAD,       \* both deployments are on the same directory
    MaxTokens, MaxInstances, MaxUsers  \* bounds: minted, registered, created

(* A user of the standalone: the app that owns it, whether a password hash is
   kept, how its directory identity shows, if its mappings can be read at all,
   and whether it has effective roles.                                      *)
SourceUser ==
    [key : Username, merged : BOOLEAN, owner : {"none", "home", "other"}, hash : BOOLEAN,
     directory : {"sam", "mapped", "none", "unreadable"}, roles : BOOLEAN]

ASSUME CentralConstants ==
    /\ \A s \in Sources : s \subseteq SourceUser
    /\ SameAD \in BOOLEAN
    /\ Commit \cap Creator = {}
    /\ MaxTokens \in Nat /\ MaxInstances \in Nat /\ MaxUsers \in Nat

VARIABLES
    target,     \* the app: registration (0: none), audience, local logins
    instances,  \* registrations so far
    taken,      \* another app has the audience the bundle carries
    authz,      \* its authorization document: a catalog, and who is assigned
    localNames, \* [username -> GUID], the app's local users; 0: none
    userCount,  \* GUIDs given out
    carried,    \* [GUID -> the bundle entry whose name and password hash the
                \* account was made with]; {}: the app made it itself
    token,      \* the row "migration_token:<app id>"
    commits,
    creators,
    migrationMu, localUserMu,  \* the calls that hold them
    spent,      \* history: how often each token was applied
    misplaced,  \* history: a token was applied to a later registration, without
                \* a deletion inside its commit
    imports,    \* history: commits that succeeded since the document was empty,
                \* but for those that could not read it
    outcome     \* history: report and result of the last commit that succeeded

centralVars == <<target, instances, taken, authz, localNames, userCount, carried, token, commits,
                 creators, migrationMu, localUserMu, spent, misplaced, imports, outcome>>

theNames == <<localNames, userCount, carried>>

NoTarget == [instance |-> 0, audience |-> "own", localLogins |-> FALSE]
NoAuthz == [catalog |-> FALSE, assigned |-> {}]
NoToken == [id |-> 0, used |-> FALSE, instance |-> 0, expired |-> FALSE]
NoCommit == [step |-> "none", token |-> 0, instance |-> 0, users |-> {}, left |-> {},
             making |-> {}, doc |-> {}, dropped |-> {}, removed |-> {}, blind |-> {},
             report |-> 0, crossed |-> FALSE]
NoCreator == [step |-> "none", key |-> "", unread |-> FALSE]
NoOutcome ==
    [reported |-> 0, usable |-> {}, dropped |-> {}, removed |-> {}, shadowed |-> {}, crossed |-> FALSE]

CentralInit ==
    /\ target = NoTarget /\ instances = 0 /\ taken \in BOOLEAN
    /\ authz = NoAuthz
    /\ localNames = [k \in Username |-> 0] /\ userCount = 0
    /\ carried = [g \in 1 .. MaxUsers |-> {}]
    /\ token = NoToken
    /\ commits = [c \in Commit |-> NoCommit] /\ creators = [c \in Creator |-> NoCreator]
    /\ migrationMu = {} /\ localUserMu = {}
    /\ spent = [i \in 1 .. MaxTokens |-> 0] /\ misplaced = FALSE /\ imports = 0
    /\ outcome = NoOutcome

-----------------------------------------------------------------------------
(* The bundle: Package, classifyUser. *)

Entry(u, kind) ==
    [key |-> u.key, kind |-> kind, hash |-> kind = "local", roles |-> u.roles, of |-> u]

(* A directory identity comes before a password, except for a user the home
   app owns; one whose mappings cannot be read is left out.                 *)
InDirectory(u) == u.owner = "none" /\ u.directory \in {"sam", "mapped"}

ClassifyUser(u) ==
    CASE InDirectory(u) -> {Entry(u, "ad")}
      [] ~InDirectory(u) /\ u.hash /\ u.directory # "unreadable" -> {Entry(u, "local")}
      [] OTHER -> {}

Package(users) ==
    UNION {ClassifyUser(u) : u \in {x \in users : ~x.merged /\ x.owner # "other"}}

(* The entries Apply writes: those with roles. *)
Granted(users) == {e \in users : e.roles}

-----------------------------------------------------------------------------
(* handleGenMigrationToken; time makes the token lapse. *)

MintToken ==
    /\ target.instance # 0 /\ token.id < MaxTokens
    /\ token' = [id |-> token.id + 1, used |-> FALSE, instance |-> target.instance,
                  expired |-> FALSE]
    /\ UNCHANGED <<target, instances, taken, authz, theNames, commits, creators,
                   migrationMu, localUserMu, spent, misplaced, imports, outcome>>

ExpireToken ==
    /\ token.id # 0 /\ ~token.expired
    /\ token' = [token EXCEPT !.expired = TRUE]
    /\ UNCHANGED <<target, instances, taken, authz, theNames, commits, creators,
                   migrationMu, localUserMu, spent, misplaced, imports, outcome>>

theTarget == <<target, instances, taken, authz>>
theHistory == <<spent, misplaced, imports, outcome>>

End(c) ==
    /\ commits' = [commits EXCEPT ![c] = NoCommit]
    /\ migrationMu' = migrationMu \ {c}
    /\ localUserMu' = localUserMu \ {c}

Go(c, call) == commits' = [commits EXCEPT ![c] = call] /\ UNCHANGED <<migrationMu, localUserMu>>

(* handleMigrationCommit, guardMigrationCall, authMigration: whoever holds a
   token that was minted posts a bundle for an app that is enabled;
   callCentral may have posted the same before and lost the answer.         *)
BeginCommit(c, id, users) ==
    /\ commits[c] = NoCommit
    /\ migrationMu = {}
    /\ target.instance # 0 /\ token.id = id
    /\ ~token.used /\ ~token.expired /\ token.instance = target.instance
    /\ commits' = [commits EXCEPT ![c] = [NoCommit EXCEPT !.step = "classify", !.token = id,
                     !.instance = token.instance, !.users = Package(users)]]
    /\ migrationMu' = {c}
    /\ UNCHANGED <<theTarget, theNames, token, creators, localUserMu, theHistory>>

(* resolveCarriedAudience: the audience the target has already is no conflict. *)
AudienceConflict == target.instance # 0 /\ taken /\ target.audience # "carried"

(* Mutant of Reported: users without roles are counted. *)
ReportedWithoutRoles(users) == Cardinality(users)

(* The users a dry run reports as migrating. *)
Reported(users) == Cardinality(Granted(users))

(* The reads of Classify whose errors are dropped, where that makes a
   difference: without the document the target looks fresh, without the app
   its audience is not checked yet.                                         *)
DroppedReads ==
    {r \in {"document", "app"} : IF r = "document" THEN authz # NoAuthz ELSE AudienceConflict}

(* Users of a directory the central is not on. *)
Foreign(users) == ~SameAD /\ \E e \in users : e.kind = "ad"

Classified(call, unread) ==
    [call EXCEPT !.step = "claim", !.report = Reported(call.users),
                 !.blind = unread \cap {"document"}]

(* Mutant of Classify: a target in use is not turned away. *)
ClassifyUsedTarget(c) ==
    /\ commits[c].step = "classify"
    /\ \E unread \in SUBSET DroppedReads :
         IF (AudienceConflict /\ "app" \notin unread) \/ Foreign(commits[c].users)
         THEN End(c)
         ELSE Go(c, Classified(commits[c], unread))
    /\ UNCHANGED <<theTarget, theNames, token, creators, theHistory>>

(* Classify turns the bundle away for a target in use, an audience in use or
   users of another directory, and leaves the token for another try.        *)
Classify(c) ==
    /\ commits[c].step = "classify"
    /\ \E unread \in SUBSET DroppedReads :
         IF \/ (authz # NoAuthz /\ "document" \notin unread)
            \/ (AudienceConflict /\ "app" \notin unread)
            \/ Foreign(commits[c].users)
         THEN End(c)
         ELSE Go(c, Classified(commits[c], unread))
    /\ UNCHANGED <<theTarget, theNames, token, creators, theHistory>>

(* Mutant of ConsumeMigrationToken: the error of the save is dropped. *)
ClaimUnsaved(c) ==
    /\ commits[c].step = "claim"
    /\ token' \in {token, [token EXCEPT !.used = TRUE]}
    /\ Go(c, [commits[c] EXCEPT !.step = "apply"])
    /\ UNCHANGED <<theTarget, theNames, creators, theHistory>>

(* consumeMigrationToken marks the row as it finds it now; a claim that
   cannot be saved ends the commit.                                         *)
ConsumeMigrationToken(c) ==
    /\ commits[c].step = "claim"
    /\ \/ token' = [token EXCEPT !.used = TRUE] /\ Go(c, [commits[c] EXCEPT !.step = "apply"])
       \/ UNCHANGED token /\ End(c)
    /\ UNCHANGED <<theTarget, theNames, creators, theHistory>>

-----------------------------------------------------------------------------
(* Apply, under localUserMu. *)

(* The app row, after the audience is checked again; the assignments to add
   to are read, and taken for none when the read fails.                     *)
ApplyApp(c) ==
    LET call == commits[c] IN
    /\ call.step = "apply" /\ localUserMu = {}
    /\ IF target.instance = 0 \/ AudienceConflict
       THEN End(c) /\ UNCHANGED <<target, spent, misplaced>>
       ELSE /\ target' = [target EXCEPT !.audience = "carried",
                            !.localLogins = @ \/ \E e \in Granted(call.users) : e.kind = "local"]
            /\ localUserMu' = {c}
            /\ \E doc \in {authz.assigned, {}} :
                 commits' = [commits EXCEPT ![c].step = "users", ![c].doc = doc,
                                            ![c].left = Granted(call.users)]
            /\ spent' = [spent EXCEPT ![call.token] = @ + 1]
            /\ misplaced' = (misplaced \/ (target.instance # call.instance /\ ~call.crossed))
            /\ UNCHANGED migrationMu
    /\ UNCHANGED <<instances, taken, authz, theNames, token, creators, imports, outcome>>

(* Assignments are kept by username: one replaces what the name had. *)
Assign(call, e) ==
    [call EXCEPT !.step = "users", !.left = @ \ {e}, !.making = {}, !.blind = @ \ {"username"},
                 !.doc = {f \in @ : f.key # e.key} \cup {e}]

(* What a commit has written. *)
Done(call) == IF call.step \in {"users", "map"} THEN Granted(call.users) \ call.left ELSE {}

(* The account of its username was made for the entry. *)
Owns(e) == localNames[e.key] # 0 /\ carried[localNames[e.key]] = {e}

(* The entry if somebody else has its username, who then gets its roles. *)
Dropped(e) == IF e.kind = "local" /\ ~Owns(e) THEN {e} ELSE {}

(* One user: a local one is created with the password it carries, unless its
   username is seen to be taken; a failed look-up shows every one free.     *)
ApplyUser(c, e) ==
    LET call == commits[c] IN
    /\ call.step = "users" /\ e \in call.left
    /\ \/ /\ e.kind = "ad" \/ localNames[e.key] # 0
          /\ Go(c, Assign([call EXCEPT !.dropped = @ \cup Dropped(e)], e))
          /\ UNCHANGED <<userCount, carried>>
       \/ /\ e.kind = "local" /\ userCount < MaxUsers
          /\ userCount' = userCount + 1
          /\ carried' = [carried EXCEPT ![userCount + 1] = {e}]
          /\ Go(c, [call EXCEPT !.step = "map", !.making = {e}, !.blind =
                       IF localNames[e.key] = 0 THEN @ ELSE @ \cup {"username"}])
    /\ UNCHANGED <<theTarget, localNames, token, creators, theHistory>>

MapLocalUser(c, e) ==
    LET call == commits[c] IN
    /\ call.step = "map" /\ call.making = {e}
    /\ localNames' = [localNames EXCEPT ![e.key] = userCount]
    /\ Go(c, Assign(call, e))
    /\ UNCHANGED <<theTarget, userCount, carried, token, creators, theHistory>>

(* The users of the bundle that can sign in to the app as they did before and
   have their roles.                                                        *)
Usable(call) == {e \in Granted(call.users) \cap call.doc : e.kind = "local" => Owns(e)}

(* The users whose roles another user of the bundle replaced. *)
Shadowed(call) ==
    {e \in Granted(call.users) \ call.doc :
       \E f \in Granted(call.users) \cap call.doc : f.key = e.key}

(* The bundle's roles and permissions come with it; they are not empty. *)
SaveAssignments(c) ==
    LET call == commits[c] IN
    /\ call.step = "users" /\ call.left = {}
    /\ authz' = [catalog |-> TRUE, assigned |-> call.doc]
    /\ imports' = IF "document" \in call.blind THEN imports ELSE imports + 1
    /\ outcome' = [reported |-> call.report, usable |-> Usable(call), dropped |-> call.dropped,
                   removed |-> call.removed, shadowed |-> Shadowed(call), crossed |-> call.crossed]
    /\ End(c)
    /\ UNCHANGED <<target, instances, taken, theNames, token, creators,
                   spent, misplaced>>

(* A read whose error counts, or a write, fails: the commit ends, from the
   claim on with the token spent.                                           *)
CommitFails(c) ==
    /\ commits[c].step \in {"classify", "apply", "users", "map"}
    /\ End(c)
    /\ UNCHANGED <<theTarget, theNames, token, creators, theHistory>>

-----------------------------------------------------------------------------
(* What goes on around a commit. *)

(* Mutant of BeginOwnUser: localUserMu is not taken. *)
BeginOwnUserUnlocked(c, k) ==
    /\ creators[c] = NoCreator
    /\ target.instance # 0 /\ target.localLogins
    /\ creators' = [creators EXCEPT ![c] =
                      [step |-> "map", key |-> k, unread |-> localNames[k] # 0]]
    /\ UNCHANGED <<theTarget, theNames, token, commits, migrationMu, localUserMu, theHistory>>

(* handleCreateLocalUser of a username that is free, or whose look-up failed
   and shows it free.                                                       *)
BeginOwnUser(c, k) ==
    /\ creators[c] = NoCreator
    /\ localUserMu = {}
    /\ target.instance # 0 /\ target.localLogins
    /\ creators' = [creators EXCEPT ![c] =
                      [step |-> "map", key |-> k, unread |-> localNames[k] # 0]]
    /\ localUserMu' = {c}
    /\ UNCHANGED <<theTarget, theNames, token, commits, migrationMu, theHistory>>

MapOwnUser(c) ==
    /\ creators[c].step = "map" /\ userCount < MaxUsers
    /\ userCount' = userCount + 1
    /\ localNames' = [localNames EXCEPT ![creators[c].key] = userCount + 1]
    /\ creators' = [creators EXCEPT ![c] = NoCreator]
    /\ localUserMu' = localUserMu \ {c}
    /\ UNCHANGED <<theTarget, carried, token, commits, migrationMu, theHistory>>

(* handleDeleteLocalUser, which takes no lock: the username is free again,
   and what it was assigned goes.                                           *)
DeleteLocalUser(k) ==
    /\ target.instance # 0 /\ localNames[k] # 0
    /\ localNames' = [localNames EXCEPT ![k] = 0]
    /\ authz' = [authz EXCEPT !.assigned = {e \in @ : e.key # k}]
    /\ commits' = [c \in Commit |-> [commits[c] EXCEPT !.removed =
                    @ \cup {e \in Done(commits[c]) : e.kind = "local" /\ e.key = k /\ Owns(e)}]]
    /\ UNCHANGED <<target, instances, taken, userCount, carried, token, creators, migrationMu,
                   localUserMu, theHistory>>

RegisterTarget ==
    /\ target.instance = 0 /\ instances < MaxInstances
    /\ \E logins \in BOOLEAN :
         target' = [instance |-> instances + 1, audience |-> "own", localLogins |-> logins]
    /\ instances' = instances + 1
    /\ UNCHANGED <<taken, authz, theNames, token, commits, creators, migrationMu,
                   localUserMu, theHistory>>

DeleteTarget ==
    /\ target.instance # 0
    /\ target' = NoTarget
    /\ authz' = NoAuthz /\ imports' = 0
    /\ localNames' = [k \in Username |-> 0]
    /\ commits' = [c \in Commit |-> [commits[c] EXCEPT !.crossed = commits[c] # NoCommit]]
    /\ UNCHANGED <<instances, taken, userCount, carried, token, creators, migrationMu, localUserMu,
                   spent, misplaced, outcome>>

(* Administrators save another document, or empty it. *)
EditAuthz(doc) ==
    /\ target.instance # 0 /\ doc # authz
    /\ authz' = doc
    /\ imports' = IF doc = NoAuthz THEN 0 ELSE imports
    /\ UNCHANGED <<target, instances, taken, theNames, token, commits, creators,
                   migrationMu, localUserMu, spent, misplaced, outcome>>

(* Another app takes the audience the bundle carries, or gives it up. *)
TakeAudience ==
    /\ taken' = ~taken
    /\ UNCHANGED <<target, instances, authz, theNames, token, commits, creators,
                   migrationMu, localUserMu, theHistory>>

StopCentral ==
    /\ commits' = [c \in Commit |-> NoCommit] /\ creators' = [c \in Creator |-> NoCreator]
    /\ migrationMu' = {} /\ localUserMu' = {}
    /\ UNCHANGED <<theTarget, theNames, token, theHistory>>

CentralNext ==
    \/ \E c \in Commit :
         \/ \E id \in 1 .. MaxTokens, users \in Sources : BeginCommit(c, id, users)
         \/ Classify(c) \/ ConsumeMigrationToken(c) \/ ApplyApp(c)
         \/ \E e \in commits[c].left : ApplyUser(c, e) \/ MapLocalUser(c, e)
         \/ SaveAssignments(c) \/ CommitFails(c)
    \/ \E c \in Creator : (\E k \in Username : BeginOwnUser(c, k)) \/ MapOwnUser(c)
    \/ \E k \in Username : DeleteLocalUser(k)
    \/ MintToken \/ ExpireToken \/ RegisterTarget \/ DeleteTarget \/ TakeAudience
    \/ \E doc \in {NoAuthz, [NoAuthz EXCEPT !.catalog = TRUE]} : EditAuthz(doc)
    \/ StopCentral

CentralSpec == CentralInit /\ [][CentralNext]_centralVars

-----------------------------------------------------------------------------

(***************************************************************************)
(* A migration token is applied at most once, and to the registration it   *)
(* was minted for unless the app was deleted during the very commit;       *)
(* neither a lost answer and a second try, nor a claim that could not be   *)
(* saved, nor a stop makes it good again (consumeMigrationToken,           *)
(* authMigration, migrationMu).                                            *)
(***************************************************************************)
TokenAppliesOnce == ~misplaced /\ \A i \in 1 .. MaxTokens : spent[i] <= 1

(***************************************************************************)
(* A deployment is imported into an app once, with one token or several:   *)
(* a second commit succeeds only after an administrator emptied the app,   *)
(* or where it could not read what the app holds and drops that error      *)
(* (Classify, handleMigrationCommit).                                      *)
(***************************************************************************)
ImportedOnce == imports <= 1

(***************************************************************************)
(* The import and an app that creates local users at the same time never   *)
(* take a username over from each other (localUserMu in                    *)
(* handleMigrationCommit and handleCreateLocalUser), except where whoever  *)
(* takes it failed to look up the very username and dropped that error.    *)
(***************************************************************************)
ImportKeepsUsernames ==
    [][\A k \in Username : localNames[k] # 0 =>
         \/ localNames'[k] \in {localNames[k], 0}
         \/ \E c \in Commit : /\ "username" \in commits[c].blind
                              /\ \E e \in commits[c].making : e.key = k
         \/ \E c \in Creator : creators[c].unread /\ creators[c].key = k]_centralVars

(***************************************************************************)
(* When a commit succeeds, every user the dry run counted can sign in as   *)
(* before and has its roles, but for three kinds, of which none can: those *)
(* whose username was seen to be somebody else's, those whose roles        *)
(* another user of the bundle with the same key replaced, and those the    *)
(* app deleted again meanwhile.  An account left by an earlier try is its  *)
(* own; a deletion of the app during the commit is excepted (Classify,     *)
(* Apply).                                                                 *)
(***************************************************************************)
ReportTellsOutcome ==
    LET lost == outcome.dropped \cup outcome.removed \cup outcome.shadowed
    IN ~outcome.crossed =>
         /\ outcome.usable \cap lost = {}
         /\ outcome.reported = Cardinality(outcome.usable \cup lost)

(***************************************************************************)
(* Local users carry their password hash: same username, same password, no *)
(* change for the user (MIGRATION-STANDALONE-TO-CENTRAL.md).  Apply drops  *)
(* the hash where the username is taken.                                   *)
(***************************************************************************)
CarriedPasswordsWork == ~outcome.crossed => outcome.dropped = {}

(***************************************************************************)
(* No bundle carries the password of a user whose credential lives in the  *)
(* directory, nor that of one the standalone could not tell apart; a user  *)
(* the home app owns is local whatever is mapped to it (classifyUser,      *)
(* directoryKey).                                                          *)
(***************************************************************************)
DirectoryPasswordsStay ==
    \A c \in Commit : \A e \in commits[c].users :
      e.hash => e.of.owner = "home" \/ e.of.directory = "none"

=============================================================================
