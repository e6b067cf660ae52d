-------------------------- MODULE MigrationProofs ---------------------------
(***************************************************************************)
(* Proofs about CentralMigration and BackendMigration: a token is applied  *)
(* once and where it was minted for, a deployment is imported once,        *)
(* usernames are not taken over, the report of the dry run is what the     *)
(* commit brings about; a move between the backends that reports           *)
(* completion has kept the rows, and its status settles.                   *)
(***************************************************************************)
EXTENDS CentralMigration, BackendMigration, FiniteSetTheorems, SequenceTheorems,
        TLAPS

-----------------------------------------------------------------------------
(* The move to a central server: CentralMigration. *)

Entries ==
    [key : Username, kind : {"local", "ad"}, hash : BOOLEAN, roles : BOOLEAN, of : SourceUser]

Reports == {Cardinality(s) : s \in SUBSET Entries} \cup {0}

CommitState ==
    [step : {"none", "classify", "claim", "apply", "users", "map"}, token : Nat, instance : Nat,
     users : SUBSET Entries, left : SUBSET Entries, making : SUBSET Entries,
     doc : SUBSET Entries, dropped : SUBSET Entries, removed : SUBSET Entries,
     blind : SUBSET {"document", "username"},
     report : Reports, crossed : BOOLEAN]

AuthzState == [catalog : BOOLEAN, assigned : SUBSET Entries]

OutcomeState ==
    [reported : Reports, usable : SUBSET Entries, dropped : SUBSET Entries,
     removed : SUBSET Entries, shadowed : SUBSET Entries, crossed : BOOLEAN]

CentralTypeOK ==
    /\ target \in [instance : Nat, audience : {"own", "carried"}, localLogins : BOOLEAN]
    /\ instances \in Nat /\ taken \in BOOLEAN
    /\ authz \in AuthzState
    /\ userCount \in 0 .. MaxUsers /\ localNames \in [Username -> 0 .. userCount]
    /\ carried \in [1 .. MaxUsers -> SUBSET Entries]
    /\ token \in [id : 0 .. MaxTokens, used : BOOLEAN, instance : Nat, expired : BOOLEAN]
    /\ commits \in [Commit -> CommitState]
    /\ creators \in [Creator -> [step : {"none", "map"}, key : Username \cup {""}, unread : BOOLEAN]]
    /\ spent \in [1 .. MaxTokens -> Nat] /\ imports \in Nat /\ misplaced \in BOOLEAN
    /\ outcome \in OutcomeState

(* A commit holds migrationMu and a token not applied yet; from the claim on
   the token cannot be presented again; the target is the one the token was
   minted for until it is deleted.                                          *)
HoldsToken(c) ==
    /\ migrationMu = {c}
    /\ commits[c].token \in 1 .. token.id
    /\ commits[c].step \in {"classify", "claim", "apply"} => spent[commits[c].token] = 0
    /\ commits[c].step = "apply" => token.used \/ commits[c].token < token.id
    /\ ~commits[c].crossed => commits[c].instance = target.instance /\ target.instance # 0

Gone(call) == call.dropped \cup call.removed

(* What has become of an entry that was written: its username is assigned to
   it or to another entry; it has an account of its own unless that was never
   made or is gone again.                                                   *)
Written(call, e) ==
    /\ \E f \in Done(call) \cap call.doc : f.key = e.key
    /\ e \in Gone(call) => e.kind = "local" /\ (~call.crossed => ~Owns(e))
    /\ e \in call.doc \ Gone(call) /\ e.kind = "local" /\ ~call.crossed => Owns(e)

(* The local user being made, under a name that is free or whose look-up
   failed.                                                                  *)
Making(call) ==
    \E e \in call.left :
      /\ call.making = {e} /\ e.kind = "local"
      /\ userCount > 0 /\ carried[userCount] = {e}
      /\ localNames[e.key] = 0 \/ "username" \in call.blind

(* From the classification on nothing was imported, as far as the document
   could be read; what was granted is either left to do or written.         *)
DoesWork(c) ==
    LET call == commits[c] IN
    /\ call.step # "classify" =>
         /\ "document" \notin call.blind => imports = 0
         /\ call.report = Cardinality(Granted(call.users))
    /\ call.step \in {"classify", "claim", "apply"} => Gone(call) = {}
    /\ call.step \in {"users", "map"} =>
         /\ localUserMu = {c}
         /\ call.left \subseteq Granted(call.users) /\ Gone(call) \subseteq Done(call)
         /\ \A e \in Done(call) : Written(call, e)
    /\ call.step = "map" => Making(call)

CommitInv == \A c \in Commit : commits[c].step # "none" => HoldsToken(c) /\ DoesWork(c)

CreatorInv ==
    \A c \in Creator : creators[c].step = "map" =>
      /\ localUserMu = {c} /\ creators[c].key \in Username
      /\ creators[c].unread \/ localNames[creators[c].key] = 0

(* A token is spent at most once, and not before it is marked used. *)
TokenInv ==
    /\ ~misplaced
    /\ \A i \in 1 .. MaxTokens :
         /\ spent[i] \in {0, 1}
         /\ i > token.id => spent[i] = 0
         /\ i = token.id /\ ~token.used => spent[i] = 0

ImportInv == imports \in {0, 1} /\ (imports = 1 => authz.catalog)

CentralInv == CentralTypeOK /\ CommitInv /\ CreatorInv /\ TokenInv /\ ImportInv
                 /\ ReportTellsOutcome /\ DirectoryPasswordsStay

-----------------------------------------------------------------------------
(* The bundle. *)

(* Entries are well formed, and a password in one belongs to a user of the
   home app or to one without a directory identity.                         *)
LEMMA PackageFacts ==
    ASSUME NEW users \in SUBSET SourceUser
    PROVE  /\ Package(users) \subseteq Entries
           /\ \A e \in Package(users) : e.hash => e.of.owner = "home" \/ e.of.directory = "none"
<1> SUFFICES ASSUME NEW u \in users, ~u.merged, u.owner # "other", NEW e \in ClassifyUser(u)
             PROVE  e \in Entries /\ (e.hash => e.of.owner = "home" \/ e.of.directory = "none")
  BY DEF Package
<1>1. /\ u \in SourceUser /\ u.key \in Username /\ u.roles \in BOOLEAN
      /\ u.owner \in {"none", "home"}
      /\ u.directory \in {"sam", "mapped", "none", "unreadable"}
  BY DEF SourceUser
<1>2. CASE InDirectory(u)
  <2>1. e = [key |-> u.key, kind |-> "ad", hash |-> FALSE, roles |-> u.roles, of |-> u]
    BY <1>2 DEF ClassifyUser, Entry
  <2> QED BY <1>1, <2>1 DEF Entries
<1>3. CASE ~InDirectory(u)
  <2>1. /\ e = [key |-> u.key, kind |-> "local", hash |-> TRUE, roles |-> u.roles, of |-> u]
        /\ u.directory # "unreadable"
    BY <1>3 DEF ClassifyUser, Entry
  <2>2. u.owner = "home" \/ u.directory = "none"
    BY <1>1, <1>3, <2>1 DEF InDirectory
  <2> QED BY <1>1, <2>1, <2>2 DEF Entries
<1> QED BY <1>2, <1>3

LEMMA GrantedFacts ==
    ASSUME NEW users \in SUBSET Entries
    PROVE  Granted(users) \subseteq Entries /\ Cardinality(Granted(users)) \in Reports
<1>1. Granted(users) \in SUBSET Entries BY DEF Granted
<1> QED BY <1>1 DEF Reports

-----------------------------------------------------------------------------
(* Commits take turns. *)

LEMMA OthersIdle ==
    ASSUME CentralInv, NEW c \in Commit, commits[c].step # "none"
    PROVE  migrationMu = {c} /\ \A d \in Commit \ {c} : commits[d].step = "none"
BY DEF CentralInv, CommitInv, HoldsToken

(* What a commit has written stays so while it and the accounts do. *)
LEMMA SameWork ==
    ASSUME NEW c \in Commit, DoesWork(c), commits'[c] = commits[c],
           UNCHANGED <<localNames, userCount, carried, localUserMu, imports>>
    PROVE  DoesWork(c)'
BY DEF DoesWork, Making, Written, Owns, Done, Gone

(* The end of a commit leaves the locks to the others. *)
LEMMA EndOfCommit ==
    ASSUME CentralInv, NEW c \in Commit, commits[c].step # "none", End(c),
           UNCHANGED <<creators, localNames>>
    PROVE  /\ commits' \in [Commit -> CommitState] /\ CommitInv' /\ CreatorInv'
           /\ \A d \in Commit : commits'[d].users \in {commits[d].users, {}}
<1>1. NoCommit \in CommitState /\ NoCommit.step = "none" /\ NoCommit.users = {}
  BY DEF NoCommit, CommitState, Reports
<1>2. commits \in [Commit -> CommitState] /\ commits' = [commits EXCEPT ![c] = NoCommit]
      /\ localUserMu' = localUserMu \ {c}
  BY DEF CentralInv, CentralTypeOK, End
<1> HIDE DEF NoCommit
<1>3. commits' \in [Commit -> CommitState] /\ \A d \in Commit : commits'[d] \in {commits[d], NoCommit}
  BY <1>1, <1>2
<1>4. \A d \in Commit : commits'[d].step = "none" BY <1>1, <1>2, OthersIdle
<1>5. CreatorInv'
  <2>1. \A d \in Creator : d # c BY CentralConstants
  <2> QED BY <1>2, <2>1 DEF CentralInv, CreatorInv
<1> QED BY <1>1, <1>3, <1>4, <1>5 DEF CommitInv

(* A commit goes on as `call', the others still wait. *)
LEMMA GoesOn ==
    ASSUME CentralInv, NEW c \in Commit, commits[c].step # "none", NEW call \in CommitState,
           commits' = [commits EXCEPT ![c] = call]
    PROVE  /\ commits' \in [Commit -> CommitState] /\ commits'[c] = call
           /\ \A d \in Commit \ {c} : commits'[d] = commits[d] /\ commits'[d].step = "none"
<1>1. commits \in [Commit -> CommitState] BY DEF CentralInv, CentralTypeOK
<1> QED BY <1>1, OthersIdle

LEMMA InitialCentral == CentralInit => CentralInv
<1> SUFFICES ASSUME CentralInit PROVE CentralInv OBVIOUS
<1>1. NoCommit \in CommitState /\ NoCommit.step = "none" /\ NoCommit.users = {}
  BY DEF NoCommit, CommitState, Reports
<1>2. /\ NoCreator \in [step : {"none", "map"}, key : Username \cup {""}, unread : BOOLEAN]
      /\ NoCreator.step = "none"
  BY DEF NoCreator
<1>3. NoTarget \in [instance : Nat, audience : {"own", "carried"}, localLogins : BOOLEAN]
  BY DEF NoTarget
<1>4. NoAuthz \in AuthzState BY DEF NoAuthz, AuthzState
<1>5. /\ NoToken \in [id : 0 .. MaxTokens, used : BOOLEAN, instance : Nat, expired : BOOLEAN]
      /\ NoToken.id = 0
  BY CentralConstants DEF NoToken
<1>6. /\ NoOutcome \in OutcomeState
      /\ NoOutcome.reported = 0 /\ NoOutcome.usable = {}
      /\ NoOutcome.dropped = {} /\ NoOutcome.removed = {} /\ NoOutcome.shadowed = {}
  BY DEF NoOutcome, OutcomeState, Reports
<1> HIDE DEF NoCommit, NoCreator, NoTarget, NoAuthz, NoToken, NoOutcome
<1>7. CentralTypeOK
  <2>1. /\ spent \in [1 .. MaxTokens -> Nat]
        /\ userCount \in 0 .. MaxUsers /\ localNames \in [Username -> 0 .. userCount]
        /\ carried \in [1 .. MaxUsers -> SUBSET Entries]
    BY CentralConstants DEF CentralInit
  <2>2. commits \in [Commit -> CommitState] BY <1>1 DEF CentralInit
  <2>3. creators \in [Creator -> [step : {"none", "map"}, key : Username \cup {""}, unread : BOOLEAN]]
    BY <1>2 DEF CentralInit
  <2> QED BY <1>3, <1>4, <1>5, <1>6, <2>1, <2>2, <2>3 DEF CentralTypeOK, CentralInit
<1>8. CommitInv /\ CreatorInv /\ DirectoryPasswordsStay
  BY <1>1, <1>2 DEF CommitInv, CreatorInv, DirectoryPasswordsStay, CentralInit
<1>9. TokenInv /\ ImportInv BY DEF TokenInv, ImportInv, CentralInit
<1>10. ReportTellsOutcome
  <2>1. outcome = NoOutcome BY DEF CentralInit
  <2>2. outcome.usable \cup (outcome.dropped \cup outcome.removed \cup outcome.shadowed) = {}
    BY <1>6, <2>1
  <2> QED BY <1>6, <2>1, <2>2, FS_EmptySet DEF ReportTellsOutcome
<1> QED BY <1>7, <1>8, <1>9, <1>10 DEF CentralInv

-----------------------------------------------------------------------------
(* The steps of a commit. *)

LEMMA BeginCommitKeeps ==
    ASSUME CentralInv, NEW c \in Commit, NEW id \in 1 .. MaxTokens, NEW users \in Sources,
           BeginCommit(c, id, users)
    PROVE  CentralInv'
<1> DEFINE call == [NoCommit EXCEPT !.step = "classify", !.token = id,
                      !.instance = token.instance, !.users = Package(users)]
<1>1. users \in SUBSET SourceUser BY CentralConstants
<1>2. Package(users) \subseteq Entries BY <1>1, PackageFacts
<1>3. token \in [id : 0 .. MaxTokens, used : BOOLEAN, instance : Nat, expired : BOOLEAN]
      /\ target.instance \in Nat
  BY DEF CentralInv, CentralTypeOK
<1>4. /\ call.step = "classify" /\ call.token = id /\ call.instance = token.instance
      /\ call.users = Package(users) /\ call.crossed = FALSE
      /\ call.dropped = {} /\ call.removed = {}
  BY DEF NoCommit
<1>5. call \in CommitState
  <2>1. NoCommit \in CommitState BY DEF NoCommit, CommitState, Reports
  <2> HIDE DEF NoCommit
  <2>2. id \in Nat BY CentralConstants
  <2> QED BY <1>2, <1>3, <2>1, <2>2 DEF CommitState
<1>6. commits' = [commits EXCEPT ![c] = call] /\ commits \in [Commit -> CommitState]
  BY DEF BeginCommit, CentralInv, CentralTypeOK
<1>7. /\ UNCHANGED <<target, instances, taken, authz, localNames, userCount, carried, token, creators,
                      localUserMu, spent, misplaced, imports, outcome>>
      /\ migrationMu = {} /\ migrationMu' = {c}
  BY DEF BeginCommit, theTarget, theNames, theHistory
<1>8. \A d \in Commit : commits[d].step = "none"
  BY <1>7 DEF CentralInv, CommitInv, HoldsToken
<1>9. /\ token.id = id /\ ~token.used /\ token.instance = target.instance /\ target.instance # 0
  BY DEF BeginCommit
<1>10. spent[id] = 0 BY <1>9 DEF CentralInv, TokenInv
<1>11. \A e \in Package(users) : e.hash => e.of.owner = "home" \/ e.of.directory = "none"
  BY <1>1, PackageFacts
<1> HIDE DEF call
<1>12. /\ commits' \in [Commit -> CommitState] /\ commits'[c] = call
       /\ \A d \in Commit \ {c} : commits'[d] = commits[d]
  BY <1>5, <1>6
<1>13. CentralTypeOK' BY <1>7, <1>12 DEF CentralInv, CentralTypeOK
<1>14. CommitInv'
  <2>1. HoldsToken(c)' BY <1>3, <1>4, <1>7, <1>9, <1>10, <1>12 DEF HoldsToken
  <2>2. DoesWork(c)' BY <1>4, <1>12 DEF DoesWork, Gone
  <2> QED BY <1>8, <1>12, <2>1, <2>2 DEF CommitInv
<1>15. CreatorInv' /\ TokenInv' /\ ImportInv' /\ ReportTellsOutcome'
  BY <1>7 DEF CentralInv, CreatorInv, TokenInv, ImportInv, ReportTellsOutcome
<1>16. DirectoryPasswordsStay'
  BY <1>4, <1>11, <1>12 DEF CentralInv, DirectoryPasswordsStay
<1> QED BY <1>13, <1>14, <1>15, <1>16 DEF CentralInv

(* The end of a commit that changes nothing else. *)
LEMMA EndKeeps ==
    ASSUME CentralInv, NEW c \in Commit, commits[c].step # "none", End(c),
           UNCHANGED <<target, instances, taken, authz, localNames, userCount, carried, token, creators,
                       spent, misplaced, imports, outcome>>
    PROVE  CentralInv'
<1>1. /\ commits' \in [Commit -> CommitState] /\ CommitInv' /\ CreatorInv'
      /\ \A d \in Commit : commits'[d].users \in {commits[d].users, {}}
  BY EndOfCommit
<1>2. CentralTypeOK' BY <1>1 DEF CentralInv, CentralTypeOK
<1>3. TokenInv' /\ ImportInv' /\ ReportTellsOutcome'
  BY DEF CentralInv, TokenInv, ImportInv, ReportTellsOutcome
<1>4. DirectoryPasswordsStay' BY <1>1 DEF CentralInv, DirectoryPasswordsStay
<1> QED BY <1>1, <1>2, <1>3, <1>4 DEF CentralInv

LEMMA ClassifyKeeps ==
    ASSUME CentralInv, NEW c \in Commit, Classify(c)
    PROVE  CentralInv'
<1>1. /\ commits[c].step = "classify" /\ commits[c] \in CommitState
      /\ UNCHANGED <<target, instances, taken, authz, localNames, userCount, carried, token,
                      creators, spent, misplaced, imports, outcome>>
  BY DEF Classify, theTarget, theNames, theHistory, CentralInv, CentralTypeOK
<1>2. CASE End(c) BY <1>1, <1>2, EndKeeps
<1>3. ASSUME NEW unread \in SUBSET DroppedReads, Go(c, Classified(commits[c], unread)),
             authz # NoAuthz => "document" \in unread
      PROVE  CentralInv'
  <2> DEFINE call == Classified(commits[c], unread)
  <2>1. Reported(commits[c].users) = Cardinality(Granted(commits[c].users)) BY DEF Reported
  <2>2. Reported(commits[c].users) \in Reports
    BY <1>1, <2>1, GrantedFacts DEF CommitState
  <2>3. /\ call \in CommitState /\ call.step = "claim" /\ call.token = commits[c].token
        /\ call.instance = commits[c].instance /\ call.users = commits[c].users
        /\ call.blind = unread \cap {"document"} /\ Gone(call) = Gone(commits[c])
        /\ call.report = Reported(commits[c].users) /\ call.crossed = commits[c].crossed
    BY <1>1, <2>2 DEF CommitState, Classified, Gone
  <2>4. commits' = [commits EXCEPT ![c] = call] /\ UNCHANGED <<migrationMu, localUserMu>>
    BY <1>3 DEF Go
  <2> HIDE DEF call
  <2>5. /\ commits' \in [Commit -> CommitState] /\ commits'[c] = call
        /\ \A d \in Commit \ {c} : commits'[d] = commits[d] /\ commits'[d].step = "none"
    BY <1>1, <2>3, <2>4, GoesOn
  <2>6. CentralTypeOK' BY <1>1, <2>5 DEF CentralInv, CentralTypeOK
  <2>7. "document" \notin call.blind => imports = 0
    <3>1. ASSUME "document" \notin call.blind PROVE imports = 0
      <4>1. authz = NoAuthz BY <1>3, <2>3, <3>1
      <4>2. ~authz.catalog BY <4>1 DEF NoAuthz
      <4> QED BY <4>2 DEF CentralInv, ImportInv
    <3> QED BY <3>1
  <2>8. HoldsToken(c) /\ DoesWork(c) BY <1>1 DEF CentralInv, CommitInv
  <2>9. HoldsToken(c)' BY <1>1, <2>3, <2>4, <2>5, <2>8 DEF HoldsToken
  <2>10. DoesWork(c)' BY <1>1, <2>1, <2>3, <2>5, <2>7, <2>8 DEF DoesWork
  <2>11. CommitInv' BY <2>5, <2>9, <2>10 DEF CommitInv
  <2>12. CreatorInv' /\ TokenInv' /\ ImportInv' /\ ReportTellsOutcome'
    BY <1>1, <2>4 DEF CentralInv, CreatorInv, TokenInv, ImportInv, ReportTellsOutcome
  <2>13. DirectoryPasswordsStay'
    BY <2>3, <2>5 DEF CentralInv, DirectoryPasswordsStay
  <2> QED BY <2>6, <2>11, <2>12, <2>13 DEF CentralInv
<1> QED BY <1>2, <1>3 DEF Classify

LEMMA ConsumeKeeps ==
    ASSUME CentralInv, NEW c \in Commit, ConsumeMigrationToken(c)
    PROVE  CentralInv'
<1> DEFINE call == [commits[c] EXCEPT !.step = "apply"]
<1>1. /\ commits[c].step = "claim" /\ commits[c] \in CommitState
      /\ UNCHANGED <<target, instances, taken, authz, localNames, userCount, carried, creators,
                      spent, misplaced, imports, outcome>>
  BY DEF ConsumeMigrationToken, theTarget, theNames, theHistory, CentralInv, CentralTypeOK
<1>2. CASE UNCHANGED token /\ End(c) BY <1>1, <1>2, EndKeeps
<1>3. CASE token' = [token EXCEPT !.used = TRUE] /\ Go(c, call)
  <2>1. /\ call \in CommitState /\ call.step = "apply" /\ call.token = commits[c].token
        /\ call.instance = commits[c].instance /\ call.users = commits[c].users
        /\ call.blind = commits[c].blind /\ Gone(call) = Gone(commits[c])
        /\ call.report = commits[c].report /\ call.crossed = commits[c].crossed
    BY <1>1 DEF CommitState, Gone
  <2>2. commits' = [commits EXCEPT ![c] = call] /\ UNCHANGED <<migrationMu, localUserMu>>
    BY <1>3 DEF Go
  <2> HIDE DEF call
  <2>3. /\ commits' \in [Commit -> CommitState] /\ commits'[c] = call
        /\ \A d \in Commit \ {c} : commits'[d] = commits[d] /\ commits'[d].step = "none"
    BY <1>1, <2>1, <2>2, GoesOn
  <2>4. /\ token' \in [id : 0 .. MaxTokens, used : BOOLEAN, instance : Nat, expired : BOOLEAN]
        /\ token'.used = TRUE /\ token'.id = token.id
    BY <1>3 DEF CentralInv, CentralTypeOK
  <2>5. CentralTypeOK' BY <1>1, <2>3, <2>4 DEF CentralInv, CentralTypeOK
  <2>6. HoldsToken(c) /\ DoesWork(c) BY <1>1 DEF CentralInv, CommitInv
  <2>7. HoldsToken(c)' BY <1>1, <2>1, <2>2, <2>3, <2>4, <2>6 DEF HoldsToken
  <2>8. DoesWork(c)' BY <1>1, <2>1, <2>3, <2>6 DEF DoesWork
  <2>9. CommitInv' BY <2>3, <2>7, <2>8 DEF CommitInv
  <2>10. TokenInv' BY <1>1, <2>4 DEF CentralInv, TokenInv
  <2>11. CreatorInv' /\ ImportInv' /\ ReportTellsOutcome'
    BY <1>1, <2>2 DEF CentralInv, CreatorInv, ImportInv, ReportTellsOutcome
  <2>12. DirectoryPasswordsStay'
    BY <2>1, <2>3 DEF CentralInv, DirectoryPasswordsStay
  <2> QED BY <2>5, <2>9, <2>10, <2>11, <2>12 DEF CentralInv
<1> QED BY <1>2, <1>3 DEF ConsumeMigrationToken

LEMMA ApplyAppKeeps ==
    ASSUME CentralInv, NEW c \in Commit, ApplyApp(c)
    PROVE  CentralInv'
<1>1. /\ commits[c].step = "apply" /\ localUserMu = {} /\ commits[c] \in CommitState
      /\ UNCHANGED <<instances, taken, authz, localNames, userCount, carried, token, creators,
                      imports, outcome>>
      /\ authz.assigned \in SUBSET Entries
      /\ target \in [instance : Nat, audience : {"own", "carried"}, localLogins : BOOLEAN]
      /\ spent \in [1 .. MaxTokens -> Nat] /\ commits \in [Commit -> CommitState]
  BY DEF ApplyApp, theNames, CentralInv, CentralTypeOK, AuthzState
<1>2. CASE End(c) /\ UNCHANGED <<target, spent, misplaced>> BY <1>1, <1>2, EndKeeps
<1>3. CASE ~(target.instance = 0 \/ AudienceConflict)
  <2>0. PICK doc \in {authz.assigned, {}} :
          commits' = [commits EXCEPT ![c].step = "users", ![c].doc = doc,
                                     ![c].left = Granted(commits[c].users)]
    BY <1>3 DEF ApplyApp
  <2> DEFINE call == [commits[c] EXCEPT !.step = "users", !.doc = doc,
                                        !.left = Granted(commits[c].users)]
             logins == target.localLogins \/ \E e \in Granted(commits[c].users) : e.kind = "local"
             i == commits[c].token
  <2>1. Granted(commits[c].users) \in SUBSET Entries BY <1>1, GrantedFacts DEF CommitState
  <2>2. /\ call \in CommitState /\ call.step = "users" /\ call.token = i
        /\ call.instance = commits[c].instance /\ call.users = commits[c].users
        /\ call.left = Granted(commits[c].users)
        /\ call.blind = commits[c].blind /\ Gone(call) = Gone(commits[c])
        /\ call.report = commits[c].report /\ call.crossed = commits[c].crossed
    BY <1>1, <2>1 DEF CommitState, Gone
  <2>3. /\ commits' = [commits EXCEPT ![c] = call]
        /\ localUserMu' = {c} /\ migrationMu' = migrationMu
        /\ spent' = [spent EXCEPT ![i] = @ + 1]
        /\ misplaced' = (misplaced \/ (target.instance # commits[c].instance /\ ~commits[c].crossed))
        /\ target' = [target EXCEPT !.audience = "carried", !.localLogins = logins]
    BY <1>1, <1>3, <2>0 DEF ApplyApp
  <2>4. target' \in [instance : Nat, audience : {"own", "carried"}, localLogins : BOOLEAN]
        /\ target'.instance = target.instance
    BY <1>1, <2>3
  <2> HIDE DEF call, logins
  <2>5. /\ commits' \in [Commit -> CommitState] /\ commits'[c] = call
        /\ \A d \in Commit \ {c} : commits'[d] = commits[d] /\ commits'[d].step = "none"
    BY <1>1, <2>2, <2>3, GoesOn
  <2>6. HoldsToken(c) /\ DoesWork(c) BY <1>1 DEF CentralInv, CommitInv
  <2>7. /\ i \in 1 .. token.id /\ spent[i] = 0 /\ (token.used \/ i < token.id)
        /\ token.id \in 0 .. MaxTokens
    BY <1>1, <2>6 DEF HoldsToken, CentralInv, CentralTypeOK
  <2>8. i \in 1 .. MaxTokens BY <2>7, CentralConstants
  <2>9. /\ spent' \in [1 .. MaxTokens -> Nat] /\ spent'[i] = 1
        /\ \A j \in 1 .. MaxTokens : j # i => spent'[j] = spent[j]
    BY <1>1, <2>3, <2>7, <2>8
  <2>10. ~misplaced' BY <2>3, <2>6 DEF HoldsToken, CentralInv, TokenInv
  <2>11. misplaced' \in BOOLEAN BY <2>3, Zenon
  <2>12. CentralTypeOK' BY <1>1, <2>4, <2>5, <2>9, <2>11 DEF CentralInv, CentralTypeOK
  <2>13. HoldsToken(c)' BY <1>1, <2>2, <2>3, <2>4, <2>5, <2>6 DEF HoldsToken
  <2>14. DoesWork(c)'
    <3>1. Done(call) = {} BY <2>2 DEF Done
    <3> QED BY <1>1, <2>2, <2>3, <2>5, <2>6, <3>1 DEF DoesWork
  <2>15. CommitInv' BY <2>5, <2>13, <2>14 DEF CommitInv
  <2>16. TokenInv' BY <1>1, <2>7, <2>9, <2>10 DEF CentralInv, TokenInv
  <2>17. CreatorInv' BY <1>1 DEF CentralInv, CreatorInv
  <2>18. ImportInv' /\ ReportTellsOutcome' BY <1>1 DEF CentralInv, ImportInv, ReportTellsOutcome
  <2>19. DirectoryPasswordsStay'
    BY <2>2, <2>5 DEF CentralInv, DirectoryPasswordsStay
  <2> QED BY <2>12, <2>15, <2>16, <2>17, <2>18, <2>19 DEF CentralInv
<1> QED BY <1>2, <1>3 DEF ApplyApp

(* A call as another was, but for the entries it dropped. *)
Dropping(call, old, lost) ==
    /\ call.token = old.token /\ call.instance = old.instance
    /\ call.users = old.users /\ call.left = old.left /\ call.doc = old.doc
    /\ call.blind = old.blind /\ Gone(call) = Gone(old) \cup lost
    /\ call.report = old.report /\ call.crossed = old.crossed

LEMMA AssignFacts ==
    ASSUME NEW old \in CommitState, NEW e \in Entries
    PROVE  /\ Assign(old, e) \in CommitState /\ Assign(old, e).step = "users"
           /\ Assign(old, e).token = old.token /\ Assign(old, e).instance = old.instance
           /\ Assign(old, e).users = old.users /\ Assign(old, e).left = old.left \ {e}
           /\ Assign(old, e).doc = {f \in old.doc : f.key # e.key} \cup {e}
           /\ Assign(old, e).blind = old.blind \ {"username"}
           /\ Gone(Assign(old, e)) = Gone(old)
           /\ Assign(old, e).report = old.report /\ Assign(old, e).crossed = old.crossed
BY DEF Assign, CommitState, Gone

(* The assignment of a user that is in the directory, has an account of its
   own or lost its username.                                                *)
LEMMA AssignKeeps ==
    ASSUME CentralInv, NEW c \in Commit, commits[c].step \in {"users", "map"},
           NEW e \in commits[c].left, NEW lost \in SUBSET {e}, NEW old \in CommitState,
           Dropping(old, commits[c], lost), Go(c, Assign(old, e)),
           localNames' \in [Username -> 0 .. userCount],
           \A k \in Username : k # e.key => localNames'[k] = localNames[k],
           UNCHANGED localNames \/ Owns(e)',
           lost = {e} => e.kind = "local" /\ ~Owns(e)',
           lost = {} /\ e.kind = "local" => Owns(e)',
           UNCHANGED <<target, instances, taken, authz, userCount, carried, token, creators,
                       spent, misplaced, imports, outcome>>
    PROVE  CentralInv'
<1> DEFINE call == Assign(old, e)
<1>1. /\ commits[c] \in CommitState /\ commits[c].left \subseteq Entries
      /\ commits[c].users \in SUBSET Entries /\ commits[c].doc \in SUBSET Entries
  BY DEF CentralInv, CentralTypeOK, CommitState
<1>2. e \in Entries /\ e.key \in Username BY <1>1 DEF Entries
<1>3. /\ call \in CommitState /\ call.step = "users"
      /\ call.token = commits[c].token /\ call.instance = commits[c].instance
      /\ call.users = commits[c].users /\ call.left = commits[c].left \ {e}
      /\ call.doc = {f \in commits[c].doc : f.key # e.key} \cup {e}
      /\ call.blind = commits[c].blind \ {"username"}
      /\ Gone(call) = Gone(commits[c]) \cup lost
      /\ call.report = commits[c].report /\ call.crossed = commits[c].crossed
  BY <1>2, AssignFacts DEF Dropping
<1>4. commits' = [commits EXCEPT ![c] = call] /\ UNCHANGED <<migrationMu, localUserMu>>
  BY DEF Go
<1> HIDE DEF call
<1>5. /\ commits' \in [Commit -> CommitState] /\ commits'[c] = call
      /\ \A d \in Commit \ {c} : commits'[d] = commits[d] /\ commits'[d].step = "none"
  BY <1>3, <1>4, GoesOn
<1>6. HoldsToken(c) /\ DoesWork(c) BY DEF CentralInv, CommitInv
<1>7. CentralTypeOK' BY <1>5 DEF CentralInv, CentralTypeOK
<1>8. HoldsToken(c)' BY <1>3, <1>4, <1>5, <1>6 DEF HoldsToken
<1>9. DoesWork(c)'
  <2>1. localUserMu' = {c} BY <1>4, <1>6 DEF DoesWork
  <2>2. /\ "document" \notin call.blind => imports' = 0
        /\ call.report = Cardinality(Granted(call.users))
    BY <1>3, <1>6 DEF DoesWork
  <2>3. /\ commits[c].left \subseteq Granted(commits[c].users)
        /\ Gone(commits[c]) \subseteq Done(commits[c])
        /\ \A g \in Done(commits[c]) : Written(commits[c], g)
    BY <1>6 DEF DoesWork
  <2>4. Done(call) = Done(commits[c]) \cup {e} /\ e \notin Done(commits[c])
    BY <1>3, <2>3 DEF Done
  <2>5. call.left \subseteq Granted(call.users) /\ Gone(call) \subseteq Done(call)
    BY <1>3, <2>3, <2>4
  <2>6. ASSUME NEW g \in Done(call) PROVE Written(call, g)'
    <3>1. CASE g = e
      <4>1. e \in Done(call) \cap call.doc BY <1>3, <2>4
      <4>2. e \in Gone(call) <=> lost = {e} BY <1>3, <2>3, <2>4
      <4> QED BY <3>1, <4>1, <4>2 DEF Written
    <3>2. CASE g # e
      <4>1. g \in Done(commits[c]) /\ g \in Entries /\ g.key \in Username
        BY <1>1, <2>4, <3>2 DEF Done, Granted, Entries
      <4>2. Written(commits[c], g) BY <2>3, <4>1
      <4>3. \E f \in Done(call) \cap call.doc : f.key = g.key
        <5>1. PICK f \in Done(commits[c]) \cap commits[c].doc : f.key = g.key
          BY <4>2 DEF Written
        <5>2. CASE f.key = e.key BY <1>3, <2>4, <5>1, <5>2
        <5>3. CASE f.key # e.key BY <1>3, <2>4, <5>1, <5>3
        <5> QED BY <5>2, <5>3
      <4>4. g \in Gone(call) <=> g \in Gone(commits[c]) BY <1>3, <3>2
      <4>5. CASE g.key # e.key
        <5>1. Owns(g)' <=> Owns(g) BY <4>1, <4>5 DEF Owns
        <5> QED BY <1>3, <4>2, <4>3, <4>4, <5>1 DEF Written
      <4>6. CASE g.key = e.key
        <5>1. g \notin call.doc BY <1>3, <3>2, <4>6
        <5>2. Owns(g)' => Owns(g) BY <3>2, <4>6 DEF Owns
        <5> QED BY <1>3, <4>2, <4>3, <4>4, <5>1, <5>2 DEF Written
      <4> QED BY <4>5, <4>6
    <3> QED BY <3>1, <3>2
  <2> QED BY <1>3, <1>5, <2>1, <2>2, <2>5, <2>6 DEF DoesWork
<1>10. CommitInv' BY <1>5, <1>8, <1>9 DEF CommitInv
<1>11. CreatorInv'
  <2>1. localUserMu = {c} BY <1>6 DEF DoesWork
  <2>2. \A d \in Creator : d # c BY CentralConstants
  <2> QED BY <2>1, <2>2 DEF CentralInv, CreatorInv
<1>12. TokenInv' /\ ImportInv' /\ ReportTellsOutcome'
  BY DEF CentralInv, TokenInv, ImportInv, ReportTellsOutcome
<1>13. DirectoryPasswordsStay' BY <1>3, <1>5 DEF CentralInv, DirectoryPasswordsStay
<1> QED BY <1>7, <1>10, <1>11, <1>12, <1>13 DEF CentralInv

LEMMA ApplyUserKeeps ==
    ASSUME CentralInv, NEW c \in Commit, NEW e \in commits[c].left, ApplyUser(c, e)
    PROVE  CentralInv'
<1>1. /\ commits[c].step = "users" /\ commits[c] \in CommitState
      /\ UNCHANGED <<target, instances, taken, authz, localNames, token, creators,
                      spent, misplaced, imports, outcome>>
      /\ userCount \in 0 .. MaxUsers /\ localNames \in [Username -> 0 .. userCount]
      /\ carried \in [1 .. MaxUsers -> SUBSET Entries]
  BY DEF ApplyUser, theTarget, theHistory, CentralInv, CentralTypeOK
<1>2. e \in Entries /\ e.key \in Username BY <1>1 DEF CommitState, Entries
<1>3. CASE /\ e.kind = "ad" \/ localNames[e.key] # 0
           /\ Go(c, Assign([commits[c] EXCEPT !.dropped = @ \cup Dropped(e)], e))
           /\ UNCHANGED <<userCount, carried>>
  <2> DEFINE old == [commits[c] EXCEPT !.dropped = @ \cup Dropped(e)]
  <2>1. Dropped(e) \in SUBSET {e} BY DEF Dropped
  <2>2. old \in CommitState /\ Dropping(old, commits[c], Dropped(e))
    BY <1>1, <1>2, <2>1 DEF CommitState, Dropping, Gone
  <2>3. Go(c, Assign(old, e)) BY <1>3
  <2>4. /\ Dropped(e) = {e} => e.kind = "local" /\ ~Owns(e)
        /\ Dropped(e) = {} /\ e.kind = "local" => Owns(e)
    BY <1>3 DEF Dropped, Owns
  <2>5. Owns(e)' <=> Owns(e) BY <1>1, <1>3 DEF Owns
  <2> HIDE DEF old
  <2>6. \A k \in Username : localNames'[k] = localNames[k] BY <1>1
  <2>7. localNames' \in [Username -> 0 .. userCount] BY <1>1
  <2>8. UNCHANGED <<target, instances, taken, authz, userCount, carried, token, creators,
                    spent, misplaced, imports, outcome>>
    BY <1>1, <1>3
  <2>9. /\ Dropped(e) = {e} => e.kind = "local" /\ ~Owns(e)'
        /\ Dropped(e) = {} /\ e.kind = "local" => Owns(e)'
    BY <2>4, <2>5
  <2> QED BY <1>1, <2>1, <2>2, <2>3, <2>6, <2>7, <2>8, <2>9, AssignKeeps
<1>4. CASE /\ e.kind = "local" /\ userCount < MaxUsers
           /\ userCount' = userCount + 1
           /\ carried' = [carried EXCEPT ![userCount + 1] = {e}]
           /\ Go(c, [commits[c] EXCEPT !.step = "map", !.making = {e}, !.blind =
                        IF localNames[e.key] = 0 THEN @ ELSE @ \cup {"username"}])
  <2> DEFINE call == [commits[c] EXCEPT !.step = "map", !.making = {e}, !.blind =
                        IF localNames[e.key] = 0 THEN @ ELSE @ \cup {"username"}]
  <2>1. commits' = [commits EXCEPT ![c] = call] /\ UNCHANGED <<migrationMu, localUserMu>>
    BY <1>4 DEF Go
  <2>2. /\ call \in CommitState /\ call.step = "map" /\ call.making = {e}
        /\ call.token = commits[c].token /\ call.instance = commits[c].instance
        /\ call.users = commits[c].users /\ call.left = commits[c].left
        /\ call.doc = commits[c].doc /\ Gone(call) = Gone(commits[c])
        /\ call.report = commits[c].report /\ call.crossed = commits[c].crossed
        /\ localNames[e.key] = 0 \/ "username" \in call.blind
        /\ "document" \in commits[c].blind => "document" \in call.blind
    BY <1>1, <1>2 DEF CommitState, Gone
  <2> HIDE DEF call
  <2>3. /\ commits' \in [Commit -> CommitState] /\ commits'[c] = call
        /\ \A d \in Commit \ {c} : commits'[d] = commits[d] /\ commits'[d].step = "none"
    BY <1>1, <2>1, <2>2, GoesOn
  <2>4. /\ userCount' \in 0 .. MaxUsers /\ userCount' > 0 /\ userCount' \in 1 .. MaxUsers
        /\ localNames' \in [Username -> 0 .. userCount']
    <3>1. 0 .. userCount \subseteq 0 .. userCount' BY <1>1, <1>4, CentralConstants
    <3>2. localNames' \in [Username -> 0 .. userCount'] BY <1>1, <3>1
    <3> QED BY <1>1, <1>4, <3>2, CentralConstants
  <2>5. /\ carried' \in [1 .. MaxUsers -> SUBSET Entries] /\ carried'[userCount'] = {e}
        /\ \A g \in 1 .. userCount : carried'[g] = carried[g]
    BY <1>1, <1>2, <1>4, <2>4
  <2>6. HoldsToken(c) /\ DoesWork(c) BY <1>1 DEF CentralInv, CommitInv
  <2>7. CentralTypeOK' BY <1>1, <2>3, <2>4, <2>5 DEF CentralInv, CentralTypeOK
  <2>8. HoldsToken(c)' BY <1>1, <2>1, <2>2, <2>3, <2>6 DEF HoldsToken
  <2>9. DoesWork(c)'
    <3>1. /\ commits[c].left \subseteq Granted(commits[c].users)
          /\ Gone(commits[c]) \subseteq Done(commits[c])
          /\ \A g \in Done(commits[c]) : Written(commits[c], g)
          /\ localUserMu = {c}
          /\ "document" \notin commits[c].blind => imports = 0
          /\ commits[c].report = Cardinality(Granted(commits[c].users))
      BY <1>1, <2>6 DEF DoesWork
    <3>2. Done(commits[c])' = Done(commits[c]) /\ Gone(commits[c])' = Gone(commits[c])
      BY <1>1, <2>2, <2>3 DEF Done, Gone
    <3>3. ASSUME NEW g \in Done(commits[c]) PROVE Written(commits[c], g)'
      <4>1. g.key \in Username BY <1>1, <3>2 DEF Done, Granted, CommitState, Entries
      <4>2. localNames[g.key] \in 0 .. userCount /\ localNames'[g.key] = localNames[g.key]
        BY <1>1, <4>1
      <4>3. Owns(g)' <=> Owns(g) BY <1>1, <2>5, <4>2 DEF Owns
      <4>4. Written(commits[c], g) BY <3>1
      <4> QED BY <2>2, <2>3, <3>2, <4>3, <4>4 DEF Written
    <3>4. Making(commits[c])' BY <1>1, <1>4, <2>2, <2>3, <2>4, <2>5 DEF Making
    <3> QED BY <1>1, <2>1, <2>2, <2>3, <3>1, <3>2, <3>3, <3>4 DEF DoesWork
  <2>10. CommitInv' BY <2>3, <2>8, <2>9 DEF CommitInv
  <2>11. CreatorInv' /\ TokenInv' /\ ImportInv' /\ ReportTellsOutcome'
    BY <1>1, <2>1 DEF CentralInv, CreatorInv, TokenInv, ImportInv, ReportTellsOutcome
  <2>12. DirectoryPasswordsStay' BY <2>2, <2>3 DEF CentralInv, DirectoryPasswordsStay
  <2> QED BY <2>7, <2>10, <2>11, <2>12 DEF CentralInv
<1> QED BY <1>3, <1>4 DEF ApplyUser

LEMMA MapLocalUserKeeps ==
    ASSUME CentralInv, NEW c \in Commit, NEW e \in commits[c].left, MapLocalUser(c, e)
    PROVE  CentralInv'
<1>1. /\ commits[c].step = "map" /\ commits[c].making = {e} /\ commits[c] \in CommitState
      /\ Go(c, Assign(commits[c], e))
      /\ localNames' = [localNames EXCEPT ![e.key] = userCount]
      /\ UNCHANGED <<target, instances, taken, authz, userCount, carried, token, creators,
                      spent, misplaced, imports, outcome>>
      /\ userCount \in 0 .. MaxUsers /\ localNames \in [Username -> 0 .. userCount]
  BY DEF MapLocalUser, theTarget, theHistory, CentralInv, CentralTypeOK
<1>2. Making(commits[c]) BY <1>1 DEF CentralInv, CommitInv, DoesWork
<1>3. e.key \in Username /\ userCount > 0 /\ carried[userCount] = {e} /\ e.kind = "local"
  BY <1>1, <1>2 DEF Making, CommitState, Entries
<1>4. /\ localNames' \in [Username -> 0 .. userCount] /\ localNames'[e.key] = userCount
      /\ \A k \in Username : k # e.key => localNames'[k] = localNames[k]
  BY <1>1, <1>3
<1>5. Owns(e)' BY <1>1, <1>3, <1>4 DEF Owns
<1>6. Dropping(commits[c], commits[c], {}) BY DEF Dropping, Gone
<1> QED BY <1>1, <1>4, <1>5, <1>6, AssignKeeps

(* What a commit that has written all brings about. *)
LEMMA AllWritten ==
    ASSUME NEW call \in CommitState, call.step = "users", call.left = {}, ~call.crossed,
           Gone(call) \subseteq Done(call), \A e \in Done(call) : Written(call, e)
    PROVE  /\ Usable(call) \cap (Gone(call) \cup Shadowed(call)) = {}
           /\ Usable(call) \cup (Gone(call) \cup Shadowed(call)) = Granted(call.users)
<1>1. Done(call) = Granted(call.users) BY DEF Done
<1>2. ASSUME NEW e \in Granted(call.users)
      PROVE  /\ e \in call.doc => (e \in Usable(call) <=> e \notin Gone(call))
             /\ e \notin call.doc => e \notin Usable(call) /\ e \in Shadowed(call)
             /\ e \in Usable(call) => e \notin Shadowed(call)
  <2>1. Written(call, e) BY <1>1
  <2>2. PICK f \in Granted(call.users) \cap call.doc : f.key = e.key
    BY <1>1, <2>1 DEF Written
  <2>3. e \in Usable(call) <=> e \in call.doc /\ (e.kind = "local" => Owns(e))
    BY DEF Usable
  <2>4. e \in Shadowed(call) <=> e \notin call.doc BY <2>2 DEF Shadowed
  <2> QED BY <2>1, <2>3, <2>4 DEF Written
<1>3. /\ Usable(call) \subseteq Granted(call.users) /\ Gone(call) \subseteq Granted(call.users)
      /\ Shadowed(call) \subseteq Granted(call.users)
  BY <1>1 DEF Usable, Shadowed
<1> QED BY <1>2, <1>3

LEMMA SaveKeeps ==
    ASSUME CentralInv, NEW c \in Commit, SaveAssignments(c)
    PROVE  CentralInv'
<1> DEFINE call == commits[c]
<1>1. /\ call.step = "users" /\ call.left = {} /\ call \in CommitState
      /\ authz' = [catalog |-> TRUE, assigned |-> call.doc]
      /\ imports' = IF "document" \in call.blind THEN imports ELSE imports + 1
      /\ outcome' = [reported |-> call.report, usable |-> Usable(call),
                     dropped |-> call.dropped, removed |-> call.removed,
                     shadowed |-> Shadowed(call), crossed |-> call.crossed]
      /\ End(c)
      /\ UNCHANGED <<target, instances, taken, localNames, userCount, carried, token, creators,
                      spent, misplaced>>
  BY DEF SaveAssignments, theNames, CentralInv, CentralTypeOK
<1>2. /\ commits' \in [Commit -> CommitState] /\ CommitInv' /\ CreatorInv'
      /\ \A d \in Commit : commits'[d].users \in {commits[d].users, {}}
  BY <1>1, EndOfCommit
<1>3. DoesWork(c) BY <1>1 DEF CentralInv, CommitInv
<1>4. imports' \in {0, 1}
  <2>1. imports \in {0, 1} BY DEF CentralInv, ImportInv
  <2> QED BY <1>1, <1>3, <2>1 DEF DoesWork
<1>5. authz' \in AuthzState /\ authz'.catalog
  BY <1>1 DEF CommitState, AuthzState
<1>6. /\ call.users \in SUBSET Entries /\ call.report \in Reports
      /\ call.crossed \in BOOLEAN /\ call.dropped \in SUBSET Entries /\ call.removed \in SUBSET Entries
  BY <1>1 DEF CommitState
<1>7. Usable(call) \in SUBSET Entries /\ Shadowed(call) \in SUBSET Entries
  BY <1>6 DEF Usable, Shadowed, Granted
<1>8. outcome' \in OutcomeState BY <1>1, <1>6, <1>7 DEF OutcomeState
<1>9. /\ Gone(call) \subseteq Done(call) /\ \A e \in Done(call) : Written(call, e)
      /\ call.report = Cardinality(Granted(call.users))
  BY <1>1, <1>3 DEF DoesWork
<1> HIDE DEF call
<1>10. ReportTellsOutcome'
  <2>1. /\ outcome'.reported = call.report /\ outcome'.usable = Usable(call)
        /\ outcome'.dropped \cup outcome'.removed = Gone(call)
        /\ outcome'.shadowed = Shadowed(call) /\ outcome'.crossed = call.crossed
    BY <1>1 DEF Gone
  <2> QED BY <1>1, <1>9, <2>1, AllWritten DEF ReportTellsOutcome
<1>11. CentralTypeOK'
  <2>1. UNCHANGED <<target, instances, taken, localNames, userCount, carried, token, creators,
                    spent, misplaced>>
    BY <1>1
  <2>2. imports' \in Nat BY <1>4
  <2> QED BY <1>2, <1>5, <1>8, <2>1, <2>2 DEF CentralInv, CentralTypeOK
<1>12. TokenInv' /\ ImportInv' BY <1>1, <1>4, <1>5 DEF CentralInv, TokenInv, ImportInv
<1>13. DirectoryPasswordsStay' BY <1>2 DEF CentralInv, DirectoryPasswordsStay
<1> QED BY <1>2, <1>10, <1>11, <1>12, <1>13 DEF CentralInv

LEMMA FailsKeeps ==
    ASSUME CentralInv, NEW c \in Commit, CommitFails(c)
    PROVE  CentralInv'
BY EndKeeps DEF CommitFails, theTarget, theNames, theHistory

-----------------------------------------------------------------------------
(* What goes on around a commit. *)

LEMMA TokenStepsKeep ==
    ASSUME CentralInv, MintToken \/ ExpireToken
    PROVE  CentralInv'
<1> DEFINE others == <<target, instances, taken, authz, localNames, userCount, carried, commits, creators,
                       migrationMu, localUserMu, spent, misplaced, imports, outcome>>
<1>1. /\ UNCHANGED others
      /\ token \in [id : 0 .. MaxTokens, used : BOOLEAN, instance : Nat, expired : BOOLEAN]
      /\ target.instance \in Nat
  BY DEF MintToken, ExpireToken, theNames, CentralInv, CentralTypeOK
<1>2. /\ token' \in [id : 0 .. MaxTokens, used : BOOLEAN, instance : Nat, expired : BOOLEAN]
      /\ \/ token'.id = token.id /\ token'.used = token.used
         \/ token'.id = token.id + 1
  <2>1. CASE MintToken
    <3>1. /\ token' = [id |-> token.id + 1, used |-> FALSE, instance |-> target.instance,
                       expired |-> FALSE]
          /\ token.id < MaxTokens
      BY <1>1, <2>1 DEF MintToken
    <3> QED BY <1>1, <3>1, CentralConstants
  <2>2. CASE ExpireToken BY <1>1, <2>2 DEF ExpireToken
  <2> QED BY <2>1, <2>2
<1>3. CentralTypeOK' BY <1>1, <1>2 DEF CentralInv, CentralTypeOK
<1>4. CommitInv'
  <2>1. ASSUME NEW c \in Commit, commits[c].step # "none"
        PROVE  (HoldsToken(c) /\ DoesWork(c))'
    <3>1. HoldsToken(c) /\ DoesWork(c) BY <2>1 DEF CentralInv, CommitInv
    <3>2. HoldsToken(c)' BY <1>1, <1>2, <3>1 DEF HoldsToken
    <3>3. DoesWork(c)' BY <1>1, <3>1, SameWork
    <3> QED BY <3>2, <3>3
  <2> QED BY <1>1, <2>1 DEF CommitInv
<1>5. CreatorInv' BY <1>1 DEF CentralInv, CreatorInv
<1>6. TokenInv' BY <1>1, <1>2 DEF CentralInv, TokenInv
<1>7. ImportInv' /\ ReportTellsOutcome' /\ DirectoryPasswordsStay'
  BY <1>1 DEF CentralInv, ImportInv, ReportTellsOutcome, DirectoryPasswordsStay
<1> QED BY <1>3, <1>4, <1>5, <1>6, <1>7 DEF CentralInv

LEMMA BeginOwnUserKeeps ==
    ASSUME CentralInv, NEW c \in Creator, NEW k \in Username, BeginOwnUser(c, k)
    PROVE  CentralInv'
<1>1. /\ localUserMu = {} /\ localUserMu' = {c}
      /\ creators' = [creators EXCEPT ![c] = [step |-> "map", key |-> k, unread |-> localNames[k] # 0]]
      /\ UNCHANGED <<target, instances, taken, authz, localNames, userCount, carried, token, commits,
                      migrationMu, spent, misplaced, imports, outcome>>
      /\ creators \in [Creator -> [step : {"none", "map"}, key : Username \cup {""}, unread : BOOLEAN]]
  BY DEF BeginOwnUser, theTarget, theNames, theHistory, CentralInv, CentralTypeOK
<1>2. /\ creators' \in [Creator -> [step : {"none", "map"}, key : Username \cup {""}, unread : BOOLEAN]]
      /\ creators'[c].key = k /\ (creators'[c].unread \/ localNames[k] = 0)
      /\ \A d \in Creator \ {c} : creators'[d] = creators[d]
  BY <1>1
<1>3. CentralTypeOK' BY <1>1, <1>2 DEF CentralInv, CentralTypeOK
<1>4. CommitInv'
  <2>1. ASSUME NEW d \in Commit, commits[d].step # "none"
        PROVE  (HoldsToken(d) /\ DoesWork(d))'
    <3>1. HoldsToken(d) /\ DoesWork(d) BY <2>1 DEF CentralInv, CommitInv
    <3>2. commits[d].step \notin {"users", "map"} BY <1>1, <3>1 DEF DoesWork
    <3>3. HoldsToken(d)' BY <1>1, <3>1 DEF HoldsToken
    <3>4. DoesWork(d)' BY <1>1, <3>1, <3>2 DEF DoesWork
    <3> QED BY <3>3, <3>4
  <2> QED BY <1>1, <2>1 DEF CommitInv
<1>5. CreatorInv' BY <1>1, <1>2 DEF CentralInv, CreatorInv
<1>6. TokenInv' /\ ImportInv' /\ ReportTellsOutcome' /\ DirectoryPasswordsStay'
  BY <1>1 DEF CentralInv, TokenInv, ImportInv, ReportTellsOutcome, DirectoryPasswordsStay
<1> QED BY <1>3, <1>4, <1>5, <1>6 DEF CentralInv

LEMMA MapOwnUserKeeps ==
    ASSUME CentralInv, NEW c \in Creator, MapOwnUser(c)
    PROVE  CentralInv'
<1>1. /\ creators[c].step = "map"
      /\ userCount' = userCount + 1
      /\ localNames' = [localNames EXCEPT ![creators[c].key] = userCount + 1]
      /\ creators' = [creators EXCEPT ![c] = NoCreator]
      /\ localUserMu' = localUserMu \ {c}
      /\ userCount < MaxUsers
      /\ UNCHANGED <<target, instances, taken, authz, carried, token, commits, migrationMu,
                      spent, misplaced, imports, outcome>>
      /\ creators \in [Creator -> [step : {"none", "map"}, key : Username \cup {""}, unread : BOOLEAN]]
      /\ userCount \in 0 .. MaxUsers /\ localNames \in [Username -> 0 .. userCount]
  BY DEF MapOwnUser, theTarget, theNames, theHistory, CentralInv, CentralTypeOK
<1>2. localUserMu = {c} /\ creators[c].key \in Username
  BY <1>1 DEF CentralInv, CreatorInv
<1>3. /\ NoCreator \in [step : {"none", "map"}, key : Username \cup {""}, unread : BOOLEAN]
      /\ NoCreator.step = "none"
  BY DEF NoCreator
<1> HIDE DEF NoCreator
<1>4. /\ creators' \in [Creator -> [step : {"none", "map"}, key : Username \cup {""}, unread : BOOLEAN]]
      /\ creators'[c].step = "none" /\ \A d \in Creator \ {c} : creators'[d] = creators[d]
  BY <1>1, <1>3
<1>5. userCount' \in 0 .. MaxUsers /\ localNames' \in [Username -> 0 .. userCount']
  <2> DEFINE k == creators[c].key
             ids == 0 .. userCount'
  <2>1. /\ userCount' \in 0 .. MaxUsers /\ 0 .. userCount \subseteq ids
        /\ userCount + 1 \in ids
    <3>1. userCount \in 0 .. MaxUsers /\ MaxUsers \in Nat BY <1>1, CentralConstants
    <3>2. userCount < MaxUsers /\ userCount' = userCount + 1 BY <1>1
    <3> QED BY <3>1, <3>2
  <2>2. k \in Username /\ localNames \in [Username -> ids] BY <1>1, <1>2, <2>1
  <2>3. localNames' = [localNames EXCEPT ![k] = userCount + 1] BY <1>1
  <2> HIDE DEF k, ids
  <2>4. localNames' \in [Username -> ids] BY <2>1, <2>2, <2>3
  <2> QED BY <2>1, <2>4 DEF ids
<1>6. CentralTypeOK' BY <1>1, <1>4, <1>5 DEF CentralInv, CentralTypeOK
<1>7. CommitInv'
  <2>1. ASSUME NEW d \in Commit, commits[d].step # "none"
        PROVE  (HoldsToken(d) /\ DoesWork(d))'
    <3>1. HoldsToken(d) /\ DoesWork(d) BY <2>1 DEF CentralInv, CommitInv
    <3>2. d # c BY CentralConstants
    <3>3. commits[d].step \notin {"users", "map"} BY <1>2, <3>1, <3>2 DEF DoesWork
    <3>4. HoldsToken(d)' BY <1>1, <3>1 DEF HoldsToken
    <3>5. DoesWork(d)' BY <1>1, <3>1, <3>3 DEF DoesWork
    <3> QED BY <3>4, <3>5
  <2> QED BY <1>1, <2>1 DEF CommitInv
<1>8. CreatorInv'
  <2>1. ASSUME NEW d \in Creator PROVE creators'[d].step # "map"
    <3>1. CASE d = c BY <1>3, <1>4, <3>1
    <3>2. CASE d # c BY <1>2, <1>4, <3>2 DEF CentralInv, CreatorInv
    <3> QED BY <3>1, <3>2
  <2> QED BY <2>1 DEF CreatorInv
<1>9. TokenInv' /\ ImportInv' /\ ReportTellsOutcome' /\ DirectoryPasswordsStay'
  BY <1>1 DEF CentralInv, TokenInv, ImportInv, ReportTellsOutcome, DirectoryPasswordsStay
<1> QED BY <1>6, <1>7, <1>8, <1>9 DEF CentralInv

LEMMA DeleteLocalUserKeeps ==
    ASSUME CentralInv, NEW k \in Username, DeleteLocalUser(k)
    PROVE  CentralInv'
<1> DEFINE Lost(c) == {e \in Done(commits[c]) : e.kind = "local" /\ e.key = k /\ Owns(e)}
<1>1. /\ localNames' = [localNames EXCEPT ![k] = 0]
      /\ authz' = [authz EXCEPT !.assigned = {e \in @ : e.key # k}]
      /\ commits' = [c \in Commit |-> [commits[c] EXCEPT !.removed = @ \cup Lost(c)]]
      /\ UNCHANGED <<target, instances, taken, userCount, carried, token, creators, migrationMu,
                      localUserMu, spent, misplaced, imports, outcome>>
      /\ commits \in [Commit -> CommitState] /\ authz \in AuthzState
      /\ userCount \in 0 .. MaxUsers /\ localNames \in [Username -> 0 .. userCount]
  BY DEF DeleteLocalUser, theHistory, CentralInv, CentralTypeOK
<1>2. ASSUME NEW c \in Commit
      PROVE  /\ commits'[c] \in CommitState
             /\ commits'[c].step = commits[c].step /\ commits'[c].token = commits[c].token
             /\ commits'[c].users = commits[c].users /\ commits'[c].left = commits[c].left
             /\ commits'[c].doc = commits[c].doc /\ commits'[c].making = commits[c].making
             /\ commits'[c].instance = commits[c].instance
             /\ commits'[c].blind = commits[c].blind
             /\ commits'[c].report = commits[c].report /\ commits'[c].crossed = commits[c].crossed
             /\ Done(commits'[c]) = Done(commits[c])
             /\ Gone(commits'[c]) = Gone(commits[c]) \cup Lost(c)
  <2>1. commits[c] \in CommitState BY <1>1
  <2>2. Lost(c) \subseteq Entries BY <2>1 DEF CommitState, Done, Granted
  <2> HIDE DEF Lost
  <2>3. commits'[c] = [commits[c] EXCEPT !.removed = @ \cup Lost(c)] BY <1>1
  <2> QED BY <2>1, <2>2, <2>3 DEF CommitState, Done, Gone
<1>3. commits' \in [Commit -> CommitState] BY <1>1, <1>2
<1>4. /\ localNames' \in [Username -> 0 .. userCount] /\ localNames'[k] = 0
      /\ \A n \in Username : n # k => localNames'[n] = localNames[n]
  <2>1. 0 \in 0 .. userCount BY <1>1, CentralConstants
  <2> QED BY <1>1, <2>1
<1>5. authz' \in AuthzState /\ authz'.catalog = authz.catalog BY <1>1 DEF AuthzState
<1>6. CentralTypeOK' BY <1>1, <1>3, <1>4, <1>5 DEF CentralInv, CentralTypeOK
<1>7. CommitInv'
  <2>1. ASSUME NEW c \in Commit, commits'[c].step # "none"
        PROVE  (HoldsToken(c) /\ DoesWork(c))'
    <3>1. HoldsToken(c) /\ DoesWork(c) BY <1>2, <2>1 DEF CentralInv, CommitInv
    <3>2. HoldsToken(c)' BY <1>1, <1>2, <2>1, <3>1 DEF HoldsToken
    <3>3. ASSUME NEW e \in Done(commits[c]), commits[c].step \in {"users", "map"}
          PROVE  Written(commits[c], e)'
      <4>1. Written(commits[c], e) BY <3>1, <3>3 DEF DoesWork
      <4>2. e.key \in Username BY <1>1, <3>3 DEF Done, Granted, CommitState, Entries
      <4>3. Owns(e)' <=> Owns(e) /\ e.key # k BY <1>1, <1>4, <4>2 DEF Owns
      <4>4. e \in Lost(c) <=> e.kind = "local" /\ e.key = k /\ Owns(e) OBVIOUS
      <4> HIDE DEF Lost
      <4> QED BY <1>2, <4>1, <4>3, <4>4 DEF Written
    <3>4. ASSUME commits[c].step = "map" PROVE Making(commits[c])'
      <4>1. Making(commits[c]) BY <3>1, <3>4 DEF DoesWork
      <4>2. PICK e \in commits[c].left :
              /\ commits[c].making = {e} /\ e.kind = "local"
              /\ userCount > 0 /\ carried[userCount] = {e}
              /\ localNames[e.key] = 0 \/ "username" \in commits[c].blind
        BY <4>1 DEF Making
      <4>3. e.key \in Username BY <1>1 DEF CommitState, Entries
      <4>4. localNames'[e.key] = 0 \/ "username" \in commits[c].blind BY <1>4, <4>2, <4>3
      <4> QED BY <1>1, <1>2, <4>2, <4>4 DEF Making
    <3>5. /\ commits[c].step \in {"classify", "claim", "apply"} => Lost(c) = {}
          /\ Lost(c) \subseteq Done(commits[c])
      BY DEF Done
    <3> HIDE DEF Lost
    <3>6. DoesWork(c)' BY <1>1, <1>2, <2>1, <3>1, <3>3, <3>4, <3>5 DEF DoesWork
    <3> QED BY <3>2, <3>6
  <2> QED BY <2>1 DEF CommitInv
<1>8. CreatorInv' BY <1>1, <1>4 DEF CentralInv, CreatorInv
<1>9. DirectoryPasswordsStay' BY <1>2 DEF CentralInv, DirectoryPasswordsStay
<1>10. TokenInv' /\ ImportInv' /\ ReportTellsOutcome'
  BY <1>1, <1>5 DEF CentralInv, TokenInv, ImportInv, ReportTellsOutcome
<1> QED BY <1>6, <1>7, <1>8, <1>9, <1>10 DEF CentralInv

LEMMA RegisterTargetKeeps ==
    ASSUME CentralInv, RegisterTarget
    PROVE  CentralInv'
<1>1. PICK logins \in BOOLEAN :
        target' = [instance |-> instances + 1, audience |-> "own", localLogins |-> logins]
  BY DEF RegisterTarget
<1>2. /\ target.instance = 0 /\ instances' = instances + 1 /\ instances \in Nat
      /\ UNCHANGED <<taken, authz, localNames, userCount, carried, token, commits, creators, migrationMu,
                      localUserMu, spent, misplaced, imports, outcome>>
  BY DEF RegisterTarget, theNames, theHistory, CentralInv, CentralTypeOK
<1>3. target' \in [instance : Nat, audience : {"own", "carried"}, localLogins : BOOLEAN]
      /\ instances' \in Nat
  BY <1>1, <1>2
<1>4. CentralTypeOK' BY <1>2, <1>3 DEF CentralInv, CentralTypeOK
<1>5. CommitInv'
  <2>1. ASSUME NEW c \in Commit, commits[c].step # "none"
        PROVE  (HoldsToken(c) /\ DoesWork(c))'
    <3>1. HoldsToken(c) /\ DoesWork(c) BY <2>1 DEF CentralInv, CommitInv
    <3>2. commits[c].crossed BY <1>2, <3>1 DEF HoldsToken
    <3>3. HoldsToken(c)' BY <1>2, <3>1, <3>2 DEF HoldsToken
    <3>4. DoesWork(c)' BY <1>2, <3>1, SameWork
    <3> QED BY <3>3, <3>4
  <2> QED BY <1>2, <2>1 DEF CommitInv
<1>6. CreatorInv' BY <1>2 DEF CentralInv, CreatorInv
<1>7. TokenInv' /\ ImportInv' /\ ReportTellsOutcome' /\ DirectoryPasswordsStay'
  BY <1>2 DEF CentralInv, TokenInv, ImportInv, ReportTellsOutcome, DirectoryPasswordsStay
<1> QED BY <1>4, <1>5, <1>6, <1>7 DEF CentralInv

LEMMA DeleteTargetKeeps ==
    ASSUME CentralInv, DeleteTarget
    PROVE  CentralInv'
<1>1. /\ target' = NoTarget /\ authz' = NoAuthz /\ imports' = 0
      /\ localNames' = [k \in Username |-> 0]
      /\ commits' = [c \in Commit |-> [commits[c] EXCEPT !.crossed = commits[c] # NoCommit]]
      /\ UNCHANGED <<instances, taken, userCount, carried, token, creators, migrationMu, localUserMu,
                      spent, misplaced, outcome>>
      /\ commits \in [Commit -> CommitState]
  BY DEF DeleteTarget, CentralInv, CentralTypeOK
<1>2. NoTarget \in [instance : Nat, audience : {"own", "carried"}, localLogins : BOOLEAN]
      /\ NoAuthz \in AuthzState
  BY DEF NoTarget, NoAuthz, AuthzState
<1>3. NoCommit.step = "none" BY DEF NoCommit
<1> HIDE DEF NoTarget, NoAuthz, NoCommit
<1>4. ASSUME NEW c \in Commit
      PROVE  /\ commits'[c] \in CommitState
             /\ commits'[c].step = commits[c].step /\ commits'[c].token = commits[c].token
             /\ commits'[c].users = commits[c].users /\ commits'[c].left = commits[c].left
             /\ commits'[c].doc = commits[c].doc /\ commits'[c].making = commits[c].making
             /\ commits'[c].dropped = commits[c].dropped /\ commits'[c].removed = commits[c].removed
             /\ commits'[c].blind = commits[c].blind
             /\ commits'[c].report = commits[c].report
             /\ commits[c].step # "none" => commits'[c].crossed
  <2>1. commits[c] \in CommitState BY <1>1
  <2>2. commits'[c] = [commits[c] EXCEPT !.crossed = commits[c] # NoCommit] BY <1>1
  <2>3. PICK b \in BOOLEAN : b = (commits[c] # NoCommit) BY Zenon
  <2>4. commits'[c] = [commits[c] EXCEPT !.crossed = b] BY <2>2, <2>3
  <2>5. commits[c].step # "none" => b BY <1>3, <2>3
  <2> QED BY <2>1, <2>4, <2>5 DEF CommitState
<1>5. commits' \in [Commit -> CommitState] BY <1>1, <1>4
<1>6. CentralTypeOK'
  <2>1. userCount \in 0 .. MaxUsers BY DEF CentralInv, CentralTypeOK
  <2>2. 0 \in 0 .. userCount BY <2>1, CentralConstants
  <2>3. localNames' \in [Username -> 0 .. userCount'] BY <1>1, <2>2
  <2> QED BY <1>1, <1>2, <1>5, <2>3 DEF CentralInv, CentralTypeOK
<1>7. CommitInv'
  <2>1. ASSUME NEW c \in Commit, commits'[c].step # "none"
        PROVE  (HoldsToken(c) /\ DoesWork(c))'
    <3>1. HoldsToken(c) /\ DoesWork(c) BY <1>4, <2>1 DEF CentralInv, CommitInv
    <3>2. HoldsToken(c)' BY <1>1, <1>4, <2>1, <3>1 DEF HoldsToken
    <3>3. DoesWork(c)'
      <4>1. /\ commits'[c].crossed /\ commits[c] \in CommitState
            /\ Done(commits'[c]) = Done(commits[c]) /\ Gone(commits'[c]) = Gone(commits[c])
        <5>1. commits'[c].crossed /\ commits[c] \in CommitState BY <1>1, <1>4, <2>1
        <5>2. Done(commits'[c]) = Done(commits[c]) BY <1>4 DEF Done
        <5>3. Gone(commits'[c]) = Gone(commits[c]) BY <1>4 DEF Gone
        <5> QED BY <5>1, <5>2, <5>3
      <4>2. ASSUME commits[c].step \in {"users", "map"}, NEW e \in Done(commits[c])
            PROVE  Written(commits[c], e)' /\ (e \in Gone(commits[c]) => e.kind = "local")
        <5>1. Written(commits[c], e) BY <3>1, <4>2 DEF DoesWork
        <5> QED BY <1>4, <4>1, <5>1 DEF Written
      <4>3. ASSUME commits[c].step = "map" PROVE Making(commits[c])'
        <5>1. Making(commits[c]) BY <3>1, <4>3 DEF DoesWork
        <5>2. PICK e \in commits[c].left :
                /\ commits[c].making = {e} /\ e.kind = "local"
                /\ userCount > 0 /\ carried[userCount] = {e}
          BY <5>1 DEF Making
        <5>3. e.key \in Username BY <4>1 DEF CommitState, Entries
        <5>4. localNames'[e.key] = 0 BY <1>1, <5>3
        <5> QED BY <1>1, <1>4, <5>2, <5>4 DEF Making
      <4> QED BY <1>1, <1>4, <2>1, <3>1, <4>1, <4>2, <4>3 DEF DoesWork
    <3> QED BY <3>2, <3>3
  <2> QED BY <2>1 DEF CommitInv
<1>8. CreatorInv' BY <1>1 DEF CentralInv, CreatorInv
<1>9. DirectoryPasswordsStay' BY <1>4 DEF CentralInv, DirectoryPasswordsStay
<1>10. TokenInv' /\ ImportInv' /\ ReportTellsOutcome'
  BY <1>1 DEF CentralInv, TokenInv, ImportInv, ReportTellsOutcome
<1> QED BY <1>6, <1>7, <1>8, <1>9, <1>10 DEF CentralInv

LEMMA AroundKeeps ==
    ASSUME CentralInv,
           \/ TakeAudience
           \/ \E doc \in {NoAuthz, [NoAuthz EXCEPT !.catalog = TRUE]} : EditAuthz(doc)
    PROVE  CentralInv'
<1>1. /\ UNCHANGED <<target, instances, localNames, userCount, carried, token, commits, creators,
                      migrationMu, localUserMu, spent, misplaced, outcome>>
      /\ taken \in BOOLEAN
  BY DEF TakeAudience, EditAuthz, theTarget, theNames, theHistory, CentralInv, CentralTypeOK
<1>2. taken' \in BOOLEAN
  <2>1. CASE TakeAudience BY <1>1, <2>1, Zenon DEF TakeAudience
  <2>2. CASE ~TakeAudience BY <1>1, <2>2 DEF EditAuthz
  <2> QED BY <2>1, <2>2
<1>3. /\ authz' \in AuthzState /\ imports' \in {0, imports}
      /\ imports' # 0 => authz' = authz \/ authz'.catalog
  <2>1. /\ NoAuthz \in AuthzState
        /\ [NoAuthz EXCEPT !.catalog = TRUE] \in AuthzState
        /\ [NoAuthz EXCEPT !.catalog = TRUE].catalog
    BY DEF NoAuthz, AuthzState
  <2>2. authz \in AuthzState BY DEF CentralInv, CentralTypeOK
  <2> HIDE DEF NoAuthz
  <2>3. CASE TakeAudience BY <2>2, <2>3 DEF TakeAudience, theHistory
  <2>4. ASSUME NEW doc \in {NoAuthz, [NoAuthz EXCEPT !.catalog = TRUE]}, EditAuthz(doc)
        PROVE  /\ authz' \in AuthzState /\ imports' \in {0, imports}
               /\ imports' # 0 => authz' = authz \/ authz'.catalog
    <3>1. authz' = doc /\ imports' = IF doc = NoAuthz THEN 0 ELSE imports
      BY <2>4 DEF EditAuthz
    <3>2. CASE doc = NoAuthz BY <2>1, <3>1, <3>2
    <3>3. CASE doc = [NoAuthz EXCEPT !.catalog = TRUE] BY <2>1, <3>1, <3>3
    <3> QED BY <3>2, <3>3
  <2> QED BY <2>3, <2>4
<1>4. CentralTypeOK'
  <2>1. imports' \in Nat
    <3>1. imports \in Nat /\ imports' \in {0, imports} BY <1>3 DEF CentralInv, CentralTypeOK
    <3> QED BY <3>1
  <2>2. authz' \in AuthzState BY <1>3
  <2> QED BY <1>1, <1>2, <2>1, <2>2 DEF CentralInv, CentralTypeOK
<1>5. CommitInv'
  <2>1. ASSUME NEW c \in Commit, commits[c].step # "none"
        PROVE  (HoldsToken(c) /\ DoesWork(c))'
    <3>1. HoldsToken(c) /\ DoesWork(c) BY <2>1 DEF CentralInv, CommitInv
    <3>2. HoldsToken(c)' BY <1>1, <3>1 DEF HoldsToken
    <3>3. DoesWork(c)' BY <1>1, <1>3, <3>1 DEF DoesWork, Making, Written, Owns, Done, Gone
    <3> QED BY <3>2, <3>3
  <2> QED BY <1>1, <2>1 DEF CommitInv
<1>6. CreatorInv' /\ DirectoryPasswordsStay'
  BY <1>1 DEF CentralInv, CreatorInv, DirectoryPasswordsStay
<1>7. TokenInv' /\ ReportTellsOutcome' BY <1>1 DEF CentralInv, TokenInv, ReportTellsOutcome
<1>8. ImportInv' BY <1>3 DEF CentralInv, ImportInv
<1> QED BY <1>4, <1>5, <1>6, <1>7, <1>8 DEF CentralInv

LEMMA StopKeeps ==
    ASSUME CentralInv, StopCentral
    PROVE  CentralInv'
<1>1. NoCommit \in CommitState /\ NoCommit.step = "none" /\ NoCommit.users = {}
  BY DEF NoCommit, CommitState, Reports
<1>2. /\ NoCreator \in [step : {"none", "map"}, key : Username \cup {""}, unread : BOOLEAN]
      /\ NoCreator.step = "none"
  BY DEF NoCreator
<1> HIDE DEF NoCommit, NoCreator
<1>3. /\ commits' = [c \in Commit |-> NoCommit] /\ creators' = [c \in Creator |-> NoCreator]
      /\ UNCHANGED <<target, instances, taken, authz, localNames, userCount, carried, token,
                      spent, misplaced, imports, outcome>>
  BY DEF StopCentral, theTarget, theNames, theHistory
<1>4. commits' \in [Commit -> CommitState]
      /\ creators' \in [Creator -> [step : {"none", "map"}, key : Username \cup {""}, unread : BOOLEAN]]
  BY <1>1, <1>2, <1>3
<1>5. CentralTypeOK' BY <1>3, <1>4 DEF CentralInv, CentralTypeOK
<1>6. CommitInv' /\ CreatorInv' /\ DirectoryPasswordsStay'
  BY <1>1, <1>2, <1>3 DEF CommitInv, CreatorInv, DirectoryPasswordsStay
<1>7. TokenInv' /\ ImportInv' /\ ReportTellsOutcome'
  BY <1>3 DEF CentralInv, TokenInv, ImportInv, ReportTellsOutcome
<1> QED BY <1>5, <1>6, <1>7 DEF CentralInv

-----------------------------------------------------------------------------

LEMMA CentralStep == CentralInv /\ [CentralNext]_centralVars => CentralInv'
<1> SUFFICES ASSUME CentralInv, [CentralNext]_centralVars PROVE CentralInv' OBVIOUS
<1>1. CASE UNCHANGED centralVars
  <2>1. CentralTypeOK' BY <1>1 DEF centralVars, CentralInv, CentralTypeOK
  <2>2. CommitInv'
    <3>1. ASSUME NEW c \in Commit, commits[c].step # "none"
          PROVE  (HoldsToken(c) /\ DoesWork(c))'
      <4>1. HoldsToken(c) /\ DoesWork(c) BY <3>1 DEF CentralInv, CommitInv
      <4>2. HoldsToken(c)' BY <1>1, <4>1 DEF centralVars, HoldsToken
      <4>3. DoesWork(c)' BY <1>1, <4>1, SameWork DEF centralVars
      <4> QED BY <4>2, <4>3
    <3> QED BY <1>1, <3>1 DEF centralVars, CommitInv
  <2>3. CreatorInv' /\ TokenInv' /\ ImportInv'
    BY <1>1 DEF centralVars, CentralInv, CreatorInv, TokenInv, ImportInv
  <2>4. ReportTellsOutcome' /\ DirectoryPasswordsStay'
    BY <1>1 DEF centralVars, CentralInv, ReportTellsOutcome, DirectoryPasswordsStay
  <2> QED BY <2>1, <2>2, <2>3, <2>4 DEF CentralInv
<1>2. CASE \E c \in Commit :
             \/ \E id \in 1 .. MaxTokens, users \in Sources : BeginCommit(c, id, users)
             \/ Classify(c) \/ ConsumeMigrationToken(c) \/ ApplyApp(c)
             \/ \E e \in commits[c].left : ApplyUser(c, e) \/ MapLocalUser(c, e)
             \/ SaveAssignments(c) \/ CommitFails(c)
  BY <1>2, BeginCommitKeeps, ClassifyKeeps, ConsumeKeeps, ApplyAppKeeps, ApplyUserKeeps,
     MapLocalUserKeeps, SaveKeeps, FailsKeeps
<1>3. CASE \/ \E c \in Creator : (\E k \in Username : BeginOwnUser(c, k)) \/ MapOwnUser(c)
           \/ \E k \in Username : DeleteLocalUser(k)
  BY <1>3, BeginOwnUserKeeps, MapOwnUserKeeps, DeleteLocalUserKeeps
<1>4. CASE \/ MintToken \/ ExpireToken \/ RegisterTarget \/ DeleteTarget \/ TakeAudience
           \/ \E doc \in {NoAuthz, [NoAuthz EXCEPT !.catalog = TRUE]} : EditAuthz(doc)
           \/ StopCentral
  BY <1>4, TokenStepsKeep, RegisterTargetKeeps, DeleteTargetKeeps, AroundKeeps, StopKeeps
<1> QED BY <1>1, <1>2, <1>3, <1>4 DEF CentralNext

(***************************************************************************)
(* The invariant the others follow from.                                   *)
(***************************************************************************)
THEOREM CentralInvariant == CentralSpec => []CentralInv
<1>1. CentralInit => CentralInv BY InitialCentral
<1>2. CentralInv /\ [CentralNext]_centralVars => CentralInv' BY CentralStep
<1> QED BY <1>1, <1>2, PTL DEF CentralSpec

(***************************************************************************)
(* A migration token is applied at most once and where it was minted for,  *)
(* whatever is posted again, fails to be saved or stops                    *)
(* (consumeMigrationToken, authMigration).                                 *)
(***************************************************************************)
THEOREM TokensApplyOnce == CentralSpec => []TokenAppliesOnce
<1>1. CentralInv => TokenAppliesOnce BY DEF CentralInv, TokenInv, TokenAppliesOnce
<1> QED BY <1>1, CentralInvariant, PTL

(***************************************************************************)
(* No second commit succeeds in an app that was not emptied since, but for *)
(* one that could not read its document (Classify, handleMigrationCommit). *)
(***************************************************************************)
THEOREM ImportsOnce == CentralSpec => []ImportedOnce
<1>1. CentralInv => ImportedOnce BY DEF CentralInv, ImportInv, ImportedOnce
<1> QED BY <1>1, CentralInvariant, PTL

(***************************************************************************)
(* A commit brings about what its dry run reported, but for users whose    *)
(* username was somebody else's or came twice (Classify, Apply).           *)
(***************************************************************************)
THEOREM ReportsHold == CentralSpec => []ReportTellsOutcome
<1>1. CentralInv => ReportTellsOutcome BY DEF CentralInv
<1> QED BY <1>1, CentralInvariant, PTL

(***************************************************************************)
(* No password of a directory user is packed (classifyUser).               *)
(***************************************************************************)
THEOREM PasswordsStay == CentralSpec => []DirectoryPasswordsStay
<1>1. CentralInv => DirectoryPasswordsStay BY DEF CentralInv
<1> QED BY <1>1, CentralInvariant, PTL

(***************************************************************************)
(* Neither an import nor an app that creates users meanwhile takes a       *)
(* username over, unless it could not look it up (localUserMu).            *)
(***************************************************************************)
THEOREM UsernamesStay == CentralSpec => ImportKeepsUsernames
<1>1. ASSUME CentralInv, [CentralNext]_centralVars
      PROVE  [\A k \in Username : localNames[k] # 0 =>
                \/ localNames'[k] \in {localNames[k], 0}
                \/ \E c \in Commit : /\ "username" \in commits[c].blind
                                     /\ \E e \in commits[c].making : e.key = k
                \/ \E c \in Creator : creators[c].unread /\ creators[c].key = k]_centralVars
  <2> DEFINE Unread(k) ==
               \/ \E c \in Commit : /\ "username" \in commits[c].blind
                                     /\ \E e \in commits[c].making : e.key = k
               \/ \E c \in Creator : creators[c].unread /\ creators[c].key = k
  <2>1. localNames \in [Username -> 0 .. userCount] BY <1>1 DEF CentralInv, CentralTypeOK
  <2> SUFFICES ASSUME NEW k \in Username, localNames[k] # 0
               PROVE  localNames'[k] \in {localNames[k], 0} \/ Unread(k)
    OBVIOUS
  <2>2. CASE UNCHANGED localNames BY <2>2
  <2>3. ASSUME NEW c \in Commit, NEW e \in commits[c].left, MapLocalUser(c, e)
        PROVE  localNames'[k] = localNames[k] \/ Unread(k)
    <3>1. /\ localNames' = [localNames EXCEPT ![e.key] = userCount]
          /\ commits[c].step = "map" /\ commits[c].making = {e}
      BY <2>3 DEF MapLocalUser
    <3>2. localNames[e.key] = 0 \/ "username" \in commits[c].blind
      BY <1>1, <3>1 DEF CentralInv, CommitInv, DoesWork, Making
    <3>3. CASE e.key # k BY <2>1, <3>1, <3>3
    <3>4. CASE e.key = k BY <3>1, <3>2, <3>4
    <3> QED BY <3>3, <3>4
  <2>4. ASSUME NEW c \in Creator, MapOwnUser(c)
        PROVE  localNames'[k] = localNames[k] \/ Unread(k)
    <3>1. /\ localNames' = [localNames EXCEPT ![creators[c].key] = userCount + 1]
          /\ creators[c].step = "map"
      BY <2>4 DEF MapOwnUser
    <3>2. creators[c].key # k \/ creators[c].unread BY <1>1, <3>1 DEF CentralInv, CreatorInv
    <3>3. CASE creators[c].key # k BY <2>1, <3>1, <3>3
    <3>4. CASE creators[c].key = k BY <3>2, <3>4
    <3> QED BY <3>3, <3>4
  <2>5. CASE DeleteTarget \/ \E n \in Username : DeleteLocalUser(n)
    BY <2>1, <2>5 DEF DeleteTarget, DeleteLocalUser
  <2>6. ASSUME NEW c \in Commit, NEW e \in commits[c].left, ApplyUser(c, e)
        PROVE  UNCHANGED localNames
    BY <2>6 DEF ApplyUser
  <2>7. ASSUME NEW c \in Commit,
               \/ \E id \in 1 .. MaxTokens, users \in Sources : BeginCommit(c, id, users)
               \/ Classify(c) \/ ConsumeMigrationToken(c) \/ ApplyApp(c)
               \/ SaveAssignments(c) \/ CommitFails(c)
        PROVE  UNCHANGED localNames
    BY <2>7 DEF BeginCommit, Classify, ConsumeMigrationToken, ApplyApp, SaveAssignments,
                CommitFails, theNames
  <2>8. CASE \/ MintToken \/ ExpireToken \/ RegisterTarget \/ TakeAudience \/ StopCentral
             \/ \E c \in Creator, n \in Username : BeginOwnUser(c, n)
             \/ \E doc \in {NoAuthz, [NoAuthz EXCEPT !.catalog = TRUE]} : EditAuthz(doc)
    BY <2>2, <2>8 DEF MintToken, ExpireToken, RegisterTarget, TakeAudience, StopCentral, BeginOwnUser,
                      EditAuthz, theNames
  <2>9. CASE \E c \in Commit : \E e \in commits[c].left : ApplyUser(c, e) \/ MapLocalUser(c, e)
    <3>1. PICK c \in Commit : \E e \in commits[c].left : ApplyUser(c, e) \/ MapLocalUser(c, e)
      BY <2>9
    <3>2. PICK e \in commits[c].left : ApplyUser(c, e) \/ MapLocalUser(c, e) BY <3>1
    <3> QED BY <2>2, <2>3, <2>6, <3>2
  <2> HIDE DEF Unread
  <2>10. ASSUME CentralNext
         PROVE  localNames'[k] \in {localNames[k], 0} \/ Unread(k)
    <3>1. CASE \E c \in Commit :
                 \/ \E id \in 1 .. MaxTokens, users \in Sources : BeginCommit(c, id, users)
                 \/ Classify(c) \/ ConsumeMigrationToken(c) \/ ApplyApp(c)
                 \/ \E e \in commits[c].left : ApplyUser(c, e) \/ MapLocalUser(c, e)
                 \/ SaveAssignments(c) \/ CommitFails(c)
      <4>1. UNCHANGED localNames \/ localNames'[k] \in {localNames[k], 0} \/ Unread(k)
        BY <3>1, <2>7, <2>9
      <4> QED BY <2>2, <4>1
    <3>2. CASE \E c \in Creator : (\E n \in Username : BeginOwnUser(c, n)) \/ MapOwnUser(c)
      BY <3>2, <2>4, <2>8
    <3>3. CASE \/ MintToken \/ ExpireToken \/ RegisterTarget \/ DeleteTarget \/ TakeAudience
               \/ \E doc \in {NoAuthz, [NoAuthz EXCEPT !.catalog = TRUE]} : EditAuthz(doc)
               \/ StopCentral
      BY <3>3, <2>5, <2>8
    <3>4. CASE \E n \in Username : DeleteLocalUser(n) BY <2>5, <3>4
    <3> QED BY <2>10, <3>1, <3>2, <3>3, <3>4 DEF CentralNext
  <2>11. CASE UNCHANGED centralVars BY <2>2, <2>11 DEF centralVars
  <2> QED BY <1>1, <2>10, <2>11
<1> QED BY <1>1, CentralInvariant, PTL DEF ImportKeepsUsernames, CentralSpec

-----------------------------------------------------------------------------
(* The move between the backends: BackendMigration. *)

MoveSteps == {"none", "mark", "open", "clear", "copy", "verify", "drain"}

Statuses == {"idle", "running", "verifying", "completed", "failed"}

MoveState ==
    [step : MoveSteps, source : Backend, counts : [Table -> Nat], left : SUBSET Table,
     failed : BOOLEAN, queue : Seq(Statuses), kept : [Table -> SUBSET Row], quiet : BOOLEAN]

Under(s) == migrations[s].step # "none"

Copying(s) == migrations[s].step \in {"copy", "verify"}

(* The source of a migration past its checks is the backend in use; before it
   copies nothing is in its channel.                                        *)
MoveTypes ==
    /\ opened \in Backend \cup {"none"}
    /\ data \in [Backend -> [Table -> SUBSET Row]]
    /\ status \in Statuses
    /\ migrations \in [Start -> MoveState]
    /\ oddities \subseteq Oddity
    /\ \A s \in Start :
         /\ migrations[s].step = "none" => migrations[s] = NoMigration
         /\ migrations[s].step \in {"mark", "open", "clear"} => migrations[s].queue = <<>>
         /\ migrations[s].step \in {"clear", "copy", "verify", "drain"} => migrations[s].source = opened
         /\ migrations[s].step = "verify" => migrations[s].left = {}

MovesAlone == \A s, o \in Start : Under(s) /\ Under(o) => s = o

(* What was kept in the source since the count is there, and in the target as
   far as the tables are copied.                                            *)
KeptRows(s) ==
    Copying(s) => \A t \in Table :
      /\ migrations[s].kept[t] \subseteq data[migrations[s].source][t]
      /\ "cut" \notin oddities /\ t \notin migrations[s].left =>
           migrations[s].kept[t] \subseteq data[Target(s)][t]

(* With nothing written since the count, the target has of a cleared table no
   rows but the source's, and of a copied one all of them.                  *)
ExactRows(s) ==
    Copying(s) /\ migrations[s].quiet => \A t \in Table :
      /\ migrations[s].counts[t] = Cardinality(data[migrations[s].source][t])
      /\ t \in ClearedTables(s) => data[Target(s)][t] \subseteq data[migrations[s].source][t]
      /\ t \notin migrations[s].left /\ (Target(s) = "postgres" \/ "cut" \notin oddities) =>
           data[migrations[s].source][t] \subseteq data[Target(s)][t]

(* The last status of a migration that succeeded is, or is about to be, the
   one shown, unless the channel had no room for it.                        *)
TellsSuccess(s) ==
    migrations[s].step = "drain" /\ ~migrations[s].failed =>
      LET queue == migrations[s].queue IN
      /\ result # NoResult
      /\ \/ "dropped" \in oddities
         \/ queue = <<>> /\ status = "completed"
         \/ queue # <<>> /\ queue[Len(queue)] = "completed"

MoveInv ==
    /\ MoveTypes
    /\ "overlap" \notin oddities =>
         MovesAlone /\ \A s \in Start : KeptRows(s) /\ ExactRows(s) /\ TellsSuccess(s)
    /\ MigrationKeepsRows
    /\ StatusSettles

-----------------------------------------------------------------------------
(* Records of migrations. *)

LEMMA NoMigrationFacts ==
    /\ NoMigration \in MoveState /\ NoMigration.step = "none" /\ NoMigration.queue = <<>>
    /\ NoMigration.failed = FALSE
BY DEF NoMigration, MoveState, MoveSteps, Backend

(* A status goes to the end of the channel or is dropped; nothing else of the
   migration changes.                                                       *)
LEMMA SentFacts ==
    ASSUME MigrationConstants, NEW m \in MoveState, NEW state \in Statuses
    PROVE  /\ Sent(m, state) \in MoveState
           /\ Sent(m, state).step = m.step /\ Sent(m, state).source = m.source
           /\ Sent(m, state).counts = m.counts /\ Sent(m, state).left = m.left
           /\ Sent(m, state).failed = m.failed /\ Sent(m, state).kept = m.kept
           /\ Sent(m, state).quiet = m.quiet
           /\ \/ Len(m.queue) < Capacity /\ Sent(m, state).queue = Append(m.queue, state)
              \/ "dropped" \in SentOddity(m) /\ Sent(m, state).queue = m.queue
           /\ SentOddity(m) \subseteq {"dropped"}
<1>1. m.queue \in Seq(Statuses) BY DEF MoveState
<1>2. Append(m.queue, state) \in Seq(Statuses) BY <1>1
<1>3. CASE Len(m.queue) < Capacity
  <2> DEFINE sent == [m EXCEPT !.queue = Append(@, state)]
  <2>1. Sent(m, state) = sent BY <1>3 DEF Sent
  <2>2. /\ sent \in MoveState /\ sent.step = m.step /\ sent.source = m.source
        /\ sent.counts = m.counts /\ sent.left = m.left /\ sent.failed = m.failed
        /\ sent.kept = m.kept /\ sent.quiet = m.quiet /\ sent.queue = Append(m.queue, state)
    BY <1>2 DEF MoveState
  <2> HIDE DEF sent
  <2> QED BY <1>3, <2>1, <2>2 DEF SentOddity
<1>4. CASE ~(Len(m.queue) < Capacity) BY <1>4 DEF Sent, SentOddity
<1> QED BY <1>3, <1>4

LEMMA FailedFacts ==
    ASSUME MigrationConstants, NEW m \in MoveState
    PROVE  /\ Failed(m) \in MoveState /\ Failed(m).step = "drain" /\ Failed(m).failed = TRUE
           /\ Failed(m).source = m.source
<1> DEFINE ended == [m EXCEPT !.step = "drain"]
           told == [ended EXCEPT !.failed = TRUE]
<1>1. ended \in MoveState /\ ended.step = "drain" /\ ended.source = m.source
  BY DEF MoveState, MoveSteps
<1>2. Failed(m) = Sent(told, "failed") BY DEF Failed
<1> HIDE DEF ended
<1>3. told \in MoveState /\ told.step = "drain" /\ told.failed = TRUE /\ told.source = m.source
  BY <1>1 DEF MoveState
<1> HIDE DEF told
<1> QED BY <1>2, <1>3, SentFacts DEF Statuses

-----------------------------------------------------------------------------
(* What a step keeps. *)

LEMMA MoveTypesKept ==
    ASSUME MoveTypes, NEW s \in Start,
           migrations' \in [Start -> MoveState], \A o \in Start \ {s} : migrations'[o] = migrations[o],
           data' \in [Backend -> [Table -> SUBSET Row]], status' \in Statuses,
           oddities' \subseteq Oddity, opened' = opened,
           migrations'[s].step = "none" => migrations'[s] = NoMigration,
           migrations'[s].step \in {"mark", "open", "clear"} => migrations'[s].queue = <<>>,
           migrations'[s].step \in {"clear", "copy", "verify", "drain"} => migrations'[s].source = opened,
           migrations'[s].step = "verify" => migrations'[s].left = {}
    PROVE  MoveTypes'
<1>1. /\ Backend' = Backend /\ MoveState' = MoveState /\ Statuses' = Statuses /\ Oddity' = Oddity
      /\ NoMigration' = NoMigration
  BY DEF Backend, MoveState, MoveSteps, Statuses, Oddity, NoMigration
<1> QED BY <1>1 DEF MoveTypes

(* What a migration reported stays true of it as more goes wrong. *)
LEMMA ReportKept ==
    ASSUME MigrationKeepsRows, result' = result, oddities \subseteq oddities'
    PROVE  MigrationKeepsRows'
BY DEF MigrationKeepsRows

(* A step of a migration, which is the only one or does not count. *)
LEMMA MoverKeeps ==
    ASSUME MoveInv, NEW s \in Start, Under(s), \A o \in Start \ {s} : migrations'[o] = migrations[o],
           oddities \subseteq oddities', MoveTypes',
           "overlap" \notin oddities' => KeptRows(s)' /\ ExactRows(s)' /\ TellsSuccess(s)',
           MigrationKeepsRows', StatusSettles'
    PROVE  MoveInv'
<1> SUFFICES ASSUME "overlap" \notin oddities'
             PROVE  (MovesAlone /\ \A o \in Start : KeptRows(o) /\ ExactRows(o) /\ TellsSuccess(o))'
  BY DEF MoveInv
<1>1. \A o \in Start \ {s} : migrations[o].step = "none" /\ migrations'[o].step = "none"
  BY DEF MoveInv, MovesAlone, Under
<1>2. MovesAlone' BY <1>1 DEF MovesAlone, Under
<1>3. ASSUME NEW o \in Start PROVE (KeptRows(o) /\ ExactRows(o) /\ TellsSuccess(o))'
  <2>1. CASE o = s BY <2>1
  <2>2. CASE o # s BY <1>1, <2>2 DEF KeptRows, ExactRows, TellsSuccess, Copying
  <2> QED BY <2>1, <2>2
<1> QED BY <1>2, <1>3

-----------------------------------------------------------------------------
(* handleMigrateStart *)

LEMMA CheckedMove ==
    ASSUME MigrationConstants, MoveInv, NEW s \in Start, NEW source \in Backend, CheckNotRunning(s, source)
    PROVE  MoveInv'
<1> DEFINE marked == [NoMigration EXCEPT !.step = "mark"]
           m == [marked EXCEPT !.source = source]
<1>1. /\ migrations[s] = NoMigration /\ UNCHANGED <<opened, data, status, result>>
      /\ oddities' = oddities \cup
           (IF \E o \in Start : migrations[o].step # "none" THEN {"overlap"} ELSE {})
      /\ migrations \in [Start -> MoveState] /\ MoveTypes
  BY DEF CheckNotRunning, MoveInv, MoveTypes
<1>2. migrations' = [migrations EXCEPT ![s] = m]
  <2>1. migrations' = [[migrations EXCEPT ![s] = marked] EXCEPT ![s].source = source]
    BY <1>1 DEF CheckNotRunning
  <2> HIDE DEF marked
  <2>2. [migrations EXCEPT ![s] = marked][s] = marked BY <1>1
  <2> QED BY <1>1, <2>1, <2>2
<1>3. marked \in MoveState /\ marked.step = "mark" /\ marked.queue = <<>>
  BY NoMigrationFacts DEF MoveState, MoveSteps
<1> HIDE DEF marked
<1>4. m \in MoveState /\ m.step = "mark" /\ m.queue = <<>> BY <1>3 DEF MoveState
<1> HIDE DEF m
<1>5. /\ migrations' \in [Start -> MoveState] /\ migrations'[s].step = "mark"
      /\ migrations'[s].queue = <<>> /\ \A o \in Start \ {s} : migrations'[o] = migrations[o]
  BY <1>1, <1>2, <1>4
<1>6. oddities' \subseteq Oddity BY <1>1 DEF MoveTypes, Oddity
<1>7. MoveTypes'
  <2>1. data \in [Backend -> [Table -> SUBSET Row]] /\ status \in Statuses BY <1>1 DEF MoveTypes
  <2> QED BY <1>1, <1>5, <1>6, <2>1, MoveTypesKept
<1>8. MigrationKeepsRows' BY <1>1, ReportKept DEF MoveInv
<1>9. StatusSettles' BY <1>5 DEF StatusSettles
<1>10. ASSUME "overlap" \notin oddities' PROVE \A o \in Start \ {s} : migrations'[o].step = "none"
  BY <1>1, <1>5, <1>10
<1>11. "overlap" \notin oddities' => MovesAlone' BY <1>10 DEF MovesAlone, Under
<1>12. ASSUME "overlap" \notin oddities', NEW o \in Start
       PROVE  (KeptRows(o) /\ ExactRows(o) /\ TellsSuccess(o))'
  <2>1. migrations'[o].step \in {"none", "mark"} BY <1>5, <1>10, <1>12
  <2> QED BY <2>1 DEF KeptRows, ExactRows, TellsSuccess, Copying
<1> QED BY <1>7, <1>8, <1>9, <1>11, <1>12 DEF MoveInv

LEMMA StartedMove ==
    ASSUME MigrationConstants, MoveInv, NEW s \in Start, MarkRunning(s) \/ OpenTarget(s)
    PROVE  MoveInv'
<1>1. /\ migrations \in [Start -> MoveState] /\ MoveTypes /\ oddities \subseteq Oddity
      /\ data \in [Backend -> [Table -> SUBSET Row]] /\ status \in Statuses
      /\ UNCHANGED <<opened, data, result>> /\ oddities \subseteq oddities'
      /\ Under(s) /\ migrations[s].queue = <<>>
  BY DEF MoveInv, MoveTypes, MarkRunning, OpenTarget, Step, Under
<1>2. /\ migrations' \in [Start -> MoveState] /\ \A o \in Start \ {s} : migrations'[o] = migrations[o]
      /\ status' \in Statuses /\ oddities' \subseteq Oddity
      /\ \/ /\ migrations'[s].step \in {"open", "clear"} /\ migrations'[s].queue = <<>>
            /\ migrations'[s].step = "clear" => migrations'[s].source = opened
         \/ migrations'[s] = NoMigration /\ migrations'[s].step = "none" /\ "abandoned" \in oddities'
  <2>0. ASSUME NEW to \in MoveSteps, migrations' = [migrations EXCEPT ![s].step = to]
        PROVE  /\ migrations' \in [Start -> MoveState]
               /\ \A o \in Start \ {s} : migrations'[o] = migrations[o]
               /\ migrations'[s].step = to /\ migrations'[s].queue = migrations[s].queue
               /\ migrations'[s].source = migrations[s].source
    <3> DEFINE m == [migrations[s] EXCEPT !.step = to]
    <3>1. migrations' = [migrations EXCEPT ![s] = m] BY <2>0
    <3>2. /\ m \in MoveState /\ m.step = to /\ m.queue = migrations[s].queue
          /\ m.source = migrations[s].source
      <4>1. migrations[s] \in MoveState BY <1>1
      <4> QED BY <4>1 DEF MoveState
    <3> HIDE DEF m
    <3> QED BY <1>1, <3>1, <3>2
  <2>1. CASE MarkRunning(s)
    <3>1. migrations' = [migrations EXCEPT ![s].step = "open"] /\ status' = "running" /\ oddities' = oddities
      BY <2>1 DEF MarkRunning, Step
    <3> QED BY <1>1, <2>0, <3>1 DEF MoveSteps, Statuses
  <2>2. CASE OpenTarget(s) /\ Step(s, "open", "clear")
    <3>1. /\ migrations' = [migrations EXCEPT ![s].step = "clear"] /\ status' = status
          /\ migrations[s].source = opened /\ oddities' \subseteq Oddity
      <4>1. NoMigration # [migrations[s] EXCEPT !.step = "clear"]
        <5>1. [migrations[s] EXCEPT !.step = "clear"].step = "clear" BY <1>1 DEF MoveState
        <5> QED BY <5>1, NoMigrationFacts
      <4>2. migrations' # [migrations EXCEPT ![s] = NoMigration]
        BY <1>1, <2>2, <4>1 DEF Step
      <4> QED BY <1>1, <2>2, <4>2 DEF OpenTarget, Step
    <3> QED BY <1>1, <2>0, <3>1 DEF MoveSteps
  <2>3. CASE OpenTarget(s) /\ ~Step(s, "open", "clear")
    BY <1>1, <2>3, NoMigrationFacts DEF OpenTarget, Oddity
  <2> QED BY <2>1, <2>2, <2>3
<1>3. MoveTypes' BY <1>1, <1>2, MoveTypesKept
<1>4. MigrationKeepsRows' BY <1>1, ReportKept DEF MoveInv
<1>5. StatusSettles' BY <1>2 DEF StatusSettles
<1>6. KeptRows(s)' /\ ExactRows(s)' /\ TellsSuccess(s)'
  BY <1>2 DEF KeptRows, ExactRows, TellsSuccess, Copying
<1> QED BY <1>1, <1>2, <1>3, <1>4, <1>5, <1>6, MoverKeeps

-----------------------------------------------------------------------------
(* The goroutine. *)

(* The rows of a backend, which are finitely many. *)
LEMMA RowsFinite ==
    ASSUME MigrationConstants, NEW rows \in SUBSET Row
    PROVE  IsFiniteSet(rows) /\ Cardinality(rows) \in Nat
BY FS_Subset, FS_CardinalityType DEF MigrationConstants

LEMMA ClearedMove ==
    ASSUME MigrationConstants, MoveInv, NEW s \in Start, ClearAndCount(s)
    PROVE  MoveInv'
<1> DEFINE m == migrations[s]
           src == data[m.source]
           m1 == [m EXCEPT !.step = "copy"]
           m2 == [m1 EXCEPT !.left = MigratedTables(s)]
           m3 == [m2 EXCEPT !.kept = src]
           counted == [t \in Table |-> IF t \in MigratedTables(s) THEN Cardinality(src[t]) ELSE 0]
           m4 == [m3 EXCEPT !.counts = counted]
<1>1. /\ migrations \in [Start -> MoveState] /\ MoveTypes /\ oddities \subseteq Oddity
      /\ data \in [Backend -> [Table -> SUBSET Row]] /\ status \in Statuses
      /\ UNCHANGED <<opened, status, result>> /\ m.step = "clear" /\ Under(s)
      /\ m \in MoveState /\ m.source \in Backend /\ m.source = opened
  BY DEF MoveInv, MoveTypes, ClearAndCount, Under, MoveState
<1>2. src \in [Table -> SUBSET Row] BY <1>1
<1>3. counted \in [Table -> Nat] /\ \A t \in Table : counted[t] = Cardinality(src[t])
  BY <1>2, RowsFinite DEF MigratedTables
<1>4. m1 \in MoveState /\ m1.step = "copy" /\ m1.source = m.source BY <1>1 DEF MoveState, MoveSteps
<1>5. /\ migrations' = [migrations EXCEPT ![s] = Sent(m4, "running")]
      /\ data' = [data EXCEPT ![Target(s)] = [t \in Table |-> IF t \in ClearedTables(s) THEN {} ELSE @[t]]]
      /\ oddities' = oddities \cup SentOddity(m)
  BY DEF ClearAndCount
<1> HIDE DEF m1
<1>6. m2 \in MoveState /\ m2.step = "copy" /\ m2.source = m.source /\ m2.left = Table
  BY <1>4 DEF MoveState, MigratedTables
<1> HIDE DEF m2
<1>7. m3 \in MoveState /\ m3.step = "copy" /\ m3.source = m.source /\ m3.left = Table /\ m3.kept = src
  BY <1>2, <1>6 DEF MoveState
<1> HIDE DEF m3, counted
<1>8. /\ m4 \in MoveState /\ m4.step = "copy" /\ m4.source = m.source /\ m4.left = Table
      /\ m4.kept = src /\ m4.counts = counted
  BY <1>3, <1>7 DEF MoveState
<1> HIDE DEF m4, src
<1>9. /\ migrations' \in [Start -> MoveState] /\ \A o \in Start \ {s} : migrations'[o] = migrations[o]
      /\ migrations'[s].step = "copy" /\ migrations'[s].source = m.source
      /\ migrations'[s].left = Table /\ migrations'[s].kept = src /\ migrations'[s].counts = counted
      /\ SentOddity(m) \subseteq {"dropped"}
  BY <1>1, <1>5, <1>8, SentFacts DEF Statuses
<1>10. Target(s) \in Backend /\ Target(s) # m.source BY <1>1 DEF Target, Backend
<1>11. /\ data' \in [Backend -> [Table -> SUBSET Row]] /\ data'[m.source] = src
       /\ \A t \in ClearedTables(s) : t \in Table => data'[Target(s)][t] = {}
  <2>1. [t \in Table |-> IF t \in ClearedTables(s) THEN {} ELSE data[Target(s)][t]]
          \in [Table -> SUBSET Row]
    BY <1>1, <1>10
  <2> QED BY <1>1, <1>5, <1>10, <2>1 DEF src
<1>12. oddities' \subseteq Oddity /\ oddities \subseteq oddities' BY <1>1, <1>5, <1>9 DEF Oddity
<1>13. MoveTypes' BY <1>1, <1>9, <1>11, <1>12, MoveTypesKept
<1>14. MigrationKeepsRows' BY <1>1, <1>12, ReportKept DEF MoveInv
<1>15. StatusSettles' BY <1>9 DEF StatusSettles
<1>16. /\ Target(s)' = Target(s) /\ ClearedTables(s)' = ClearedTables(s)
  BY <1>9 DEF Target, ClearedTables
<1>17. KeptRows(s)' BY <1>9, <1>11, <1>16 DEF KeptRows
<1>18. ExactRows(s)' BY <1>3, <1>9, <1>11, <1>16 DEF ExactRows
<1>19. TellsSuccess(s)' BY <1>9 DEF TellsSuccess
<1> QED BY <1>1, <1>9, <1>12, <1>13, <1>14, <1>15, <1>17, <1>18, <1>19, MoverKeeps

LEMMA CopiedMove ==
    ASSUME MigrationConstants, MoveInv, NEW s \in Start, NEW t \in Table, CopyTable(s, t) \/ CutTable(s, t)
    PROVE  MoveInv'
<1> DEFINE m == migrations[s]
           copied == [m EXCEPT !.left = @ \ {t}]
           dest == Target(s)
<1>1. /\ migrations \in [Start -> MoveState] /\ MoveTypes /\ oddities \subseteq Oddity
      /\ data \in [Backend -> [Table -> SUBSET Row]] /\ status \in Statuses
      /\ UNCHANGED <<opened, status, result>> /\ m.step = "copy" /\ Under(s) /\ Copying(s)
      /\ m \in MoveState /\ m.source \in Backend /\ m.source = opened
  BY DEF MoveInv, MoveTypes, CopyTable, CutTable, Under, Copying, MoveState
<1>2. dest \in Backend /\ dest # m.source BY <1>1 DEF Target, Backend
<1>3. /\ migrations' = [migrations EXCEPT ![s] = Sent(copied, "running")]
      /\ oddities' \in {oddities \cup SentOddity(m), oddities \cup SentOddity(m) \cup {"cut"}}
  BY DEF CopyTable, CutTable
<1>4. /\ copied \in MoveState /\ copied.step = "copy" /\ copied.source = m.source
      /\ copied.left = m.left \ {t} /\ copied.kept = m.kept /\ copied.counts = m.counts
      /\ copied.quiet = m.quiet
  BY <1>1 DEF MoveState
<1> HIDE DEF copied
<1>5. /\ migrations' \in [Start -> MoveState] /\ \A o \in Start \ {s} : migrations'[o] = migrations[o]
      /\ migrations'[s].step = "copy" /\ migrations'[s].source = m.source
      /\ migrations'[s].left = m.left \ {t} /\ migrations'[s].kept = m.kept
      /\ migrations'[s].counts = m.counts /\ migrations'[s].quiet = m.quiet
      /\ SentOddity(m) \subseteq {"dropped"}
  BY <1>1, <1>3, <1>4, SentFacts DEF Statuses
<1>6. PICK added \in SUBSET data[m.source][t] :
        /\ data' = [data EXCEPT ![dest][t] = @ \cup added]
        /\ added = data[m.source][t] \/ (dest = "boltdb" /\ "cut" \in oddities')
  <2>1. CASE CopyTable(s, t) BY <2>1 DEF CopyTable
  <2>2. CASE CutTable(s, t)
    <3>1. m.source = "postgres" /\ dest = "boltdb" /\ "cut" \in oddities'
      BY <2>2 DEF CutTable, Target
    <3> QED BY <2>2, <3>1 DEF CutTable
  <2> QED BY <2>1, <2>2
<1>7. /\ data' \in [Backend -> [Table -> SUBSET Row]] /\ data'[m.source] = data[m.source]
      /\ data'[dest][t] = data[dest][t] \cup added
      /\ \A u \in Table \ {t} : data'[dest][u] = data[dest][u]
  BY <1>1, <1>2, <1>6
<1>8. oddities' \subseteq Oddity /\ oddities \subseteq oddities' BY <1>1, <1>3, <1>5 DEF Oddity
<1>9. MoveTypes' BY <1>1, <1>5, <1>7, <1>8, MoveTypesKept
<1>10. MigrationKeepsRows' BY <1>1, <1>8, ReportKept DEF MoveInv
<1>11. StatusSettles' BY <1>5 DEF StatusSettles
<1>12. Target(s)' = dest /\ ClearedTables(s)' = ClearedTables(s) BY <1>5 DEF Target, ClearedTables
<1> HIDE DEF dest
<1>13. ASSUME "overlap" \notin oddities' PROVE KeptRows(s)' /\ ExactRows(s)' /\ TellsSuccess(s)'
  <2>1. KeptRows(s) /\ ExactRows(s) BY <1>8, <1>13 DEF MoveInv
  <2>2. ASSUME NEW u \in Table
        PROVE  /\ m.kept[u] \subseteq data'[m.source][u]
               /\ "cut" \notin oddities' /\ u \notin m.left \ {t} => m.kept[u] \subseteq data'[dest][u]
    <3>1. m.kept[u] \subseteq data[m.source][u] BY <1>1, <2>1 DEF KeptRows
    <3>2. "cut" \notin oddities' /\ u \notin m.left => m.kept[u] \subseteq data[dest][u]
      BY <1>1, <1>8, <2>1 DEF KeptRows, dest
    <3> QED BY <1>6, <1>7, <3>1, <3>2
  <2>3. KeptRows(s)' BY <1>5, <1>12, <2>2 DEF KeptRows
  <2>4. ASSUME m.quiet, NEW u \in Table
        PROVE  /\ m.counts[u] = Cardinality(data'[m.source][u])
               /\ u \in ClearedTables(s) => data'[dest][u] \subseteq data'[m.source][u]
               /\ u \notin m.left \ {t} /\ (dest = "postgres" \/ "cut" \notin oddities') =>
                    data'[m.source][u] \subseteq data'[dest][u]
    <3>1. /\ m.counts[u] = Cardinality(data[m.source][u])
          /\ u \in ClearedTables(s) => data[dest][u] \subseteq data[m.source][u]
          /\ u \notin m.left /\ (dest = "postgres" \/ "cut" \notin oddities') =>
               data[m.source][u] \subseteq data[dest][u]
      BY <1>1, <1>8, <2>1, <2>4 DEF ExactRows, dest
    <3> QED BY <1>6, <1>7, <3>1
  <2>5. ExactRows(s)' BY <1>5, <1>12, <2>4 DEF ExactRows
  <2>6. TellsSuccess(s)' BY <1>5 DEF TellsSuccess
  <2> QED BY <2>3, <2>5, <2>6
<1> QED BY <1>1, <1>5, <1>8, <1>9, <1>10, <1>11, <1>13, MoverKeeps

(* A goroutine that fails. *)
LEMMA FailedMove ==
    ASSUME MigrationConstants, MoveInv, NEW s \in Start, Under(s), migrations[s].source = opened,
           migrations' = [migrations EXCEPT ![s] = Failed(migrations[s])],
           data' \in [Backend -> [Table -> SUBSET Row]],
           oddities' = oddities \cup SentOddity(migrations[s]), UNCHANGED <<opened, status, result>>
    PROVE  MoveInv'
<1>1. /\ migrations \in [Start -> MoveState] /\ migrations[s] \in MoveState /\ MoveTypes
      /\ oddities \subseteq Oddity /\ status \in Statuses
  BY DEF MoveInv, MoveTypes
<1>2. /\ migrations' \in [Start -> MoveState] /\ \A o \in Start \ {s} : migrations'[o] = migrations[o]
      /\ migrations'[s].step = "drain" /\ migrations'[s].failed = TRUE
      /\ migrations'[s].source = opened
  BY <1>1, FailedFacts
<1>3. SentOddity(migrations[s]) \subseteq {"dropped"} BY DEF SentOddity
<1>4. oddities' \subseteq Oddity /\ oddities \subseteq oddities' BY <1>1, <1>3 DEF Oddity
<1>5. MoveTypes' BY <1>1, <1>2, <1>4, MoveTypesKept
<1>6. MigrationKeepsRows' BY <1>4, ReportKept DEF MoveInv
<1>7. StatusSettles' BY <1>2 DEF StatusSettles
<1>8. KeptRows(s)' /\ ExactRows(s)' /\ TellsSuccess(s)'
  BY <1>2 DEF KeptRows, ExactRows, TellsSuccess, Copying
<1> QED BY <1>1, <1>2, <1>4, <1>5, <1>6, <1>7, <1>8, MoverKeeps

LEMMA CopyFailsMove ==
    ASSUME MigrationConstants, MoveInv, NEW s \in Start, NEW t \in Table, CopyFails(s, t)
    PROVE  MoveInv'
<1>1. /\ data \in [Backend -> [Table -> SUBSET Row]] /\ migrations[s] \in MoveState
      /\ migrations[s].source = opened /\ Under(s)
  BY DEF MoveInv, MoveTypes, CopyFails, Under
<1>2. migrations[s].source \in Backend /\ Target(s) \in Backend BY <1>1 DEF MoveState, Target, Backend
<1>3. PICK written \in SUBSET data[migrations[s].source][t] :
        data' = [data EXCEPT ![Target(s)][t] = @ \cup written]
  BY DEF CopyFails
<1>4. data' \in [Backend -> [Table -> SUBSET Row]] BY <1>1, <1>2, <1>3
<1> QED BY <1>1, <1>4, FailedMove DEF CopyFails

LEMMA BeginVerifyMove ==
    ASSUME MigrationConstants, MoveInv, NEW s \in Start, BeginVerify(s)
    PROVE  MoveInv'
<1> DEFINE m == migrations[s]
           n == [m EXCEPT !.step = "verify"]
<1>1. /\ migrations \in [Start -> MoveState] /\ MoveTypes /\ oddities \subseteq Oddity
      /\ data \in [Backend -> [Table -> SUBSET Row]] /\ status \in Statuses
      /\ UNCHANGED <<opened, data, status, result>> /\ m.step = "copy" /\ Under(s) /\ Copying(s)
      /\ m \in MoveState /\ m.source = opened /\ m.left = {}
  BY DEF MoveInv, MoveTypes, BeginVerify, Under, Copying
<1>2. /\ n \in MoveState /\ n.step = "verify" /\ n.source = m.source /\ n.left = m.left
      /\ n.kept = m.kept /\ n.counts = m.counts /\ n.quiet = m.quiet
  BY <1>1 DEF MoveState, MoveSteps
<1>3. migrations' = [migrations EXCEPT ![s] = Sent(n, "verifying")] /\ oddities' = oddities \cup SentOddity(m)
  BY DEF BeginVerify
<1> HIDE DEF n
<1>4. /\ migrations' \in [Start -> MoveState] /\ \A o \in Start \ {s} : migrations'[o] = migrations[o]
      /\ migrations'[s].step = "verify" /\ migrations'[s].source = m.source
      /\ migrations'[s].left = m.left /\ migrations'[s].kept = m.kept
      /\ migrations'[s].counts = m.counts /\ migrations'[s].quiet = m.quiet
      /\ SentOddity(m) \subseteq {"dropped"}
  BY <1>1, <1>2, <1>3, SentFacts DEF Statuses
<1>5. /\ oddities' \subseteq Oddity /\ oddities \subseteq oddities'
      /\ "cut" \in oddities' => "cut" \in oddities
  BY <1>1, <1>3, <1>4 DEF Oddity
<1>6. MoveTypes' BY <1>1, <1>4, <1>5, MoveTypesKept
<1>7. MigrationKeepsRows' BY <1>1, <1>5, ReportKept DEF MoveInv
<1>8. StatusSettles' BY <1>4 DEF StatusSettles
<1>9. Target(s)' = Target(s) /\ ClearedTables(s)' = ClearedTables(s) BY <1>4 DEF Target, ClearedTables
<1>10. ASSUME "overlap" \notin oddities' PROVE KeptRows(s)' /\ ExactRows(s)' /\ TellsSuccess(s)'
  <2>1. KeptRows(s) /\ ExactRows(s) BY <1>5, <1>10 DEF MoveInv
  <2>2. KeptRows(s)' BY <1>1, <1>4, <1>5, <1>9, <2>1 DEF KeptRows
  <2>3. ExactRows(s)' BY <1>1, <1>4, <1>5, <1>9, <2>1 DEF ExactRows
  <2>4. TellsSuccess(s)' BY <1>4 DEF TellsSuccess
  <2> QED BY <2>2, <2>3, <2>4
<1> QED BY <1>1, <1>4, <1>5, <1>6, <1>7, <1>8, <1>10, MoverKeeps

(* What a migration alone that passes its verification reports. *)
LEMMA VerifiedRows ==
    ASSUME MigrationConstants, MoveTypes, NEW s \in Start, migrations[s].step = "verify", Verified(s),
           KeptRows(s), ExactRows(s), NEW t \in Table
    PROVE  /\ "cut" \notin oddities => migrations[s].kept[t] \subseteq data[Target(s)][t]
           /\ migrations[s].quiet =>
                LET source == data[migrations[s].source][t]
                    dest == data[Target(s)][t]
                IN \/ dest = source
                   \/ Target(s) = "postgres" /\ t = "app_admins" /\ source = {}
                   \/ Target(s) = "boltdb" /\ t = "identity_mappings" /\ "cut" \in oddities
<1> DEFINE m == migrations[s]
           source == data[m.source][t]
           dest == data[Target(s)][t]
<1>1. /\ m \in MoveState /\ m.source \in Backend /\ m.left = {} /\ Copying(s)
      /\ Target(s) \in Backend /\ source \in SUBSET Row /\ dest \in SUBSET Row
  BY DEF MoveTypes, MoveState, Copying, Target, Backend
<1>2. "cut" \notin oddities => m.kept[t] \subseteq dest BY <1>1 DEF KeptRows
<1>3. ASSUME m.quiet
      PROVE  \/ dest = source
             \/ Target(s) = "postgres" /\ t = "app_admins" /\ source = {}
             \/ Target(s) = "boltdb" /\ t = "identity_mappings" /\ "cut" \in oddities
  <2>1. /\ m.counts[t] = Cardinality(source)
        /\ t \in ClearedTables(s) => dest \subseteq source
        /\ Target(s) = "postgres" \/ "cut" \notin oddities => source \subseteq dest
    BY <1>1, <1>3 DEF ExactRows
  <2>2. IsFiniteSet(source) /\ IsFiniteSet(dest) BY <1>1, RowsFinite
  <2>3. \/ IF Target(s) = "postgres" THEN m.counts[t] = 0 ELSE t = "identity_mappings"
        \/ Cardinality(dest) = m.counts[t]
    BY DEF Verified, MigratedTables
  <2> HIDE DEF m, source, dest
  <2>4. CASE Target(s) = "postgres"
    <3>1. CASE t = "app_admins"
      <4>1. m.counts[t] = 0 => source = {} BY <2>1, <2>2, FS_EmptySet
      <4>2. Cardinality(dest) = Cardinality(source) => dest = source
        BY <2>1, <2>2, <2>4, FS_Subset
      <4> QED BY <2>1, <2>3, <2>4, <3>1, <4>1, <4>2
    <3>2. CASE t # "app_admins" BY <2>1, <2>4, <3>2 DEF ClearedTables
    <3> QED BY <3>1, <3>2
  <2>5. CASE Target(s) # "postgres"
    <3>1. Target(s) = "boltdb" BY <1>1, <2>5 DEF Backend
    <3>2. dest \subseteq source BY <2>1, <2>5 DEF ClearedTables
    <3>3. Cardinality(dest) = Cardinality(source) => dest = source BY <2>2, <3>2, FS_Subset
    <3> QED BY <2>1, <2>3, <2>5, <3>1, <3>2, <3>3
  <2> QED BY <2>4, <2>5
<1> QED BY <1>2, <1>3

LEMMA VerifyMove ==
    ASSUME MigrationConstants, MoveInv, NEW s \in Start, Verify(s)
    PROVE  MoveInv'
<1> DEFINE m == migrations[s]
           n == [m EXCEPT !.step = "drain"]
<1>1. /\ migrations \in [Start -> MoveState] /\ MoveTypes /\ oddities \subseteq Oddity
      /\ data \in [Backend -> [Table -> SUBSET Row]] /\ status \in Statuses
      /\ UNCHANGED <<opened, data, status>> /\ m.step = "verify" /\ Under(s)
      /\ m \in MoveState /\ m.source = opened /\ oddities' = oddities \cup SentOddity(m)
  BY DEF MoveInv, MoveTypes, Verify, Under
<1>2. CASE migrations' = [migrations EXCEPT ![s] = Failed(m)] /\ result' = result
  BY <1>1, <1>2, FailedMove
<1>3. CASE /\ Verified(s)
           /\ migrations' = [migrations EXCEPT ![s] = Sent(n, "completed")]
           /\ result' = [kept |-> m.kept, source |-> data[m.source], target |-> data[Target(s)],
                         to |-> Target(s), exact |-> m.quiet]
  <2>1. n \in MoveState /\ n.step = "drain" /\ n.source = opened /\ n.queue = m.queue
    BY <1>1 DEF MoveState, MoveSteps
  <2>2. SentOddity(n) = SentOddity(m) BY <2>1 DEF SentOddity
  <2> HIDE DEF n
  <2>3. /\ Sent(n, "completed") \in MoveState /\ Sent(n, "completed").step = "drain"
        /\ Sent(n, "completed").source = opened
        /\ \/ Sent(n, "completed").queue = Append(m.queue, "completed")
           \/ "dropped" \in SentOddity(m)
        /\ SentOddity(m) \subseteq {"dropped"}
    BY <2>1, <2>2, SentFacts DEF Statuses
  <2>4. /\ migrations' \in [Start -> MoveState] /\ \A o \in Start \ {s} : migrations'[o] = migrations[o]
        /\ migrations'[s].step = "drain" /\ migrations'[s].source = opened
        /\ \/ migrations'[s].queue = Append(m.queue, "completed") \/ "dropped" \in oddities'
    BY <1>1, <1>3, <2>3
  <2>5. /\ oddities' \subseteq Oddity /\ oddities \subseteq oddities'
        /\ "cut" \in oddities' => "cut" \in oddities
    BY <1>1, <2>3 DEF Oddity
  <2>6. MoveTypes' BY <1>1, <2>4, <2>5, MoveTypesKept
  <2>7. MigrationKeepsRows'
    <3> SUFFICES ASSUME "overlap" \notin oddities', NEW t \in Table
                 PROVE  /\ "cut" \notin oddities' => result'.kept[t] \subseteq result'.target[t]
                        /\ result'.exact =>
                             \/ result'.target[t] = result'.source[t]
                             \/ result'.to = "postgres" /\ t = "app_admins" /\ result'.source[t] = {}
                             \/ result'.to = "boltdb" /\ t = "identity_mappings" /\ "cut" \in oddities'
      BY DEF MigrationKeepsRows
    <3>1. KeptRows(s) /\ ExactRows(s) BY <2>5 DEF MoveInv
    <3>2. /\ "cut" \notin oddities => m.kept[t] \subseteq data[Target(s)][t]
          /\ m.quiet =>
               \/ data[Target(s)][t] = data[m.source][t]
               \/ Target(s) = "postgres" /\ t = "app_admins" /\ data[m.source][t] = {}
               \/ Target(s) = "boltdb" /\ t = "identity_mappings" /\ "cut" \in oddities
      BY <1>1, <1>3, <3>1, VerifiedRows
    <3>3. /\ result'.kept = m.kept /\ result'.source = data[m.source] /\ result'.target = data[Target(s)]
          /\ result'.to = Target(s) /\ result'.exact = m.quiet
      BY <1>3
    <3> QED BY <2>5, <3>2, <3>3
  <2>8. StatusSettles' BY <2>4 DEF StatusSettles
  <2>9. result' # NoResult'
    <3>1. result'.to = Target(s) BY <1>3
    <3>2. Target(s) # "none" /\ NoResult'.to = "none" BY DEF Target, NoResult
    <3> QED BY <3>1, <3>2
  <2>10. TellsSuccess(s)'
    <3>1. CASE "dropped" \in oddities' BY <2>9, <3>1 DEF TellsSuccess
    <3>2. CASE migrations'[s].queue = Append(m.queue, "completed")
      <4> DEFINE q == Append(m.queue, "completed")
      <4>1. m.queue \in Seq(Statuses) BY <1>1 DEF MoveState
      <4>2. q # <<>> /\ q[Len(q)] = "completed" BY <4>1 DEF Statuses
      <4> HIDE DEF q
      <4>3. migrations'[s].queue = q BY <3>2 DEF q
      <4> QED BY <2>9, <4>2, <4>3 DEF TellsSuccess
    <3> QED BY <2>4, <3>1, <3>2
  <2>11. KeptRows(s)' /\ ExactRows(s)' BY <2>4 DEF KeptRows, ExactRows, Copying
  <2> QED BY <1>1, <2>4, <2>5, <2>6, <2>7, <2>8, <2>10, <2>11, MoverKeeps
<1> QED BY <1>2, <1>3 DEF Verify

-----------------------------------------------------------------------------
(* consumeStatus, and the end of the goroutine. *)

(* The last status stays the last while the channel is read. *)
LEMMA LastOfTail ==
    ASSUME NEW S, NEW q \in Seq(S), q # <<>>
    PROVE  \/ Len(q) = 1 /\ Tail(q) = <<>> /\ Head(q) = q[Len(q)]
           \/ Tail(q) # <<>> /\ Tail(q)[Len(Tail(q))] = q[Len(q)]
<1>1. Len(q) \in Nat \ {0} OBVIOUS
<1>2. Tail(q) \in Seq(S) /\ Len(Tail(q)) = Len(q) - 1 BY <1>1
<1>3. CASE Len(q) = 1
  <2>1. \A s \in Seq(S) : Len(s) = 0 => s = <<>> OBVIOUS
  <2>2. Len(Tail(q)) = 0 BY <1>2, <1>3
  <2>3. Tail(q) = <<>> BY <1>2, <2>1, <2>2, Zenon
  <2> QED BY <1>3, <2>3
<1>4. CASE Len(q) # 1
  <2>1. Len(q) - 1 \in 1 .. Len(Tail(q)) BY <1>1, <1>2, <1>4
  <2>2. \A i \in 1 .. Len(Tail(q)) : Tail(q)[i] = q[i + 1] BY HeadTailProperties
  <2>3. Tail(q)[Len(q) - 1] = q[(Len(q) - 1) + 1] BY <2>1, <2>2
  <2>4. (Len(q) - 1) + 1 = Len(q) BY <1>1
  <2>5. Tail(q) # <<>>
    <3>1. Len(Tail(q)) # 0 BY <1>1, <1>2, <1>4
    <3>2. Len(<<>>) = 0 OBVIOUS
    <3> QED BY <3>1, <3>2, Zenon
  <2> QED BY <1>2, <2>3, <2>4, <2>5
<1> QED BY <1>3, <1>4

LEMMA ConsumedMove ==
    ASSUME MigrationConstants, MoveInv, NEW s \in Start, ConsumeStatus(s)
    PROVE  MoveInv'
<1> DEFINE m == migrations[s]
           n == [m EXCEPT !.queue = Tail(@)]
<1>1. /\ migrations \in [Start -> MoveState] /\ MoveTypes /\ oddities \subseteq Oddity
      /\ data \in [Backend -> [Table -> SUBSET Row]]
      /\ UNCHANGED <<opened, data, result, oddities>> /\ m \in MoveState
      /\ m.queue \in Seq(Statuses) /\ m.queue # <<>> /\ status' = Head(m.queue)
      /\ migrations' = [migrations EXCEPT ![s] = n]
  BY DEF MoveInv, MoveTypes, ConsumeStatus, MoveState
<1>2. m.step \in {"copy", "verify", "drain"} /\ Under(s) /\ m.source = opened
      /\ (m.step = "verify" => m.left = {})
  BY <1>1, NoMigrationFacts DEF MoveTypes, MoveState, MoveSteps, Under
<1>3. /\ n \in MoveState /\ n.step = m.step /\ n.source = m.source /\ n.counts = m.counts
      /\ n.left = m.left /\ n.failed = m.failed /\ n.kept = m.kept /\ n.quiet = m.quiet
      /\ n.queue = Tail(m.queue)
  <2>1. Tail(m.queue) \in Seq(Statuses) BY <1>1
  <2> QED BY <1>1, <2>1 DEF MoveState
<1> HIDE DEF n
<1>4. /\ migrations' \in [Start -> MoveState] /\ \A o \in Start \ {s} : migrations'[o] = migrations[o]
      /\ migrations'[s] = n
  BY <1>1, <1>3
<1>5. status' \in Statuses BY <1>1
<1>6. MoveTypes' BY <1>1, <1>2, <1>3, <1>4, <1>5, MoveTypesKept
<1>7. MigrationKeepsRows' BY <1>1, ReportKept DEF MoveInv
<1>8. StatusSettles' BY <1>2, <1>3, <1>4 DEF StatusSettles
<1>9. Target(s)' = Target(s) /\ ClearedTables(s)' = ClearedTables(s)
  BY <1>3, <1>4 DEF Target, ClearedTables
<1>10. ASSUME "overlap" \notin oddities' PROVE KeptRows(s)' /\ ExactRows(s)' /\ TellsSuccess(s)'
  <2>1. KeptRows(s) /\ ExactRows(s) /\ TellsSuccess(s) BY <1>1, <1>10 DEF MoveInv
  <2>2. KeptRows(s)' BY <1>1, <1>3, <1>4, <1>9, <2>1 DEF KeptRows, Copying
  <2>3. ExactRows(s)' BY <1>1, <1>3, <1>4, <1>9, <2>1 DEF ExactRows, Copying
  <2>4. TellsSuccess(s)'
    <3> SUFFICES ASSUME m.step = "drain", ~m.failed, "dropped" \notin oddities
                 PROVE  \/ Tail(m.queue) = <<>> /\ status' = "completed"
                        \/ Tail(m.queue) # <<>> /\ Tail(m.queue)[Len(Tail(m.queue))] = "completed"
      <4>1. m.step = "drain" /\ ~m.failed => result # NoResult BY <2>1 DEF TellsSuccess
      <4>2. NoResult' = NoResult BY DEF NoResult
      <4> QED BY <1>1, <1>3, <1>4, <4>1, <4>2 DEF TellsSuccess
    <3>1. m.queue[Len(m.queue)] = "completed" BY <1>1, <2>1 DEF TellsSuccess
    <3>2. \/ Tail(m.queue) = <<>> /\ Head(m.queue) = m.queue[Len(m.queue)]
          \/ Tail(m.queue) # <<>> /\ Tail(m.queue)[Len(Tail(m.queue))] = m.queue[Len(m.queue)]
      BY <1>1, LastOfTail
    <3> QED BY <1>1, <3>1, <3>2
  <2> QED BY <2>2, <2>3, <2>4
<1> QED BY <1>1, <1>2, <1>4, <1>6, <1>7, <1>8, <1>10, MoverKeeps

LEMMA EndedMove ==
    ASSUME MigrationConstants, MoveInv, NEW s \in Start, EndMigration(s)
    PROVE  MoveInv'
<1>1. /\ migrations \in [Start -> MoveState] /\ MoveTypes /\ oddities \subseteq Oddity
      /\ data \in [Backend -> [Table -> SUBSET Row]] /\ status \in Statuses
      /\ UNCHANGED <<opened, data, result, oddities>> /\ Under(s)
      /\ migrations[s].step = "drain" /\ migrations[s].queue = <<>>
      /\ status' = IF migrations[s].failed THEN "failed" ELSE status
      /\ migrations' = [migrations EXCEPT ![s] = NoMigration]
  BY DEF MoveInv, MoveTypes, EndMigration, Under
<1>2. /\ migrations' \in [Start -> MoveState] /\ \A o \in Start \ {s} : migrations'[o] = migrations[o]
      /\ migrations'[s] = NoMigration /\ migrations'[s].step = "none"
      /\ status' \in Statuses
  BY <1>1, NoMigrationFacts DEF Statuses
<1>3. MoveTypes' BY <1>1, <1>2, MoveTypesKept
<1>4. MigrationKeepsRows' BY <1>1, ReportKept DEF MoveInv
<1>5. StatusSettles'
  <2> SUFFICES ASSUME "overlap" \notin oddities, ~migrations[s].failed
               PROVE  status' = "completed" \/ ("dropped" \in oddities /\ result # NoResult)
    <3>1. NoResult' = NoResult BY DEF NoResult
    <3> QED BY <1>1, <3>1 DEF StatusSettles
  <2>1. TellsSuccess(s) BY DEF MoveInv
  <2> QED BY <1>1, <2>1 DEF TellsSuccess
<1>6. KeptRows(s)' /\ ExactRows(s)' /\ TellsSuccess(s)'
  BY <1>2 DEF KeptRows, ExactRows, TellsSuccess, Copying
<1> QED BY <1>1, <1>2, <1>3, <1>4, <1>5, <1>6, MoverKeeps

-----------------------------------------------------------------------------
(* The server around it. *)

LEMMA WrittenMove ==
    ASSUME MigrationConstants, MoveInv, NEW t \in Table, NEW r \in Row, WriteRow(t, r)
    PROVE  MoveInv'
<1>1. /\ migrations \in [Start -> MoveState] /\ MoveTypes
      /\ data \in [Backend -> [Table -> SUBSET Row]] /\ opened \in Backend
      /\ UNCHANGED <<opened, status, result, oddities>>
  BY DEF MoveInv, MoveTypes, WriteRow
<1>2. PICK rows \in SUBSET Row :
        /\ data' = [data EXCEPT ![opened][t] = rows]
        /\ migrations' = [s \in Start |->
             IF migrations[s].step \in {"copy", "verify"}
             THEN [migrations[s] EXCEPT !.kept[t] = @ \cap rows, !.quiet = FALSE]
             ELSE migrations[s]]
  <2> DEFINE rows == IF r \in data[opened][t] THEN data[opened][t] \ {r} ELSE data[opened][t] \cup {r}
  <2>1. rows \in SUBSET Row BY <1>1
  <2> QED BY <2>1 DEF WriteRow
<1>3. /\ data' \in [Backend -> [Table -> SUBSET Row]] /\ data'[opened][t] = rows
      /\ \A u \in Table \ {t} : data'[opened][u] = data[opened][u]
      /\ \A b \in Backend \ {opened} : data'[b] = data[b]
  BY <1>1, <1>2
<1>4. ASSUME NEW s \in Start, Copying(s)
      PROVE  /\ migrations'[s] \in MoveState
             /\ migrations'[s].step = migrations[s].step /\ migrations'[s].source = migrations[s].source
             /\ migrations'[s].left = migrations[s].left /\ migrations'[s].quiet = FALSE
             /\ migrations'[s].kept[t] = migrations[s].kept[t] \cap rows
             /\ \A u \in Table \ {t} : migrations'[s].kept[u] = migrations[s].kept[u]
  <2> DEFINE m == migrations[s]
             m1 == [m EXCEPT !.kept[t] = @ \cap rows]
             m2 == [m1 EXCEPT !.quiet = FALSE]
  <2>1. m \in MoveState BY <1>1
  <2>2. migrations'[s] = m2 BY <1>2, <1>4 DEF Copying
  <2>3. [m.kept EXCEPT ![t] = @ \cap rows] \in [Table -> SUBSET Row] BY <2>1 DEF MoveState
  <2>4. /\ m1 \in MoveState /\ m1.step = m.step /\ m1.source = m.source /\ m1.left = m.left
        /\ m1.kept = [m.kept EXCEPT ![t] = @ \cap rows]
    BY <2>1, <2>3 DEF MoveState
  <2> HIDE DEF m1
  <2>5. /\ m2 \in MoveState /\ m2.step = m.step /\ m2.source = m.source /\ m2.left = m.left
        /\ m2.kept = [m.kept EXCEPT ![t] = @ \cap rows] /\ m2.quiet = FALSE
    BY <2>4 DEF MoveState
  <2> HIDE DEF m2
  <2>6. m.kept \in [Table -> SUBSET Row] BY <2>1 DEF MoveState
  <2> QED BY <2>2, <2>5, <2>6
<1>5. ASSUME NEW s \in Start, ~Copying(s) PROVE migrations'[s] = migrations[s]
  BY <1>2, <1>5 DEF Copying
<1>6. migrations' \in [Start -> MoveState] /\ \A s \in Start : migrations'[s].step = migrations[s].step
  <2>1. ASSUME NEW s \in Start
        PROVE  migrations'[s] \in MoveState /\ migrations'[s].step = migrations[s].step
    BY <1>1, <1>4, <1>5
  <2> DEFINE g(s) == IF migrations[s].step \in {"copy", "verify"}
                     THEN [migrations[s] EXCEPT !.kept[t] = @ \cap rows, !.quiet = FALSE]
                     ELSE migrations[s]
  <2>2. migrations' = [s \in Start |-> g(s)] BY <1>2
  <2> HIDE DEF g
  <2> QED BY <2>1, <2>2
<1>7. MoveTypes'
  <2>1. /\ Backend' = Backend /\ MoveState' = MoveState /\ Statuses' = Statuses /\ Oddity' = Oddity
        /\ NoMigration' = NoMigration
    BY DEF Backend, MoveState, MoveSteps, Statuses, Oddity, NoMigration
  <2>2. ASSUME NEW s \in Start
        PROVE  /\ migrations'[s].step = "none" => migrations'[s] = NoMigration
               /\ migrations'[s].step \in {"mark", "open", "clear"} => migrations'[s].queue = <<>>
               /\ migrations'[s].step \in {"clear", "copy", "verify", "drain"} =>
                    migrations'[s].source = opened
               /\ migrations'[s].step = "verify" => migrations'[s].left = {}
    <3>1. CASE Copying(s) BY <1>1, <1>4, <3>1 DEF MoveTypes, Copying
    <3>2. CASE ~Copying(s) BY <1>1, <1>5, <3>2 DEF MoveTypes
    <3> QED BY <3>1, <3>2
  <2>3. opened' \in Backend' \cup {"none"} /\ status' \in Statuses' /\ oddities' \subseteq Oddity'
    BY <1>1, <2>1 DEF MoveTypes
  <2> QED BY <1>1, <1>3, <1>6, <2>1, <2>2, <2>3 DEF MoveTypes
<1>8. MigrationKeepsRows' BY <1>1, ReportKept DEF MoveInv
<1>9. StatusSettles'
  <2>1. NoResult' = NoResult BY DEF NoResult
  <2> QED BY <1>1, <1>6, <2>1 DEF StatusSettles, MoveInv
<1>10. MovesAlone => MovesAlone' BY <1>6 DEF MovesAlone, Under
<1>11. ASSUME "overlap" \notin oddities, NEW s \in Start, Copying(s) PROVE (KeptRows(s) /\ ExactRows(s))'
  <2>1. KeptRows(s) BY <1>11 DEF MoveInv
  <2>2. migrations[s].source = opened /\ Target(s)' = Target(s) /\ Target(s) \in Backend \ {opened}
    BY <1>1, <1>4, <1>11 DEF MoveTypes, Copying, Target, Backend
  <2>3. ASSUME NEW u \in Table
        PROVE  /\ migrations'[s].kept[u] \subseteq data'[opened][u]
               /\ "cut" \notin oddities /\ u \notin migrations[s].left =>
                    migrations'[s].kept[u] \subseteq data'[Target(s)][u]
    <3>1. /\ migrations[s].kept[u] \subseteq data[opened][u]
          /\ "cut" \notin oddities /\ u \notin migrations[s].left =>
               migrations[s].kept[u] \subseteq data[Target(s)][u]
      BY <1>11, <2>1, <2>2 DEF KeptRows
    <3>2. CASE u = t BY <1>3, <1>4, <1>11, <2>2, <3>1, <3>2
    <3>3. CASE u # t BY <1>3, <1>4, <1>11, <2>2, <3>1, <3>3
    <3> QED BY <3>2, <3>3
  <2>4. KeptRows(s)' BY <1>1, <1>4, <1>11, <2>2, <2>3 DEF KeptRows
  <2>5. ExactRows(s)' BY <1>4, <1>11 DEF ExactRows
  <2> QED BY <2>4, <2>5
<1>12. ASSUME "overlap" \notin oddities, NEW s \in Start
       PROVE  (KeptRows(s) /\ ExactRows(s) /\ TellsSuccess(s))'
  <2>1. CASE Copying(s)
    <3>1. TellsSuccess(s)' BY <1>6, <2>1 DEF TellsSuccess, Copying
    <3> QED BY <1>11, <1>12, <2>1, <3>1
  <2>2. CASE ~Copying(s)
    <3>1. TellsSuccess(s) /\ NoResult' = NoResult BY <1>12 DEF MoveInv, NoResult
    <3>2. TellsSuccess(s)' BY <1>1, <1>5, <2>2, <3>1 DEF TellsSuccess
    <3> QED BY <1>5, <2>2, <3>2 DEF KeptRows, ExactRows, Copying
  <2> QED BY <2>1, <2>2
<1> QED BY <1>1, <1>7, <1>8, <1>9, <1>10, <1>12 DEF MoveInv

LEMMA MovesInit ==
    ASSUME MigrationConstants, MigrationInit
    PROVE  MoveInv
<1>1. PICK live \in [Table -> FirstRows], old \in [Table -> OldRows] :
        data = [b \in Backend |-> IF b = opened THEN live ELSE old]
  BY DEF MigrationInit
<1>2. live \in [Table -> SUBSET Row] /\ old \in [Table -> SUBSET Row] BY DEF MigrationConstants
<1>3. data \in [Backend -> [Table -> SUBSET Row]] BY <1>1, <1>2
<1>4. MoveTypes BY <1>3, NoMigrationFacts DEF MoveTypes, MigrationInit, Statuses, Oddity
<1>5. MigrationKeepsRows BY DEF MigrationKeepsRows, MigrationInit, NoResult
<1>6. StatusSettles BY DEF StatusSettles, MigrationInit
<1>7. \A s \in Start : migrations[s].step = "none" BY NoMigrationFacts DEF MigrationInit
<1>8. MovesAlone BY <1>7 DEF MovesAlone, Under
<1>9. \A s \in Start : KeptRows(s) /\ ExactRows(s) /\ TellsSuccess(s)
  BY <1>7 DEF KeptRows, ExactRows, TellsSuccess, Copying
<1> QED BY <1>4, <1>5, <1>6, <1>8, <1>9 DEF MoveInv

(* A start of the server finds no migration and no report. *)
LEMMA RestartedMoves ==
    ASSUME MoveInv, StartServer
    PROVE  MoveInv'
<1>1. /\ opened' \in Backend \cup {"none"} /\ status' = "idle" /\ result' = NoResult
      /\ oddities' = {} /\ migrations' = [s \in Start |-> NoMigration] /\ data' = data
      /\ data \in [Backend -> [Table -> SUBSET Row]]
  BY DEF StartServer, OpenSmart, Backend, MoveInv, MoveTypes
<1>2. /\ Backend' = Backend /\ NoMigration' = NoMigration /\ Statuses' = Statuses
      /\ Oddity' = Oddity /\ MoveState' = MoveState
  BY DEF Backend, NoMigration, Statuses, Oddity, MoveState, MoveSteps
<1>3. \A s \in Start : migrations'[s] = NoMigration /\ migrations'[s].step = "none"
  BY <1>1, NoMigrationFacts
<1>4. MoveTypes' BY <1>1, <1>2, <1>3, NoMigrationFacts DEF MoveTypes, Statuses
<1>5. MigrationKeepsRows' BY <1>1 DEF MigrationKeepsRows, NoResult
<1>6. StatusSettles' BY <1>1 DEF StatusSettles
<1>7. MovesAlone' BY <1>3 DEF MovesAlone, Under
<1>8. ASSUME NEW s \in Start PROVE (KeptRows(s) /\ ExactRows(s) /\ TellsSuccess(s))'
  BY <1>3 DEF KeptRows, ExactRows, TellsSuccess, Copying
<1>9. (\A s \in Start : KeptRows(s) /\ ExactRows(s) /\ TellsSuccess(s))' BY <1>8
<1> QED BY <1>4, <1>5, <1>6, <1>7, <1>9 DEF MoveInv

(* What the switch, the database and the silence change is not of migrations. *)
LEMMA MovesUntouched ==
    ASSUME MoveInv, UNCHANGED <<opened, data, status, migrations, result, oddities>>
    PROVE  MoveInv'
<1>1. /\ Backend' = Backend /\ MoveState' = MoveState /\ Statuses' = Statuses /\ Oddity' = Oddity
      /\ NoMigration' = NoMigration /\ NoResult' = NoResult
  BY DEF Backend, MoveState, MoveSteps, Statuses, Oddity, NoMigration, NoResult
<1>2. MoveTypes' BY <1>1 DEF MoveInv, MoveTypes
<1>3. MigrationKeepsRows' BY ReportKept DEF MoveInv
<1>4. StatusSettles' BY <1>1 DEF MoveInv, StatusSettles
<1>5. MovesAlone => MovesAlone' BY DEF MovesAlone, Under
<1>6. ASSUME NEW s \in Start, KeptRows(s), ExactRows(s), TellsSuccess(s)
      PROVE  (KeptRows(s) /\ ExactRows(s) /\ TellsSuccess(s))'
  <2>1. Target(s)' = Target(s) /\ ClearedTables(s)' = ClearedTables(s) BY DEF Target, ClearedTables
  <2>2. KeptRows(s)' BY <1>6, <2>1 DEF KeptRows, Copying
  <2>3. ExactRows(s)' BY <1>6, <2>1 DEF ExactRows, Copying
  <2>4. TellsSuccess(s)' BY <1>1, <1>6 DEF TellsSuccess
  <2> QED BY <2>2, <2>3, <2>4
<1> QED BY <1>2, <1>3, <1>4, <1>5, <1>6 DEF MoveInv

LEMMA MoveStep ==
    ASSUME MigrationConstants, MoveInv, [MigrationNext]_migrationVars
    PROVE  MoveInv'
<1>1. ASSUME NEW s \in Start, NEW b \in Backend, CheckNotRunning(s, b) PROVE MoveInv'
  BY <1>1, CheckedMove
<1>2. ASSUME NEW s \in Start, MarkRunning(s) \/ OpenTarget(s) PROVE MoveInv' BY <1>2, StartedMove
<1>3. ASSUME NEW s \in Start, ClearAndCount(s) PROVE MoveInv' BY <1>3, ClearedMove
<1>4. ASSUME NEW s \in Start, NEW t \in Table, CopyTable(s, t) \/ CutTable(s, t) PROVE MoveInv'
  BY <1>4, CopiedMove
<1>5. ASSUME NEW s \in Start, NEW t \in Table, CopyFails(s, t) PROVE MoveInv' BY <1>5, CopyFailsMove
<1>6. ASSUME NEW s \in Start, BeginVerify(s) PROVE MoveInv' BY <1>6, BeginVerifyMove
<1>7. ASSUME NEW s \in Start, Verify(s) PROVE MoveInv' BY <1>7, VerifyMove
<1>8. ASSUME NEW s \in Start, ConsumeStatus(s) PROVE MoveInv' BY <1>8, ConsumedMove
<1>9. ASSUME NEW s \in Start, EndMigration(s) PROVE MoveInv' BY <1>9, EndedMove
<1>10. ASSUME NEW t \in Table, NEW r \in Row, WriteRow(t, r) PROVE MoveInv' BY <1>10, WrittenMove
<1>11. ASSUME NEW b \in Backend, SwitchBackend(b) PROVE MoveInv'
  BY <1>11, MovesUntouched DEF SwitchBackend
<1>12. CASE StartServer BY <1>12, RestartedMoves
<1>13. CASE PostgresChanges BY <1>13, MovesUntouched DEF PostgresChanges
<1>14. CASE UNCHANGED migrationVars BY <1>14, MovesUntouched DEF migrationVars
<1> QED
  BY <1>1, <1>2, <1>3, <1>4, <1>5, <1>6, <1>7, <1>8, <1>9, <1>10, <1>11, <1>12, <1>13, <1>14
  DEF MigrationNext

(***************************************************************************)
(* In every reachable state a migration has its source in the backend in   *)
(* use, the rows kept since its count where it found and where it copied   *)
(* them, and its last status on the way to the administrator, as long as   *)
(* no other runs beside it (handleMigrateStart, MigrateToPostgres,         *)
(* MigrateFromPostgres, consumeStatus).                                    *)
(***************************************************************************)
THEOREM MoveInvariant == MigrationSpec => []MoveInv
<1>1. MigrationInit => MoveInv BY MigrationConstants, MovesInit
<1>2. MoveInv /\ [MigrationNext]_migrationVars => MoveInv' BY MigrationConstants, MoveStep
<1> QED BY <1>1, <1>2, PTL DEF MigrationSpec

(***************************************************************************)
(* A migration alone that reports completion has every row the source held *)
(* from the count on, and with nothing written meanwhile the target holds  *)
(* what the source holds, for any tables, rows and order of the requests   *)
(* around it (MigrateToPostgres, MigrateFromPostgres).                     *)
(***************************************************************************)
THEOREM KeepsRows == MigrationSpec => []MigrationKeepsRows
<1>1. MoveInv => MigrationKeepsRows BY DEF MoveInv
<1> QED BY <1>1, MoveInvariant, PTL

(***************************************************************************)
(* With no migration left the status is a final one, for a channel of any  *)
(* capacity, unless a request was turned away after it had set the status  *)
(* or the report of a success did not fit the channel (handleMigrateStart, *)
(* consumeStatus).                                                         *)
(***************************************************************************)
THEOREM Settles == MigrationSpec => []StatusSettles
<1>1. MoveInv => StatusSettles BY DEF MoveInv
<1> QED BY <1>1, MoveInvariant, PTL

=============================================================================
