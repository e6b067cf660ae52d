# A TLA+ development of SimpleAuth

SimpleAuth is one Go process that authenticates users (local passwords, a directory over LDAP, Kerberos), issues JSON
Web Tokens and OpenID Connect codes to apps, keeps browser sessions shared between apps, and is administered over
HTTP. Every HTTP request is a goroutine. All durable state is in a key-value store, BoltDB (`internal/store/bolt.go`) or
Postgres (`internal/store/postgres.go`). **Each call on the store is one transaction; a handler makes several of them,
and nothing holds the state still in between.** That is what the modules are about: a handler is split at its
calls on the store, and the steps of different requests interleave.

Contents: 1 inventory, 2 modules, 3 runs, 4 fairness, 5 proofs, 6 disagreements with the documentation, 7 behaviour
left out of a property by name, 8 what is abstracted or not modelled, 9 plan.

## 1. Inventory

`PROJECT.json` lists the same components with their files and status.

| Component | State | Operations | Interacts with | What is hard | What makes it correct |
|---|---|---|---|---|---|
| Refresh and access tokens (`handler/auth.go`, `oidc.go`, `auth/jwt.go`) | rows of `refresh_tokens`, `revoked_users`; signed claims outside the server | issue, rotate (two endpoints), replay, impersonate, revoke, prune | users, apps, every login | rotation is two transactions; revocation deletes rows that exist *now*; three lifetimes | one live token per family; a replay ends the family; revoked stays revoked |
| Shared browser sessions (`session_sso.go`, `hosted_login.go`) | bucket `sessions`, cookie `__sa_sso` | create at login, resolve at a visit, touch, sign out | users, revocation entries, codes | a visit is six store calls, one may wait for the directory | deleted stays deleted; limits hold; disabled accounts get nothing |
| Authorization codes (`oidc.go`) | bucket `oidc_auth_codes` | save, consume, prune | sessions, tokens | concurrent exchanges, expiry | one exchange at most, none after expiry |
| User records, lockout, passwords (`auth.go`, `admin.go`, `account.go`, `auth/local.go`) | one JSON document per user | login, lock, disable, unlock, edit, passwords, delete | login, every handler that reads a user | whole-document read-modify-write without a version | lock and count agree; deletion and disabling are final |
| Merged accounts (`admin.go`, `bolt.go`) | `merged_into` of users | merge, unmerge, resolve | mappings, tokens, sessions | identifiers held elsewhere go on naming the source | chains end; tokens and sessions follow or end |
| Identity mappings (`bolt.go`, `postgres.go`) | forward bucket and derived reverse index; one table in Postgres | set, delete, move on merge, cascade, repair at open | login, apps, merges | two structures that must agree; old data; composite keys | the index is the inverse of the forward bucket; both backends behave the same |
| Login and directory (`auth.go`, `admin_ldap.go`, `auth/ldap.go`) | mappings, `dircheck:` timestamps in memory and in the store | authenticate, provision on first login, import, re-check, outage policy | mappings, user records | slow external calls between reads and writes; two clocks of one check | one record per person; an outage is judged by the last check that succeeded |
| Apps, authorisation, app administrators, local users (`admin_apps.go`, `app_admin.go`, `app_selfservice.go`) | buckets of apps, authorisations and administrators; user records with an owner | create, update, rotate, delete with cascade, local users | mappings, tokens | cascades against concurrent creation; whole documents | nothing of a deleted app survives under a reused id; no half users; a rotation ends older tokens |
| Rate limiter (`middleware.go`) | counters in memory | allow, configure, clean up | settings | windows, changes while counting | never more than the limit per window |
| Runtime settings (`admin_settings.go`) | document in the store, cache, limiter | read, versioned save | limiter, all handlers, restore | three copies | the three agree; a stale save is refused |
| Backend migration and switch (`store/migrate.go`, `admin_migration.go`, `dbconfig.go`) | status in memory, `db.json`, two stores | start, copy, verify, switch | restart | check-then-set; a live source; early returns; a channel that drops | what is reported complete is complete; the status settles |
| Migration to a central server (`migrate/bundle.go`, `migration_*.go`) | one-time token, bundle | preflight, commit | apps, local users | applied step by step, without a transaction | a token is good once; no user twice; the report comes true |
| Signing key and its clients (`auth/jwt.go`, `sdk/go/simpleauth.go`) | key files; the clients' copies of the published set | create, load, publish, fetch, verify | every token | goroutines that share a cache, slow answers | a live token is honoured; a withdrawn key is not trusted for long |
| Directory and Kerberos setup (`admin_ldap.go`, `admin_kerberos.go`) | LDAP row, service principal, keytab file, Kerberos row | configure, set up, set up again, clean up | the directory | four places written one after the other | a clean run settles what is accepted |
| Backup, restore, restart (`bolt.go`, `main.go`) | database file and handle | swap file, reopen, serve again | everything | copies in memory of what was replaced | see settings and migration |
| Stored secrets, configuration, audit, web pages, other SDKs | forms, append-only log | — | — | sequential | not modelled; reasons in `PROJECT.json` |

The hazards (each at the line where it bites) are in `PROJECT.json`; the properties were chosen from them.

## 2. Modules

A state variable named like a bucket is that bucket. `req[r]` (in the later modules `calls[c]`, `logins[c]`,
`commits[c]`, ...) is the local state of the goroutine that serves a request: the stage it has reached and what it has
read. One action is one store transaction of a handler together with the computation up to the next one. A stage name
says what the handler does *next*.

| Module | Models | How it corresponds |
|---|---|---|
| `Accounts` | users as sessions and tokens see them | `account` (row, `Disabled`), `mergedInto`; each operation is one transaction. Extended by `RefreshTokens` and `SsoSessions` |
| `SessionFamilies` | abstract: what a session is worth | a family is none, live, rotating or over; over is final |
| `RefreshTokens` | issue, rotation, replay, impersonation, revocations, logouts, deletion, merges, pruning, crashes | `Present`, `ConsumeRefreshToken`, `ResolveAccount`, `CheckAccessRevoked`, `IssueSuccessor` are `handleRefresh`/`handleOIDCTokenRefresh` between store calls; `RevokeSessions`–`KillAccess` is `handleRevokeSessions`; `DeleteUser`–`KillDeleted`–`DropDeleted` is `handleDeleteUser` |
| `PostgresMappings` | abstract: one relation mapping → user | the SQL of `postgres.go` |
| `IdentityMappings` | BoltDB's forward bucket and reverse index | one action per transaction of `bolt.go`, `Open` with `repairMappingIndex` starting from data an earlier version left |
| `UserAccounts` | the record of one user under concurrent handlers and changing settings | `setting` is what the runtime settings say of lockout and history, `ChangeSettings` a PUT of them at any moment; `row` is the document, `copy[r]` what a handler read and will write back; `Begin`, `LoginRead`, `VerifyLocal`/`VerifyLDAP`, `RecordFailedLogin`, `FinalRead`, `ClearAttempts`, `SyncUserFromLDAP` are `authenticateUser` |
| `OneTimeCodes` | abstract: codes unissued, pending, over | an exchange happens from pending only |
| `SsoSessions` | sessions, codes, and every operation that signs a user out | a visit is `GetSession`, `CheckAccount`, `CheckAccessRevoked`, `TouchSession` (`resolveSessionCookie`), `FinalCheck` (its caller); a login is `Login`, `CreateSession`, `SaveOIDCAuthCode`/`IssueTokens`; an exchange is `ConsumeOIDCAuthCode`, `RedeemCode`, `IssueTokens`; a sign-out is `BlockAccess` (where the handler does it), `DeleteUserSessions` |
| `RateLimiter` | counters per client address, the window, the switch | `Request` is `allow` with the address `getClientIP` finds; `SetConfig`, `Cleanup`, `RetryAfter` are the functions of these names. The clock counts half seconds because `retryAfter` truncates |
| `RuntimeSettings` | extends `RateLimiter` with the settings document | a PUT is three steps under `settingsMu`: the row, the copy, the limiter; restores, restarts and tabs of other administrators come in between |
| `DirectoryAccounts` | one person of the directory | the branches of `authenticateUser`, `resolveKerberosUser` and the LDAP import up to the mappings; `directoryAccountDisabled` with `directoryOutageDenies`, `lastDirectoryCheck`, `recordDirectoryCheck` |
| `AppUsers` | what an app id keeps: local users, usernames, role assignments, administrators | `BeginCreate`–`AssignRoles` and `Undo` are `handleCreateLocalUser` under `localUserMu`; `BeginDelete`–`UnassignRoles` is `handleDeleteLocalUser`, without a lock; `DeleteApp` the cascade |
| `AppCredentials` | the app row and what is obtained with its secret | update and rotation read the row and save all of it; a management token carries whole seconds, the rotation is exact |
| `BackendMigration` | status, source, target, channel, `db.json`, start of the server | `CheckNotRunning` and `MarkRunning` are the two halves of `handleMigrateStart`'s check; `CopyTable`, `CutTable`, `CopyFails` the ends a copy of a table can have |
| `CentralMigration` | bundle, token, dry run, commit, and the app that goes on creating and deleting local users | `Package` is the bundle, `Classify` the dry run that the commit repeats, `ConsumeMigrationToken` the claim, then one step per store call of `Apply`; `carried` records the bundle entry an account was made with, so that a name says whose account and whose password it is. Reads whose error the code drops may fail |
| `SigningKeys` | the server's key file, the published set, the Go client's cache | start of the server with stops between the writes; `GetKey`, `BeginFetch`, `AnswerJWKS`, `StoreKeys`, `GetKeyAgain` are `getKey` and `fetchJWKS` between their locks |
| `DirectorySetup` | LDAP row, principal, keytab, Kerberos row, the account's password | the handlers of `admin_kerberos.go` and `admin_ldap.go`, one step per write; a step may fail, which ends or does not end the handler as the code has it |
| `RefreshTokensProofs`, `IdentityMappingsProofs`, `UserAccountsProofs`, `SsoSessionsProofs` | theorems of the module each is named after | section 5 |
| `AppProofs`, `DirectoryProofs`, `MigrationProofs`, `ServerProofs` | theorems of `AppUsers` and `AppCredentials`; of `DirectorySetup` and `DirectoryAccounts`; of `CentralMigration` and `BackendMigration`; of `RuntimeSettings`, `RateLimiter` and `SigningKeys` | section 5 |
| `MC*` | instances for TLC | symmetry, the mapping keys; `MCAdministration` puts the modules from `RateLimiter` to `SigningKeys` and `DirectorySetup`, `CentralMigration` excepted, side by side, `MCUsernames` `IdentityMappings` and `CentralMigration` |

Two modules share `Accounts` but keep their own view of what the other does: in `SsoSessions` issuing tokens leaves no
trace, in `RefreshTokens` a login is one action that may come from a password, a session or a code. A conjunction of
the two would only multiply interleavings that neither state can see. The modules `MCAdministration` combines share no
variable: an app's users, the limiter and the Kerberos setup do not touch each other, and each takes what another
component would do to it (a restart, a merge, an import) as an action of its own.

Definitions whose comment begins with "Mutant of" are what the definition named there would be with a plausible mistake
in it (`ClientIPAnyPeer`, the address the headers name, serves as one for `ClientIP`). No specification uses the others.
With a mutant in place, TLC finds its property violated.

History variables record what a property needs to know of the past: `granted`, `restored`, `mishaps`, `oddities`,
`misfortunes`, `spent`, `settled` and so on. No guard reads them.

## 3. Runs

| Run | Configuration | Shows | Bounds |
|---|---|---|---|
| `refresh_safety` | `MCRefreshTokens.cfg` | `SingleLiveToken`, `FamilyKeepsApp`, `ImplementsSessions` (refinement of `SessionFamilies`) under all interleavings | two requests, one of which may always overtake the other; two users, so that merges exist; two apps; two tokens (a token and its successor) of one family; the clock stands still |
| `refresh_time` | `MCRefreshTokensTime.cfg` | `RevokedAccessStaysRevoked`; `ReplayRevokesFamily` (liveness) | one user, clock to 2: past an access token, its revocation entry and the refresh token |
| `usernames` | `MCUsernames.cfg` | `LookupsAgree`, `ListingRoundTrips`, `ImplementsPostgres` from any earlier data; and, in behaviours of their own, `TokenAppliesOnce`, `ImportedOnce`, `ImportKeepsUsernames`, `ReportTellsOutcome` | four users (two sources, a target, a stranger), two apps, two mappings whose keys contain ':'; two commits, a creation beside them, deletions of local users, two tokens, two registrations, two usernames, two accounts (an app's own and the bundle's, or those of two tries), and three directories with every kind of user, one with two users of one key |
| `user_accounts` | `MCUserAccounts.cfg` | `LockMatchesAttempts`, `AttemptsAreConsecutive`, `DeletedStaysDeleted`, `DisabledIsFinal` | two requests, two passwords, a history of one, up to three attempts, clock past a lock's end; the threshold changes at any moment between 0 (lockout off), 2 and 3, so it is raised and lowered past a record's count, under a lock and without one. Where it changes, `Bounds` keeps password and `Disabled` as they are and lets two thresholds meet in one count |
| `sso_sessions` | `MCSsoSessions.cfg` | `SessionWithinLimits`, `SessionStaysDeleted`, `SignOutEndsSessions`, `DisabledGetsNothing`, `ImplementsOneTimeCodes` | two requests, two users, one session, one code; all lifetimes 1 and the clock to 2, so each can expire and be found expired |
| `administration` | `MCAdministration.cfg` | the properties of the eight modules an administrator works with, below | below |
| `revoked_family`, `impersonation_outlives_kill`, `shared_key`, `disabled_login`, `signed_out`, `carried_password` | `MCRevokedFamily.cfg`, `MCImpersonation.cfg`, `MCSharedKey.cfg`, `MCDisabledLogin.cfg`, `MCSignedOut.cfg`, `MCCarriedPassword.cfg` | each finds a behaviour in which the code does something else than the documentation says, section 6 | as small as the behaviour allows; `carried_password` has three accounts and otherwise the bounds of `usernames` |

`administration` checks eight modules in one run; only the settings and the limiter among them share state. Its initial state picks a `focus`; a behaviour
moves only the component in focus and leaves the others where they start, so the state space is the sum and not the
product of the parts, and every property of a part sees the whole part.

| Focus | Properties | Bounds, and why they suffice |
|---|---|---|
| `settings` | `SettingsAgree`, `NoStaleOverwrite` | two tabs, one of which is stale; versions to 3; bodies without numbers, with an unknown policy, with numbers beyond the caps; restores and restarts |
| `limiter` | `LimitHolds` | an ordinary client and a trusted proxy; limits 1 to 3 and windows 1 and 2 in three half seconds, so a window ends and the limit changes inside one |
| `apps` | `AppStartsEmpty`, `LocalUsersAreWhole`, `UsernamesAreNotTaken` | two calls, one username, two accounts, the app registered twice: the app id and the username are used again |
| `credentials` | `RotationRevokesTokens` | an administrator's request and an exchange at a time; three secrets and saves; four half seconds, so a rotation falls into the same second as a token and into the next |
| `names` | `OneRecordPerPerson` | two logins, three forms of the name (the sAMAccountName, one in another case, a principal name), two records |
| `outage` | `GraceIsEarned`, `GraceIsGranted` | one record, two uses of it, grace 2, throttle 1, clock to 3: stamps are throttled, lost and outlived |
| `backends` | `MigrationKeepsRows`, `StatusSettles` | three tables that the code treats in three ways, two rows, a channel of one, one write during the copy; with a read cut short, no other oddity and no write |
| `keys` | `TrustLapses`, `LiveTokensVerified` | two verifying goroutines, two keys, two tokens, cache, throttle and fetch of one tick each, tokens of three, clock to 4 |
| `kerberos` | `KerberosFollowsSetup` | two administrators, two hosts (one registered as principal), the password changed once |

Why two requests are enough to be worth running: each property concerns one family, session, code, record, app or
document, and is
disturbed by *one* other handler between two steps of the first. That more requests change nothing for the safety
properties is proved (section 5), except where section 5 says that a property is only checked. Bounds (`MaxTime`,
`MaxVersion`, `MaxApps` and the like, and the sets of tokens, families, sessions, codes and users, which limit how many can ever be created)
appear in guards only, and in the constraints `Bounds` of `MCAdministration`, which names the combinations of mishaps that are not followed
further, and of `MCUserAccounts`; a run ends when they are
used up, which is why those configurations do not check for deadlock. Nothing in the code waits for anything else
except for mutexes that are held by one handler at a time and released on every path (`settingsMu`, `localUserMu` with
`migrationMu` outside it), so
there is no deadlock to look for. `UserAccounts` never runs dry and is checked for it.

## 4. Fairness

Only `FairSpec` of `RefreshTokens` is fair, for `ReplayRevokesFamily`: a request that can take its next step
(`Proceed`) takes one, in particular one that has detected a replay. Weak fairness of that step is what the Go scheduler gives a goroutine that does not block, together with a
store that answers; `FairSpec` accordingly contains no crash (a crash between detection and revocation does lose
the revocation; the token then stays marked as used). Nobody is obliged to log in, to come back or to present a token,
and the clock and the pruner are not fair either. The other properties are safety properties under `[][Next]_vars`:
the code promises no progress of a migration, a setup or a fetch, all of which wait for other machines, and what matters of
them at the end is stated of the states in which nothing is under way (`StatusSettles`, `LocalUsersAreWhole`,
`SettingsAgree`).

## 5. Proofs

Every safety property that a passing run checks is a theorem here; only the liveness property is not. The theorems hold
for every set of users, apps, families, tokens, sessions, codes, requests, logins, tabs, addresses, usernames, tables,
rows, goroutines and hosts, for all positive lifetimes and timeouts, and for all settings of lockout and password history, whenever they change. The assumptions are the ones named
in the modules: `None` is no value, lifetimes and the stamps' throttle are positive integers (`dirCheckPersistEvery` is
five minutes), defaults lie within their caps, an address is
no absent header, a table holds finitely many rows (the verification of a migration compares counts). TLC checks each
invariant before it is proved. The bounds of the runs are constants of the guards, of
which the proofs use only that they are natural numbers; the combinations of mishaps that `Bounds` keeps TLC from
following are covered by the theorems.

- **`RefreshTokensProofs`**. `SingleLiveToken` is not inductive: a rotation in flight holds no row but will write one.
  `RotationInv` says that a family is *held* by one unused row or by one rotation between its consume and its save, never
  by two and never by both; `TypeInv` adds what each stage of a request has read. From them: `SingleUse`, `FamilyApp`, and
  `Refinement` (each step is a step of `SessionFamilies` or a stutter; the phase of a family is computed from who holds
  it). `RevokedAccess` has an invariant of its own, that a token a revocation covered expires no later than the entry. It speaks of ordinary
  access tokens; impersonation tokens can live longer (section 6).
- **`IdentityMappingsProofs`**. The invariant: the index is exactly the inverse of the forward bucket while the database
  is open, and covers it while it is closed and has not been repaired; users not yet created have no entries. It needs
  composite keys to be distinct (`Unambiguous`) and the repair at open to run (`~ SkipRepair`), explicit hypotheses of
  `IndexIsInverse`, `Listing` and `BackendParity` (section 6 shows what happens otherwise).
- **`UserAccountsProofs`**. The threshold is read at every failed login and every look at a lock, so lock and count cannot be
  compared with the one of today. `inForce` collects the thresholds that were in force since nothing was counted
  anywhere, neither in the record nor in a copy; `Agrees` compares with those. `AccountInv` states it not only of the stored
  record but of every copy a request still holds, because any of them may become the record. While the settings stand
  still the set has one member, and the statement is the plain one: locked exactly at the threshold, and never past it. `Disabling` and `Deletion` are step properties proved
  from the same invariant. `Consecutive` has one of its own, `CountInv`: as long as no two requests overlapped, whoever is under way is alone, and
  its copy has the count of the record (or none, or one more) that its stage implies. App-local users are excepted (section 7).
- **`SsoSessionsProofs`**. `SessionInv`: every stored session was handed out (so its identifier cannot be drawn again),
  is within its absolute limit, and whoever holds a cookie read it at a time within that limit. What a step may do
  to sessions and codes is classified once (`StepSessions`, `StepCodes`, `StepGrants`); the theorems follow from the
  classification.
- **`ServerProofs`, settings and limiter**. `SettingsInv` follows the PUT: before its save the row equals the copy, between save and
  copy the row is already the new document, before the last step only the limiter is behind (`PutInv`); what is stored
  by the server is normalised (`StoredInv`), which is why a copy never turns into something the limiter does not
  enforce; and a tab shows the copy or something older (`TabInv`), except a tab kept open across a restore and a
  restart. `Agreement` and `NoLostSettings` follow. `Limit` needs no invariant about settings: that a counter counts at
  least what was granted while it lives is enough. `RetryAfterIsEnough` is the arithmetic of truncated seconds.
- **`ServerProofs`, signing keys**. The verdict on a token depends on what three parties did at three times, so `KeyInv`
  relates them: the server holds the last key it made, which is in its file unless removed (`ServedKey`); every token is
  signed with that key or a removed one (`SignedTokens`); a cached key was published at most one fetch before the cache
  was filled (`CachedSince`); and the answer a call holds was published since it asked, under the key of the token it
  verifies or of a later one (`Fetching`). `TrustEnds` adds the lifetime of the cache to the duration of the fetch;
  `LiveTokens` needs that the id of a key is the same at every start (`ComputeKID`).
- **`MigrationProofs`, to a central server**. A commit under way holds `migrationMu` and a token nobody applied (`HoldsToken`); a token is
  spent at most once and not before it is marked (`TokenInv`). Of what was granted, every entry is either left to do
  or written (`DoesWork`), and `Written` follows each written one through what the app does meanwhile: its username is assigned to it
  or to another entry of that key, and unless it met somebody else's account or was deleted again, it has the account that was made with
  its password. The name being made is free, or its look-up failed (`Making`). `ReportsHold` then is a count: at the end
  nothing is left, so the reported users are those who are usable together with those dropped, removed or shadowed, and no
  user is both. `ImportsOnce` does not count commits that could not read the document. `PasswordsStay` is
  about the bundle alone (`classifyUser`).
- **`MigrationProofs`, between the backends**. `MigrationKeepsRows` speaks of the moment of the report only. While a
  migration that is alone copies, `KeptRows` says that what the source kept since the count is in the target as far as
  the tables are copied, and `ExactRows` that with nothing written the target has nothing else in a table it cleared.
  The verification closes the two gaps these leave (`VerifiedRows`): equal counts of one finite set inside another make
  them equal, for the table the truncation misses and for one that was cut short. `StatusSettles` needs `TellsSuccess`:
  the last status of the channel is the final one, or is shown already, or did not fit.
- **`AppProofs`, local users**. Between its steps a creation or deletion leaves half a user behind; `WholeInv` says whose: a user without a
  username is one a creation is about to map, a username without a user one a deletion is about to unmap, a role without a
  username one a deletion is about to drop. Deletions hold no lock, hence `DeletesAlone` and `CreatesOwn`, which hold
  as long as none of the named overlaps happened (`mishaps`). `UnreadInv` says that a creation which could not look up its
  username is one of the mishaps. `LockInv` is `localUserMu`, and alone gives `NamesStay`: whoever maps a username holds the lock, and found
  the username free or could not look it up.
- **`AppProofs`, secrets**. `RotationRevokesTokens` speaks of tokens and the row; the row may be overwritten by any copy an
  edit holds. `CredentialInv` says that as long as no save and no exchange crossed another (`crossed`), a token of an older
  secret was issued, in whole seconds, before the last rotation (`OldSecretsPrecede`), and that every number a row, a copy
  or a token carries was handed out before.
- **`DirectoryProofs`, setup**. `Alone` says of a call that nothing disturbed so far that it finds the keytab it wrote;
  `Settled` carries that over to the time after the call.
- **`DirectoryProofs`, logins**. Three invariants over one set of facts about the steps of a call (`LoginEffects`,
  `RecordCreated`, `CheckRecorded`, `OutageAsked`). `EarnedInv`: a call past the directory's answer (`Admitted`) runs in
  the minute the account was active, so no stamp, in memory, in the store or read and not yet kept, is newer than the
  account's last active minute. `GrantedInv`: the stamps trail the last confirmed check by less than the throttle
  (`Trails`), and so does one just read from the store (`LoadTrails`), unless a save failed or a newer stamp crossed it.
  `NamesInv`: as long as first logins neither overlap nor bring another form of the name, a record is what the
  sAMAccountName is mapped to or what the one call at its mapping is about to map it to.

Only model-checked: the liveness property `ReplayRevokesFamily`, which is out of reach of the prover (it needs fairness).
The six violations are TLC's, too. No `RECURSIVE` operator is used anywhere.

## 6. Where code and documentation differ

Each is a run that TLC finds violated, and a finding in `PROJECT.json` that quotes both sides.

1. `revoked_family`: a family revoked between the consume and the save of a rotation comes back with the saved successor.
2. `impersonation_outlives_kill`: the revocation entry lives `AccessTTL`, an impersonation token `ImpersonateTTL`.
3. `shared_key`: two mappings may have one composite key; BoltDB then differs from Postgres.
4. `disabled_login`: a handler that read the record before it was disabled enables it again by writing its copy back.
5. `signed_out`: an authorization code issued before a complete sign-out is exchanged for tokens after it.
6. `carried_password`: a target counts as fresh as long as it has no authorization, local users or not. Where the app itself made a username
   that the bundle carries, the commit drops the carried password and gives the carried roles to the account that is
   there; the dry run counts the user as one that migrates.

## 7. Behaviour left out of a property by name

Where the code lets something happen that a property would forbid, the property names the exception instead of the
model leaving it out; a history variable records that it happened. A reader who changes this code should know them.

Lockout
- A successful login of an app-local user returns before the count is cleared (`auth.go:147`): the failures of such a user add up over
  successes until the account is locked, although `docs/API.md:1059` calls the count consecutive (`AttemptsAreConsecutive`,
  `Kind`).
- A changed threshold does not touch what was counted before. Lowered from 5 to 3, a record with 4 failures is past it and not locked,
  and the next failure stores 5; raised, a lock stays with a count below the threshold; at 0 a lock is kept but not
  enforced, and holds again when lockout is switched on again. All of this lasts until the next unlock, expiry or success
  (`auth.go:260`, `279`; `LockMatchesAttempts`, `inForce`).

Settings and limiter
- A document that the start seeded has version 0, which a PUT reads as "no version": a tab that shows it overwrites whatever
  was saved since (`admin_settings.go:315`; the comment above it intends old clients only). After a restore and a restart version
  numbers are used again, so a tab kept open across both can pass the check (`NoStaleOverwrite`).
- A restore replaces the row under the copy and the limiter (`SettingsAgree`, `restored`). A read error at start is taken for
  a first start, and the seed is written over the document (`admin_settings.go:35`; store errors at start are not in the model).

Apps
- A call that passed its app check before `DeleteApp` and writes after it leaves users, roles or administrators for
  whoever registers the id again (`app_selfservice.go:304`, `AppStartsEmpty`, `"late"`). Two deletions of one user, a deletion
  during the creation, an authorization document saved over a newer one, and a stop inside a call can leave half a
  user (`LocalUsersAreWhole`, `mishaps`). `ensureDefaultApp` re-creates the default app at a restart without any app.
- A failed look-up of a username reads as "free" (`app_selfservice.go:278`): the creation then takes the name from its account
  (`UsernamesAreNotTaken`, `LocalUsersAreWhole`, `"unread"`).
- An update that read the app before a rotation saves the old secret back with its row (`admin_apps.go:178`, `crossed`). A token
  carries whole seconds, so one issued right after a rotation is refused until the second ends.

Directory
- Two overlapping first logins, and a first login under another form of the name, create a second record; a login re-points
  mappings that a record of the same name already has (`auth.go:200`). Only the Kerberos path looks twice (`OneRecordPerPerson`).
- The error of saving a stamp is not looked at, and a stamp read from the store may replace a newer one in memory (`auth.go:593`,
  `598`; `GraceIsGranted`).
- Overlapping setups can leave the keytab of one host and the row of another; errors of the three removals of a cleanup are
  dropped; a cleanup without a row stops before the keytab; a setup for another host leaves the old principal
  (`admin_kerberos.go`). A masked password sent before there is a configuration is saved as it is (`admin_ldap.go:46`). Hence
  `KerberosFollowsSetup` speaks of calls that were alone and without an error, and claims nothing about principals.

Migration of the database
- `sa_app_admins` is missing from the list of tables cleared in Postgres, and tables that are empty at the source are not verified: old
  administrators survive there. A cut read of `identity_mappings` is not noticed, since `rows.Err()` is not asked and this
  table is not verified. Rows written after their table was copied are missing in the target (`MigrationKeepsRows`).
- The check for a running migration and the setting of the status are two steps, a request turned away in between leaves the
  status at "running", "verifying" does not keep a second start away, and a final "completed" is dropped by a full
  channel (`StatusSettles`). `json.Marshal` reads the progress map while the goroutine writes it; the switch of the backend does
  not look at the status. With `AUTH_POSTGRES_URL` set, a `db.json` that says BoltDB is overruled at the next start.

Migration to a central server
- The claim marks the token row as it is then, so a token minted meanwhile is marked instead (`migration_central.go:104`); the
  deletion of the app during a commit is named in `TokenAppliesOnce` and `ReportTellsOutcome`.
- Errors of reads are dropped. Without the document a target in use looks fresh, and the assignments it had are replaced (`bundle.go:441`,
  `622`; `ImportedOnce`); without the app its audience is not checked by the dry run (`449`; `Apply` checks again); without its mapping a
  username looks free and is taken from its account (`646`; `ImportKeepsUsernames`).
- Not everybody who was reported can sign in as before: a user whose username belongs to another account is dropped (section 6), of two users
  with one key one replaces the roles of the other, and the app may delete a user again before the commit ends.
  `ReportTellsOutcome` states that these are all, and that none of them is counted as usable.
- `Apply` is no transaction: an import that failed
  halfway is finished by a second one with a new token.

Keys and clients
- The throttle of the Go client is tested under one lock and set under another, so two goroutines may fetch at once; it is set before the
  request, so that after a failed first fetch every call for `minRefetch` refuses valid tokens, and while throttled an expired
  key still counts (`TrustLapses`, `LiveTokensVerified`). A stop while `private.pem` is written leaves a file the next start fails on.

## 8. Abstractions, and what is not modelled

- In `Accounts`, `RefreshTokens`, `SsoSessions`, `UserAccounts` and `IdentityMappings` a failing store is not modelled: a transaction commits, or the process dies (`Crash`, where something could be lost).
  Errors that handlers ignore are listed as hazards. In the modules of `MCAdministration` saves may fail where the handlers have a branch for it.
- Tokens, codes, session identifiers and users are values that are drawn once; that random values do not repeat is
  assumed. Signatures, hashing, PKCE, redirect URIs, the contents of roles, formatting and audit are left out; a check that only refuses
  is a choice to stop.
- The directory may accept or refuse at any time. Disabling an account is one step in `RefreshTokens` and `SsoSessions`;
  that the handler reads and writes the record separately is the subject of `UserAccounts`.
- `Impersonate` and `LogoutAll` of `RefreshTokens` check and act in one step. An `id_token_hint` may name any known user.
- In `SsoSessions` an expired revocation entry is forgotten by `Tick` (an expired entry reads as none), and an expired
  code that somebody presents is deleted as Postgres does; BoltDB rolls that deletion back, which is no step.
- In BoltDB a merge with a missing source fails, in Postgres it passes over the source; `PostgresMappings` allows both.
- In `UserAccounts` a step reads the settings once, where the handler reads threshold and duration one after the other
  without anything in between. A PUT of the settings is one step; its parts are the subject of `RuntimeSettings`.
- `CentralMigration` assumes a bundle with roles or permissions in its catalog, so that an import leaves a document behind. The deletion of a local
  user is one step there (its steps are in `AppUsers`). Passwords changed during a commit are left out, and of
  a password it is only known with which entry it came. The standalone's own users do not change while it packs.
- `UserAccounts` is one record, without `merged_into` (section 1, merged accounts), roles and profile contents. The history
  of passwords holds the ones that were replaced.
- Session rows are deleted by the literal user identifier, while visits follow `merged_into`; `SignOutEndsSessions` speaks of
  the account named in the row.
- `RuntimeSettings` keeps the fields the server normalises; the others are copied unchanged. Restore takes the lock of every
  transaction, so it is one step; its reopen errors, which are ignored, are left out.
- `AppUsers` follows one app id, `AppCredentials` one row, `DirectoryAccounts` one person, `CentralMigration` one target app,
  `SigningKeys` one client process; a unit of their clocks is minutes in `DirectoryAccounts`, half a second in `AppCredentials`
  and `RateLimiter`.
- Not modelled, with the reason in `PROJECT.json`: configuration loading (sequential), the audit log (append-only), rendering
  of the hosted pages, the encryption of stored secrets, LDAP searches and discovery, the Linux scripts, the web interface and
  the JavaScript library.

## 9. Plan

1. Sessions signed out by resolved account: `SsoSessions` composed with merges.
2. An abstract specification of an app's local users that `AppUsers` implements as long as no overlap happens.
3. The settings as one versioned document that changes by compare-and-set, implemented by `RuntimeSettings` between restores.
