-------------------------- MODULE RuntimeSettings --------------------------
(***************************************************************************)
(* The settings document an administrator edits at runtime                 *)
(* (src/internal/handler/admin_settings.go): its row in the store, the     *)
(* copy every request reads, and the limiter it is pushed into.  A PUT     *)
(* holds settingsMu and moves the three one after the other, requests and  *)
(* reads go on in between, and the server may stop at any point.  Backup   *)
(* and Restore replace the store under the copy.                           *)
(*                                                                         *)
(* Of the fields, the ones the server normalizes are kept: the limiter's   *)
(* numbers and the directory outage policy.                                *)
(***************************************************************************)
EXTENDS RateLimiter

CONSTANTS
    Tab,           \* browser tabs that load the document and put it back
    Body,          \* what a PUT or an old database may carry
    Seed,          \* the values of the deployment's configuration
    MaxVersion     \* bound: versions of the document

(* Compiled-in values, in the model's units. *)
CONSTANTS DefaultMax, DefaultWindow, CapMax, CapWindow, DefaultHours, CapHours

Policies == {"grace", "block", "allow"}

Fields == [max : Nat, window : Nat, disabled : BOOLEAN, policy : Policies \cup {"", "other"}, hours : Nat]

ASSUME SettingsConstants ==
    /\ Body \subseteq Fields /\ Seed \in Fields /\ MaxVersion \in Nat
    /\ {DefaultMax, DefaultWindow, CapMax, CapWindow, DefaultHours, CapHours} \subseteq Nat \ {0}
    /\ DefaultMax <= CapMax /\ DefaultWindow <= CapWindow /\ DefaultHours <= CapHours

VARIABLES
    settings,  \* the row "runtime_settings"; version -1: no row
    cached,    \* the copy in memory
    tabs,      \* the document a tab shows; version -1: none
    put,       \* the PUT that holds settingsMu
    backup,    \* a backup file; version -1: none
    restored,  \* history: a restore replaced the store since the server started
    rewound    \* history: tabs whose document is older than a start from a
               \* restored store

settingsVars == <<settings, cached, tabs, put, backup, restored, rewound, limiterVars>>

Document(body, version) == [body |-> body, version |-> version]
NoDocument == Document(Seed, -1)

Documents == [body : Fields, version : -1 .. MaxVersion]

(* base is history: the document the tab of this PUT had loaded. *)
Idle == [step |-> "idle", new |-> NoDocument, base |-> NoDocument]

-----------------------------------------------------------------------------
(* What the server makes of the numbers and the policy of a document.      *)

Least(a, b) == IF a < b THEN a ELSE b

Fallback(value, configured, default, cap) ==
    Least(cap, IF value > 0 THEN value ELSE IF configured > 0 THEN configured ELSE default)

NormalizeRateLimit(b) ==
    [b EXCEPT !.max = Fallback(@, Seed.max, DefaultMax, CapMax),
              !.window = Fallback(@, Seed.window, DefaultWindow, CapWindow)]

RejectsOutage(b) == b.policy = "other"

(* A policy it does not know stops the normalization before the hours. *)
NormalizeDirectoryOutage(b) ==
    IF RejectsOutage(b) THEN b
    ELSE [b EXCEPT !.policy = IF @ = "" THEN "grace" ELSE @,
                   !.hours = Fallback(@, 0, DefaultHours, CapHours)]

(* At a start an unknown policy becomes grace. *)
Normalized(b) ==
    LET n == NormalizeDirectoryOutage(b)
    IN  [n EXCEPT !.policy = IF RejectsOutage(n) THEN "grace" ELSE @]

-----------------------------------------------------------------------------
(* New and initRuntimeSettings: the limiter starts from the configuration, *)
(* the document is seeded or normalized, saved if that changed it, cached, *)
(* and pushed into the limiter, before any request is served.  A seed gets *)
(* version 0 and keeps the limiter numbers of the configuration, zero      *)
(* included.                                                               *)

(* Mutant of StartDocument: a stored document is taken as it is, not normalized again. *)
StartDocumentAsStored(doc) == IF doc.version < 0 THEN Document(Normalized(Seed), 0) ELSE doc

StartDocument(doc) ==
    IF doc.version < 0 THEN Document(Normalized(Seed), 0)
    ELSE Document(Normalized(NormalizeRateLimit(doc.body)), doc.version)

(* The limiter of a new process after its first setConfig. *)
FreshLimiter(b) ==
    [limit    |-> IF b.max > 0 THEN b.max ELSE Seed.max,
     window   |-> IF b.window > 0 THEN b.window ELSE Seed.window,
     disabled |-> b.disabled]

SettingsInit ==
    /\ \E old \in {NoDocument} \cup {Document(b, 0) : b \in Body} :
         /\ settings = StartDocument(old)
         /\ cached = StartDocument(old)
         /\ LimiterInit(FreshLimiter(StartDocument(old).body))
    /\ tabs = [t \in Tab |-> NoDocument]
    /\ put = Idle
    /\ backup = NoDocument
    /\ restored = FALSE
    /\ rewound = {}

(* The server stops, whatever it was doing, and starts again. *)
Restart ==
    /\ LET doc == StartDocument(settings) IN
       /\ settings' = doc
       /\ cached' = doc
       /\ limiter' = FreshLimiter(doc.body)
    /\ DropCounters(Address)
    /\ put' = Idle
    /\ restored' = FALSE
    /\ rewound' = IF restored THEN Tab ELSE rewound
    /\ UNCHANGED <<tabs, backup, half>>

-----------------------------------------------------------------------------

(* handleGetSettings: a tab loads the document. *)
Load(t) ==
    /\ tabs' = [tabs EXCEPT ![t] = cached]
    /\ rewound' = rewound \ {t}
    /\ UNCHANGED <<settings, cached, put, backup, restored, limiterVars>>

(* Mutant of StaleVersion: the echoed version is only compared with newer ones. *)
OnlyNewerIsStale(echo) == echo > cached.version

(***************************************************************************)
(* handleUpdateSettings up to the save: the body is normalized, or turned  *)
(* away; under settingsMu the version it echoes must be that of the copy,  *)
(* unless it echoes none (0), and the next version is the copy's plus one. *)
(***************************************************************************)
StaleVersion(echo) == echo # 0 /\ echo # cached.version

BeginPut(echo, b, base) ==
    /\ put = Idle
    /\ ~RejectsOutage(b)
    /\ ~StaleVersion(echo)
    /\ cached.version < MaxVersion
    /\ put' = [step |-> "save",
               new  |-> Document(NormalizeDirectoryOutage(NormalizeRateLimit(b)),
                                 cached.version + 1),
               base |-> base]

(* The tab puts back the document it loaded with one change. *)
PutFromTab(t, b) ==
    /\ tabs[t].version >= 0
    /\ BeginPut(tabs[t].version, b, IF t \in rewound THEN NoDocument ELSE tabs[t])
    /\ tabs' = [tabs EXCEPT ![t] = NoDocument]
    /\ UNCHANGED <<settings, cached, backup, restored, rewound, limiterVars>>

(* 409: the tab has to load again. *)
Conflict(t) ==
    /\ put = Idle
    /\ tabs[t].version >= 0 /\ StaleVersion(tabs[t].version)
    /\ tabs' = [tabs EXCEPT ![t] = NoDocument]
    /\ UNCHANGED <<settings, cached, put, backup, restored, rewound, limiterVars>>

(* A client that sends no version. *)
PutWithoutVersion(b) ==
    /\ BeginPut(0, b, NoDocument)
    /\ UNCHANGED <<settings, cached, tabs, backup, restored, rewound, limiterVars>>

SaveRuntimeSettings ==
    /\ put.step = "save"
    /\ settings' = put.new
    /\ put' = [put EXCEPT !.step = "cache"]
    /\ UNCHANGED <<cached, tabs, backup, restored, rewound, limiterVars>>

(* The save fails: the PUT answers 500 and nothing moves. *)
SaveFails ==
    /\ put.step = "save"
    /\ put' = Idle
    /\ UNCHANGED <<settings, cached, tabs, backup, restored, rewound, limiterVars>>

SetCache ==
    /\ put.step = "cache"
    /\ cached' = put.new
    /\ put' = [put EXCEPT !.step = "limiter"]
    /\ UNCHANGED <<settings, tabs, backup, restored, rewound, limiterVars>>

ApplyRateLimit ==
    /\ put.step = "limiter"
    /\ SetConfig(put.new.body.max, put.new.body.window, put.new.body.disabled)
    /\ put' = Idle
    /\ UNCHANGED <<settings, cached, tabs, backup, restored, rewound>>

-----------------------------------------------------------------------------

(* handleBackup: the file holds the store as one transaction sees it. *)
Backup ==
    /\ backup' = settings
    /\ UNCHANGED <<settings, cached, tabs, put, restored, rewound, limiterVars>>

(***************************************************************************)
(* handleRestore: the file replaces the database under the store's own     *)
(* lock, without settingsMu, and the copy in memory stays what it was.  A  *)
(* restore that fails leaves the database it found.                        *)
(***************************************************************************)
Restore ==
    /\ backup # NoDocument
    /\ settings' = backup
    /\ restored' = TRUE
    /\ UNCHANGED <<cached, tabs, put, backup, rewound, limiterVars>>

(* A PUT from its version check to the limiter, or until it fails. *)
PutSteps ==
    \/ \E t \in Tab, b \in Body : PutFromTab(t, b)
    \/ \E b \in Body : PutWithoutVersion(b)
    \/ SaveRuntimeSettings \/ SaveFails \/ SetCache \/ ApplyRateLimit

OperatorSteps ==
    \/ \E t \in Tab : Load(t) \/ Conflict(t)
    \/ Backup \/ Restore

ServedRequests ==
    /\ LimiterNext
    /\ UNCHANGED <<settings, cached, tabs, put, backup, restored, rewound>>

SettingsNext == PutSteps \/ OperatorSteps \/ Restart \/ ServedRequests

SettingsSpec == SettingsInit /\ [][SettingsNext]_settingsVars

-----------------------------------------------------------------------------

SettingsTypeOK ==
    /\ LimiterTypeOK
    /\ {settings, cached, backup} \subseteq Documents
    /\ tabs \in [Tab -> Documents]
    /\ put \in [step : {"idle", "save", "cache", "limiter"}, new : Documents, base : Documents]
    /\ restored \in BOOLEAN /\ rewound \subseteq Tab

(***************************************************************************)
(* With no PUT under way, what the store holds, what requests read and     *)
(* what the limiter enforces are the same, unless a restore replaced the   *)
(* store; the limiter enforces the copy even then (settingsMu,             *)
(* handleUpdateSettings, initRuntimeSettings).                             *)
(***************************************************************************)
SettingsAgree ==
    put.step = "idle" =>
      /\ restored \/ settings = cached
      /\ limiter = [limit    |-> cached.body.max,
                    window   |-> cached.body.window,
                    disabled |-> cached.body.disabled]

(***************************************************************************)
(* A PUT that echoes a version puts its document in the place of the very  *)
(* one its tab had loaded: a stale tab never takes back the change of      *)
(* another administrator.  Outside are a tab that loaded version 0, which  *)
(* reads as no version, and one kept open across a restore and a restart,  *)
(* after which version numbers are used again.                             *)
(***************************************************************************)
NoStaleOverwrite ==
    [][put.step = "cache" /\ put.base.version > 0 /\ cached' # cached /\ put' # Idle
         => cached = put.base]_settingsVars

(***************************************************************************)
(* A connection that is no trusted proxy is granted no more requests per   *)
(* window than the limit, whatever headers it sends, whoever else sends in *)
(* its name, and however cleanup and changes of the limit fall; the first  *)
(* request of a window always goes through (allow, getClientIP, cleanup,   *)
(* setConfig).                                                             *)
(***************************************************************************)
LimitHolds ==
    [][\A p \in Address \ Trusted :
         granted'[p] > granted[p] => granted'[p] <= 1 \/ granted'[p] <= limiter.limit]_settingsVars

(***************************************************************************)
(* A refused client that waits the seconds Retry-After announces finds its *)
(* counter lapsed (retryAfter, handleLogin).                               *)
(***************************************************************************)
RetryAfterSuffices ==
    \A a \in Address :
      ~Allowed(a) => half + 2 * RetryAfter(a) > counters[a].resetAt

=============================================================================
