---------------------------- MODULE ServerProofs ----------------------------
(***************************************************************************)
(* Proofs about RuntimeSettings, RateLimiter and SigningKeys: the          *)
(* document, its copy and the limiter agree, a stale tab overwrites        *)
(* nothing, no client is granted more than the limit; a client trusts a    *)
(* withdrawn key only for the lifetime of its cache and one fetch, and     *)
(* verifies live tokens.                                                   *)
(***************************************************************************)
EXTENDS RuntimeSettings, SigningKeys, TLAPS

-----------------------------------------------------------------------------
(* The settings and the limiter: RuntimeSettings, RateLimiter. *)

(* A body the server made: every number within its cap, the policy known. *)
Normal(b) ==
    /\ b \in Fields
    /\ b.max \in 1 .. CapMax /\ b.window \in 1 .. CapWindow /\ b.hours \in 1 .. CapHours
    /\ b.policy \in Policies

(* What the limiter enforces of a body. *)
Enforces(b) == limiter = [limit |-> b.max, window |-> b.window, disabled |-> b.disabled]

(* The documents at each step of a PUT. *)
PutInv ==
    /\ put.step # "idle" => put.new.version > 0 /\ Normal(put.new.body)
    /\ put.step \in {"idle", "save"} => (restored \/ settings = cached) /\ Enforces(cached.body)
    /\ put.step = "cache" => restored \/ settings = put.new
    /\ put.step = "limiter" => (restored \/ settings = put.new) /\ cached = put.new
    /\ put.step \in {"save", "cache"} =>
         /\ put.new.version = cached.version + 1
         /\ put.base.version > 0 => cached = put.base

(* A tab shows an older document than the copy, or the copy. *)
TabInv ==
    \A t \in Tab \ rewound :
      /\ tabs[t].version <= cached.version
      /\ tabs[t].version = cached.version /\ cached.version > 0 => tabs[t] = cached

StoredInv ==
    /\ settings.version >= 0 /\ cached.version >= 0
    /\ backup = NoDocument \/ backup.version >= 0
    /\ settings.version > 0 => Normal(settings.body)
    /\ cached.version > 0 => Normal(cached.body)
    /\ backup.version > 0 => Normal(backup.body)

SettingsInv == SettingsTypeOK /\ StoredInv /\ PutInv /\ TabInv

-----------------------------------------------------------------------------
(* Normalization. *)

(* Fallback yields a number within the cap and keeps one that is within. *)
LEMMA FallbackInRange ==
    ASSUME NEW cap \in Nat \ {0}, NEW default \in 1 .. cap, NEW value \in Nat, NEW configured \in Nat
    PROVE  /\ Fallback(value, configured, default, cap) \in 1 .. cap
           /\ value \in 1 .. cap => Fallback(value, configured, default, cap) = value
BY DEF Fallback, Least

LEMMA SettingsConstantsFacts ==
    /\ CapMax \in Nat \ {0} /\ CapWindow \in Nat \ {0} /\ CapHours \in Nat \ {0}
    /\ DefaultMax \in 1 .. CapMax /\ DefaultWindow \in 1 .. CapWindow
    /\ DefaultHours \in 1 .. CapHours
    /\ Seed \in Fields /\ Seed.max \in Nat /\ Seed.window \in Nat
    /\ Body \subseteq Fields /\ MaxVersion \in Nat
<1>1. /\ CapMax \in Nat \ {0} /\ CapWindow \in Nat \ {0} /\ CapHours \in Nat \ {0}
      /\ DefaultMax \in Nat \ {0} /\ DefaultWindow \in Nat \ {0} /\ DefaultHours \in Nat \ {0}
      /\ DefaultMax <= CapMax /\ DefaultWindow <= CapWindow /\ DefaultHours <= CapHours
  BY SettingsConstants, Zenon
<1>2. Seed \in Fields /\ Body \subseteq Fields /\ MaxVersion \in Nat
  BY SettingsConstants, Zenon
<1>3. Seed.max \in Nat /\ Seed.window \in Nat BY <1>2 DEF Fields
<1> QED BY <1>1, <1>2, <1>3

(* Two fields replaced, written out. *)
LEMMA LimitsReplaced ==
    ASSUME NEW b \in Fields, NEW m, NEW w
    PROVE  [b EXCEPT !.max = m, !.window = w]
             = [max |-> m, window |-> w, disabled |-> b.disabled, policy |-> b.policy, hours |-> b.hours]
<1> DEFINE c == [b EXCEPT !.max = m]
<1>1. b = [max |-> b.max, window |-> b.window, disabled |-> b.disabled, policy |-> b.policy,
           hours |-> b.hours]
  BY DEF Fields
<1>2. c = [max |-> m, window |-> b.window, disabled |-> b.disabled, policy |-> b.policy,
           hours |-> b.hours]
  BY <1>1
<1>3. [b EXCEPT !.max = m, !.window = w] = [c EXCEPT !.window = w] OBVIOUS
<1> HIDE DEF c
<1>4. [c EXCEPT !.window = w]
        = [max |-> m, window |-> w, disabled |-> b.disabled, policy |-> b.policy, hours |-> b.hours]
  BY <1>2
<1> QED BY <1>3, <1>4

LEMMA OutageReplaced ==
    ASSUME NEW b \in Fields, NEW p, NEW h
    PROVE  [b EXCEPT !.policy = p, !.hours = h]
             = [max |-> b.max, window |-> b.window, disabled |-> b.disabled, policy |-> p, hours |-> h]
<1> DEFINE c == [b EXCEPT !.policy = p]
<1>1. b = [max |-> b.max, window |-> b.window, disabled |-> b.disabled, policy |-> b.policy,
           hours |-> b.hours]
  BY DEF Fields
<1>2. c = [max |-> b.max, window |-> b.window, disabled |-> b.disabled, policy |-> p,
           hours |-> b.hours]
  BY <1>1
<1>3. [b EXCEPT !.policy = p, !.hours = h] = [c EXCEPT !.hours = h] OBVIOUS
<1> HIDE DEF c
<1>4. [c EXCEPT !.hours = h]
        = [max |-> b.max, window |-> b.window, disabled |-> b.disabled, policy |-> p, hours |-> h]
  BY <1>2
<1> QED BY <1>3, <1>4

(* The limiter's numbers end within their caps, the rest stays. *)
LEMMA RateLimitNormal ==
    ASSUME NEW b \in Fields
    PROVE  LET n == NormalizeRateLimit(b) IN
           /\ n \in Fields
           /\ n.max \in 1 .. CapMax /\ n.window \in 1 .. CapWindow
           /\ n.disabled = b.disabled /\ n.policy = b.policy /\ n.hours = b.hours
           /\ b.max \in 1 .. CapMax /\ b.window \in 1 .. CapWindow => n = b
<1> DEFINE m == Fallback(b.max, Seed.max, DefaultMax, CapMax)
           w == Fallback(b.window, Seed.window, DefaultWindow, CapWindow)
<1>1. b.max \in Nat /\ b.window \in Nat BY DEF Fields
<1>2. m \in 1 .. CapMax /\ (b.max \in 1 .. CapMax => m = b.max)
  <2>1. CapMax \in Nat \ {0} /\ DefaultMax \in 1 .. CapMax /\ Seed.max \in Nat
    BY SettingsConstantsFacts
  <2> QED BY <1>1, <2>1, FallbackInRange
<1>3. w \in 1 .. CapWindow /\ (b.window \in 1 .. CapWindow => w = b.window)
  <2>1. CapWindow \in Nat \ {0} /\ DefaultWindow \in 1 .. CapWindow /\ Seed.window \in Nat
    BY SettingsConstantsFacts
  <2> QED BY <1>1, <2>1, FallbackInRange
<1>4. NormalizeRateLimit(b) = [b EXCEPT !.max = m, !.window = w]
  BY DEF NormalizeRateLimit
<1> HIDE DEF m, w
<1>5. [b EXCEPT !.max = m, !.window = w]
        = [max |-> m, window |-> w, disabled |-> b.disabled, policy |-> b.policy, hours |-> b.hours]
  BY LimitsReplaced
<1>6. b = [max |-> b.max, window |-> b.window, disabled |-> b.disabled, policy |-> b.policy,
           hours |-> b.hours]
  BY DEF Fields
<1>7. m \in Nat /\ w \in Nat BY <1>2, <1>3, SettingsConstantsFacts
<1>8. NormalizeRateLimit(b) \in Fields BY <1>4, <1>5, <1>7 DEF Fields
<1> QED BY <1>2, <1>3, <1>4, <1>5, <1>6, <1>8

(* The outage policy ends known and its hours within the cap, unless it is
   one nobody knows.                                                        *)
LEMMA OutageNormal ==
    ASSUME NEW b \in Fields, ~RejectsOutage(b)
    PROVE  LET n == NormalizeDirectoryOutage(b) IN
           /\ n \in Fields /\ n.policy \in Policies /\ n.hours \in 1 .. CapHours
           /\ n.max = b.max /\ n.window = b.window /\ n.disabled = b.disabled
           /\ b.policy \in Policies /\ b.hours \in 1 .. CapHours => n = b
<1> DEFINE h == Fallback(b.hours, 0, DefaultHours, CapHours)
           p == IF b.policy = "" THEN "grace" ELSE b.policy
<1>1. b.hours \in Nat BY DEF Fields
<1>2. h \in 1 .. CapHours /\ (b.hours \in 1 .. CapHours => h = b.hours)
  BY <1>1, SettingsConstantsFacts, FallbackInRange
<1>3. p \in Policies /\ (b.policy \in Policies => p = b.policy)
  BY DEF Policies, Fields, RejectsOutage
<1>4. NormalizeDirectoryOutage(b) = [b EXCEPT !.policy = p, !.hours = h]
  BY DEF NormalizeDirectoryOutage
<1> HIDE DEF h, p
<1>5. [b EXCEPT !.policy = p, !.hours = h]
        = [max |-> b.max, window |-> b.window, disabled |-> b.disabled, policy |-> p, hours |-> h]
  BY OutageReplaced
<1>6. b = [max |-> b.max, window |-> b.window, disabled |-> b.disabled, policy |-> b.policy,
           hours |-> b.hours]
  BY DEF Fields
<1>7. h \in Nat BY <1>2, SettingsConstantsFacts
<1>8. NormalizeDirectoryOutage(b) \in Fields BY <1>3, <1>4, <1>5, <1>7 DEF Fields
<1> QED BY <1>2, <1>3, <1>4, <1>5, <1>6, <1>8

(* The two together, as a start applies them. *)
LEMMA StartNormal ==
    ASSUME NEW b \in Fields
    PROVE  LET n == Normalized(b) IN
           /\ n \in Fields
           /\ n.max = b.max /\ n.window = b.window /\ n.disabled = b.disabled
           /\ b.policy \in Policies /\ b.hours \in 1 .. CapHours => n = b
<1>1. CASE RejectsOutage(b)
  <2>1. Normalized(b) = [b EXCEPT !.policy = "grace"]
    BY <1>1 DEF Normalized, NormalizeDirectoryOutage
  <2> QED BY <1>1, <2>1 DEF Fields, Policies, RejectsOutage
<1>2. CASE ~RejectsOutage(b)
  <2> DEFINE n == NormalizeDirectoryOutage(b)
  <2>1. /\ n \in Fields /\ n.policy \in Policies
        /\ n.max = b.max /\ n.window = b.window /\ n.disabled = b.disabled
        /\ b.policy \in Policies /\ b.hours \in 1 .. CapHours => n = b
    BY <1>2, OutageNormal
  <2>2. Normalized(b) = [n EXCEPT !.policy = IF RejectsOutage(n) THEN "grace" ELSE n.policy]
    BY DEF Normalized
  <2> HIDE DEF n
  <2>3. ~RejectsOutage(n) BY <2>1 DEF Policies, RejectsOutage
  <2>4. Normalized(b) = n BY <2>1, <2>2, <2>3 DEF Fields
  <2> QED BY <2>1, <2>4
<1> QED BY <1>1, <1>2

(* A start keeps a document of the server's own making and gives the limiter
   the numbers of the document.                                             *)
LEMMA StartKeepsDocument ==
    ASSUME NEW d \in Documents
    PROVE  LET n == StartDocument(d) IN
           /\ n \in Documents /\ n.version >= 0
           /\ d.version >= 0 => n.version = d.version
           /\ d.version >= 0 /\ Normal(d.body) => n = d
           /\ FreshLimiter(n.body)
                = [limit |-> n.body.max, window |-> n.body.window, disabled |-> n.body.disabled]
<1>1. d.body \in Fields /\ d.version \in -1 .. MaxVersion /\ MaxVersion \in Nat
  BY SettingsConstantsFacts DEF Documents
<1>2. CASE d.version < 0
  <2> DEFINE n == Normalized(Seed)
  <2>1. n \in Fields /\ n.max = Seed.max /\ n.window = Seed.window
    BY StartNormal, SettingsConstantsFacts
  <2>2. StartDocument(d) = [body |-> n, version |-> 0]
    BY <1>2 DEF StartDocument, Document
  <2> HIDE DEF n
  <2>3. StartDocument(d) \in Documents BY <1>1, <2>1, <2>2 DEF Documents
  <2>4. FreshLimiter(n) = [limit |-> n.max, window |-> n.window, disabled |-> n.disabled]
    BY <2>1 DEF FreshLimiter
  <2> QED BY <1>1, <1>2, <2>2, <2>3, <2>4
<1>3. CASE d.version >= 0
  <2> DEFINE r == NormalizeRateLimit(d.body)
             n == Normalized(r)
  <2>1. /\ r \in Fields /\ r.max \in 1 .. CapMax /\ r.window \in 1 .. CapWindow
        /\ Normal(d.body) => r = d.body
    BY <1>1, RateLimitNormal DEF Normal
  <2> HIDE DEF r
  <2>2. /\ n \in Fields /\ n.max = r.max /\ n.window = r.window
        /\ r.policy \in Policies /\ r.hours \in 1 .. CapHours => n = r
    BY <2>1, StartNormal
  <2>3. StartDocument(d) = [body |-> n, version |-> d.version]
    BY <1>1, <1>3 DEF StartDocument, Document, r
  <2> HIDE DEF n
  <2>4. StartDocument(d) \in Documents BY <1>1, <2>2, <2>3 DEF Documents
  <2>5. n.max > 0 /\ n.window > 0 BY <2>1, <2>2, SettingsConstantsFacts
  <2>6. FreshLimiter(n) = [limit |-> n.max, window |-> n.window, disabled |-> n.disabled]
    BY <2>5 DEF FreshLimiter
  <2>7. ASSUME Normal(d.body) PROVE StartDocument(d) = d
    <3>1. n = d.body BY <2>1, <2>2, <2>7 DEF Normal
    <3> QED BY <2>3, <3>1 DEF Documents
  <2> QED BY <1>3, <2>3, <2>4, <2>6, <2>7
<1> QED BY <1>1, <1>2, <1>3

(* What a PUT will save. *)
LEMMA PutNormal ==
    ASSUME NEW b \in Body, ~RejectsOutage(b)
    PROVE  Normal(NormalizeDirectoryOutage(NormalizeRateLimit(b)))
<1> DEFINE r == NormalizeRateLimit(b)
<1>1. /\ r \in Fields /\ r.max \in 1 .. CapMax /\ r.window \in 1 .. CapWindow
      /\ r.policy = b.policy
  BY RateLimitNormal, SettingsConstantsFacts
<1> HIDE DEF r
<1>2. ~RejectsOutage(r) BY <1>1 DEF RejectsOutage
<1>3. LET n == NormalizeDirectoryOutage(r) IN
      /\ n \in Fields /\ n.policy \in Policies /\ n.hours \in 1 .. CapHours
      /\ n.max = r.max /\ n.window = r.window
  BY <1>1, <1>2, OutageNormal
<1> QED BY <1>1, <1>3 DEF Normal, r

-----------------------------------------------------------------------------
(* The limiter. *)

LEMMA LimiterTypes ==
    ASSUME LimiterTypeOK, LimiterNext
    PROVE  LimiterTypeOK'
<1>1. half \in Nat /\ MaxHalf \in Nat /\ Trusted \subseteq Address
  BY LimiterConstants DEF LimiterTypeOK
<1>2. CASE \E peer \in Address, f, r \in Address \cup {NoAddress} : Request(peer, f, r)
  <2> PICK peer \in Address, f \in Address \cup {NoAddress}, r \in Address \cup {NoAddress} :
             Request(peer, f, r)
    BY <1>2
  <2> DEFINE c == ClientIP(peer, f, r)
  <2>1. c \in Address BY DEF ClientIP, ClientIPAnyPeer
  <2>2. /\ UNCHANGED <<limiter, half>>
        /\ counters' = IF limiter.disabled THEN counters
             ELSE [counters EXCEPT ![c] =
                     IF Lapsed(c) THEN [count |-> 1, resetAt |-> half + 2 * limiter.window]
                     ELSE [count |-> counters[c].count + 1, resetAt |-> counters[c].resetAt]]
        /\ granted' = [p \in Address |->
             (IF p = c /\ Lapsed(c) /\ ~limiter.disabled THEN 0 ELSE granted[p])
               + (IF p = peer /\ p \notin Trusted /\ ~limiter.disabled /\ Allowed(c) THEN 1 ELSE 0)]
    BY DEF Request
  <2> HIDE DEF c
  <2>3. counters[c].count + 1 \in Nat /\ counters[c].resetAt \in Nat
    BY <2>1 DEF LimiterTypeOK
  <2>5. half + 2 * limiter.window \in Nat BY <1>1 DEF LimiterTypeOK
  <2>6. counters' \in [Address -> [count : Nat, resetAt : Nat]]
    BY <2>1, <2>2, <2>3, <2>5 DEF LimiterTypeOK
  <2>7. granted' \in [Address -> Nat]
    <3>1. \A p \in Address : granted[p] \in Nat BY DEF LimiterTypeOK
    <3> QED BY <2>2, <3>1
  <2> QED BY <2>2, <2>6, <2>7 DEF LimiterTypeOK
<1>3. CASE Cleanup
  BY <1>3 DEF Cleanup, DropCounters, NoCounter, LimiterTypeOK
<1>4. CASE HalfSecond
  BY <1>1, <1>4 DEF HalfSecond, LimiterTypeOK
<1> QED BY <1>2, <1>3, <1>4 DEF LimiterNext

LEMMA LimitApplied ==
    ASSUME LimiterTypeOK, NEW b, Normal(b), SetConfig(b.max, b.window, b.disabled)
    PROVE  LimiterTypeOK' /\ Enforces(b)'
<1>0. b.disabled \in BOOLEAN BY DEF Normal, Fields
<1>1. b.max \in Nat /\ b.max > 0 /\ b.window \in Nat /\ b.window > 0
  BY SettingsConstantsFacts DEF Normal
<1>2. limiter' = [limit |-> b.max, window |-> b.window, disabled |-> b.disabled]
  BY <1>1 DEF SetConfig
<1>3. /\ counters' \in [Address -> [count : Nat, resetAt : Nat]]
      /\ granted' \in [Address -> Nat] /\ half' = half
  BY DEF SetConfig, DropCounters, NoCounter, LimiterTypeOK
<1>4. limiter' \in [limit : Nat, window : Nat, disabled : BOOLEAN]
  BY <1>0, <1>1, <1>2
<1> QED BY <1>2, <1>3, <1>4 DEF LimiterTypeOK, Enforces

(* The numbers of a body are those of a limiter. *)
LEMMA LimiterOfBody ==
    ASSUME NEW b \in Fields
    PROVE  [limit |-> b.max, window |-> b.window, disabled |-> b.disabled]
             \in [limit : Nat, window : Nat, disabled : BOOLEAN]
<1>1. b.max \in Nat /\ b.window \in Nat BY DEF Fields
<1>2. b.disabled \in BOOLEAN BY DEF Fields
<1> DEFINE m == b.max
           w == b.window
           d == b.disabled
<1>3. m \in Nat /\ w \in Nat /\ d \in BOOLEAN BY <1>1, <1>2
<1> HIDE DEF m, w, d
<1>4. [limit |-> m, window |-> w, disabled |-> d] \in [limit : Nat, window : Nat, disabled : BOOLEAN]
  BY <1>3
<1> QED BY <1>4 DEF m, w, d

-----------------------------------------------------------------------------
(* The invariant. *)

LEMMA InitialSettings == SettingsInit => SettingsInv
<1> SUFFICES ASSUME SettingsInit PROVE SettingsInv
  OBVIOUS
<1> PICK old \in {NoDocument} \cup {Document(b, 0) : b \in Body} :
      /\ settings = StartDocument(old)
      /\ cached = StartDocument(old)
      /\ LimiterInit(FreshLimiter(StartDocument(old).body))
  BY DEF SettingsInit
<1>1. old \in Documents /\ NoDocument \in Documents /\ old.version <= 0
  BY SettingsConstantsFacts DEF Document, NoDocument, Documents
<1>2. /\ settings \in Documents /\ settings.version = 0 /\ cached = settings
      /\ LimiterInit([limit |-> settings.body.max, window |-> settings.body.window,
                      disabled |-> settings.body.disabled])
  <2>1. LET n == StartDocument(old) IN
        /\ n \in Documents /\ n.version >= 0
        /\ old.version >= 0 => n.version = old.version
        /\ FreshLimiter(n.body)
             = [limit |-> n.body.max, window |-> n.body.window, disabled |-> n.body.disabled]
    BY <1>1, StartKeepsDocument
  <2>2. old.version < 0 => StartDocument(old).version = 0
    BY DEF StartDocument, Document
  <2> QED BY <1>1, <2>1, <2>2 DEF Documents
<1>3. LimiterTypeOK /\ Enforces(cached.body)
  <2>1. settings.body \in Fields BY <1>2 DEF Documents
  <2>2. limiter \in [limit : Nat, window : Nat, disabled : BOOLEAN]
    BY <1>2, <2>1, LimiterOfBody DEF LimiterInit
  <2>3. /\ counters \in [Address -> [count : Nat, resetAt : Nat]]
        /\ half \in 0 .. MaxHalf /\ granted \in [Address -> Nat]
    BY <1>2, LimiterConstants DEF LimiterInit, NoCounter
  <2> QED BY <1>2, <2>2, <2>3 DEF LimiterInit, LimiterTypeOK, Enforces
<1>4. /\ tabs = [t \in Tab |-> NoDocument] /\ backup = NoDocument /\ restored = FALSE
      /\ rewound = {} /\ put = Idle
  BY DEF SettingsInit
<1>5. NoDocument.version = -1 BY DEF NoDocument, Document
<1>6. SettingsTypeOK
  BY <1>1, <1>2, <1>3, <1>4 DEF SettingsTypeOK, Idle
<1>7. StoredInv BY <1>2, <1>4, <1>5 DEF StoredInv
<1>8. PutInv BY <1>2, <1>3, <1>4 DEF PutInv, Idle
<1>9. TabInv BY <1>2, <1>4, <1>5 DEF TabInv
<1> QED BY <1>6, <1>7, <1>8, <1>9 DEF SettingsInv

(* The documents and what they say of each other. *)
LEMMA DocumentTypes ==
    ASSUME SettingsTypeOK
    PROVE  /\ settings \in Documents /\ cached \in Documents /\ backup \in Documents
           /\ put.new \in Documents /\ put.base \in Documents
           /\ \A t \in Tab : tabs[t] \in Documents
           /\ \A d \in Documents : d.version \in Int /\ d.body \in Fields
           /\ NoDocument \in Documents /\ NoDocument.version = -1
<1>1. NoDocument \in Documents /\ NoDocument.version = -1
  BY SettingsConstantsFacts DEF NoDocument, Document, Documents
<1>2. \A d \in Documents : d.version \in Int /\ d.body \in Fields
  BY SettingsConstantsFacts DEF Documents
<1>3. put.new \in Documents /\ put.base \in Documents BY DEF SettingsTypeOK
<1> QED BY <1>1, <1>2, <1>3 DEF SettingsTypeOK

LEMMA RestartStep == SettingsInv /\ Restart => SettingsInv'
<1> SUFFICES ASSUME SettingsInv, Restart PROVE SettingsInv'
  OBVIOUS
<1> DEFINE doc == StartDocument(settings)
<1>0. SettingsTypeOK /\ StoredInv /\ PutInv /\ TabInv BY DEF SettingsInv
<1>1. /\ doc \in Documents /\ doc.version = settings.version
      /\ Normal(settings.body) => doc = settings
      /\ FreshLimiter(doc.body)
           = [limit |-> doc.body.max, window |-> doc.body.window, disabled |-> doc.body.disabled]
  BY <1>0, DocumentTypes, StartKeepsDocument DEF StoredInv
<1>2. /\ settings' = doc /\ cached' = doc /\ limiter' = FreshLimiter(doc.body)
      /\ DropCounters(Address) /\ put' = Idle /\ restored' = FALSE
      /\ rewound' = (IF restored THEN Tab ELSE rewound)
      /\ tabs' = tabs /\ backup' = backup /\ half' = half
  BY DEF Restart
<1> HIDE DEF doc
<1>3. doc.body \in Fields /\ doc.version \in Int BY <1>0, <1>1, DocumentTypes
<1>4. LimiterTypeOK'
  <2>1. LimiterTypeOK BY <1>0 DEF SettingsTypeOK
  <2>2. limiter' \in [limit : Nat, window : Nat, disabled : BOOLEAN]
    BY <1>1, <1>2, <1>3, LimiterOfBody
  <2> QED BY <1>2, <2>1, <2>2 DEF LimiterTypeOK, DropCounters, NoCounter
<1>5. SettingsTypeOK'
  BY <1>0, <1>1, <1>2, <1>4, DocumentTypes DEF SettingsTypeOK, Idle
<1>6. doc.version > 0 => Normal(doc.body) BY <1>0, <1>1 DEF StoredInv
<1>7. StoredInv' BY <1>0, <1>1, <1>2, <1>6 DEF StoredInv
<1>8. PutInv'
  <2>1. limiter' = [limit |-> cached'.body.max, window |-> cached'.body.window,
                    disabled |-> cached'.body.disabled]
    BY <1>1, <1>2
  <2> QED BY <1>2, <2>1 DEF PutInv, Idle, Enforces
<1>9. TabInv'
  <2> SUFFICES ASSUME NEW t \in Tab, t \notin rewound'
               PROVE  /\ tabs[t].version <= doc.version
                      /\ tabs[t].version = doc.version /\ doc.version > 0 => tabs[t] = doc
    BY <1>2 DEF TabInv
  <2>1. ~restored /\ t \notin rewound BY <1>2
  <2>2. /\ tabs[t].version <= cached.version
        /\ tabs[t].version = cached.version /\ cached.version > 0 => tabs[t] = cached
    BY <1>0, <2>1 DEF TabInv
  <2>3. settings.version > 0 => doc = settings BY <1>0, <1>1 DEF StoredInv
  <2>4. /\ tabs[t].version \in Int /\ cached.version \in Int /\ settings.version \in Int
        /\ put.step \in {"idle", "save", "cache", "limiter"}
    BY <1>0, DocumentTypes DEF SettingsTypeOK
  <2>5. \/ settings = cached
        \/ settings = put.new /\ put.new.version = cached.version + 1
    BY <1>0, <2>1, <2>4 DEF PutInv
  <2> QED BY <1>1, <2>2, <2>3, <2>4, <2>5
<1> QED BY <1>5, <1>7, <1>8, <1>9 DEF SettingsInv

LEMMA BeginPutStep ==
    ASSUME SettingsInv, NEW echo \in Nat, NEW b \in Body, NEW base \in Documents,
           BeginPut(echo, b, base), UNCHANGED <<settings, cached, backup, restored, rewound, limiterVars>>,
           tabs' \in [Tab -> Documents], \A t \in Tab : tabs'[t] \in {tabs[t], NoDocument},
           base.version > 0 => base = cached
    PROVE  SettingsInv'
<1> DEFINE n == NormalizeDirectoryOutage(NormalizeRateLimit(b))
<1>0. SettingsTypeOK /\ StoredInv /\ PutInv /\ TabInv BY DEF SettingsInv
<1>1. Normal(n) BY PutNormal DEF BeginPut
<1>2. /\ put = Idle /\ cached.version < MaxVersion
      /\ put' = [step |-> "save", new |-> [body |-> n, version |-> cached.version + 1], base |-> base]
  BY DEF BeginPut, Document
<1> HIDE DEF n
<1>3. cached.version \in Int /\ cached.version >= 0 /\ MaxVersion \in Nat
  BY <1>0, DocumentTypes, SettingsConstantsFacts DEF StoredInv
<1>4. put'.new \in Documents BY <1>1, <1>2, <1>3 DEF Documents, Normal
<1>5. SettingsTypeOK'
  BY <1>0, <1>2, <1>4 DEF SettingsTypeOK, LimiterTypeOK, limiterVars
<1>6. StoredInv' BY <1>0 DEF StoredInv
<1>7. PutInv'
  <2>1. (restored \/ settings = cached) /\ Enforces(cached.body)
    BY <1>0, <1>2 DEF PutInv, Idle
  <2> QED BY <1>1, <1>2, <1>3, <2>1 DEF PutInv, Enforces, limiterVars
<1>8. TabInv'
  BY <1>0, <1>3, DocumentTypes DEF TabInv, StoredInv
<1> QED BY <1>5, <1>6, <1>7, <1>8 DEF SettingsInv

LEMMA PutStep == SettingsInv /\ PutSteps => SettingsInv'
<1> SUFFICES ASSUME SettingsInv, PutSteps PROVE SettingsInv'
  OBVIOUS
<1>0. SettingsTypeOK /\ StoredInv /\ PutInv /\ TabInv BY DEF SettingsInv
<1>1. ASSUME NEW t \in Tab, NEW b \in Body, PutFromTab(t, b) PROVE SettingsInv'
  <2> PICK shown \in Documents : shown = tabs[t] BY <1>0, DocumentTypes
  <2> PICK base \in Documents : base = IF t \in rewound THEN NoDocument ELSE shown
    BY <1>0, DocumentTypes
  <2>1. /\ shown.version >= 0 /\ BeginPut(shown.version, b, base)
        /\ tabs' = [tabs EXCEPT ![t] = NoDocument]
        /\ UNCHANGED <<settings, cached, backup, restored, rewound, limiterVars>>
    BY <1>1 DEF PutFromTab
  <2>2. shown.version \in Nat BY <2>1, <1>0, DocumentTypes
  <2>3. /\ tabs' \in [Tab -> Documents]
        /\ \A u \in Tab : tabs'[u] \in {tabs[u], NoDocument}
    BY <1>0, <2>1, DocumentTypes DEF SettingsTypeOK
  <2>4. base.version > 0 => base = cached
    <3> SUFFICES ASSUME base.version > 0 PROVE base = cached
      OBVIOUS
    <3>1. t \notin rewound /\ base = tabs[t] BY <1>0, DocumentTypes
    <3>2. tabs[t].version = cached.version
      BY <2>1, <3>1 DEF BeginPut, StaleVersion
    <3> QED BY <1>0, <3>1, <3>2 DEF TabInv
  <2> QED BY <2>1, <2>2, <2>3, <2>4, BeginPutStep
<1>2. ASSUME NEW b \in Body, PutWithoutVersion(b) PROVE SettingsInv'
  <2> PICK base \in Documents : base = NoDocument BY <1>0, DocumentTypes
  <2>1. /\ BeginPut(0, b, base) /\ tabs' = tabs
        /\ UNCHANGED <<settings, cached, backup, restored, rewound, limiterVars>>
    BY <1>2 DEF PutWithoutVersion
  <2>2. /\ tabs' \in [Tab -> Documents] /\ ~(base.version > 0)
        /\ \A u \in Tab : tabs'[u] \in {tabs[u], NoDocument}
    BY <1>0, <2>1, DocumentTypes DEF SettingsTypeOK
  <2> QED BY <2>1, <2>2, BeginPutStep
<1>3. CASE SaveRuntimeSettings
  <2>1. /\ put.step = "save" /\ settings' = put.new /\ put' = [put EXCEPT !.step = "cache"]
        /\ UNCHANGED <<cached, tabs, backup, restored, rewound, limiterVars>>
    BY <1>3 DEF SaveRuntimeSettings
  <2>2. put' = [step |-> "cache", new |-> put.new, base |-> put.base]
    BY <1>0, <2>1 DEF SettingsTypeOK
  <2>3. SettingsTypeOK'
    BY <1>0, <2>1, <2>2, DocumentTypes DEF SettingsTypeOK, LimiterTypeOK, limiterVars
  <2>4. StoredInv' BY <1>0, <2>1, DocumentTypes DEF StoredInv, PutInv
  <2>5. PutInv' BY <1>0, <2>1, <2>2 DEF PutInv
  <2>6. TabInv' BY <1>0, <2>1 DEF TabInv
  <2> QED BY <2>3, <2>4, <2>5, <2>6 DEF SettingsInv
<1>4. CASE SaveFails
  <2>1. /\ put.step = "save" /\ put' = Idle
        /\ UNCHANGED <<settings, cached, tabs, backup, restored, rewound, limiterVars>>
    BY <1>4 DEF SaveFails
  <2>2. SettingsTypeOK'
    BY <1>0, <2>1, DocumentTypes DEF SettingsTypeOK, LimiterTypeOK, limiterVars, Idle
  <2>3. PutInv' BY <1>0, <2>1 DEF PutInv, Idle, Enforces, limiterVars
  <2>4. StoredInv' /\ TabInv' BY <1>0, <2>1 DEF StoredInv, TabInv
  <2> QED BY <2>2, <2>3, <2>4 DEF SettingsInv
<1>5. CASE SetCache
  <2>1. /\ put.step = "cache" /\ cached' = put.new /\ put' = [put EXCEPT !.step = "limiter"]
        /\ UNCHANGED <<settings, tabs, backup, restored, rewound, limiterVars>>
    BY <1>5 DEF SetCache
  <2>2. put' = [step |-> "limiter", new |-> put.new, base |-> put.base]
    BY <1>0, <2>1 DEF SettingsTypeOK
  <2>3. SettingsTypeOK'
    BY <1>0, <2>1, <2>2, DocumentTypes DEF SettingsTypeOK, LimiterTypeOK, limiterVars
  <2>4. StoredInv' BY <1>0, <2>1, DocumentTypes DEF StoredInv, PutInv
  <2>5. PutInv' BY <1>0, <2>1, <2>2 DEF PutInv
  <2>6. TabInv'
    <3>1. cached'.version = cached.version + 1 BY <1>0, <2>1 DEF PutInv
    <3>2. cached.version \in Int /\ \A t \in Tab : tabs[t].version \in Int
      BY <1>0, DocumentTypes
    <3> QED BY <1>0, <2>1, <3>1, <3>2 DEF TabInv
  <2> QED BY <2>3, <2>4, <2>5, <2>6 DEF SettingsInv
<1>6. CASE ApplyRateLimit
  <2> PICK b : b = put.new.body OBVIOUS
  <2>1. /\ put.step = "limiter" /\ SetConfig(b.max, b.window, b.disabled) /\ put' = Idle
        /\ UNCHANGED <<settings, cached, tabs, backup, restored, rewound>>
    BY <1>6 DEF ApplyRateLimit
  <2>2. Normal(b) /\ cached = put.new /\ (restored \/ settings = cached)
    BY <1>0, <2>1 DEF PutInv
  <2>3. LimiterTypeOK' /\ Enforces(b)'
    BY <1>0, <2>1, <2>2, LimitApplied DEF SettingsTypeOK
  <2>4. SettingsTypeOK' BY <1>0, <2>1, <2>3, DocumentTypes DEF SettingsTypeOK, Idle
  <2>5. PutInv'
    <3>1. Enforces(cached.body)' BY <2>1, <2>2, <2>3 DEF Enforces
    <3> QED BY <2>1, <2>2, <3>1 DEF PutInv, Idle
  <2>6. StoredInv' /\ TabInv' BY <1>0, <2>1 DEF StoredInv, TabInv
  <2> QED BY <2>4, <2>5, <2>6 DEF SettingsInv
<1> QED BY <1>1, <1>2, <1>3, <1>4, <1>5, <1>6 DEF PutSteps

LEMMA OperatorStep == SettingsInv /\ OperatorSteps => SettingsInv'
<1> SUFFICES ASSUME SettingsInv, OperatorSteps PROVE SettingsInv'
  OBVIOUS
<1>0. SettingsTypeOK /\ StoredInv /\ PutInv /\ TabInv BY DEF SettingsInv
<1>1. ASSUME NEW t \in Tab, Load(t) PROVE SettingsInv'
  <2>1. /\ tabs' = [tabs EXCEPT ![t] = cached] /\ rewound' = rewound \ {t}
        /\ UNCHANGED <<settings, cached, put, backup, restored, limiterVars>>
    BY <1>1 DEF Load
  <2>2. SettingsTypeOK'
    BY <1>0, <2>1, DocumentTypes DEF SettingsTypeOK, LimiterTypeOK, limiterVars
  <2>3. StoredInv' /\ PutInv' BY <1>0, <2>1 DEF StoredInv, PutInv, Enforces, limiterVars
  <2>4. TabInv' BY <1>0, <2>1, DocumentTypes DEF TabInv, SettingsTypeOK
  <2> QED BY <2>2, <2>3, <2>4 DEF SettingsInv
<1>2. ASSUME NEW t \in Tab, Conflict(t) PROVE SettingsInv'
  <2>1. /\ tabs' = [tabs EXCEPT ![t] = NoDocument]
        /\ UNCHANGED <<settings, cached, put, backup, restored, rewound, limiterVars>>
    BY <1>2 DEF Conflict
  <2>2. SettingsTypeOK'
    BY <1>0, <2>1, DocumentTypes DEF SettingsTypeOK, LimiterTypeOK, limiterVars
  <2>3. StoredInv' /\ PutInv' BY <1>0, <2>1 DEF StoredInv, PutInv, Enforces, limiterVars
  <2>4. TabInv' BY <1>0, <2>1, DocumentTypes DEF TabInv, SettingsTypeOK, StoredInv
  <2> QED BY <2>2, <2>3, <2>4 DEF SettingsInv
<1>3. CASE Backup
  <2>1. /\ backup' = settings
        /\ UNCHANGED <<settings, cached, tabs, put, restored, rewound, limiterVars>>
    BY <1>3 DEF Backup
  <2>2. SettingsTypeOK'
    BY <1>0, <2>1, DocumentTypes DEF SettingsTypeOK, LimiterTypeOK, limiterVars
  <2>3. StoredInv' /\ PutInv' /\ TabInv'
    BY <1>0, <2>1 DEF StoredInv, PutInv, TabInv, Enforces, limiterVars
  <2> QED BY <2>2, <2>3 DEF SettingsInv
<1>4. CASE Restore
  <2>1. /\ backup # NoDocument /\ settings' = backup /\ restored' = TRUE
        /\ UNCHANGED <<cached, tabs, put, backup, rewound, limiterVars>>
    BY <1>4 DEF Restore
  <2>2. SettingsTypeOK'
    BY <1>0, <2>1, DocumentTypes DEF SettingsTypeOK, LimiterTypeOK, limiterVars
  <2>3. PutInv' /\ TabInv' BY <1>0, <2>1 DEF PutInv, TabInv, Enforces, limiterVars
  <2>4. StoredInv' BY <1>0, <2>1 DEF StoredInv
  <2> QED BY <2>2, <2>3, <2>4 DEF SettingsInv
<1> QED BY <1>1, <1>2, <1>3, <1>4 DEF OperatorSteps

LEMMA SettingsStep == SettingsInv /\ [SettingsNext]_settingsVars => SettingsInv'
<1> SUFFICES ASSUME SettingsInv, [SettingsNext]_settingsVars PROVE SettingsInv'
  OBVIOUS
<1>0. SettingsTypeOK /\ StoredInv /\ PutInv /\ TabInv BY DEF SettingsInv
<1>1. CASE ServedRequests
  <2>1. /\ LimiterNext
        /\ UNCHANGED <<settings, cached, tabs, put, backup, restored, rewound>>
    BY <1>1 DEF ServedRequests
  <2>2. LimiterTypeOK' /\ limiter' = limiter
    <3>1. limiter' = limiter
      BY <2>1 DEF LimiterNext, Request, Cleanup, HalfSecond
    <3> QED BY <1>0, <2>1, <3>1, LimiterTypes DEF SettingsTypeOK
  <2>3. SettingsTypeOK' BY <1>0, <2>1, <2>2 DEF SettingsTypeOK
  <2>4. StoredInv' /\ PutInv' /\ TabInv'
    BY <1>0, <2>1, <2>2 DEF StoredInv, PutInv, TabInv, Enforces
  <2> QED BY <2>3, <2>4 DEF SettingsInv
<1>2. CASE UNCHANGED settingsVars
  BY <1>0, <1>2 DEF settingsVars, limiterVars, SettingsInv, SettingsTypeOK, LimiterTypeOK, StoredInv,
                    PutInv, TabInv, Enforces
<1> QED BY <1>1, <1>2, PutStep, OperatorStep, RestartStep DEF SettingsNext

(***************************************************************************)
(* The inductive invariant: types, the agreement of store, copy and        *)
(* limiter at each step of a PUT, and the age of every tab's document.     *)
(***************************************************************************)
THEOREM SettingsInvariant == SettingsSpec => []SettingsInv
BY InitialSettings, SettingsStep, PTL DEF SettingsSpec

(***************************************************************************)
(* With no PUT under way store, copy and limiter agree, for any bodies,    *)
(* caps and configuration (handleUpdateSettings, initRuntimeSettings).     *)
(***************************************************************************)
THEOREM Agreement == SettingsSpec => []SettingsAgree
<1>1. SettingsInv => SettingsAgree
  BY DEF SettingsInv, PutInv, SettingsAgree, Enforces
<1> QED BY <1>1, SettingsInvariant, PTL

(***************************************************************************)
(* A PUT that echoes a version replaces the document its tab had loaded.   *)
(***************************************************************************)
THEOREM NoLostSettings == SettingsSpec => NoStaleOverwrite
<1>1. ASSUME SettingsInv, [SettingsNext]_settingsVars
      PROVE  [put.step = "cache" /\ put.base.version > 0 /\ cached' # cached /\ put' # Idle
               => cached = put.base]_settingsVars
  BY <1>1 DEF SettingsInv, PutInv
<1> QED BY <1>1, SettingsInvariant, PTL DEF SettingsSpec, NoStaleOverwrite

-----------------------------------------------------------------------------
(* The limit. *)

(* No connection was granted more than its address's counter counts. *)
GrantsCounted == \A p \in Address \ Trusted : granted[p] <= counters[p].count

LEMMA DropKeepsCount ==
    ASSUME LimiterTypeOK, GrantsCounted, NEW addresses, DropCounters(addresses)
    PROVE  GrantsCounted'
BY DEF LimiterTypeOK, GrantsCounted, DropCounters, NoCounter

(* One request, seen by a connection that is no trusted proxy. *)
LEMMA OneRequest ==
    ASSUME LimiterTypeOK, GrantsCounted,
           NEW peer \in Address, NEW f \in Address \cup {NoAddress},
           NEW r \in Address \cup {NoAddress}, Request(peer, f, r),
           NEW p \in Address \ Trusted
    PROVE  /\ granted'[p] <= counters'[p].count
           /\ granted'[p] > granted[p] => granted'[p] <= 1 \/ granted'[p] <= limiter.limit
<1> DEFINE c == ClientIP(peer, f, r)
<1>1. c \in Address /\ (peer \notin Trusted => c = peer)
  BY DEF ClientIP, ClientIPAnyPeer
<1>2. /\ counters' = IF limiter.disabled THEN counters
           ELSE [counters EXCEPT ![c] =
                   IF Lapsed(c) THEN [count |-> 1, resetAt |-> half + 2 * limiter.window]
                   ELSE [count |-> counters[c].count + 1, resetAt |-> counters[c].resetAt]]
      /\ granted' = [q \in Address |->
           (IF q = c /\ Lapsed(c) /\ ~limiter.disabled THEN 0 ELSE granted[q])
             + (IF q = peer /\ q \notin Trusted /\ ~limiter.disabled /\ Allowed(c) THEN 1 ELSE 0)]
  BY DEF Request
<1> HIDE DEF c
<1>3. /\ granted[p] \in Nat /\ counters[p].count \in Nat /\ granted[p] <= counters[p].count
      /\ limiter.limit \in Nat
  BY DEF LimiterTypeOK, GrantsCounted
<1>4. granted'[p] = (IF p = c /\ Lapsed(c) /\ ~limiter.disabled THEN 0 ELSE granted[p])
                      + (IF p = peer /\ ~limiter.disabled /\ Allowed(c) THEN 1 ELSE 0)
  BY <1>2
<1>5. CASE limiter.disabled
  BY <1>2, <1>3, <1>4, <1>5
<1>6. CASE ~limiter.disabled /\ p # c
  <2>1. p # peer BY <1>1, <1>6
  <2>2. counters'[p] = counters[p] BY <1>2, <1>6 DEF LimiterTypeOK
  <2> QED BY <1>3, <1>4, <1>6, <2>1, <2>2
<1>7. CASE ~limiter.disabled /\ p = c /\ Lapsed(c)
  <2>1. counters'[p].count = 1 BY <1>1, <1>2, <1>7 DEF LimiterTypeOK
  <2>2. granted'[p] \in {0, 1} BY <1>4, <1>7
  <2> QED BY <2>1, <2>2
<1>8. CASE ~limiter.disabled /\ p = c /\ ~Lapsed(c)
  <2>1. counters'[p].count = counters[p].count + 1 BY <1>1, <1>2, <1>8 DEF LimiterTypeOK
  <2>2. CASE p = peer /\ Allowed(c)
    <3>1. counters[p].count + 1 <= limiter.limit BY <1>8, <2>2 DEF Allowed
    <3>2. granted'[p] = granted[p] + 1 BY <1>3, <1>4, <1>8, <2>2
    <3> QED BY <1>3, <2>1, <3>1, <3>2
  <2>3. CASE ~(p = peer /\ Allowed(c))
    <3>1. granted'[p] = granted[p] BY <1>3, <1>4, <1>8, <2>3
    <3> QED BY <1>3, <2>1, <3>1
  <2> QED BY <2>2, <2>3
<1> QED BY <1>5, <1>6, <1>7, <1>8

(* Nothing but a request raises what was granted. *)
LEMMA LimiterStep ==
    ASSUME SettingsInv, GrantsCounted, [SettingsNext]_settingsVars
    PROVE  /\ GrantsCounted'
           /\ \A p \in Address \ Trusted :
                granted'[p] > granted[p] => granted'[p] <= 1 \/ granted'[p] <= limiter.limit
<1>0. LimiterTypeOK /\ LimiterTypeOK'
  BY SettingsStep DEF SettingsInv, SettingsTypeOK
<1>1. CASE \E peer \in Address, f, r \in Address \cup {NoAddress} : Request(peer, f, r)
  BY <1>0, <1>1, OneRequest DEF GrantsCounted
<1>2. CASE UNCHANGED <<counters, granted>>
  BY <1>0, <1>2 DEF GrantsCounted, LimiterTypeOK
<1>3. ASSUME NEW addresses, DropCounters(addresses)
      PROVE  /\ GrantsCounted'
             /\ \A p \in Address \ Trusted : ~(granted'[p] > granted[p])
  <2>1. GrantsCounted' BY <1>0, <1>3, DropKeepsCount
  <2>2. \A p \in Address : granted[p] \in Nat /\ granted'[p] \in {0, granted[p]}
    BY <1>0, <1>3 DEF DropCounters, LimiterTypeOK
  <2> QED BY <2>1, <2>2
<1>4. CASE Cleanup
  <2> PICK addresses : addresses = {a \in Address : half > counters[a].resetAt} OBVIOUS
  <2> QED BY <1>3, <1>4 DEF Cleanup
<1>5. CASE ApplyRateLimit
  <2> PICK addresses : DropCounters(addresses) BY <1>5 DEF ApplyRateLimit, SetConfig
  <2> QED BY <1>3
<1>6. CASE Restart
  BY <1>3, <1>6 DEF Restart
<1>7. CASE HalfSecond \/ (PutSteps /\ ~ApplyRateLimit) \/ OperatorSteps \/ UNCHANGED settingsVars
  BY <1>2, <1>7 DEF HalfSecond, PutSteps, PutFromTab, PutWithoutVersion, SaveRuntimeSettings, SaveFails,
     SetCache, OperatorSteps, Load, Conflict, Backup, Restore, settingsVars, limiterVars
<1> QED BY <1>1, <1>4, <1>5, <1>6, <1>7 DEF SettingsNext, ServedRequests, LimiterNext

(***************************************************************************)
(* The limit holds for every connection that is no trusted proxy, for any  *)
(* number of addresses and whatever the settings become (allow,            *)
(* getClientIP, cleanup, setConfig).                                       *)
(***************************************************************************)
THEOREM Limit == SettingsSpec => LimitHolds
<1>1. SettingsInit => GrantsCounted
  <2> SUFFICES ASSUME SettingsInit PROVE GrantsCounted
    OBVIOUS
  <2>1. /\ counters = [a \in Address |-> NoCounter] /\ granted = [a \in Address |-> 0]
    BY DEF SettingsInit, LimiterInit
  <2> QED BY <2>1 DEF GrantsCounted, NoCounter
<1>2. SettingsInv /\ GrantsCounted /\ [SettingsNext]_settingsVars => GrantsCounted'
  BY LimiterStep
<1>3. ASSUME SettingsInv, GrantsCounted, [SettingsNext]_settingsVars
      PROVE  [\A p \in Address \ Trusted :
                granted'[p] > granted[p] => granted'[p] <= 1 \/ granted'[p] <= limiter.limit]_settingsVars
  BY <1>3, LimiterStep
<1> QED BY <1>1, <1>2, <1>3, SettingsInvariant, PTL DEF SettingsSpec, LimitHolds

(***************************************************************************)
(* A client that waits as long as Retry-After says finds its counter       *)
(* lapsed (retryAfter).                                                    *)
(***************************************************************************)
THEOREM RetryAfterIsEnough == SettingsSpec => []RetryAfterSuffices
<1>1. SettingsInv => RetryAfterSuffices
  <2> SUFFICES ASSUME SettingsInv, NEW a \in Address, ~Allowed(a)
               PROVE  half + 2 * RetryAfter(a) > counters[a].resetAt
    BY DEF RetryAfterSuffices
  <2>1. half \in Nat /\ counters[a].resetAt \in Nat
    BY LimiterConstants DEF SettingsInv, SettingsTypeOK, LimiterTypeOK
  <2>2. ~Lapsed(a) BY DEF Allowed
  <2>3. half <= counters[a].resetAt BY <2>1, <2>2 DEF Lapsed
  <2>4. RetryAfter(a) = (counters[a].resetAt - half) \div 2 + 1 BY <2>2 DEF RetryAfter
  <2> QED BY <2>1, <2>3, <2>4
<1> QED BY <1>1, SettingsInvariant, PTL

-----------------------------------------------------------------------------
(* The server's key and a client's copy: SigningKeys. *)

Keys == 1 .. MaxKeys

Published == [kid : Keys, key : Keys]

SignedToken == [key : Keys, kid : Keys, class : {"access", "other"}, until : Nat]

VerifyState ==
    [step : {"none", "fetch", "asked", "store", "again"}, token : SignedToken \cup {[key |-> 0]},
     since : Nat, got : SUBSET Published]

KeyTypes ==
    /\ generated \in 0 .. MaxKeys
    /\ keyFile \in {Absent, Partial, generated}
    /\ signer \in [step : {"down", "private", "public", "up"}, key : 0 .. MaxKeys, kid : 0 .. MaxKeys]
    /\ issued \in SUBSET SignedToken
    /\ keyCache \in [keys : SUBSET Published, at : Int, lastFetch : Int]
    /\ verifying \in [Verifier -> VerifyState]
    /\ tick \in Nat
    /\ withdrawn \in [Keys -> Nat \cup {-1}]

(* The server holds the last key it made, which its file holds unless
   somebody removed it.                                                     *)
ServedKey ==
    /\ signer.step # "down" => signer.key = generated /\ generated > 0
    /\ signer.step = "private" => keyFile \in {Absent, Partial}
    /\ signer.step \in {"public", "up"} => signer.key = keyFile \/ signer.key \in removed
    /\ signer.step = "up" => signer.kid = signer.key /\ withdrawn[signer.key] = -1

(* A token was signed with the last key or with one that was removed. *)
SignedTokens ==
    \A t \in issued : /\ t.kid = t.key
                      /\ t.key = generated \/ t.key \in removed
                      /\ t.key = keyFile \/ t.key \in removed

(* The server published the key at that time, or later. *)
PublishedSince(k, time) == withdrawn[k.key] = -1 \/ withdrawn[k.key] >= time

CachedSince ==
    /\ keyCache.at <= tick
    /\ \A k \in keyCache.keys : k.kid = k.key /\ PublishedSince(k, keyCache.at - FetchTimeout)

(* A call that fetches, as far as it is. *)
Fetching(v) ==
    LET call == verifying[v] IN
    /\ call.step # "none" => call.token \in issued
    /\ call.step \in {"asked", "store"} => call.since <= tick /\ tick <= call.since + FetchTimeout
    /\ call.step = "again" => keyCache.at = tick
    /\ call.step \in {"store", "again"} => \E k \in Published :
         /\ call.got = {k} /\ k.kid = k.key
         /\ call.token.key = k.key \/ call.token.key \in removed
         /\ call.step = "store" => PublishedSince(k, call.since)

KeyInv ==
    /\ KeyTypes
    /\ ServedKey
    /\ SignedTokens
    /\ CachedSince
    /\ \A v \in Verifier : Fetching(v)
    /\ TrustLapses
    /\ LiveTokensVerified

LEMMA ClientBounds ==
    /\ KeysTTL \in Nat \ {0} /\ MinRefetch \in Nat \ {0} /\ FetchTimeout \in Nat \ {0}
    /\ IssuedTTL \in Nat \ {0} /\ MaxKeys \in Nat \ {0}
BY ClientConstants

LEMMA NotVerifyingFacts ==
    NotVerifying \in VerifyState /\ NotVerifying.step = "none"
BY DEF NotVerifying, VerifyState

(* A step that comes to no verdict breaks no property of verdicts. *)
LEMMA NoVerdictFacts ==
    ASSUME NoVerdictYet
    PROVE  TrustLapses' /\ LiveTokensVerified'
<1>1. verdict'.accepted = FALSE /\ verdict'.why = "none" BY DEF NoVerdictYet, NoVerdict
<1> QED BY <1>1 DEF TrustLapses, LiveTokensVerified

LEMMA KeyInvInit ==
    ASSUME SigningInit
    PROVE  KeyInv
<1>1. KeyTypes
  <2>1. /\ keyFile = Absent /\ generated = 0 /\ tick = 0 /\ issued = {}
        /\ signer = [step |-> "down", key |-> 0, kid |-> 0]
        /\ keyCache = [keys |-> {}, at |-> -KeysTTL - 1, lastFetch |-> -MinRefetch]
        /\ withdrawn = [k \in Keys |-> -1]
    BY DEF SigningInit, Down, Keys
  <2>2. verifying \in [Verifier -> VerifyState] BY NotVerifyingFacts DEF SigningInit
  <2>3. withdrawn \in [Keys -> Nat \cup {-1}] BY <2>1
  <2>4. keyCache \in [keys : SUBSET Published, at : Int, lastFetch : Int] BY <2>1, ClientBounds
  <2>5. signer \in [step : {"down", "private", "public", "up"}, key : 0 .. MaxKeys, kid : 0 .. MaxKeys]
    BY <2>1, ClientBounds
  <2> QED BY <2>1, <2>2, <2>3, <2>4, <2>5, ClientBounds DEF KeyTypes
<1>2. ServedKey BY DEF ServedKey, SigningInit, Down
<1>3. SignedTokens BY DEF SignedTokens, SigningInit
<1>4. CachedSince BY ClientBounds DEF CachedSince, SigningInit
<1>5. \A v \in Verifier : Fetching(v) BY NotVerifyingFacts DEF Fetching, SigningInit
<1>6. TrustLapses /\ LiveTokensVerified
  BY DEF TrustLapses, LiveTokensVerified, SigningInit, NoVerdict
<1> QED BY <1>1, <1>2, <1>3, <1>4, <1>5, <1>6 DEF KeyInv

-----------------------------------------------------------------------------
(* What the server does. *)

(* A key the server published at a time was published then, whatever the
   server did since.                                                        *)
LEMMA ClientKeeps ==
    ASSUME KeyInv, KeyTypes', ServedKey', SignedTokens', UNCHANGED <<theClient, tick>>, NoVerdictYet,
           issued \subseteq issued', removed \subseteq removed',
           \A k \in Keys : withdrawn'[k] \in {withdrawn[k], -1, tick}
    PROVE  KeyInv'
<1>1. /\ keyCache' = keyCache /\ verifying' = verifying /\ tick' = tick /\ tick \in Nat
      /\ keyCache \in [keys : SUBSET Published, at : Int, lastFetch : Int]
      /\ verifying \in [Verifier -> VerifyState] /\ withdrawn \in [Keys -> Nat \cup {-1}]
  BY DEF theClient, KeyInv, KeyTypes
<1>2. ASSUME NEW k \in Published, NEW time \in Int, time <= tick, PublishedSince(k, time)
      PROVE  PublishedSince(k, time)'
  <2>1. k.key \in Keys BY DEF Published
  <2> QED BY <1>1, <1>2, <2>1 DEF PublishedSince
<1>3. CachedSince'
  <2>1. keyCache.at \in Int /\ keyCache.keys \in SUBSET Published /\ keyCache.at - FetchTimeout \in Int
    BY <1>1, ClientBounds
  <2>2. CachedSince BY DEF KeyInv
  <2>3. keyCache.at <= tick /\ keyCache.at - FetchTimeout <= tick
    BY <1>1, <2>1, <2>2, ClientBounds DEF CachedSince
  <2> QED BY <1>1, <1>2, <2>1, <2>2, <2>3 DEF CachedSince
<1>4. ASSUME NEW v \in Verifier PROVE Fetching(v)'
  <2>1. verifying[v].since \in Nat BY <1>1 DEF VerifyState
  <2>2. Fetching(v) BY DEF KeyInv
  <2>3. ASSUME verifying[v].step \in {"store", "again"}
        PROVE  \E k \in Published :
                 /\ verifying[v].got = {k} /\ k.kid = k.key
                 /\ verifying[v].token.key = k.key \/ verifying[v].token.key \in removed'
                 /\ verifying[v].step = "store" => PublishedSince(k, verifying[v].since)'
    <3>1. PICK k \in Published :
            /\ verifying[v].got = {k} /\ k.kid = k.key
            /\ verifying[v].token.key = k.key \/ verifying[v].token.key \in removed
            /\ verifying[v].step = "store" => PublishedSince(k, verifying[v].since)
      BY <2>2, <2>3 DEF Fetching
    <3>2. verifying[v].step = "store" => verifying[v].since <= tick BY <2>2 DEF Fetching
    <3>3. verifying[v].step = "store" => PublishedSince(k, verifying[v].since)'
      BY <1>1, <1>2, <2>1, <3>1, <3>2
    <3> QED BY <3>1, <3>3
  <2>4. Published' = Published BY DEF Published, Keys
  <2> QED BY <1>1, <2>2, <2>3, <2>4 DEF Fetching
<1> QED BY <1>3, <1>4, NoVerdictFacts DEF KeyInv

LEMMA ServerTypes ==
    ASSUME KeyInv
    PROVE  /\ generated \in 0 .. MaxKeys /\ generated \in Int
           /\ keyFile \in {Absent, Partial, generated} /\ tick \in Nat
           /\ signer \in [step : {"down", "private", "public", "up"}, key : 0 .. MaxKeys, kid : 0 .. MaxKeys]
           /\ issued \in SUBSET SignedToken /\ withdrawn \in [Keys -> Nat \cup {-1}]
           /\ keyCache \in [keys : SUBSET Published, at : Int, lastFetch : Int]
           /\ verifying \in [Verifier -> VerifyState]
           /\ UNCHANGED MaxKeys
           /\ ServedKey /\ SignedTokens /\ CachedSince
BY ClientBounds DEF KeyInv, KeyTypes

(* The types after a step that leaves the client alone. *)
LEMMA ServerTypesKept ==
    ASSUME KeyInv, UNCHANGED <<theClient, tick>>, generated' \in 0 .. MaxKeys,
           keyFile' \in {Absent, Partial, generated'},
           signer' \in [step : {"down", "private", "public", "up"}, key : 0 .. MaxKeys, kid : 0 .. MaxKeys],
           issued' \in SUBSET SignedToken, withdrawn' \in [Keys -> Nat \cup {-1}]
    PROVE  KeyTypes'
<1>1. /\ SignedToken' = SignedToken /\ Published' = Published /\ VerifyState' = VerifyState
      /\ Keys' = Keys /\ Absent' = Absent /\ Partial' = Partial
  BY DEF SignedToken, Published, VerifyState, Keys, Absent, Partial
<1>2. keyCache' = keyCache /\ verifying' = verifying /\ tick' = tick BY DEF theClient
<1> QED BY <1>1, <1>2 DEF KeyInv, KeyTypes

(* NewJWTManager, with a file or after generateKeys: the key in hand is served. *)
LEMMA KeyServed ==
    ASSUME KeyInv, NEW key \in Keys, Serve(key), key = generated, key = keyFile \/ key \in removed,
           UNCHANGED <<keyFile, generated, issued, tick, removed, theClient>>, NoVerdictYet
    PROVE  KeyInv'
<1>1. /\ signer'.step = "up" /\ signer'.key = key /\ signer'.kid = key
      /\ withdrawn' = [withdrawn EXCEPT ![key] = -1]
      /\ signer' \in [step : {"down", "private", "public", "up"}, key : 0 .. MaxKeys, kid : 0 .. MaxKeys]
  BY ClientBounds DEF Serve, ComputeKID, Keys
<1>2. /\ withdrawn' \in [Keys -> Nat \cup {-1}] /\ withdrawn'[key] = -1
      /\ \A k \in Keys : withdrawn'[k] \in {withdrawn[k], -1, tick}
  BY <1>1, ServerTypes
<1>3. KeyTypes' BY <1>1, <1>2, ServerTypes, ServerTypesKept
<1>4. ServedKey' BY <1>1, <1>2 DEF ServedKey, Keys
<1>5. SignedTokens' BY ServerTypes DEF SignedTokens
<1> QED BY <1>2, <1>3, <1>4, <1>5, ClientKeeps

LEMMA LoadKeysStep ==
    ASSUME KeyInv, LoadKeys
    PROVE  KeyInv'
<1>1. keyFile \in Keys /\ keyFile = generated
  BY ServerTypes, ClientBounds DEF LoadKeys, Absent, Partial, Keys
<1> QED BY <1>1, KeyServed DEF LoadKeys

LEMMA GenerateKeysStep ==
    ASSUME KeyInv, GenerateKeys
    PROVE  KeyInv'
<1>1. /\ keyFile = Absent /\ generated' = generated + 1 /\ keyFile' = Partial
      /\ signer' = [[Down EXCEPT !.step = "private"] EXCEPT !.key = generated + 1]
      /\ generated + 1 \in Keys /\ UNCHANGED <<issued, tick, withdrawn, removed, theClient>>
  BY ServerTypes, ClientBounds DEF GenerateKeys, theHistoryOfKeys, Keys
<1>2. /\ signer'.step = "private" /\ signer'.key = generated + 1
      /\ signer' \in [step : {"down", "private", "public", "up"}, key : 0 .. MaxKeys, kid : 0 .. MaxKeys]
  <2>1. signer' = [step |-> "private", key |-> generated + 1, kid |-> 0] BY <1>1 DEF Down
  <2> QED BY <1>1, <2>1, ClientBounds DEF Keys
<1>3. KeyTypes' BY <1>1, <1>2, ServerTypes, ServerTypesKept, ClientBounds DEF Keys
<1>4. ServedKey' BY <1>1, <1>2, ServerTypes DEF ServedKey, Partial, Absent
<1>5. SignedTokens'
  <2>1. ASSUME NEW t \in issued PROVE t.kid = t.key /\ t.key \in removed
    <3>1. t.key \in Keys BY ServerTypes DEF SignedToken
    <3>2. t.key # keyFile BY <1>1, <3>1, ClientBounds DEF Absent, Keys
    <3> QED BY <3>2, ServerTypes DEF SignedTokens
  <2> QED BY <1>1, <2>1 DEF SignedTokens
<1> QED BY <1>1, <1>3, <1>4, <1>5, ClientKeeps DEF GenerateKeys

LEMMA WritePrivateKeyStep ==
    ASSUME KeyInv, WritePrivateKey
    PROVE  KeyInv'
<1>1. /\ signer.step = "private" /\ keyFile' = signer.key /\ signer.key = generated /\ generated > 0
      /\ signer' = [signer EXCEPT !.step = "public"] /\ keyFile \in {Absent, Partial}
      /\ UNCHANGED <<generated, issued, tick, withdrawn, removed, theClient>>
  BY ServerTypes DEF WritePrivateKey, theHistoryOfKeys, ServedKey
<1>2. /\ signer'.step = "public" /\ signer'.key = generated
      /\ signer' \in [step : {"down", "private", "public", "up"}, key : 0 .. MaxKeys, kid : 0 .. MaxKeys]
  BY <1>1, ServerTypes
<1>3. KeyTypes' BY <1>1, <1>2, ServerTypes, ServerTypesKept
<1>4. ServedKey' BY <1>1, <1>2 DEF ServedKey
<1>5. SignedTokens' BY <1>1, ServerTypes DEF SignedTokens
<1> QED BY <1>1, <1>3, <1>4, <1>5, ClientKeeps DEF WritePrivateKey

LEMMA WritePublicKeyStep ==
    ASSUME KeyInv, WritePublicKey
    PROVE  KeyInv'
<1>1. /\ signer.key \in Keys /\ signer.key = generated
      /\ signer.key = keyFile \/ signer.key \in removed
  BY ServerTypes, ClientBounds DEF WritePublicKey, ServedKey, Keys
<1> QED BY <1>1, KeyServed DEF WritePublicKey

LEMMA StopSigningStep ==
    ASSUME KeyInv, StopSigning
    PROVE  KeyInv'
<1>1. /\ signer' = Down /\ Down.step = "down"
      /\ UNCHANGED <<keyFile, generated, issued, tick, removed, theClient>>
      /\ signer' \in [step : {"down", "private", "public", "up"}, key : 0 .. MaxKeys, kid : 0 .. MaxKeys]
  BY ClientBounds DEF StopSigning, Down
<1>2. /\ withdrawn' \in [Keys -> Nat \cup {-1}]
      /\ \A k \in Keys : withdrawn'[k] \in {withdrawn[k], -1, tick}
  BY ServerTypes DEF StopSigning
<1>3. KeyTypes' BY <1>1, <1>2, ServerTypes, ServerTypesKept
<1>4. ServedKey' BY <1>1 DEF ServedKey
<1>5. SignedTokens' BY <1>1, ServerTypes DEF SignedTokens
<1> QED BY <1>1, <1>2, <1>3, <1>4, <1>5, ClientKeeps DEF StopSigning

LEMMA RemoveKeyFileStep ==
    ASSUME KeyInv, RemoveKeyFile
    PROVE  KeyInv'
<1>1. /\ keyFile' = Absent /\ removed' = removed \cup ({keyFile} \ {Partial})
      /\ UNCHANGED <<signer, generated, issued, tick, withdrawn, theClient>>
  BY DEF RemoveKeyFile
<1>2. KeyTypes' BY <1>1, ServerTypes, ServerTypesKept
<1>3. ServedKey'
  <2>1. signer.key \in Int /\ signer.key # Partial BY ServerTypes, ClientBounds DEF Partial
  <2> QED BY <1>1, <2>1, ServerTypes DEF ServedKey, Absent
<1>4. SignedTokens'
  <2>1. \A t \in issued : t.key # Partial BY ServerTypes, ClientBounds DEF SignedToken, Keys, Partial
  <2> QED BY <1>1, <2>1, ServerTypes DEF SignedTokens
<1> QED BY <1>1, <1>2, <1>3, <1>4, ClientKeeps, ServerTypes DEF RemoveKeyFile

LEMMA IssueTokenStep ==
    ASSUME KeyInv, NEW class \in {"access", "other"}, IssueToken(class)
    PROVE  KeyInv'
<1> DEFINE t == [key |-> signer.key, kid |-> signer.kid, class |-> class, until |-> tick + IssuedTTL]
<1>1. /\ issued' = issued \cup {t} /\ signer.step = "up"
      /\ UNCHANGED <<keyFile, signer, generated, tick, withdrawn, removed, theClient>>
  BY DEF IssueToken, theHistoryOfKeys
<1>2. /\ signer.key \in Keys /\ signer.kid = signer.key /\ signer.key = generated
      /\ signer.key = keyFile \/ signer.key \in removed
  BY <1>1, ServerTypes, ClientBounds DEF ServedKey, Keys
<1>3. t \in SignedToken /\ t.kid = t.key /\ t.key = signer.key
  BY <1>2, ServerTypes, ClientBounds DEF SignedToken
<1> HIDE DEF t
<1>4. KeyTypes' BY <1>1, <1>3, ServerTypes, ServerTypesKept
<1>5. ServedKey' BY <1>1, ServerTypes DEF ServedKey
<1>6. SignedTokens' BY <1>1, <1>2, <1>3, ServerTypes DEF SignedTokens
<1> QED BY <1>1, <1>4, <1>5, <1>6, ClientKeeps, ServerTypes DEF IssueToken

-----------------------------------------------------------------------------
(* What a client does: Verify, getKey and fetchJWKS. *)

(* A step of one call. *)
LEMMA CallKeeps ==
    ASSUME KeyInv, UNCHANGED theServer, NEW v \in Verifier, NEW call \in VerifyState,
           verifying' = [verifying EXCEPT ![v] = call], Fetching(v)',
           keyCache' \in [keys : SUBSET Published, at : Int, lastFetch : Int],
           keyCache'.at \in {keyCache.at, tick}, CachedSince', TrustLapses', LiveTokensVerified'
    PROVE  KeyInv'
<1>1. /\ keyFile' = keyFile /\ signer' = signer /\ generated' = generated /\ issued' = issued
      /\ tick' = tick /\ withdrawn' = withdrawn /\ removed' = removed
  BY DEF theServer
<1>2. verifying' \in [Verifier -> VerifyState] /\ \A o \in Verifier \ {v} : verifying'[o] = verifying[o]
  BY ServerTypes
<1>3. KeyTypes'
  <2>1. /\ SignedToken' = SignedToken /\ Published' = Published /\ VerifyState' = VerifyState
        /\ Keys' = Keys /\ Absent' = Absent /\ Partial' = Partial
    BY DEF SignedToken, Published, VerifyState, Keys, Absent, Partial
  <2> QED BY <1>1, <1>2, <2>1 DEF KeyInv, KeyTypes
<1>4. ServedKey' BY <1>1, ServerTypes DEF ServedKey
<1>5. SignedTokens' BY <1>1, ServerTypes DEF SignedTokens
<1>6. ASSUME NEW o \in Verifier PROVE Fetching(o)'
  <2>1. CASE o = v BY <2>1
  <2>2. CASE o # v
    <3>1. Fetching(o) /\ verifying'[o] = verifying[o] BY <1>2, <2>2 DEF KeyInv
    <3>2. \A k, time : PublishedSince(k, time)' <=> PublishedSince(k, time)
      BY <1>1 DEF PublishedSince
    <3>3. Published' = Published BY DEF Published, Keys
    <3> QED BY <1>1, <3>1, <3>2, <3>3 DEF Fetching
  <2> QED BY <2>1, <2>2
<1> QED BY <1>3, <1>4, <1>5, <1>6 DEF KeyInv

LEMMA CacheUntouched ==
    ASSUME KeyInv, UNCHANGED theServer, keyCache' = keyCache
    PROVE  /\ CachedSince'
           /\ keyCache' \in [keys : SUBSET Published, at : Int, lastFetch : Int]
           /\ keyCache'.at \in {keyCache.at, tick}
BY ServerTypes DEF theServer, CachedSince, PublishedSince

(* A key found in the cache may be the one a token was signed with. *)
LEMMA KeyFound ==
    ASSUME KeyInv, NEW t \in issued, CachedKeys(t.kid) # {}
    PROVE  Valid(t, CachedKeys(t.kid)) <=> t.class = "access" /\ tick <= t.until
<1>1. PICK k \in keyCache.keys : k.kid = t.kid BY DEF CachedKeys
<1>2. k.key = t.key BY <1>1, ServerTypes DEF CachedSince, SignedTokens
<1> QED BY <1>1, <1>2 DEF Valid, CachedKeys

(* A token accepted with a cached key was signed with one the server
   published when the cache was filled, or one fetch before.                *)
LEMMA KeyTrusted ==
    ASSUME KeyInv, NEW t \in issued, Valid(t, CachedKeys(t.kid)), withdrawn[t.key] >= 0,
           tick - keyCache.at <= KeysTTL
    PROVE  tick - withdrawn[t.key] <= KeysTTL + FetchTimeout
<1>1. PICK k \in keyCache.keys : k.key = t.key BY DEF Valid, CachedKeys
<1>2. PublishedSince(k, keyCache.at - FetchTimeout) BY ServerTypes DEF CachedSince
<1>3. t.key \in Keys /\ withdrawn[t.key] \in Nat
  <2>1. t.key \in Keys BY ServerTypes DEF SignedToken
  <2> QED BY <2>1, ServerTypes
<1>4. withdrawn[t.key] >= keyCache.at - FetchTimeout BY <1>1, <1>2, <1>3 DEF PublishedSince
<1> QED BY <1>3, <1>4, ServerTypes, ClientBounds

(* A call ends with a verdict. *)
LEMMA Settled ==
    ASSUME KeyInv, UNCHANGED <<theServer, keyCache>>, NEW v \in Verifier, NEW t \in issued,
           NEW accepted, NEW why, Settle(v, t, accepted, why),
           accepted /\ withdrawn[t.key] >= 0 =>
             Throttled \/ tick - withdrawn[t.key] <= KeysTTL + FetchTimeout,
           why = "used" /\ ~accepted => t.class # "access" \/ tick > t.until \/ t.key \in removed
    PROVE  KeyInv'
<1>1. /\ verdict'.accepted = accepted /\ verdict'.token = t /\ verdict'.throttled = Throttled
      /\ verdict'.at = tick /\ verdict'.why = why
      /\ withdrawn' = withdrawn /\ removed' = removed
      /\ verifying' = [verifying EXCEPT ![v] = NotVerifying]
  BY DEF Settle, theServer
<1>2. TrustLapses' BY <1>1 DEF TrustLapses
<1>3. LiveTokensVerified' BY <1>1 DEF LiveTokensVerified
<1>4. verifying'[v] = NotVerifying BY <1>1, ServerTypes
<1>5. Fetching(v)' BY <1>4, NotVerifyingFacts DEF Fetching
<1>6. NotVerifying \in VerifyState BY NotVerifyingFacts
<1> QED BY <1>1, <1>2, <1>3, <1>5, <1>6, CacheUntouched, CallKeeps

LEMMA GetKeyStep ==
    ASSUME KeyInv, NEW v \in Verifier, NEW t \in issued, GetKey(v, t)
    PROVE  KeyInv'
<1>1. verifying[v] = NotVerifying /\ UNCHANGED <<theServer, keyCache>> BY DEF GetKey
<1>2. CASE (CachedKeys(t.kid) # {} /\ ~Expired) \/ Throttled
  <2> DEFINE why == IF CachedKeys(t.kid) = {} THEN "throttled" ELSE "used"
             accepted == Valid(t, CachedKeys(t.kid))
  <2>1. Settle(v, t, accepted, why) BY <1>2 DEF GetKey
  <2>2. ASSUME accepted, withdrawn[t.key] >= 0
        PROVE  Throttled \/ tick - withdrawn[t.key] <= KeysTTL + FetchTimeout
    <3>1. CASE Throttled BY <3>1
    <3>2. CASE ~Throttled
      <4>1. tick - keyCache.at <= KeysTTL BY <1>2, <3>2, ServerTypes, ClientBounds DEF Expired
      <4> QED BY <2>2, <4>1, KeyTrusted
    <3> QED BY <3>1, <3>2
  <2>3. ASSUME why = "used", ~accepted PROVE t.class # "access" \/ tick > t.until
    <3>1. CachedKeys(t.kid) # {} BY <2>3
    <3>2. ~(t.class = "access" /\ tick <= t.until) BY <2>3, <3>1, KeyFound
    <3>3. t.until \in Nat /\ tick \in Nat BY ServerTypes DEF SignedToken
    <3> QED BY <3>2, <3>3
  <2> HIDE DEF why, accepted
  <2> QED BY <1>1, <2>1, <2>2, <2>3, Settled
<1>3. CASE ~((CachedKeys(t.kid) # {} /\ ~Expired) \/ Throttled)
  <2> DEFINE asking == [NotVerifying EXCEPT !.step = "fetch"]
             call == [asking EXCEPT !.token = t]
  <2>1. verifying' = [verifying EXCEPT ![v].step = "fetch", ![v].token = t] /\ NoVerdictYet
    BY <1>3 DEF GetKey
  <2>2. asking \in VerifyState /\ asking.step = "fetch" BY DEF NotVerifying, VerifyState
  <2>3. verifying' = [verifying EXCEPT ![v] = call]
    <3> HIDE DEF asking
    <3>1. verifying' = [[verifying EXCEPT ![v] = asking] EXCEPT ![v].token = t]
      BY <1>1, <2>1, ServerTypes DEF asking
    <3> QED BY <3>1, ServerTypes
  <2> HIDE DEF asking
  <2>4. call \in VerifyState /\ call.step = "fetch" /\ call.token = t
    <3>1. t \in SignedToken BY ServerTypes
    <3> QED BY <2>2, <3>1 DEF VerifyState
  <2> HIDE DEF call
  <2>5. verifying'[v] = call /\ issued' = issued BY <1>1, <2>3, ServerTypes DEF theServer
  <2>6. Fetching(v)' BY <2>4, <2>5 DEF Fetching
  <2> QED BY <1>1, <2>1, <2>3, <2>4, <2>6, CacheUntouched, CallKeeps, NoVerdictFacts
<1> QED BY <1>2, <1>3

LEMMA BeginFetchStep ==
    ASSUME KeyInv, NEW v \in Verifier, BeginFetch(v)
    PROVE  KeyInv'
<1> DEFINE asking == [verifying[v] EXCEPT !.step = "asked"]
           call == [asking EXCEPT !.since = tick]
<1>1. /\ verifying[v] \in VerifyState /\ verifying[v].step = "fetch" /\ UNCHANGED theServer
      /\ keyCache' = [keyCache EXCEPT !.lastFetch = tick] /\ NoVerdictYet /\ Fetching(v)
      /\ verifying' = [verifying EXCEPT ![v].step = "asked", ![v].since = tick]
  BY ServerTypes DEF BeginFetch, KeyInv
<1>2. /\ keyCache' \in [keys : SUBSET Published, at : Int, lastFetch : Int]
      /\ keyCache'.at = keyCache.at /\ keyCache'.keys = keyCache.keys
  BY <1>1, ServerTypes
<1>3. asking \in VerifyState /\ asking.step = "asked" /\ asking.token = verifying[v].token
  BY <1>1 DEF VerifyState
<1>4. verifying' = [verifying EXCEPT ![v] = call]
  <2> HIDE DEF asking
  <2>1. verifying' = [[verifying EXCEPT ![v] = asking] EXCEPT ![v].since = tick]
    BY <1>1, ServerTypes DEF asking
  <2> QED BY <2>1, ServerTypes
<1> HIDE DEF asking
<1>5. /\ call \in VerifyState /\ call.step = "asked" /\ call.token = verifying[v].token
      /\ call.since = tick
  BY <1>3, ServerTypes DEF VerifyState
<1> HIDE DEF call
<1>6. verifying'[v] = call /\ issued' = issued /\ tick' = tick BY <1>1, <1>4, ServerTypes DEF theServer
<1>7. Fetching(v)'
  <2>1. tick <= tick + FetchTimeout BY ServerTypes, ClientBounds
  <2>2. tick <= tick BY ServerTypes
  <2> QED BY <1>1, <1>5, <1>6, <2>1, <2>2 DEF Fetching
<1>8. CachedSince' BY <1>1, <1>2, ServerTypes DEF CachedSince, PublishedSince, theServer
<1> QED BY <1>1, <1>2, <1>4, <1>5, <1>7, <1>8, CallKeeps, NoVerdictFacts

LEMMA AnswerJWKSStep ==
    ASSUME KeyInv, NEW v \in Verifier, AnswerJWKS(v)
    PROVE  KeyInv'
<1>1. /\ verifying[v] \in VerifyState /\ verifying[v].step = "asked" /\ signer.step = "up"
      /\ UNCHANGED <<theServer, keyCache>> /\ NoVerdictYet /\ Fetching(v)
      /\ verifying' = [verifying EXCEPT ![v].step = "store",
                                        ![v].got = {[kid |-> signer.kid, key |-> signer.key]}]
  BY ServerTypes DEF AnswerJWKS, KeyInv
<1>2. /\ signer.key \in Keys /\ signer.kid = signer.key /\ signer.key = generated
      /\ withdrawn[signer.key] = -1
  BY <1>1, ServerTypes, ClientBounds DEF ServedKey, Keys
<1>3. PICK k \in Published :
        /\ k = [kid |-> signer.kid, key |-> signer.key]
        /\ k.kid = k.key /\ k.key = generated /\ withdrawn[k.key] = -1
  <2> DEFINE answer == [kid |-> signer.kid, key |-> signer.key]
  <2>1. answer \in Published /\ answer.kid = signer.kid /\ answer.key = signer.key
    BY <1>2 DEF Published
  <2>2. answer = [kid |-> signer.kid, key |-> signer.key] OBVIOUS
  <2> HIDE DEF answer
  <2> QED BY <1>2, <2>1, <2>2
<1> DEFINE storing == [verifying[v] EXCEPT !.step = "store"]
           call == [storing EXCEPT !.got = {k}]
<1>4. /\ storing \in VerifyState /\ storing.step = "store" /\ storing.token = verifying[v].token
      /\ storing.since = verifying[v].since
  BY <1>1 DEF VerifyState
<1>5. verifying' = [verifying EXCEPT ![v] = call]
  <2> HIDE DEF storing
  <2>1. verifying' = [[verifying EXCEPT ![v] = storing] EXCEPT ![v].got = {k}]
    BY <1>1, <1>3, ServerTypes DEF storing
  <2> QED BY <2>1, ServerTypes
<1> HIDE DEF storing
<1>6. /\ call \in VerifyState /\ call.step = "store" /\ call.token = verifying[v].token
      /\ call.since = verifying[v].since /\ call.got = {k}
  BY <1>3, <1>4 DEF VerifyState
<1> HIDE DEF call
<1>7. /\ verifying'[v] = call /\ issued' = issued /\ tick' = tick /\ removed' = removed
      /\ withdrawn' = withdrawn
  BY <1>1, <1>5, ServerTypes DEF theServer
<1>8. verifying[v].token \in issued BY <1>1 DEF Fetching
<1>9. verifying[v].token.key = k.key \/ verifying[v].token.key \in removed
  BY <1>3, <1>8, ServerTypes DEF SignedTokens
<1>10. \A time : PublishedSince(k, time)' BY <1>3, <1>7 DEF PublishedSince
<1>11. Fetching(v)'
  <2>1. Published' = Published BY DEF Published, Keys
  <2>2. verifying[v].since <= tick /\ tick <= verifying[v].since + FetchTimeout BY <1>1 DEF Fetching
  <2> QED BY <1>3, <1>6, <1>7, <1>8, <1>9, <1>10, <2>1, <2>2 DEF Fetching
<1> QED BY <1>1, <1>5, <1>6, <1>11, CacheUntouched, CallKeeps, NoVerdictFacts

LEMMA StoreKeysStep ==
    ASSUME KeyInv, NEW v \in Verifier, StoreKeys(v)
    PROVE  KeyInv'
<1> DEFINE call == [verifying[v] EXCEPT !.step = "again"]
           filled == [keyCache EXCEPT !.keys = verifying[v].got]
<1>1. /\ verifying[v] \in VerifyState /\ verifying[v].step = "store" /\ UNCHANGED theServer
      /\ keyCache' = [filled EXCEPT !.at = tick] /\ NoVerdictYet /\ Fetching(v)
      /\ verifying' = [verifying EXCEPT ![v] = call]
  BY ServerTypes DEF StoreKeys, KeyInv
<1>2. filled \in [keys : SUBSET Published, at : Int, lastFetch : Int] /\ filled.keys = verifying[v].got
  BY <1>1, ServerTypes DEF VerifyState
<1> HIDE DEF filled
<1>3. /\ keyCache' \in [keys : SUBSET Published, at : Int, lastFetch : Int]
      /\ keyCache'.keys = verifying[v].got /\ keyCache'.at = tick
  BY <1>1, <1>2, ServerTypes
<1>4. /\ call \in VerifyState /\ call.step = "again" /\ call.token = verifying[v].token
      /\ call.got = verifying[v].got
  BY <1>1 DEF VerifyState
<1> HIDE DEF call
<1>5. /\ verifying'[v] = call /\ issued' = issued /\ tick' = tick /\ removed' = removed
      /\ withdrawn' = withdrawn
  BY <1>1, ServerTypes DEF theServer
<1>6. PICK k \in Published :
        /\ verifying[v].got = {k} /\ k.kid = k.key
        /\ verifying[v].token.key = k.key \/ verifying[v].token.key \in removed
        /\ PublishedSince(k, verifying[v].since)
  BY <1>1 DEF Fetching
<1>7. Fetching(v)'
  <2>1. Published' = Published BY DEF Published, Keys
  <2>2. verifying[v].token \in issued BY <1>1 DEF Fetching
  <2> QED BY <1>3, <1>4, <1>5, <1>6, <2>1, <2>2 DEF Fetching
<1>8. CachedSince'
  <2>1. k.key \in Keys /\ withdrawn[k.key] \in Nat \cup {-1}
    <3>1. k.key \in Keys BY DEF Published
    <3> QED BY <3>1, ServerTypes
  <2>2. verifying[v].since \in Nat /\ tick <= verifying[v].since + FetchTimeout
    BY <1>1 DEF Fetching, VerifyState
  <2>3. PublishedSince(k, tick - FetchTimeout)
    BY <1>6, <2>1, <2>2, ServerTypes, ClientBounds DEF PublishedSince
  <2>4. tick <= tick BY ServerTypes
  <2> QED BY <1>3, <1>5, <1>6, <2>3, <2>4 DEF CachedSince, PublishedSince
<1> QED BY <1>1, <1>3, <1>4, <1>7, <1>8, CallKeeps, NoVerdictFacts

(* The fetch failed, or its answer is in the cache, or another's. *)
LEMMA FetchEnds ==
    ASSUME KeyInv, NEW v \in Verifier, FetchFails(v) \/ GetKeyAgain(v)
    PROVE  KeyInv'
<1> DEFINE t == verifying[v].token
<1>1. /\ verifying[v].step \in {"asked", "store", "again"} /\ Fetching(v)
      /\ UNCHANGED <<theServer, keyCache>>
  BY DEF FetchFails, GetKeyAgain, KeyInv
<1>2. t \in issued BY <1>1 DEF Fetching
<1>3. CASE FetchFails(v)
  <2>1. Settle(v, t, FALSE, "failed") BY <1>3 DEF FetchFails
  <2> HIDE DEF t
  <2> QED BY <1>1, <1>2, <2>1, Settled
<1>4. CASE GetKeyAgain(v)
  <2> DEFINE why == IF keyCache.keys = verifying[v].got THEN "used" ELSE "overtaken"
             accepted == Valid(t, CachedKeys(t.kid))
  <2>1. Settle(v, t, accepted, why) BY <1>4 DEF GetKeyAgain
  <2>2. keyCache.at = tick BY <1>1, <1>4 DEF Fetching, GetKeyAgain
  <2>3. ASSUME accepted, withdrawn[t.key] >= 0
        PROVE  tick - withdrawn[t.key] <= KeysTTL + FetchTimeout
    <3>1. tick - keyCache.at <= KeysTTL BY <2>2, ServerTypes, ClientBounds
    <3> QED BY <1>2, <2>3, <3>1, KeyTrusted
  <2>4. ASSUME why = "used", ~accepted
        PROVE  t.class # "access" \/ tick > t.until \/ t.key \in removed
    <3>1. PICK k \in Published :
            /\ verifying[v].got = {k} /\ k.kid = k.key
            /\ t.key = k.key \/ t.key \in removed
      BY <1>1, <1>4 DEF Fetching, GetKeyAgain
    <3>2. CASE t.key \in removed BY <3>2
    <3>3. CASE t.key = k.key
      <4>1. keyCache.keys = {k} BY <2>4, <3>1
      <4>2. t.kid = k.kid BY <1>2, <3>1, <3>3, ServerTypes DEF SignedTokens
      <4>3. CachedKeys(t.kid) # {} BY <4>1, <4>2 DEF CachedKeys
      <4>4. ~(t.class = "access" /\ tick <= t.until) BY <1>2, <2>4, <4>3, KeyFound
      <4>5. t.until \in Nat /\ tick \in Nat BY <1>2, ServerTypes DEF SignedToken
      <4> QED BY <4>4, <4>5
    <3> QED BY <3>1, <3>2, <3>3
  <2> HIDE DEF t, why, accepted
  <2> QED BY <1>1, <1>2, <2>1, <2>3, <2>4, Settled
<1> QED BY <1>3, <1>4

LEMMA PassTickStep ==
    ASSUME KeyInv, PassTick
    PROVE  KeyInv'
<1>1. /\ tick' = tick + 1 /\ tick \in Nat /\ NoVerdictYet
      /\ UNCHANGED <<keyFile, signer, generated, issued, withdrawn, removed, keyCache, verifying>>
  BY ServerTypes DEF PassTick, theHistoryOfKeys, theClient
<1>2. KeyTypes'
  <2>1. /\ SignedToken' = SignedToken /\ Published' = Published /\ VerifyState' = VerifyState
        /\ Keys' = Keys /\ Absent' = Absent /\ Partial' = Partial
    BY DEF SignedToken, Published, VerifyState, Keys, Absent, Partial
  <2> QED BY <1>1, <2>1 DEF KeyInv, KeyTypes
<1>3. ServedKey' BY <1>1, ServerTypes DEF ServedKey
<1>4. SignedTokens' BY <1>1, ServerTypes DEF SignedTokens
<1>5. CachedSince'
  <2>1. keyCache.at <= tick + 1 BY <1>1, ServerTypes DEF CachedSince
  <2> QED BY <1>1, <2>1, ServerTypes DEF CachedSince, PublishedSince
<1>6. ASSUME NEW v \in Verifier PROVE Fetching(v)'
  <2>1. CASE verifying[v] = NotVerifying BY <1>1, <2>1, NotVerifyingFacts DEF Fetching
  <2>2. CASE verifying[v].step \in {"asked", "store"} /\ tick - verifying[v].since < FetchTimeout
    <3>1. verifying[v].since \in Nat BY ServerTypes DEF VerifyState
    <3>2. verifying[v].since <= tick + 1 /\ tick + 1 <= verifying[v].since + FetchTimeout
      BY <1>1, <2>2, <3>1, ClientBounds DEF KeyInv, Fetching
    <3>3. Fetching(v) /\ Published' = Published BY DEF KeyInv, Published, Keys
    <3>4. \A k, time : PublishedSince(k, time)' <=> PublishedSince(k, time)
      BY <1>1 DEF PublishedSince
    <3> QED BY <1>1, <2>2, <3>2, <3>3, <3>4 DEF Fetching
  <2> QED BY <2>1, <2>2 DEF PassTick
<1> QED BY <1>1, <1>2, <1>3, <1>4, <1>5, <1>6, NoVerdictFacts DEF KeyInv

LEMMA KeyStutter ==
    ASSUME KeyInv, UNCHANGED signingVars
    PROVE  KeyInv'
<1>1. /\ UNCHANGED <<keyFile, signer, generated, issued, keyCache, verifying, tick, withdrawn, removed>>
      /\ verdict' = verdict
  BY DEF signingVars
<1>2. KeyTypes'
  <2>1. /\ SignedToken' = SignedToken /\ Published' = Published /\ VerifyState' = VerifyState
        /\ Keys' = Keys /\ Absent' = Absent /\ Partial' = Partial
    BY DEF SignedToken, Published, VerifyState, Keys, Absent, Partial
  <2> QED BY <1>1, <2>1 DEF KeyInv, KeyTypes
<1>3. ServedKey' /\ SignedTokens' BY <1>1 DEF KeyInv, ServedKey, SignedTokens
<1>4. CachedSince' BY <1>1 DEF KeyInv, CachedSince, PublishedSince
<1>5. ASSUME NEW v \in Verifier PROVE Fetching(v)'
  <2>1. Fetching(v) /\ Published' = Published BY DEF KeyInv, Published, Keys
  <2>2. \A k, time : PublishedSince(k, time)' <=> PublishedSince(k, time) BY <1>1 DEF PublishedSince
  <2> QED BY <1>1, <2>1, <2>2 DEF Fetching
<1>6. TrustLapses' /\ LiveTokensVerified' BY <1>1 DEF KeyInv, TrustLapses, LiveTokensVerified
<1> QED BY <1>2, <1>3, <1>4, <1>5, <1>6 DEF KeyInv

LEMMA KeyStep ==
    ASSUME KeyInv, [SigningNext]_signingVars
    PROVE  KeyInv'
<1>1. CASE LoadKeys BY <1>1, LoadKeysStep
<1>2. CASE GenerateKeys BY <1>2, GenerateKeysStep
<1>3. CASE WritePrivateKey BY <1>3, WritePrivateKeyStep
<1>4. CASE WritePublicKey BY <1>4, WritePublicKeyStep
<1>5. CASE StopSigning BY <1>5, StopSigningStep
<1>6. CASE RemoveKeyFile BY <1>6, RemoveKeyFileStep
<1>7. ASSUME NEW class \in {"access", "other"}, IssueToken(class) PROVE KeyInv' BY <1>7, IssueTokenStep
<1>8. ASSUME NEW v \in Verifier, NEW t \in issued, GetKey(v, t) PROVE KeyInv' BY <1>8, GetKeyStep
<1>9. ASSUME NEW v \in Verifier, BeginFetch(v) PROVE KeyInv' BY <1>9, BeginFetchStep
<1>10. ASSUME NEW v \in Verifier, AnswerJWKS(v) PROVE KeyInv' BY <1>10, AnswerJWKSStep
<1>11. ASSUME NEW v \in Verifier, StoreKeys(v) PROVE KeyInv' BY <1>11, StoreKeysStep
<1>12. ASSUME NEW v \in Verifier, FetchFails(v) \/ GetKeyAgain(v) PROVE KeyInv' BY <1>12, FetchEnds
<1>13. CASE PassTick BY <1>13, PassTickStep
<1>14. CASE UNCHANGED signingVars BY <1>14, KeyStutter
<1> QED
  BY <1>1, <1>2, <1>3, <1>4, <1>5, <1>6, <1>7, <1>8, <1>9, <1>10, <1>11, <1>12, <1>13, <1>14
  DEF SigningNext

(***************************************************************************)
(* In every reachable state the server signs with the last key it made,    *)
(* every token was signed with that key or a removed one, and a client     *)
(* holds only keys that the server published when the fetch of them began, *)
(* however many calls fetch at once (NewJWTManager, JWKS, fetchJWKS,       *)
(* getKey).                                                                *)
(***************************************************************************)
THEOREM KeyInvariant == SigningSpec => []KeyInv
<1>1. SigningInit => KeyInv BY KeyInvInit
<1>2. KeyInv /\ [SigningNext]_signingVars => KeyInv' BY KeyStep
<1> QED BY <1>1, <1>2, PTL DEF SigningSpec

(***************************************************************************)
(* For any lifetimes, timeouts and number of calls: a key that the server  *)
(* stopped publishing is trusted for at most the lifetime of the cache and *)
(* one fetch, or while a fetch begun a moment ago brought nothing yet      *)
(* (getKey, fetchJWKS).                                                    *)
(***************************************************************************)
THEOREM TrustEnds == SigningSpec => []TrustLapses
<1>1. KeyInv => TrustLapses BY DEF KeyInv
<1> QED BY <1>1, KeyInvariant, PTL

(***************************************************************************)
(* A call that reads the answer it fetched, or finds the id of the token   *)
(* in the cache, accepts a live access token whose key was not removed,    *)
(* through any stops and starts of the server (computeKID, getKey).        *)
(***************************************************************************)
THEOREM LiveTokens == SigningSpec => []LiveTokensVerified
<1>1. KeyInv => LiveTokensVerified BY DEF KeyInv
<1> QED BY <1>1, KeyInvariant, PTL

=============================================================================
