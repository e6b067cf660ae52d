---------------------------- MODULE SigningKeys ----------------------------
(***************************************************************************)
(* The key the server signs with and the copy of it that an app keeps      *)
(* (src/internal/auth/jwt.go, src/sdk/go/simpleauth.go).  The server makes *)
(* its key at the first start, keeps it in a file and publishes it under   *)
(* an id computed from it.  A client caches what was published; its        *)
(* goroutines look into the cache, fetch again when it is too old or lacks *)
(* a key, not too often, and store what they got, each on its own.  The    *)
(* server may stop at any point, answers may be lost or slow.              *)
(***************************************************************************)
EXTENDS Integers, FiniteSets

CONSTANTS
    Verifier,     \* goroutines of the client that verify tokens
    KeysTTL, MinRefetch, \* keysTTL, minRefetch
    FetchTimeout, \* the timeout of the HTTP client
    IssuedTTL,    \* lifetime of an access token
    MaxKeys,      \* bound: keys generated
    MaxIssued,    \* bound: tokens issued
    LastTick      \* bound of the clock

ASSUME ClientConstants ==
    {KeysTTL, MinRefetch, FetchTimeout, IssuedTTL, MaxKeys, MaxIssued, LastTick} \subseteq Nat \ {0}

VARIABLES
    keyFile,    \* private.pem: absent, partly written or a key
    signer,     \* the server: down, at a step of its start or up with a key
    generated,  \* keys generated so far
    issued,     \* tokens
    keyCache,   \* the client's keys by id, keysAt and lastFetch
    verifying,  \* the calls of Verify
    tick,       \* time.Now()
    withdrawn,  \* history: [key -> when the server last published it; -1: it does]
    removed,    \* history: keys whose file was removed
    verdict     \* history: the verdict on a token the last step came to, if any

signingVars == <<keyFile, signer, generated, issued, keyCache, verifying, tick, withdrawn, removed,
                 verdict>>

Absent == 0
Partial == -1

Down == [step |-> "down", key |-> 0, kid |-> 0]
NotVerifying == [step |-> "none", token |-> [key |-> 0], since |-> 0, got |-> {}]
NoVerdict == [accepted |-> FALSE, token |-> [key |-> 0], throttled |-> FALSE, at |-> 0,
              why |-> "none"]

SigningInit ==
    /\ keyFile = Absent /\ signer = Down /\ generated = 0 /\ issued = {} /\ tick = 0
    /\ keyCache = [keys |-> {}, at |-> -KeysTTL - 1, lastFetch |-> -MinRefetch]
    /\ verifying = [v \in Verifier |-> NotVerifying]
    /\ withdrawn = [k \in 1 .. MaxKeys |-> -1] /\ removed = {}
    /\ verdict = NoVerdict

theClient == <<keyCache, verifying>>
theHistoryOfKeys == <<withdrawn, removed>>
NoVerdictYet == verdict' = NoVerdict

-----------------------------------------------------------------------------
(* The server's key. *)

(* Mutant of ComputeKID: the id is drawn at the start. *)
KidOfTheStart(key) == MaxKeys + 1 + tick

(* The id of a key, the same at every start. *)
ComputeKID(key) == key

Serve(key) ==
    /\ signer' = [step |-> "up", key |-> key, kid |-> ComputeKID(key)]
    /\ withdrawn' = [withdrawn EXCEPT ![key] = -1]

(* NewJWTManager: a key file that cannot be read ends the start. *)
LoadKeys ==
    /\ signer = Down /\ keyFile \notin {Absent, Partial}
    /\ Serve(keyFile)
    /\ UNCHANGED <<keyFile, generated, issued, tick, removed, theClient>>
    /\ NoVerdictYet

(* generateKeys creates the file, fills it, and writes the public half; the
   server serves after that.                                                *)
GenerateKeys ==
    /\ signer = Down /\ keyFile = Absent /\ generated < MaxKeys
    /\ generated' = generated + 1
    /\ signer' = [Down EXCEPT !.step = "private", !.key = generated + 1]
    /\ keyFile' = Partial
    /\ UNCHANGED <<issued, tick, theHistoryOfKeys, theClient>>
    /\ NoVerdictYet

WritePrivateKey ==
    /\ signer.step = "private"
    /\ keyFile' = signer.key
    /\ signer' = [signer EXCEPT !.step = "public"]
    /\ UNCHANGED <<generated, issued, tick, theHistoryOfKeys, theClient>>
    /\ NoVerdictYet

WritePublicKey ==
    /\ signer.step = "public"
    /\ Serve(signer.key)
    /\ UNCHANGED <<keyFile, generated, issued, tick, removed, theClient>>
    /\ NoVerdictYet

(* The process ends: by an error of its start, by the operator, by a crash. *)
StopSigning ==
    /\ signer # Down
    /\ signer' = Down
    /\ withdrawn' = IF signer.step = "up" THEN [withdrawn EXCEPT ![signer.key] = tick] ELSE withdrawn
    /\ UNCHANGED <<keyFile, generated, issued, tick, removed, theClient>>
    /\ NoVerdictYet

(* The operator removes the file, or loses the data directory. *)
RemoveKeyFile ==
    /\ keyFile # Absent
    /\ keyFile' = Absent
    /\ removed' = removed \cup ({keyFile} \ {Partial})
    /\ UNCHANGED <<signer, generated, issued, tick, withdrawn, theClient>>
    /\ NoVerdictYet

(* IssueAccessToken, IssueRefreshToken and the others: all with one key. *)
IssueToken(class) ==
    /\ signer.step = "up" /\ Cardinality(issued) < MaxIssued
    /\ issued' = issued \cup {[key |-> signer.key, kid |-> signer.kid, class |-> class,
                               until |-> tick + IssuedTTL]}
    /\ UNCHANGED <<keyFile, signer, generated, tick, theHistoryOfKeys, theClient>>
    /\ NoVerdictYet

-----------------------------------------------------------------------------
(* The client: Verify and getKey. *)

theServer == <<keyFile, signer, generated, issued, tick, withdrawn, removed>>

CachedKeys(kid) == {k \in keyCache.keys : k.kid = kid}
Expired == tick - keyCache.at > KeysTTL
Throttled == tick - keyCache.lastFetch < MinRefetch

(* Verify with the key in hand: the signature, the class, the expiry. *)
Valid(t, keys) == t.class = "access" /\ tick <= t.until /\ \E k \in keys : k.key = t.key

Settle(v, t, accepted, why) ==
    /\ verifying' = [verifying EXCEPT ![v] = NotVerifying]
    /\ verdict' = [accepted |-> accepted, token |-> t, throttled |-> Throttled, at |-> tick,
                 why |-> why]

(* Mutant of GetKey: a cached key is used at any age. *)
GetKeyIgnoringAge(v, t) ==
    /\ verifying[v] = NotVerifying
    /\ IF CachedKeys(t.kid) # {} \/ Throttled
       THEN Settle(v, t, Valid(t, CachedKeys(t.kid)),
                   IF CachedKeys(t.kid) = {} THEN "throttled" ELSE "used")
       ELSE /\ verifying' = [verifying EXCEPT ![v].step = "fetch", ![v].token = t]
            /\ NoVerdictYet
    /\ UNCHANGED <<theServer, keyCache>>

(* Under the read lock: a key that is there and not expired is used, while
   throttled also an expired one; otherwise the goroutine fetches.          *)
GetKey(v, t) ==
    /\ verifying[v] = NotVerifying
    /\ IF (CachedKeys(t.kid) # {} /\ ~Expired) \/ Throttled
       THEN Settle(v, t, Valid(t, CachedKeys(t.kid)),
                   IF CachedKeys(t.kid) = {} THEN "throttled" ELSE "used")
       ELSE /\ verifying' = [verifying EXCEPT ![v].step = "fetch", ![v].token = t]
            /\ NoVerdictYet
    /\ UNCHANGED <<theServer, keyCache>>

(* fetchJWKS notes the time before it asks. *)
BeginFetch(v) ==
    /\ verifying[v].step = "fetch"
    /\ keyCache' = [keyCache EXCEPT !.lastFetch = tick]
    /\ verifying' = [verifying EXCEPT ![v].step = "asked", ![v].since = tick]
    /\ NoVerdictYet
    /\ UNCHANGED theServer

(* JWKS: the server answers with its one key. *)
AnswerJWKS(v) ==
    /\ verifying[v].step = "asked" /\ signer.step = "up"
    /\ verifying' = [verifying EXCEPT ![v].step = "store",
                                      ![v].got = {[kid |-> signer.kid, key |-> signer.key]}]
    /\ NoVerdictYet
    /\ UNCHANGED <<theServer, keyCache>>

(* No answer, or not a good one. *)
FetchFails(v) ==
    /\ verifying[v].step \in {"asked", "store"}
    /\ Settle(v, verifying[v].token, FALSE, "failed")
    /\ UNCHANGED <<theServer, keyCache>>

StoreKeys(v) ==
    /\ verifying[v].step = "store"
    /\ keyCache' = [keyCache EXCEPT !.keys = verifying[v].got, !.at = tick]
    /\ verifying' = [verifying EXCEPT ![v].step = "again"]
    /\ NoVerdictYet
    /\ UNCHANGED theServer

(* The cache is read once more; another goroutine may have stored its own
   answer in it.                                                            *)
GetKeyAgain(v) ==
    LET t == verifying[v].token IN
    /\ verifying[v].step = "again"
    /\ Settle(v, t, Valid(t, CachedKeys(t.kid)),
              IF keyCache.keys = verifying[v].got THEN "used" ELSE "overtaken")
    /\ UNCHANGED <<theServer, keyCache>>

(* Only a fetch takes time, and not more than the timeout. *)
PassTick ==
    /\ tick < LastTick
    /\ \A v \in Verifier : \/ verifying[v] = NotVerifying
                           \/ /\ verifying[v].step \in {"asked", "store"}
                              /\ tick - verifying[v].since < FetchTimeout
    /\ tick' = tick + 1
    /\ UNCHANGED <<keyFile, signer, generated, issued, theHistoryOfKeys, theClient>>
    /\ NoVerdictYet

SigningNext ==
    \/ LoadKeys \/ GenerateKeys \/ WritePrivateKey \/ WritePublicKey \/ StopSigning \/ RemoveKeyFile
    \/ \E class \in {"access", "other"} : IssueToken(class)
    \/ \E v \in Verifier :
         \/ \E t \in issued : GetKey(v, t)
         \/ BeginFetch(v) \/ AnswerJWKS(v) \/ FetchFails(v) \/ StoreKeys(v) \/ GetKeyAgain(v)
    \/ PassTick

SigningSpec == SigningInit /\ [][SigningNext]_signingVars

-----------------------------------------------------------------------------

(***************************************************************************)
(* A client trusts a key that the server no longer publishes for at most   *)
(* the lifetime of its cache and the duration of one fetch, whatever its   *)
(* goroutines fetch beside each other and however slow the answers are;    *)
(* only while a fetch begun a moment ago has brought nothing yet does an   *)
(* older key still count (getKey, fetchJWKS).                              *)
(***************************************************************************)
TrustLapses ==
    LET gone == withdrawn[verdict.token.key] IN
    verdict.accepted /\ gone >= 0 => verdict.throttled \/ verdict.at - gone <= KeysTTL + FetchTimeout

(***************************************************************************)
(* An access token that has not expired, signed by a server whose key file *)
(* nobody removed, is refused by a client only because a fetch failed,     *)
(* began too short a time ago or was overtaken by another one's answer,    *)
(* whatever restarts the server has been through since (computeKID,        *)
(* generateKeys, loadKeys, getKey).                                        *)
(***************************************************************************)
LiveTokensVerified ==
    LET t == verdict.token IN
    verdict.why = "used" /\ ~verdict.accepted =>
      t.class # "access" \/ verdict.at > t.until \/ t.key \in removed

=============================================================================
