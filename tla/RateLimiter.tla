---------------------------- MODULE RateLimiter ----------------------------
(***************************************************************************)
(* The limiter in front of the login-shaped endpoints                      *)
(* (src/internal/handler/middleware.go): a counter per client address with *)
(* the instant it lapses, under one mutex, and the settings that           *)
(* setConfig pushes into it.  The clock counts half seconds, so that the   *)
(* truncation in retryAfter can matter.                                    *)
(***************************************************************************)
EXTENDS Integers

CONSTANTS
    Address,   \* addresses a connection or a header can carry
    Trusted,   \* the addresses config.TrustedProxyCIDRs covers
    NoAddress, \* a header that is absent or does not parse as an address
    MaxHalf,   \* bound: the last half second of the clock
    MaxCount   \* bound: requests one counter counts

ASSUME LimiterConstants ==
    Trusted \subseteq Address /\ NoAddress \notin Address /\ MaxHalf \in Nat

VARIABLES
    limiter,   \* limit and window in force, and whether the limiter is off
    counters,  \* [count, resetAt] of each address; count 0: no counter
    half,      \* time.Now() in half seconds
    granted    \* history: requests a connection that is no trusted proxy was
               \* allowed while the counter of its own address lived

limiterVars == <<limiter, counters, half, granted>>

NoCounter == [count |-> 0, resetAt |-> 0]

(* A new process starts with no counter. *)
LimiterInit(config) ==
    /\ limiter = config
    /\ counters = [a \in Address |-> NoCounter]
    /\ half = 0
    /\ granted = [a \in Address |-> 0]

(***************************************************************************)
(* Only a trusted proxy speaks for another address; a header that is not   *)
(* an address is passed over.                                              *)
(***************************************************************************)
ClientIPAnyPeer(peer, forwardedFor, realIP) ==
    CASE forwardedFor # NoAddress -> forwardedFor
      [] forwardedFor = NoAddress /\ realIP # NoAddress -> realIP
      [] OTHER -> peer

ClientIP(peer, forwardedFor, realIP) ==
    IF peer \in Trusted THEN ClientIPAnyPeer(peer, forwardedFor, realIP) ELSE peer

Lapsed(a) == counters[a].count = 0 \/ half > counters[a].resetAt

(* The answer of allow(a): whether this request goes through. *)
Allowed(a) ==
    limiter.disabled \/ Lapsed(a) \/ counters[a].count + 1 <= limiter.limit

(***************************************************************************)
(* One request: the counter of the client's address starts or goes up,     *)
(* refused requests included; nothing is counted while the limiter is off. *)
(***************************************************************************)
Request(peer, forwardedFor, realIP) ==
    LET a == ClientIP(peer, forwardedFor, realIP) IN
    /\ counters[a].count < MaxCount
    /\ counters' =
         IF limiter.disabled THEN counters
         ELSE [counters EXCEPT ![a] =
                 IF Lapsed(a) THEN [count |-> 1, resetAt |-> half + 2 * limiter.window]
                 ELSE [count |-> @.count + 1, resetAt |-> @.resetAt]]
    /\ granted' = [p \in Address |->
         (IF p = a /\ Lapsed(a) /\ ~limiter.disabled THEN 0 ELSE granted[p])
           + (IF p = peer /\ p \notin Trusted /\ ~limiter.disabled /\ Allowed(a) THEN 1 ELSE 0)]
    /\ UNCHANGED <<limiter, half>>

(* Whole seconds until the counter lapses, rounded down, and one more. *)
RetryAfter(a) ==
    IF Lapsed(a) THEN 0 ELSE (counters[a].resetAt - half) \div 2 + 1

DropCounters(addresses) ==
    /\ counters' = [a \in Address |-> IF a \in addresses THEN NoCounter ELSE counters[a]]
    /\ granted' = [a \in Address |-> IF a \in addresses THEN 0 ELSE granted[a]]

(***************************************************************************)
(* setConfig: a number that is not positive keeps the one in force; a      *)
(* changed window or on/off state starts clean, a changed limit does not.  *)
(***************************************************************************)
SetConfig(max, window, off) ==
    /\ limiter' = [limit    |-> IF max > 0 THEN max ELSE limiter.limit,
                   window   |-> IF window > 0 THEN window ELSE limiter.window,
                   disabled |-> off]
    /\ DropCounters(IF (window > 0 /\ window # limiter.window) \/ off # limiter.disabled
                    THEN Address ELSE {})
    /\ UNCHANGED half

(* One pass of the cleanup goroutine. *)
Cleanup ==
    /\ DropCounters({a \in Address : half > counters[a].resetAt})
    /\ UNCHANGED <<limiter, half>>

HalfSecond ==
    /\ half < MaxHalf
    /\ half' = half + 1
    /\ UNCHANGED <<limiter, counters, granted>>

LimiterNext ==
    \/ \E peer \in Address, f, r \in Address \cup {NoAddress} : Request(peer, f, r)
    \/ Cleanup
    \/ HalfSecond

LimiterTypeOK ==
    /\ limiter \in [limit : Nat, window : Nat, disabled : BOOLEAN]
    /\ counters \in [Address -> [count : Nat, resetAt : Nat]]
    /\ half \in 0 .. MaxHalf
    /\ granted \in [Address -> Nat]

=============================================================================
