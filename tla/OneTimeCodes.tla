---------------------------- MODULE OneTimeCodes ----------------------------
(***************************************************************************)
(* What the store promises of authorization codes (SaveOIDCAuthCode,       *)
(* ConsumeOIDCAuthCode): each is issued once, is good for one exchange     *)
(* while it is pending, and never again once it was exchanged or lapsed.   *)
(***************************************************************************)
EXTENDS Naturals

CONSTANT Code

VARIABLES
    state,     \* "unissued", "pending" or "over"
    exchanges  \* how many exchanges each code was good for

vars == <<state, exchanges>>

Init ==
    /\ state = [c \in Code |-> "unissued"]
    /\ exchanges = [c \in Code |-> 0]

Issue(c) ==
    /\ state[c] = "unissued"
    /\ state' = [state EXCEPT ![c] = "pending"]
    /\ UNCHANGED exchanges

Exchange(c) ==
    /\ state[c] = "pending"
    /\ state' = [state EXCEPT ![c] = "over"]
    /\ exchanges' = [exchanges EXCEPT ![c] = @ + 1]

(* Several codes may expire at the same instant. *)
Lapse(codes) ==
    /\ \A c \in codes : state[c] = "pending"
    /\ state' = [c \in Code |-> IF c \in codes THEN "over" ELSE state[c]]
    /\ UNCHANGED exchanges

Next ==
    \/ \E c \in Code : Issue(c) \/ Exchange(c)
    \/ \E codes \in SUBSET Code : Lapse(codes)

Spec == Init /\ [][Next]_vars

=============================================================================
