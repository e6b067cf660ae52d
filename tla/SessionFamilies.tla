-------------------------- MODULE SessionFamilies --------------------------
(***************************************************************************)
(* What the refresh tokens of the server promise, without tokens, rows or  *)
(* requests: a login opens a session, redeeming its token takes it out of  *)
(* circulation, at most one successor is issued in exchange, and a session *)
(* that is over stays over.                                                *)
(***************************************************************************)
CONSTANT Family

VARIABLE phase      \* what has become of each session

(* none: not opened yet.      live: one token can be redeemed.             *)
(* rotating: the token is taken and the successor not yet issued.          *)
(* over: no token can be redeemed and none will be issued.                 *)
Phase == {"none", "live", "rotating", "over"}

Init == phase = [f \in Family |-> "none"]

Move(f, from, to) ==
    /\ phase[f] = from
    /\ phase' = [phase EXCEPT ![f] = to]

Open(f)   == Move(f, "none", "live")
Redeem(f) == Move(f, "live", "rotating")
Renew(f)  == Move(f, "rotating", "live")

(* One revocation, logout, expiry or crash may end several sessions. *)
Close(S) ==
    /\ \A f \in S : phase[f] \in {"live", "rotating"}
    /\ phase' = [f \in Family |-> IF f \in S THEN "over" ELSE phase[f]]

Next ==
    \/ \E f \in Family : Open(f) \/ Redeem(f) \/ Renew(f)
    \/ \E S \in SUBSET Family : Close(S)

Spec == Init /\ [][Next]_phase

============================================================================
