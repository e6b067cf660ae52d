-------------------------- MODULE MCUserAccounts --------------------------
(* UserAccounts on small sets, for TLC. *)
EXTENDS UserAccounts, FiniteSets, TLC

(* Lockout off, after two failures and after three; locks that last one
   unit of time, and a history of one password.                             *)
MCSettings == {[threshold |-> t, duration |-> 1, remembered |-> 1] : t \in {0, 2, 3}}

MCFixed == {s \in MCSettings : s.threshold = 2}

(* Where the settings change, at most two thresholds meet in one count, and
   the account keeps the password it has and is not disabled.               *)
Bounds ==
    inForce # {2} =>
      /\ Cardinality(inForce) <= 2
      /\ \A r \in Request : op[r] \notin {"password", "reset", "disable", "enable"}
      /\ row # Gone => row.hash # NoHash /\ row.history = <<>> /\ ~ row.force /\ ~ row.disabled

Symmetry == Permutations(Request) \cup Permutations(Password)

============================================================================
