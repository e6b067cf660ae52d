--------------------------- MODULE MCSsoSessions ---------------------------
(* Instances of SsoSessions for TLC. *)
EXTENDS SsoSessions, TLC

(* Requests, codes, sessions and users are interchangeable. *)
Symmetry == Permutations(Request) \cup Permutations(Code)
            \cup Permutations(Session) \cup Permutations(User)

============================================================================
