-------------------------- MODULE MCRefreshTokens --------------------------
(* Instances of RefreshTokens for TLC. *)
EXTENDS RefreshTokens, TLC

(* Goroutines, ids, users and apps are interchangeable: no definition      *)
(* names one of them.  Used by runs without liveness properties only.      *)
Symmetry == Permutations(Request) \cup Permutations(Token) \cup Permutations(Family)
            \cup Permutations(User) \cup Permutations(App)

============================================================================
