------------------------- MODULE MCCentralMigration -------------------------
(* The move to a central server on small sets, for TLC. *)
EXTENDS CentralMigration, TLC

CONSTANTS first, second

(* What the standalone may hold: users of either kind, a user of the home
   app, one without roles, one merged away, one whose mappings do not read,
   and two users under one username, the home app's and one of its own.     *)
Holds(key, merged, owner, directory, roles) ==
    [key |-> key, merged |-> merged, owner |-> owner, hash |-> TRUE, directory |-> directory,
     roles |-> roles]

MCSources ==
    {{Holds(first, FALSE, "none", "none", TRUE), Holds(second, FALSE, "none", "mapped", TRUE)},
     {Holds(first, FALSE, "home", "mapped", TRUE), Holds(first, TRUE, "none", "none", TRUE),
      Holds(second, FALSE, "none", "none", FALSE), Holds(second, FALSE, "none", "unreadable", TRUE)},
     {Holds(first, FALSE, "home", "none", TRUE), Holds(first, FALSE, "none", "sam", TRUE)}}

MCSymmetry == Permutations(Commit)

=============================================================================
