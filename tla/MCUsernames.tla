----------------------------- MODULE MCUsernames -----------------------------
(***************************************************************************)
(* Who a username belongs to, on small sets, for TLC: the mappings as      *)
(* BoltDB keeps them, and the import of a standalone deployment, which     *)
(* writes some.  The two share no state here, so a behaviour moves one of  *)
(* them, its focus, and leaves the other where it starts.                  *)
(***************************************************************************)
EXTENDS MCIdentityMappings, MCCentralMigration

VARIABLE focus

UsernamesInit ==
    /\ Init /\ CentralInit
    /\ focus \in {"mappings", "central"}
    /\ focus # "mappings" => ~open /\ status = [u \in User |-> "unborn"]
    /\ focus # "central" => ~taken

UsernamesNext ==
    /\ UNCHANGED focus
    /\ \/ focus = "mappings" /\ Next /\ UNCHANGED centralVars
       \/ focus = "central" /\ CentralNext /\ UNCHANGED vars

UsernamesSpec == UsernamesInit /\ [][UsernamesNext]_<<focus, vars, centralVars>>

=============================================================================
