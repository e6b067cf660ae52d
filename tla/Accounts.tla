------------------------------ MODULE Accounts ------------------------------
(***************************************************************************)
(* The bucket of users as sessions and tokens see it: which rows exist,    *)
(* which are disabled, and which account each was merged into.  Every      *)
(* operation below is one transaction of the store.                        *)
(***************************************************************************)
EXTENDS Integers, FiniteSets

CONSTANTS
    User,  \* values uuid.New() may return for a user GUID
    None   \* "no value": nil, the empty string, no row

VARIABLES
    account,    \* does the row exist, is Disabled set
    mergedInto  \* MergedInto of each row

Status == {"unborn", "active", "disabled", "deleted"}

NoAccounts ==
    /\ account = [u \in User |-> "unborn"]
    /\ mergedInto = [u \in User |-> None]

AccountsOK ==
    /\ account \in [User -> Status]
    /\ mergedInto \in [User -> User \cup {None}]

(* A GUID nobody has been given yet cannot be named in a call. *)
Known(u) == account[u] # "unborn"

Exists(u) == account[u] \in {"active", "disabled"}

(* The users met when following MergedInto from u. *)
MergeChain(u) ==
    LET up[n \in 0..Cardinality(User)] ==
            IF n = 0 THEN {u}
            ELSE up[n - 1] \cup ({mergedInto[x] : x \in up[n - 1]} \ {None})
    IN  up[Cardinality(User)]

(* ResolveUser(u) returns v: every row of the chain exists and v ends it. *)
ResolvesTo(u, v) ==
    /\ v \in MergeChain(u)
    /\ mergedInto[v] = None
    /\ \A x \in MergeChain(u) : Exists(x)

PutUser(u) ==
    /\ account[u] = "unborn"
    /\ account' = [account EXCEPT ![u] = "active"]
    /\ UNCHANGED mergedInto

SetStatus(u, status) ==
    /\ Exists(u)
    /\ account' = [account EXCEPT ![u] = status]
    /\ UNCHANGED mergedInto

(* The row goes, if there is one. *)
DropUser(u) ==
    /\ Known(u)
    /\ account' = [account EXCEPT ![u] = "deleted"]
    /\ mergedInto' = [mergedInto EXCEPT ![u] = None]

(* A new account v takes over the sources (two at least, and nothing keeps *)
(* the same GUID from being given twice).                                  *)
MergeInto(sources, v) ==
    /\ sources # {}
    /\ \A s \in sources : Exists(s)
    /\ account[v] = "unborn"
    /\ account' = [account EXCEPT ![v] = "active"]
    /\ mergedInto' = [u \in User |-> IF u \in sources THEN v ELSE mergedInto[u]]

Unmerge(u) ==
    /\ Exists(u) /\ mergedInto[u] # None
    /\ mergedInto' = [mergedInto EXCEPT ![u] = None]
    /\ UNCHANGED account

=============================================================================
