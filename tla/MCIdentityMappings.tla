------------------------ MODULE MCIdentityMappings ------------------------
(* IdentityMappings on small sets, for TLC. *)
EXTENDS IdentityMappings

Name(provider, externalID) == [provider |-> provider, externalID |-> externalID]

(* The name "x" in the directory, and the same name in the app a. *)
DistinctKeys == {Name(<<"ldap">>, <<"x">>), Name(<<"applocal", "a">>, <<"x">>)}

(* Two requests of the administrator to handleSetMapping: provider "ldap"  *)
(* with external id "a:x", and provider "ldap:a" with external id "x".     *)
SharedKey == {Name(<<"ldap">>, <<"a", "x">>), Name(<<"ldap", "a">>, <<"x">>)}

============================================================================
