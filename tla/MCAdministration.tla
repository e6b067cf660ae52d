-------------------------- MODULE MCAdministration --------------------------
(***************************************************************************)
(* The components an administrator works with, on small sets, for TLC.     *)
(* They share no state here, so a behaviour moves one of them, its focus,  *)
(* and leaves the others where they start.                                 *)
(***************************************************************************)
EXTENDS RuntimeSettings, AppUsers, AppCredentials, DirectoryAccounts, BackendMigration,
        SigningKeys, DirectorySetup

CONSTANTS first, second

VARIABLE focus

(* Bodies of a PUT: one as the form sends it, one without numbers and with a
   policy nobody knows, one with numbers beyond the caps.                   *)
Fielded(max, window, disabled, policy, hours) ==
    [max |-> max, window |-> window, disabled |-> disabled, policy |-> policy, hours |-> hours]

MCBody == {Fielded(2, 1, FALSE, "block", 4), Fielded(0, 0, FALSE, "other", 0), Fielded(9, 2, TRUE, "", 0)}

MCSeed == Fielded(0, 1, FALSE, "", 0)

MCFirstRows == {{first}}
MCOldRows == {{second}}

Init ==
    /\ SettingsInit /\ AppInit /\ CredentialInit /\ DirectoryInit /\ MigrationInit
    /\ SigningInit /\ SetupInit
    /\ focus \in {"settings", "limiter", "apps", "credentials", "names", "outage", "backends",
                  "keys", "kerberos"}
    /\ focus \notin {"settings", "limiter"} => settings = StartDocument(NoDocument)

theOthers == <<signingVars, setupVars>>
RestOfSettings == <<appVars, credentialVars, directoryVars, migrationVars, theOthers>>
RestOfApps == <<settingsVars, credentialVars, directoryVars, migrationVars, theOthers>>
RestOfCredentials == <<settingsVars, appVars, directoryVars, migrationVars, theOthers>>
RestOfDirectory == <<settingsVars, appVars, credentialVars, migrationVars, theOthers>>
RestOfBackends == <<settingsVars, appVars, credentialVars, directoryVars, theOthers>>
Administration == <<settingsVars, appVars, credentialVars, directoryVars, migrationVars>>

Next ==
    /\ UNCHANGED focus
    /\ \/ focus = "settings" /\ (PutSteps \/ OperatorSteps \/ Restart) /\ UNCHANGED RestOfSettings
       \/ focus = "limiter" /\ (PutSteps \/ ServedRequests) /\ UNCHANGED RestOfSettings
       \/ focus = "apps" /\ AppNext /\ UNCHANGED RestOfApps
       \/ focus = "credentials" /\ CredentialNext /\ UNCHANGED RestOfCredentials
       \/ focus = "names" /\ (FirstLoginSteps \/ LaterUseSteps) /\ UNCHANGED RestOfDirectory
       \/ focus = "outage" /\ DirectoryNext /\ UNCHANGED RestOfDirectory
       \/ focus = "backends" /\ MigrationNext /\ UNCHANGED RestOfBackends
       \/ focus = "keys" /\ SigningNext /\ UNCHANGED <<Administration, setupVars>>
       \/ focus = "kerberos" /\ SetupNext /\ UNCHANGED <<Administration, signingVars>>

vars == <<focus, settingsVars, RestOfSettings>>

Spec == Init /\ [][Next]_vars

(* Two migrations of the database at once, a read that is cut short beside any
   other oddity of a migration, and two mishaps in one app or of one person's
   stamps, are not followed further; the outage is that of a person with one
   record, who signs in under one name, with one password login at a time, and
   whose account is disabled rather than removed; each key signs one access
   token; one principal and one change of the LDAP configuration at a time.  *)
Bounds ==
    /\ "overlap" \notin oddities
    /\ "cut" \in oddities => oddities = {"cut"} /\ writes = 0
    /\ Cardinality(mishaps) <= 1 /\ Cardinality(misfortunes) <= 1
    /\ \A t, u \in issued : t # u => t.key # u.key /\ t.class = "access"
    /\ second \notin principals
    /\ Cardinality({c \in SetupCall : setups[c].kind = "config"}) <= 1
    /\ focus = "outage" =>
         /\ account # "gone" /\ records[second] = "none"
         /\ "overlap" \notin misfortunes
         /\ \A c \in Login : logins[c].name = Sam /\ logins[c].kind \notin {"kerberos", "import"}
         /\ Cardinality({c \in Login : logins[c].kind = "password"}) <= 1

=============================================================================
