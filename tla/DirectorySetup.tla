--------------------------- MODULE DirectorySetup ---------------------------
(***************************************************************************)
(* What an administrator sets up for the directory                         *)
(* (src/internal/handler/admin_ldap.go, admin_kerberos.go): the LDAP       *)
(* configuration, and for Kerberos the service principal in the directory, *)
(* the keytab file and the row that names it.  They are written one after  *)
(* the other, without a lock; any step may fail, several administrators    *)
(* may be at it, the server may stop in between.  Of the configuration the *)
(* password of the bind account is kept, the one thing the keytab is made  *)
(* from that changes; KRB5Keytab is not set in the environment.            *)
(***************************************************************************)
EXTENDS Integers

CONSTANTS
    SetupCall,   \* administrators' calls under way at once
    Host,        \* service host names
    NoHost,
    MaxPassword  \* bound: passwords the bind account has over time

ASSUME SetupConstants == NoHost \notin Host /\ MaxPassword \in Nat \ {0}

VARIABLES
    bindPassword, \* the password in the row "ldap:config"
    adPassword,   \* the bind account's password
    principals,   \* hosts registered as servicePrincipalName of the account
    keytab,       \* the file krb5.keytab
    kerberosRow,  \* the host in the row "kerberos:config"
    setups,       \* the calls under way
    settled       \* history: the call that ended last, if it was alone from
                  \* its beginning on and nothing failed in it

setupVars == <<bindPassword, adPassword, principals, keytab, kerberosRow, setups, settled>>

(* No row; the mask that forms show in the place of a password. *)
NoConfig == 0
Masked == -1

NoKeytab == [host |-> NoHost, password |-> 0]
NoSetup == [step |-> "none", kind |-> "none", host |-> NoHost, password |-> 0, smooth |-> TRUE]

SetupInit ==
    /\ bindPassword = NoConfig /\ adPassword = 1
    /\ principals = {} /\ keytab = NoKeytab /\ kerberosRow = NoHost
    /\ setups = [c \in SetupCall |-> NoSetup]
    /\ settled = NoSetup

(* The calls with c begun: from now on none of several was alone. *)
BeginSetup(c, call) ==
    /\ setups[c] = NoSetup
    /\ LET others == {d \in SetupCall : setups[d] # NoSetup} IN
       setups' = [d \in SetupCall |->
                    CASE d = c -> [call EXCEPT !.smooth = others = {}]
                      [] d \in others -> [setups[d] EXCEPT !.smooth = FALSE]
                      [] OTHER -> NoSetup]

ToStep(c, step) == setups' = [setups EXCEPT ![c].step = step]
Stumble(c, step) == setups' = [setups EXCEPT ![c].step = step, ![c].smooth = FALSE]

EndSetup(c) ==
    /\ setups' = [setups EXCEPT ![c] = NoSetup]
    /\ settled' = IF setups[c].smooth THEN setups[c] ELSE NoSetup

FailSetup(c) == setups' = [setups EXCEPT ![c] = NoSetup] /\ settled' = NoSetup

theFiles == <<keytab, kerberosRow>>

-----------------------------------------------------------------------------
(* The LDAP configuration. *)

(* handleImportLDAP, with the password an administrator knows; a host asks
   for Kerberos as well.                                                    *)
BeginImportConfig(c, password, host) ==
    /\ BeginSetup(c, [NoSetup EXCEPT !.step = "config", !.kind = "config", !.host = host,
                                     !.password = password])
    /\ UNCHANGED <<bindPassword, adPassword, principals, theFiles, settled>>

(* handleSaveLDAPConfig with the mask: the password is taken from the row. *)
BeginSaveConfig(c) ==
    /\ BeginSetup(c, [NoSetup EXCEPT !.step = "config", !.kind = "config",
                        !.password = IF bindPassword = NoConfig THEN Masked ELSE bindPassword])
    /\ UNCHANGED <<bindPassword, adPassword, principals, theFiles, settled>>

SaveConfig(c) ==
    /\ setups[c].step = "config"
    /\ bindPassword' = setups[c].password
    /\ IF setups[c].host = NoHost THEN EndSetup(c) ELSE ToStep(c, "again") /\ UNCHANGED settled
    /\ UNCHANGED <<adPassword, principals, theFiles>>

DeleteConfig ==
    /\ bindPassword # NoConfig
    /\ bindPassword' = NoConfig
    /\ UNCHANGED <<adPassword, principals, theFiles, setups, settled>>

-----------------------------------------------------------------------------
(* handleSetupKerberos, and autoSetupKerberos after an import. *)

BeginKerberosSetup(c, host) ==
    /\ bindPassword # NoConfig
    /\ BeginSetup(c, [NoSetup EXCEPT !.step = "bind", !.kind = "setup", !.host = host,
                                     !.password = bindPassword])
    /\ UNCHANGED <<bindPassword, adPassword, principals, theFiles, settled>>

(* autoSetupKerberos reads the configuration as it is now. *)
AutoSetupKerberos(c) ==
    /\ setups[c].step = "again"
    /\ IF bindPassword = NoConfig
       THEN FailSetup(c)
       ELSE /\ setups' = [setups EXCEPT ![c].step = "bind", ![c].kind = "auto",
                                        ![c].password = bindPassword]
            /\ UNCHANGED settled
    /\ UNCHANGED <<bindPassword, adPassword, principals, theFiles>>

(* The directory accepts the password and tells the account's name. *)
BindService(c) ==
    /\ setups[c].step = "bind" /\ setups[c].password = adPassword
    /\ ToStep(c, IF setups[c].kind = "setup" THEN "principal" ELSE "keytab")
    /\ UNCHANGED <<bindPassword, adPassword, principals, theFiles, settled>>

(* Only handleSetupKerberos registers the principal; that it could not is a
   warning.                                                                 *)
RegisterSPN(c) ==
    /\ setups[c].step = "principal"
    /\ principals' \in {principals, principals \cup {setups[c].host}}
    /\ ToStep(c, "keytab")
    /\ UNCHANGED <<bindPassword, adPassword, theFiles, settled>>

(* Mutant of WriteKeytab: a keytab that is there is kept. *)
KeepKeytab(c) ==
    /\ setups[c].step = "keytab"
    /\ keytab' = IF keytab = NoKeytab
                 THEN [host |-> setups[c].host, password |-> setups[c].password] ELSE keytab
    /\ ToStep(c, "row")
    /\ UNCHANGED <<bindPassword, adPassword, principals, kerberosRow, settled>>

(* A keytab left by an earlier setup is replaced. *)
WriteKeytab(c) ==
    /\ setups[c].step = "keytab"
    /\ keytab' = [host |-> setups[c].host, password |-> setups[c].password]
    /\ ToStep(c, "row")
    /\ UNCHANGED <<bindPassword, adPassword, principals, kerberosRow, settled>>

SaveKerberosConfig(c) ==
    /\ setups[c].step = "row"
    /\ kerberosRow' = setups[c].host
    /\ EndSetup(c)
    /\ UNCHANGED <<bindPassword, adPassword, principals, keytab>>

(* An error ends the call where it is; a write of the file that fails may
   have emptied it.                                                         *)
SetupFails(c) ==
    /\ setups[c].step \in {"config", "bind", "keytab", "row"}
    /\ keytab' \in IF setups[c].step = "keytab" THEN {keytab, NoKeytab} ELSE {keytab}
    /\ FailSetup(c)
    /\ UNCHANGED <<bindPassword, adPassword, principals, kerberosRow>>

-----------------------------------------------------------------------------
(* handleCleanupKerberos: without the row there is nothing to clean up;    *)
(* with an account of the directory the principal goes first.  The errors  *)
(* of the three removals are not looked at.                                *)

BeginCleanup(c, withAccount) ==
    /\ bindPassword # NoConfig /\ kerberosRow # NoHost
    /\ BeginSetup(c, [NoSetup EXCEPT !.step = IF withAccount THEN "unregister" ELSE "remove",
                                     !.kind = "cleanup", !.host = kerberosRow])
    /\ UNCHANGED <<bindPassword, adPassword, principals, theFiles, settled>>

UnregisterSPN(c) ==
    /\ setups[c].step = "unregister"
    /\ principals' \in {principals, principals \ {setups[c].host}}
    /\ ToStep(c, "remove")
    /\ UNCHANGED <<bindPassword, adPassword, theFiles, settled>>

RemoveKeytab(c) ==
    /\ setups[c].step = "remove"
    /\ \/ keytab' = NoKeytab /\ ToStep(c, "forget")
       \/ UNCHANGED keytab /\ Stumble(c, "forget")
    /\ UNCHANGED <<bindPassword, adPassword, principals, kerberosRow, settled>>

DeleteKerberosConfig(c) ==
    /\ setups[c].step = "forget"
    /\ \/ kerberosRow' = NoHost /\ EndSetup(c)
       \/ UNCHANGED kerberosRow /\ FailSetup(c)
    /\ UNCHANGED <<bindPassword, adPassword, principals, keytab>>

-----------------------------------------------------------------------------

ChangeADPassword ==
    /\ adPassword < MaxPassword
    /\ adPassword' = adPassword + 1
    /\ UNCHANGED <<bindPassword, principals, theFiles, setups, settled>>

StopSetups ==
    /\ \E c \in SetupCall : setups[c] # NoSetup
    /\ setups' = [c \in SetupCall |-> NoSetup]
    /\ settled' = NoSetup
    /\ UNCHANGED <<bindPassword, adPassword, principals, theFiles>>

(* getKeytabPath, handleNegotiate: a ticket for the host, under the account's
   password of now, is accepted with a row and a keytab that fits.          *)
AcceptsTicket(host) ==
    kerberosRow # NoHost /\ keytab = [host |-> host, password |-> adPassword]

SetupNext ==
    \/ \E c \in SetupCall :
         \/ \E p \in 1 .. adPassword, h \in Host \cup {NoHost} : BeginImportConfig(c, p, h)
         \/ BeginSaveConfig(c) \/ SaveConfig(c)
         \/ \E h \in Host : BeginKerberosSetup(c, h)
         \/ AutoSetupKerberos(c) \/ BindService(c) \/ RegisterSPN(c) \/ WriteKeytab(c)
         \/ SaveKerberosConfig(c) \/ SetupFails(c)
         \/ \E withAccount \in BOOLEAN : BeginCleanup(c, withAccount)
         \/ UnregisterSPN(c) \/ RemoveKeytab(c) \/ DeleteKerberosConfig(c)
    \/ DeleteConfig \/ ChangeADPassword \/ StopSetups

SetupSpec == SetupInit /\ [][SetupNext]_setupVars

-----------------------------------------------------------------------------

(***************************************************************************)
(* Whatever failed, overlapped or stopped before: after one setup that ran *)
(* alone and without an error tickets for its host are accepted, for no    *)
(* other, until the password of the account changes; after one cleanup     *)
(* that did, none is (handleSetupKerberos, autoSetupKerberos,              *)
(* handleCleanupKerberos, handleNegotiate).                                *)
(***************************************************************************)
KerberosFollowsSetup ==
    (\A c \in SetupCall : setups[c] = NoSetup) =>
      \A h \in Host :
        /\ settled.kind \in {"setup", "auto"} =>
             (AcceptsTicket(h) <=> h = settled.host /\ settled.password = adPassword)
        /\ settled.kind = "cleanup" => ~AcceptsTicket(h)

=============================================================================
