-------------------------- MODULE DirectoryProofs ---------------------------
(***************************************************************************)
(* Proofs about DirectorySetup and DirectoryAccounts: one setup or one     *)
(* cleanup that ran alone and without an error settles which tickets are   *)
(* accepted; in an outage the grace period is earned and granted by what   *)
(* the directory last said, and one person has one record.                 *)
(***************************************************************************)
EXTENDS DirectorySetup, DirectoryAccounts, TLAPS

-----------------------------------------------------------------------------
(* The service account and the keytab: DirectorySetup. *)

Configuring == {"config", "again"}
SettingUp == {"bind", "principal", "keytab", "row"}
CleaningUp == {"unregister", "remove", "forget"}

CallState ==
    [step : {"none"} \cup Configuring \cup SettingUp \cup CleaningUp,
     kind : {"none", "config", "setup", "auto", "cleanup"}, host : Host \cup {NoHost},
     password : Int, smooth : BOOLEAN]

SetupTypeOK ==
    /\ bindPassword \in Int /\ adPassword \in Nat
    /\ keytab \in [host : Host \cup {NoHost}, password : Int]
    /\ kerberosRow \in Host \cup {NoHost}
    /\ setups \in [SetupCall -> CallState]
    /\ settled \in CallState

(* A call is of the kind its step belongs to. *)
Fits(call) ==
    /\ call.step = "none" => call = NoSetup
    /\ call.step \in SettingUp => call.kind \in {"setup", "auto"} /\ call.host \in Host
    /\ call.step \in Configuring => call.kind = "config"
    /\ call.step = "again" => call.host \in Host
    /\ call.step \in CleaningUp => call.kind = "cleanup"

(* Nothing a smooth call has done was undone: no other call is under way. *)
Alone(c) ==
    setups[c].smooth /\ setups[c].step # "none" =>
      /\ \A d \in SetupCall \ {c} : setups[d] = NoSetup
      /\ setups[c].step = "row" => keytab = [host |-> setups[c].host, password |-> setups[c].password]
      /\ setups[c].step = "forget" => keytab = NoKeytab

Settled ==
    (\A c \in SetupCall : setups[c] = NoSetup) =>
      /\ settled.kind \in {"setup", "auto"} =>
           /\ settled.host \in Host /\ kerberosRow = settled.host
           /\ keytab = [host |-> settled.host, password |-> settled.password]
      /\ settled.kind = "cleanup" => keytab = NoKeytab

SetupInv ==
    /\ SetupTypeOK
    /\ \A c \in SetupCall : Fits(setups[c]) /\ Alone(c)
    /\ Settled

-----------------------------------------------------------------------------

LEMMA NoSetupFacts ==
    /\ NoSetup \in CallState /\ NoSetup.step = "none" /\ NoSetup.kind = "none"
    /\ NoSetup.smooth = TRUE
BY DEF NoSetup, CallState

(* The next step of a call that is under way. *)
LEMMA CallMoves ==
    ASSUME SetupInv, NEW c \in SetupCall, setups[c].step # "none",
           NEW call \in CallState, setups' = [setups EXCEPT ![c] = call], Fits(call),
           call.step # "none" /\ call.smooth => setups[c].smooth,
           call.step = "row" /\ call.smooth =>
             keytab' = [host |-> call.host, password |-> call.password],
           call.step = "forget" /\ call.smooth => keytab' = NoKeytab
    PROVE  /\ setups' \in [SetupCall -> CallState] /\ setups'[c] = call
           /\ \A d \in SetupCall \ {c} : setups'[d] = setups[d]
           /\ \A d \in SetupCall : (Fits(setups[d]) /\ Alone(d))'
<1>1. /\ setups' \in [SetupCall -> CallState] /\ setups'[c] = call
      /\ \A d \in SetupCall \ {c} : setups'[d] = setups[d]
  BY DEF SetupInv, SetupTypeOK
<1>2. ASSUME NEW d \in SetupCall PROVE Fits(setups[d])'
  <2>1. CASE d = c BY <1>1, <2>1 DEF Fits
  <2>2. CASE d # c BY <1>1, <2>2 DEF SetupInv, Fits
  <2> QED BY <2>1, <2>2
<1>3. Alone(c)' BY <1>1 DEF Alone, SetupInv
<1>4. ASSUME NEW d \in SetupCall \ {c} PROVE Alone(d)'
  <2>1. ~(setups[d].smooth /\ setups[d].step # "none")
    BY NoSetupFacts DEF SetupInv, Alone
  <2> QED BY <1>1, <2>1 DEF Alone
<1> QED BY <1>1, <1>2, <1>3, <1>4

(* A call goes on. *)
LEMMA CallGoesOn ==
    ASSUME SetupInv, NEW c \in SetupCall, setups[c].step # "none",
           NEW call \in CallState, setups' = [setups EXCEPT ![c] = call], Fits(call),
           call.step # "none", call.smooth => setups[c].smooth,
           call.step = "row" /\ call.smooth =>
             keytab' = [host |-> call.host, password |-> call.password],
           call.step = "forget" /\ call.smooth => keytab' = NoKeytab,
           keytab' \in [host : Host \cup {NoHost}, password : Int],
           bindPassword' \in Int,
           UNCHANGED <<adPassword, kerberosRow, settled>>
    PROVE  SetupInv'
<1>1. /\ setups' \in [SetupCall -> CallState] /\ setups'[c] = call
      /\ \A d \in SetupCall : (Fits(setups[d]) /\ Alone(d))'
  BY CallMoves
<1>2. SetupTypeOK' BY <1>1 DEF SetupInv, SetupTypeOK
<1>3. Settled' BY <1>1, NoSetupFacts DEF Settled
<1> QED BY <1>1, <1>2, <1>3 DEF SetupInv

(* A call ends, and what it left is what it is remembered for. *)
LEMMA CallEnds ==
    ASSUME SetupInv, NEW c \in SetupCall, setups[c].step # "none",
           setups' = [setups EXCEPT ![c] = NoSetup], settled' \in CallState,
           settled'.kind \in {"setup", "auto"} =>
             /\ settled'.host \in Host /\ kerberosRow' = settled'.host
             /\ keytab' = [host |-> settled'.host, password |-> settled'.password],
           settled'.kind = "cleanup" => keytab' = NoKeytab,
           keytab' \in [host : Host \cup {NoHost}, password : Int],
           bindPassword' \in Int, kerberosRow' \in Host \cup {NoHost}, UNCHANGED adPassword
    PROVE  SetupInv'
<1>1. Fits(NoSetup) BY NoSetupFacts DEF Fits, SettingUp, Configuring, CleaningUp
<1>2. /\ setups' \in [SetupCall -> CallState]
      /\ \A d \in SetupCall : (Fits(setups[d]) /\ Alone(d))'
  BY <1>1, NoSetupFacts, CallMoves
<1>3. SetupTypeOK' BY <1>2 DEF SetupInv, SetupTypeOK
<1>4. Settled' BY DEF Settled
<1> QED BY <1>2, <1>3, <1>4 DEF SetupInv

LEMMA BeginSetupKeeps ==
    ASSUME SetupInv, NEW c \in SetupCall, NEW call \in CallState,
           call.step \in {"config", "bind", "unregister", "remove"}, Fits(call),
           BeginSetup(c, call),
           UNCHANGED <<bindPassword, adPassword, principals, keytab, kerberosRow, settled>>
    PROVE  SetupInv'
<1> DEFINE others == {d \in SetupCall : setups[d] # NoSetup}
           new == [call EXCEPT !.smooth = others = {}]
<1>1. setups \in [SetupCall -> CallState] /\ setups[c] = NoSetup
  BY DEF SetupInv, SetupTypeOK, BeginSetup
<1>2. PICK b \in BOOLEAN : b = (others = {}) BY Zenon
<1>3. new = [call EXCEPT !.smooth = b] BY <1>2
<1>4. /\ new \in CallState /\ new.step = call.step /\ new.kind = call.kind /\ new.host = call.host
      /\ new.smooth = b
  BY <1>3 DEF CallState
<1>5. setups' = [d \in SetupCall |->
                   CASE d = c -> new
                     [] d \in others -> [setups[d] EXCEPT !.smooth = FALSE]
                     [] OTHER -> NoSetup]
  BY DEF BeginSetup
<1> HIDE DEF new
<1>6. setups'[c] = new
  <2>1. c \notin others BY <1>1
  <2> HIDE DEF others
  <2> QED BY <1>5, <2>1
<1>7. ASSUME NEW d \in SetupCall \ {c}
      PROVE  setups'[d] = IF d \in others THEN [setups[d] EXCEPT !.smooth = FALSE] ELSE NoSetup
  BY <1>5
<1>8. ASSUME NEW d \in SetupCall \ {c}
      PROVE  /\ setups'[d] \in CallState /\ Fits(setups'[d])
             /\ setups'[d] # NoSetup => setups'[d].smooth = FALSE
             /\ setups[d] = NoSetup => setups'[d] = NoSetup
  <2>1. CASE d \in others
    <3>1. setups'[d] = [setups[d] EXCEPT !.smooth = FALSE] /\ setups[d] \in CallState
      BY <1>1, <1>7, <2>1
    <3>2. /\ setups'[d] \in CallState /\ setups'[d].step = setups[d].step
          /\ setups'[d].kind = setups[d].kind /\ setups'[d].host = setups[d].host
          /\ setups'[d].smooth = FALSE
      BY <3>1 DEF CallState
    <3>3. Fits(setups[d]) /\ setups[d] # NoSetup BY <2>1 DEF SetupInv
    <3>4. Fits(setups'[d]) BY <3>2, <3>3 DEF Fits
    <3> QED BY <3>2, <3>3, <3>4
  <2>2. CASE d \notin others
    <3>1. setups'[d] = NoSetup BY <1>7, <2>2
    <3>2. Fits(NoSetup) BY NoSetupFacts DEF Fits, SettingUp, Configuring, CleaningUp
    <3> QED BY <3>1, <3>2, NoSetupFacts
  <2> QED BY <2>1, <2>2
<1>9. setups' \in [SetupCall -> CallState]
  <2>1. \A d \in SetupCall : setups'[d] \in CallState BY <1>4, <1>6, <1>8
  <2>2. setups' = [d \in SetupCall |-> setups'[d]] BY <1>5
  <2> QED BY <2>1, <2>2
<1>10. Fits(new) BY <1>4 DEF Fits
<1>11. Alone(c)'
  <2>1. new.smooth => \A d \in SetupCall \ {c} : setups'[d] = NoSetup
    BY <1>2, <1>4, <1>8
  <2> QED BY <1>4, <1>6, <2>1 DEF Alone
<1>12. ASSUME NEW d \in SetupCall \ {c} PROVE Alone(d)'
  BY <1>8, NoSetupFacts DEF Alone
<1>13. Settled' BY <1>4, <1>6, NoSetupFacts DEF Settled
<1>14. SetupTypeOK' BY <1>9 DEF SetupInv, SetupTypeOK
<1> QED BY <1>6, <1>8, <1>10, <1>11, <1>12, <1>13, <1>14 DEF SetupInv

-----------------------------------------------------------------------------

LEMMA BeginsKeep ==
    ASSUME SetupInv, NEW c \in SetupCall,
           \/ \E p \in 1 .. adPassword, h \in Host \cup {NoHost} : BeginImportConfig(c, p, h)
           \/ BeginSaveConfig(c)
           \/ \E h \in Host : BeginKerberosSetup(c, h)
           \/ \E withAccount \in BOOLEAN : BeginCleanup(c, withAccount)
    PROVE  SetupInv'
<1> USE NoSetupFacts
<1>1. bindPassword \in Int /\ adPassword \in Nat /\ kerberosRow \in Host \cup {NoHost}
  BY DEF SetupInv, SetupTypeOK
<1>2. ASSUME NEW p \in 1 .. adPassword, NEW h \in Host \cup {NoHost}, BeginImportConfig(c, p, h)
      PROVE  SetupInv'
  <2> DEFINE call == [NoSetup EXCEPT !.step = "config", !.kind = "config", !.host = h, !.password = p]
  <2>1. p \in Int BY <1>1
  <2>2. call \in CallState /\ call.step = "config" /\ call.kind = "config"
    BY <2>1 DEF CallState, Configuring
  <2>3. BeginSetup(c, call)
        /\ UNCHANGED <<bindPassword, adPassword, principals, keytab, kerberosRow, settled>>
    BY <1>2 DEF BeginImportConfig, theFiles
  <2> HIDE DEF call
  <2>4. Fits(call) BY <2>2 DEF Fits, SettingUp, Configuring, CleaningUp
  <2> QED BY <2>2, <2>3, <2>4, BeginSetupKeeps
<1>3. ASSUME BeginSaveConfig(c) PROVE SetupInv'
  <2> DEFINE p == IF bindPassword = NoConfig THEN Masked ELSE bindPassword
             call == [NoSetup EXCEPT !.step = "config", !.kind = "config", !.password = p]
  <2>1. p \in Int BY <1>1 DEF Masked
  <2>2. BeginSetup(c, call)
        /\ UNCHANGED <<bindPassword, adPassword, principals, keytab, kerberosRow, settled>>
    BY <1>3 DEF BeginSaveConfig, theFiles
  <2> HIDE DEF p
  <2>3. call \in CallState /\ call.step = "config" /\ call.kind = "config"
    BY <2>1 DEF CallState, Configuring
  <2> HIDE DEF call
  <2>4. Fits(call) BY <2>3 DEF Fits, SettingUp, Configuring, CleaningUp
  <2> QED BY <2>2, <2>3, <2>4, BeginSetupKeeps
<1>4. ASSUME NEW h \in Host, BeginKerberosSetup(c, h) PROVE SetupInv'
  <2> DEFINE call == [NoSetup EXCEPT !.step = "bind", !.kind = "setup", !.host = h,
                                     !.password = bindPassword]
  <2>1. call \in CallState /\ call.step = "bind" /\ call.kind = "setup" /\ call.host = h
    BY <1>1 DEF CallState, SettingUp
  <2>2. BeginSetup(c, call)
        /\ UNCHANGED <<bindPassword, adPassword, principals, keytab, kerberosRow, settled>>
    BY <1>4 DEF BeginKerberosSetup, theFiles
  <2> HIDE DEF call
  <2>3. Fits(call) BY <2>1 DEF Fits, SettingUp, Configuring, CleaningUp
  <2> QED BY <2>1, <2>2, <2>3, BeginSetupKeeps
<1>5. ASSUME NEW withAccount \in BOOLEAN, BeginCleanup(c, withAccount) PROVE SetupInv'
  <2> DEFINE s == IF withAccount THEN "unregister" ELSE "remove"
             call == [NoSetup EXCEPT !.step = s, !.kind = "cleanup", !.host = kerberosRow]
  <2>1. BeginSetup(c, call)
        /\ UNCHANGED <<bindPassword, adPassword, principals, keytab, kerberosRow, settled>>
    BY <1>5 DEF BeginCleanup, theFiles
  <2>2. s \in {"unregister", "remove"} OBVIOUS
  <2> HIDE DEF s
  <2>3. call \in CallState /\ call.step = s /\ call.kind = "cleanup"
    BY <1>1, <2>2 DEF CallState, CleaningUp
  <2> HIDE DEF call
  <2>4. Fits(call) BY <2>2, <2>3 DEF Fits, SettingUp, Configuring, CleaningUp
  <2> QED BY <2>1, <2>2, <2>3, <2>4, BeginSetupKeeps
<1> QED BY <1>2, <1>3, <1>4, <1>5

(* What is known of a call under way. *)
LEMMA UnderWay ==
    ASSUME SetupInv, NEW c \in SetupCall
    PROVE  /\ setups[c] \in CallState /\ Fits(setups[c]) /\ Alone(c)
           /\ keytab \in [host : Host \cup {NoHost}, password : Int]
           /\ bindPassword \in Int /\ kerberosRow \in Host \cup {NoHost}
           /\ setups \in [SetupCall -> CallState]
BY DEF SetupInv, SetupTypeOK

(* A step that only moves the call. *)
LEMMA ToStepKeeps ==
    ASSUME SetupInv, NEW c \in SetupCall, NEW s, ToStep(c, s),
           \/ setups[c].step \in SettingUp /\ s \in SettingUp
           \/ setups[c].step \in CleaningUp /\ s \in CleaningUp
           \/ setups[c].step \in Configuring /\ s \in Configuring /\ setups[c].host \in Host,
           s = "row" /\ setups[c].smooth =>
             keytab' = [host |-> setups[c].host, password |-> setups[c].password],
           s = "forget" /\ setups[c].smooth => keytab' = NoKeytab,
           keytab' \in [host : Host \cup {NoHost}, password : Int],
           bindPassword' \in Int, UNCHANGED <<adPassword, kerberosRow, settled>>
    PROVE  SetupInv'
<1> DEFINE call == [setups[c] EXCEPT !.step = s]
<1>1. setups[c] \in CallState /\ Fits(setups[c]) /\ setups \in [SetupCall -> CallState]
  BY UnderWay
<1>2. setups' = [setups EXCEPT ![c] = call] BY <1>1 DEF ToStep
<1>3. /\ s \in {"none"} \cup Configuring \cup SettingUp \cup CleaningUp
      /\ setups[c].step # "none" /\ s # "none"
  BY DEF SettingUp, Configuring, CleaningUp
<1>4. /\ call \in CallState /\ call.step = s /\ call.host = setups[c].host /\ call.kind = setups[c].kind
      /\ call.password = setups[c].password /\ call.smooth = setups[c].smooth
  BY <1>1, <1>3 DEF CallState
<1> HIDE DEF call
<1>5. Fits(call) BY <1>1, <1>3, <1>4 DEF Fits, SettingUp, Configuring, CleaningUp
<1> QED BY <1>2, <1>3, <1>4, <1>5, CallGoesOn

(* A call that fails leaves no one to hold to its outcome. *)
LEMMA FailKeeps ==
    ASSUME SetupInv, NEW c \in SetupCall, setups[c].step # "none", FailSetup(c),
           keytab' \in [host : Host \cup {NoHost}, password : Int],
           UNCHANGED <<bindPassword, adPassword, kerberosRow>>
    PROVE  SetupInv'
BY UnderWay, NoSetupFacts, CallEnds DEF FailSetup

LEMMA ConfigKeeps ==
    ASSUME SetupInv, NEW c \in SetupCall, SaveConfig(c) \/ AutoSetupKerberos(c)
    PROVE  SetupInv'
<1>1. /\ setups[c] \in CallState /\ Fits(setups[c])
      /\ keytab \in [host : Host \cup {NoHost}, password : Int] /\ bindPassword \in Int
      /\ kerberosRow \in Host \cup {NoHost} /\ setups \in [SetupCall -> CallState]
  BY UnderWay
<1>2. UNCHANGED <<adPassword, keytab, kerberosRow>>
  BY DEF SaveConfig, AutoSetupKerberos, theFiles
<1>3. CASE SaveConfig(c)
  <2>1. setups[c].step = "config" /\ bindPassword' = setups[c].password /\ setups[c].kind = "config"
    BY <1>1, <1>3 DEF SaveConfig, Fits, Configuring
  <2>2. bindPassword' \in Int BY <1>1, <2>1 DEF CallState
  <2>3. CASE setups[c].host = NoHost
    <3>1. /\ setups' = [setups EXCEPT ![c] = NoSetup]
          /\ settled' \in {setups[c], NoSetup}
      BY <1>3, <2>3 DEF SaveConfig, EndSetup
    <3>2. settled' \in CallState /\ settled'.kind \in {"config", "none"}
      BY <1>1, <2>1, <3>1, NoSetupFacts
    <3> QED BY <1>1, <1>2, <2>1, <2>2, <3>1, <3>2, CallEnds
  <2>4. CASE setups[c].host # NoHost
    <3>1. ToStep(c, "again") /\ UNCHANGED settled BY <1>3, <2>4 DEF SaveConfig
    <3>2. setups[c].host \in Host BY <1>1, <2>4 DEF CallState
    <3>3. setups[c].step \in Configuring /\ "again" \in Configuring BY <2>1 DEF Configuring
    <3> QED BY <1>1, <1>2, <2>2, <3>1, <3>2, <3>3, ToStepKeeps
  <2> QED BY <2>3, <2>4
<1>4. CASE AutoSetupKerberos(c)
  <2>1. setups[c].step = "again" /\ UNCHANGED bindPassword /\ setups[c].host \in Host
    BY <1>1, <1>4 DEF AutoSetupKerberos, Fits
  <2>2. CASE bindPassword = NoConfig
    BY <1>1, <1>2, <1>4, <2>1, <2>2, FailKeeps DEF AutoSetupKerberos
  <2>3. CASE bindPassword # NoConfig
    <3> DEFINE call == [setups[c] EXCEPT !.step = "bind", !.kind = "auto", !.password = bindPassword]
    <3>1. setups' = [setups EXCEPT ![c] = call] /\ UNCHANGED settled
      BY <1>1, <1>4, <2>3 DEF AutoSetupKerberos
    <3>2. /\ call \in CallState /\ call.step = "bind" /\ call.kind = "auto"
          /\ call.host = setups[c].host /\ call.smooth = setups[c].smooth
      BY <1>1 DEF CallState, SettingUp
    <3> HIDE DEF call
    <3>3. Fits(call) BY <2>1, <3>2 DEF Fits, SettingUp, Configuring, CleaningUp
    <3> QED BY <1>1, <1>2, <2>1, <3>1, <3>2, <3>3, CallGoesOn
  <2> QED BY <2>2, <2>3
<1> QED BY <1>3, <1>4

LEMMA SettingUpKeeps ==
    ASSUME SetupInv, NEW c \in SetupCall,
           BindService(c) \/ RegisterSPN(c) \/ WriteKeytab(c) \/ SaveKerberosConfig(c)
    PROVE  SetupInv'
<1>1. /\ setups[c] \in CallState /\ Fits(setups[c]) /\ Alone(c)
      /\ keytab \in [host : Host \cup {NoHost}, password : Int] /\ bindPassword \in Int
      /\ kerberosRow \in Host \cup {NoHost} /\ setups \in [SetupCall -> CallState]
  BY UnderWay
<1>2. {"bind", "principal", "keytab", "row"} \subseteq SettingUp BY DEF SettingUp
<1>3. CASE BindService(c)
  <2>1. PICK s \in {"principal", "keytab"} : ToStep(c, s) BY <1>3 DEF BindService
  <2>2. setups[c].step = "bind" /\ UNCHANGED <<bindPassword, adPassword, keytab, kerberosRow, settled>>
    BY <1>3 DEF BindService, theFiles
  <2> QED BY <1>1, <1>2, <2>1, <2>2, ToStepKeeps
<1>4. CASE RegisterSPN(c)
  <2>1. /\ setups[c].step = "principal" /\ ToStep(c, "keytab")
        /\ UNCHANGED <<bindPassword, adPassword, keytab, kerberosRow, settled>>
    BY <1>4 DEF RegisterSPN, theFiles
  <2> QED BY <1>1, <1>2, <2>1, ToStepKeeps
<1>5. CASE WriteKeytab(c)
  <2>1. /\ setups[c].step = "keytab" /\ ToStep(c, "row")
        /\ keytab' = [host |-> setups[c].host, password |-> setups[c].password]
        /\ UNCHANGED <<bindPassword, adPassword, kerberosRow, settled>>
    BY <1>5 DEF WriteKeytab
  <2>2. keytab' \in [host : Host \cup {NoHost}, password : Int] BY <1>1, <2>1 DEF CallState
  <2> QED BY <1>1, <1>2, <2>1, <2>2, ToStepKeeps
<1>6. CASE SaveKerberosConfig(c)
  <2>1. /\ setups[c].step = "row" /\ kerberosRow' = setups[c].host
        /\ setups' = [setups EXCEPT ![c] = NoSetup]
        /\ settled' = IF setups[c].smooth THEN setups[c] ELSE NoSetup
        /\ UNCHANGED <<bindPassword, adPassword, keytab>>
    BY <1>6 DEF SaveKerberosConfig, EndSetup
  <2>2. setups[c].host \in Host /\ setups[c].kind \in {"setup", "auto"}
    BY <1>1, <1>2, <2>1 DEF Fits
  <2>3. settled'.kind \in {"setup", "auto"} =>
          /\ settled'.host \in Host /\ kerberosRow' = settled'.host
          /\ keytab' = [host |-> settled'.host, password |-> settled'.password]
    <3>1. CASE setups[c].smooth BY <1>1, <2>1, <2>2, <3>1 DEF Alone
    <3>2. CASE ~setups[c].smooth BY <2>1, <3>2, NoSetupFacts
    <3> QED BY <3>1, <3>2
  <2>4. settled' \in CallState /\ settled'.kind # "cleanup" BY <1>1, <2>1, <2>2, NoSetupFacts
  <2>5. kerberosRow' \in Host \cup {NoHost} BY <2>1, <2>2
  <2> QED BY <1>1, <2>1, <2>3, <2>4, <2>5, CallEnds
<1> QED BY <1>3, <1>4, <1>5, <1>6

LEMMA FailureKeeps ==
    ASSUME SetupInv, NEW c \in SetupCall, SetupFails(c)
    PROVE  SetupInv'
<1>1. /\ setups[c].step # "none" /\ FailSetup(c) /\ keytab' \in {keytab, NoKeytab}
      /\ UNCHANGED <<bindPassword, adPassword, kerberosRow>>
  BY DEF SetupFails
<1>2. NoKeytab \in [host : Host \cup {NoHost}, password : Int] BY DEF NoKeytab
<1>3. keytab' \in [host : Host \cup {NoHost}, password : Int] BY <1>1, <1>2, UnderWay
<1> QED BY <1>1, <1>3, FailKeeps

LEMMA CleaningUpKeeps ==
    ASSUME SetupInv, NEW c \in SetupCall,
           UnregisterSPN(c) \/ RemoveKeytab(c) \/ DeleteKerberosConfig(c)
    PROVE  SetupInv'
<1>1. /\ setups[c] \in CallState /\ Fits(setups[c]) /\ Alone(c)
      /\ keytab \in [host : Host \cup {NoHost}, password : Int] /\ bindPassword \in Int
      /\ kerberosRow \in Host \cup {NoHost} /\ setups \in [SetupCall -> CallState]
  BY UnderWay
<1>2. {"unregister", "remove", "forget"} \subseteq CleaningUp BY DEF CleaningUp
<1>3. CASE UnregisterSPN(c)
  <2>1. /\ setups[c].step = "unregister" /\ ToStep(c, "remove")
        /\ UNCHANGED <<bindPassword, adPassword, keytab, kerberosRow, settled>>
    BY <1>3 DEF UnregisterSPN, theFiles
  <2> QED BY <1>1, <1>2, <2>1, ToStepKeeps
<1>4. CASE RemoveKeytab(c)
  <2>1. /\ setups[c].step = "remove"
        /\ UNCHANGED <<bindPassword, adPassword, kerberosRow, settled>>
    BY <1>4 DEF RemoveKeytab
  <2>2. CASE keytab' = NoKeytab /\ ToStep(c, "forget")
    <3>1. keytab' \in [host : Host \cup {NoHost}, password : Int] BY <2>2 DEF NoKeytab
    <3> QED BY <1>1, <1>2, <2>1, <2>2, <3>1, ToStepKeeps
  <2>3. CASE UNCHANGED keytab /\ Stumble(c, "forget")
    <3> DEFINE call == [setups[c] EXCEPT !.step = "forget", !.smooth = FALSE]
    <3>1. setups' = [setups EXCEPT ![c] = call] BY <1>1, <2>3 DEF Stumble
    <3>2. /\ call \in CallState /\ call.step = "forget" /\ call.kind = setups[c].kind
          /\ call.smooth = FALSE
      BY <1>1 DEF CallState, CleaningUp
    <3> HIDE DEF call
    <3>3. setups[c].kind = "cleanup" BY <1>1, <1>2, <2>1 DEF Fits
    <3>4. Fits(call) BY <3>2, <3>3 DEF Fits, SettingUp, Configuring, CleaningUp
    <3> QED BY <1>1, <2>1, <2>3, <3>1, <3>2, <3>4, CallGoesOn
  <2> QED BY <1>4, <2>2, <2>3 DEF RemoveKeytab
<1>5. CASE DeleteKerberosConfig(c)
  <2>1. setups[c].step = "forget" /\ UNCHANGED <<bindPassword, adPassword, keytab>>
    BY <1>5 DEF DeleteKerberosConfig
  <2>2. CASE kerberosRow' = NoHost /\ EndSetup(c)
    <3>1. /\ setups' = [setups EXCEPT ![c] = NoSetup]
          /\ settled' = IF setups[c].smooth THEN setups[c] ELSE NoSetup
      BY <2>2 DEF EndSetup
    <3>2. setups[c].kind = "cleanup" BY <1>1, <1>2, <2>1 DEF Fits
    <3>3. settled' \in CallState /\ settled'.kind \notin {"setup", "auto"}
      BY <1>1, <3>1, <3>2, NoSetupFacts
    <3>4. settled'.kind = "cleanup" => keytab' = NoKeytab
      BY <1>1, <2>1, <3>1, NoSetupFacts DEF Alone
    <3> QED BY <1>1, <2>1, <2>2, <3>1, <3>3, <3>4, CallEnds
  <2>3. CASE UNCHANGED kerberosRow /\ FailSetup(c)
    BY <1>1, <2>1, <2>3, FailKeeps
  <2> QED BY <1>5, <2>2, <2>3 DEF DeleteKerberosConfig
<1> QED BY <1>3, <1>4, <1>5

LEMMA AroundKeeps ==
    ASSUME SetupInv, DeleteConfig \/ ChangeADPassword \/ StopSetups
    PROVE  SetupInv'
<1>1. UNCHANGED <<keytab, kerberosRow>> /\ bindPassword' \in Int /\ adPassword' \in Nat
  BY DEF DeleteConfig, ChangeADPassword, StopSetups, theFiles, NoConfig, SetupInv, SetupTypeOK
<1>2. CASE UNCHANGED <<setups, settled>>
  <2>1. SetupTypeOK' BY <1>1, <1>2 DEF SetupInv, SetupTypeOK
  <2>2. Settled' BY <1>1, <1>2 DEF SetupInv, Settled
  <2>3. \A c \in SetupCall : (Fits(setups[c]) /\ Alone(c))' BY <1>1, <1>2 DEF SetupInv, Fits, Alone
  <2> QED BY <2>1, <2>2, <2>3 DEF SetupInv
<1>3. CASE StopSetups
  <2>1. setups' = [c \in SetupCall |-> NoSetup] /\ settled' = NoSetup BY <1>3 DEF StopSetups
  <2>2. SetupTypeOK' BY <1>1, <2>1, NoSetupFacts DEF SetupInv, SetupTypeOK
  <2>3. Settled' BY <2>1, NoSetupFacts DEF Settled
  <2>4. \A c \in SetupCall : (Fits(setups[c]) /\ Alone(c))'
    BY <2>1, NoSetupFacts DEF Fits, Alone, SettingUp, Configuring, CleaningUp
  <2> QED BY <2>2, <2>3, <2>4 DEF SetupInv
<1> QED BY <1>2, <1>3 DEF DeleteConfig, ChangeADPassword

LEMMA InitialSetup == SetupInit => SetupInv
<1> SUFFICES ASSUME SetupInit PROVE SetupInv OBVIOUS
<1>1. /\ bindPassword = 0 /\ adPassword = 1 /\ keytab = NoKeytab /\ kerberosRow = NoHost
      /\ setups = [c \in SetupCall |-> NoSetup] /\ settled = NoSetup
  BY DEF SetupInit, NoConfig
<1>2. NoKeytab \in [host : Host \cup {NoHost}, password : Int] BY DEF NoKeytab
<1>3. SetupTypeOK BY <1>1, <1>2, NoSetupFacts DEF SetupTypeOK
<1>4. Settled BY <1>1, NoSetupFacts DEF Settled
<1>5. \A c \in SetupCall : Fits(setups[c]) /\ Alone(c)
  BY <1>1, NoSetupFacts DEF Fits, Alone, SettingUp, Configuring, CleaningUp
<1> QED BY <1>3, <1>4, <1>5 DEF SetupInv

LEMMA SetupStep == SetupInv /\ [SetupNext]_setupVars => SetupInv'
<1> SUFFICES ASSUME SetupInv, [SetupNext]_setupVars PROVE SetupInv' OBVIOUS
<1>1. CASE UNCHANGED setupVars
  BY <1>1 DEF setupVars, theFiles, SetupInv, SetupTypeOK, Settled, Fits, Alone
<1>2. ASSUME NEW c \in SetupCall,
             \/ \E p \in 1 .. adPassword, h \in Host \cup {NoHost} : BeginImportConfig(c, p, h)
             \/ BeginSaveConfig(c) \/ SaveConfig(c)
             \/ \E h \in Host : BeginKerberosSetup(c, h)
             \/ AutoSetupKerberos(c) \/ BindService(c) \/ RegisterSPN(c) \/ WriteKeytab(c)
             \/ SaveKerberosConfig(c) \/ SetupFails(c)
             \/ \E withAccount \in BOOLEAN : BeginCleanup(c, withAccount)
             \/ UnregisterSPN(c) \/ RemoveKeytab(c) \/ DeleteKerberosConfig(c)
      PROVE  SetupInv'
  BY <1>2, BeginsKeep, ConfigKeeps, SettingUpKeeps, FailureKeeps, CleaningUpKeeps
<1>3. CASE DeleteConfig \/ ChangeADPassword \/ StopSetups BY <1>3, AroundKeeps
<1> QED BY <1>1, <1>2, <1>3 DEF SetupNext

(***************************************************************************)
(* The invariant the next theorem follows from.                            *)
(***************************************************************************)
THEOREM SetupInvariant == SetupSpec => []SetupInv
<1>1. SetupInit => SetupInv BY InitialSetup
<1>2. SetupInv /\ [SetupNext]_setupVars => SetupInv' BY SetupStep
<1> QED BY <1>1, <1>2, PTL DEF SetupSpec

(***************************************************************************)
(* After a setup that ran alone and without an error tickets are accepted  *)
(* for its host only and until the account's password changes, after such  *)
(* a cleanup none is, for any number of administrators, hosts and password *)
(* changes before (handleSetupKerberos, autoSetupKerberos,                 *)
(* handleCleanupKerberos).                                                 *)
(***************************************************************************)
THEOREM SetupSettles == SetupSpec => []KerberosFollowsSetup
<1>1. ASSUME SetupInv PROVE KerberosFollowsSetup
  <2> SUFFICES ASSUME \A c \in SetupCall : setups[c] = NoSetup, NEW h \in Host
               PROVE  /\ settled.kind \in {"setup", "auto"} =>
                           (AcceptsTicket(h) <=> h = settled.host /\ settled.password = adPassword)
                      /\ settled.kind = "cleanup" => ~AcceptsTicket(h)
    BY DEF KerberosFollowsSetup
  <2>1. h # NoHost BY SetupConstants
  <2>2. /\ settled.kind \in {"setup", "auto"} =>
             /\ settled.host \in Host /\ kerberosRow = settled.host
             /\ keytab = [host |-> settled.host, password |-> settled.password]
        /\ settled.kind = "cleanup" => keytab = NoKeytab
    BY <1>1 DEF SetupInv, Settled
  <2>3. ASSUME settled.kind \in {"setup", "auto"}
        PROVE  AcceptsTicket(h) <=> h = settled.host /\ settled.password = adPassword
    <3>1. settled.host # NoHost BY <2>2, <2>3, SetupConstants
    <3>2. keytab = [host |-> h, password |-> adPassword] <=>
            h = settled.host /\ settled.password = adPassword
      BY <2>2, <2>3
    <3> QED BY <2>2, <2>3, <3>1, <3>2 DEF AcceptsTicket
  <2>4. settled.kind = "cleanup" => ~AcceptsTicket(h)
    BY <2>1, <2>2 DEF AcceptsTicket, NoKeytab
  <2> QED BY <2>3, <2>4
<1> QED BY <1>1, SetupInvariant, PTL

-----------------------------------------------------------------------------
(* Users of the directory: DirectoryAccounts. *)

LoginSteps ==
    {"none", "bind", "ticket", "double", "create", "map", "also", "confirm", "record", "persist",
     "status", "outage", "load"}

(* The steps at which a call has a record. *)
OnRecord == {"map", "also", "confirm", "record", "persist", "status", "outage", "load"}

LoginState ==
    [step : LoginSteps, kind : {"none", "password", "kerberos", "import"}, name : Name,
     guid : Record \cup {NoRecord}, stamp : Nat \cup {-1}]

(* What a step of a call needs of its kind. *)
KindFits(call) ==
    /\ call.step = "bind" => call.kind = "password"
    /\ call.step \in {"ticket", "double"} => call.kind = "kerberos"
    /\ call.step \in {"create", "map"} => call.kind # "none"
    /\ call.step \in {"also", "confirm"} => call.kind \in {"password", "kerberos"}

Exists(r) == records[r] # "none"

RecordTypes ==
    /\ records \in [Record -> {"none", "unnamed", "named"}]
    /\ ldap \in [Name -> Record \cup {NoRecord}] /\ local \in [Name -> Record \cup {NoRecord}]
    /\ checked \in [Record -> Nat \cup {-1}] /\ stored \in [Record -> Nat \cup {-1}]
    /\ confirmed \in [Record -> Nat \cup {-1}]

WorldTypes ==
    /\ account \in {"active", "disabled", "gone"} /\ reachable \in BOOLEAN
    /\ clock \in Nat /\ activeAt \in 0 .. clock
    /\ misfortunes \subseteq Misfortune

LoginTypes ==
    /\ logins \in [Login -> LoginState]
    /\ \A c \in Login : /\ KindFits(logins[c])
                        /\ logins[c].step \in OnRecord => logins[c].guid \in Record

(* Names and calls refer to records that exist. *)
ReferencesExist ==
    /\ \A c \in Login : logins[c].step \in OnRecord => Exists(logins[c].guid)
    /\ \A n \in Name : /\ ldap[n] # NoRecord => Exists(ldap[n])
                       /\ local[n] # NoRecord => Exists(local[n])

DirectoryTypes == RecordTypes /\ WorldTypes /\ LoginTypes /\ ReferencesExist

-----------------------------------------------------------------------------
(* How a step moves a call. *)

(* The call c is now at the step, with the record; nothing else of it, and no
   other call, changed.                                                     *)
MovesTo(c, step, r) ==
    /\ logins' \in [Login -> LoginState]
    /\ \A d \in Login \ {c} : logins'[d] = logins[d]
    /\ logins'[c].step = step /\ logins'[c].guid = r
    /\ logins'[c].kind = logins[c].kind /\ logins'[c].name = logins[c].name
    /\ logins'[c].stamp = logins[c].stamp

(* The call c is one that begins. *)
Starts(c, step, kind, n, r) ==
    /\ logins' \in [Login -> LoginState]
    /\ \A d \in Login \ {c} : logins'[d] = logins[d]
    /\ logins'[c].step = step /\ logins'[c].kind = kind /\ logins'[c].name = n
    /\ logins'[c].guid = r /\ logins'[c].stamp = -1

LEMMA NoLoginFacts ==
    ASSUME DirectoryConstants
    PROVE  /\ NoLogin \in LoginState /\ NoLogin.step = "none" /\ NoLogin.kind = "none"
           /\ NoLogin.name = Sam /\ NoLogin.guid = NoRecord /\ NoLogin.stamp = -1
BY DEF DirectoryConstants, NoLogin, LoginState, LoginSteps

LEMMA MovedOn ==
    ASSUME DirectoryTypes, NEW c \in Login, NEW step \in LoginSteps, Move(c, step)
    PROVE  MovesTo(c, step, logins[c].guid)
BY DEF DirectoryTypes, RecordTypes, WorldTypes, LoginTypes, ReferencesExist, Move, MovesTo, LoginState

LEMMA MovedOnFor ==
    ASSUME DirectoryTypes, NEW c \in Login, NEW step \in LoginSteps, NEW r \in Record,
           MoveFor(c, step, r)
    PROVE  MovesTo(c, step, r)
<1> DEFINE moved == [logins[c] EXCEPT !.step = step]
           given == [moved EXCEPT !.guid = r]
<1>1. logins[c] \in LoginState /\ logins \in [Login -> LoginState] BY DEF DirectoryTypes, RecordTypes, WorldTypes, LoginTypes, ReferencesExist
<1>2. /\ moved \in LoginState /\ moved.step = step /\ moved.kind = logins[c].kind
      /\ moved.name = logins[c].name /\ moved.stamp = logins[c].stamp
  BY <1>1 DEF LoginState
<1>3. logins' = [logins EXCEPT ![c] = given]
  <2>1. logins' = [[logins EXCEPT ![c] = moved] EXCEPT ![c].guid = r] BY DEF MoveFor
  <2> HIDE DEF moved
  <2>2. [logins EXCEPT ![c] = moved][c] = moved BY <1>1
  <2> QED BY <1>1, <2>1, <2>2
<1> HIDE DEF moved
<1>4. /\ given \in LoginState /\ given.step = step /\ given.guid = r /\ given.kind = moved.kind
      /\ given.name = moved.name /\ given.stamp = moved.stamp
  BY <1>2 DEF LoginState
<1> HIDE DEF given
<1> QED BY <1>1, <1>2, <1>3, <1>4 DEF MovesTo

LEMMA Left ==
    ASSUME DirectoryTypes, DirectoryConstants, NEW c \in Login, Leave(c)
    PROVE  Starts(c, "none", "none", Sam, NoRecord)
BY NoLoginFacts DEF DirectoryTypes, RecordTypes, WorldTypes, LoginTypes, ReferencesExist, Leave, Starts

LEMMA Entered ==
    ASSUME DirectoryTypes, DirectoryConstants, NEW c \in Login
    PROVE  /\ \A n \in Name :
                /\ BeginBind(c, n) => Starts(c, "bind", "password", n, NoRecord)
                /\ BeginKerberos(c, n) => Starts(c, "ticket", "kerberos", n, NoRecord)
                /\ BeginImport(c, n) => Starts(c, "create", "import", n, NoRecord)
                /\ BeginLocal(c, n) => local[n] \in Record /\ Starts(c, "status", "none", Sam, local[n])
           /\ \A r \in Record : BeginSession(c, r) => Starts(c, "status", "none", Sam, r)
<1>1. Sam \in Name /\ logins \in [Login -> LoginState] /\ local \in [Name -> Record \cup {NoRecord}]
  BY DEF DirectoryConstants, DirectoryTypes, RecordTypes, WorldTypes, LoginTypes, ReferencesExist
<1>2. ASSUME NEW n \in Name, NEW step \in LoginSteps,
             NEW kind \in {"password", "kerberos", "import"},
             Enter(c, [NoLogin EXCEPT !.step = step, !.kind = kind, !.name = n])
      PROVE  Starts(c, step, kind, n, NoRecord)
  <2> DEFINE begun == [NoLogin EXCEPT !.step = step]
             typed == [begun EXCEPT !.kind = kind]
             call == [typed EXCEPT !.name = n]
  <2>1. logins' = [logins EXCEPT ![c] = call] BY <1>2 DEF Enter
  <2>2. /\ begun \in LoginState /\ begun.step = step /\ begun.kind = "none"
        /\ begun.guid = NoRecord /\ begun.stamp = -1
    BY NoLoginFacts DEF LoginState
  <2> HIDE DEF begun
  <2>3. /\ typed \in LoginState /\ typed.step = step /\ typed.kind = kind
        /\ typed.guid = NoRecord /\ typed.stamp = -1
    BY <2>2 DEF LoginState
  <2> HIDE DEF typed
  <2>4. /\ call \in LoginState /\ call.step = step /\ call.kind = kind /\ call.name = n
        /\ call.guid = NoRecord /\ call.stamp = -1
    BY <2>3 DEF LoginState
  <2> HIDE DEF call
  <2> QED BY <1>1, <2>1, <2>4 DEF Starts
<1>3. ASSUME NEW g \in Record, Enter(c, [NoLogin EXCEPT !.step = "status", !.guid = g])
      PROVE  Starts(c, "status", "none", Sam, g)
  <2> DEFINE begun == [NoLogin EXCEPT !.step = "status"]
             call == [begun EXCEPT !.guid = g]
  <2>1. logins' = [logins EXCEPT ![c] = call] BY <1>3 DEF Enter
  <2>2. /\ begun \in LoginState /\ begun.step = "status" /\ begun.kind = "none"
        /\ begun.name = Sam /\ begun.stamp = -1
    BY NoLoginFacts DEF LoginState, LoginSteps
  <2> HIDE DEF begun
  <2>3. /\ call \in LoginState /\ call.step = "status" /\ call.kind = "none" /\ call.name = Sam
        /\ call.guid = g /\ call.stamp = -1
    BY <2>2 DEF LoginState
  <2> HIDE DEF call
  <2> QED BY <1>1, <2>1, <2>3 DEF Starts
<1>4. \A n \in Name : BeginBind(c, n) => Starts(c, "bind", "password", n, NoRecord)
  BY <1>2 DEF BeginBind, LoginSteps
<1>5. \A n \in Name : BeginKerberos(c, n) => Starts(c, "ticket", "kerberos", n, NoRecord)
  BY <1>2 DEF BeginKerberos, LoginSteps
<1>6. \A n \in Name : BeginImport(c, n) => Starts(c, "create", "import", n, NoRecord)
  BY <1>2 DEF BeginImport, LoginSteps
<1>7. \A n \in Name :
        BeginLocal(c, n) => local[n] \in Record /\ Starts(c, "status", "none", Sam, local[n])
  BY <1>1, <1>3 DEF BeginLocal
<1>8. \A r \in Record : BeginSession(c, r) => Starts(c, "status", "none", Sam, r)
  BY <1>3 DEF BeginSession
<1> QED BY <1>4, <1>5, <1>6, <1>7, <1>8

Ends(c) == Starts(c, "none", "none", Sam, NoRecord)

LEMMA LoginEffects ==
    ASSUME DirectoryTypes, DirectoryConstants, NEW c \in Login
    PROVE  /\ Bind(c) =>
                \/ Ends(c)
                \/ /\ account = "active"
                   /\ \/ /\ ldap[logins[c].name] # NoRecord
                         /\ MovesTo(c, "confirm", ldap[logins[c].name])
                      \/ /\ ldap[logins[c].name] = NoRecord
                         /\ MovesTo(c, "create", logins[c].guid)
           /\ Ticket(c) =>
                \/ Ends(c)
                \/ account = "active" /\ MovesTo(c, "double", logins[c].guid)
                \/ \E r \in Record : /\ r \in {ldap[logins[c].name], local[logins[c].name]}
                                     /\ \/ MovesTo(c, "status", r)
                                        \/ account = "active" /\ MovesTo(c, "confirm", r)
           /\ DoubleCheck(c) =>
                \/ Ends(c)
                \/ /\ ldap[Sam] = NoRecord /\ ldap[logins[c].name] = NoRecord /\ ldap' = ldap
                   /\ MovesTo(c, "create", logins[c].guid)
           /\ MapName(c) =>
                \/ logins[c].kind = "import" /\ Ends(c)
                \/ /\ logins[c].kind # "import" /\ logins[c].name # Sam
                   /\ MovesTo(c, "also", logins[c].guid)
                \/ logins[c].kind = "kerberos" /\ MovesTo(c, "record", logins[c].guid)
                \/ logins[c].kind = "password" /\ MovesTo(c, "confirm", logins[c].guid)
           /\ MapOtherName(c) =>
                \/ logins[c].kind = "kerberos" /\ MovesTo(c, "record", logins[c].guid)
                \/ logins[c].kind = "password" /\ MovesTo(c, "confirm", logins[c].guid)
           /\ SyncNames(c) => MovesTo(c, "record", logins[c].guid)
           /\ PersistCheck(c) \/ LoadLastCheck(c) => Ends(c)
           /\ DirectoryAccountStatus(c) =>
                \/ Ends(c)
                \/ account = "active" /\ MovesTo(c, "record", logins[c].guid)
                \/ MovesTo(c, "outage", logins[c].guid)
<1>0. /\ Leave(c) => Ends(c)
      /\ \A step \in LoginSteps : Move(c, step) => MovesTo(c, step, logins[c].guid)
      /\ \A step \in LoginSteps, r \in Record : MoveFor(c, step, r) => MovesTo(c, step, r)
  BY Left, MovedOn, MovedOnFor DEF Ends
<1>1. /\ logins[c] \in LoginState /\ KindFits(logins[c])
      /\ \A n \in Name : ldap[n] \in Record \cup {NoRecord} /\ local[n] \in Record \cup {NoRecord}
  BY DEF DirectoryTypes, RecordTypes, WorldTypes, LoginTypes, ReferencesExist
<1>2. logins[c].name \in Name /\ logins[c].kind \in {"none", "password", "kerberos", "import"}
  BY <1>1 DEF LoginState
<1>3. {"double", "create", "also", "confirm", "record", "outage", "status"} \subseteq LoginSteps
  BY DEF LoginSteps
<1>4. ASSUME Bind(c)
      PROVE  \/ Ends(c)
             \/ /\ account = "active"
                /\ \/ /\ ldap[logins[c].name] # NoRecord
                      /\ MovesTo(c, "confirm", ldap[logins[c].name])
                   \/ /\ ldap[logins[c].name] = NoRecord
                      /\ MovesTo(c, "create", logins[c].guid)
  BY <1>0, <1>1, <1>2, <1>3, <1>4 DEF Bind
<1>5. ASSUME Ticket(c)
      PROVE  \/ Ends(c)
             \/ account = "active" /\ MovesTo(c, "double", logins[c].guid)
             \/ \E r \in Record : /\ r \in {ldap[logins[c].name], local[logins[c].name]}
                                  /\ \/ MovesTo(c, "status", r)
                                     \/ account = "active" /\ MovesTo(c, "confirm", r)
  <2> DEFINE n == logins[c].name
             mapped == IF ldap[n] # NoRecord THEN ldap[n] ELSE local[n]
  <2>1. mapped \in {ldap[n], local[n]} /\ mapped \in Record \cup {NoRecord} BY <1>1, <1>2
  <2>2. \/ account = "active" /\ Move(c, "double")
        \/ mapped # NoRecord /\ account = "active" /\ MoveFor(c, "confirm", mapped)
        \/ mapped # NoRecord /\ MoveFor(c, "status", mapped)
        \/ Leave(c)
    BY <1>5 DEF Ticket
  <2> HIDE DEF mapped, n
  <2>3. mapped # NoRecord => mapped \in Record BY <2>1
  <2> QED BY <1>0, <1>3, <2>1, <2>2, <2>3 DEF n
<1>6. ASSUME DoubleCheck(c)
      PROVE  \/ Ends(c)
             \/ /\ ldap[Sam] = NoRecord /\ ldap[logins[c].name] = NoRecord /\ ldap' = ldap
                /\ MovesTo(c, "create", logins[c].guid)
  BY <1>0, <1>3, <1>6 DEF DoubleCheck
<1>7. ASSUME MapName(c)
      PROVE  \/ logins[c].kind = "import" /\ Ends(c)
             \/ /\ logins[c].kind # "import" /\ logins[c].name # Sam
                /\ MovesTo(c, "also", logins[c].guid)
             \/ logins[c].kind = "kerberos" /\ MovesTo(c, "record", logins[c].guid)
             \/ logins[c].kind = "password" /\ MovesTo(c, "confirm", logins[c].guid)
  <2>1. \/ logins[c].kind = "import" /\ Leave(c)
        \/ logins[c].kind # "import" /\ logins[c].name # Sam /\ Move(c, "also")
        \/ logins[c].kind # "import" /\ Move(c, AfterNames(logins[c]))
    BY <1>7 DEF MapName
  <2>2. logins[c].kind # "none" BY <1>1, <1>7 DEF KindFits, MapName
  <2> QED BY <1>0, <1>2, <1>3, <2>1, <2>2 DEF AfterNames
<1>8. ASSUME MapOtherName(c)
      PROVE  \/ logins[c].kind = "kerberos" /\ MovesTo(c, "record", logins[c].guid)
             \/ logins[c].kind = "password" /\ MovesTo(c, "confirm", logins[c].guid)
  BY <1>0, <1>1, <1>3, <1>8 DEF MapOtherName, AfterNames, KindFits
<1>9. SyncNames(c) => MovesTo(c, "record", logins[c].guid) BY <1>0, <1>3 DEF SyncNames
<1>10. PersistCheck(c) \/ LoadLastCheck(c) => Ends(c) BY <1>0 DEF PersistCheck, LoadLastCheck
<1>11. ASSUME DirectoryAccountStatus(c)
       PROVE  \/ Ends(c)
              \/ account = "active" /\ MovesTo(c, "record", logins[c].guid)
              \/ MovesTo(c, "outage", logins[c].guid)
  BY <1>0, <1>3, <1>11 DEF DirectoryAccountStatus
<1> QED BY <1>4, <1>5, <1>6, <1>7, <1>8, <1>9, <1>10, <1>11

LEMMA RecordCreated ==
    ASSUME DirectoryTypes, DirectoryConstants, NEW c \in Login, CreateRecord(c)
    PROVE  \E r \in Record :
             /\ ~Exists(r) /\ MovesTo(c, "map", r)
             /\ records' \in [Record -> {"none", "unnamed", "named"}] /\ records'[r] # "none"
             /\ \A s \in Record \ {r} : records'[s] = records[s]
<1>1. PICK r \in Record :
        /\ records[r] = "none"
        /\ records' = [records EXCEPT ![r] = IF logins[c].kind = "import" THEN "unnamed" ELSE "named"]
        /\ MoveFor(c, "map", r)
  BY DEF CreateRecord
<1>2. MovesTo(c, "map", r) BY <1>1, MovedOnFor DEF LoginSteps
<1>3. records \in [Record -> {"none", "unnamed", "named"}] BY DEF DirectoryTypes, RecordTypes, WorldTypes, LoginTypes, ReferencesExist
<1> QED BY <1>1, <1>2, <1>3 DEF Exists

(* A check that is recent stays as it is stamped, in memory and in the store. *)
LEMMA CheckRecorded ==
    ASSUME DirectoryTypes, DirectoryConstants, NEW c \in Login, RecordDirectoryCheck(c)
    PROVE  LET r == logins[c].guid IN
           /\ confirmed' = [confirmed EXCEPT ![r] = clock]
           /\ \/ /\ checked[r] >= 0 /\ clock - checked[r] < Throttle
                 /\ checked' = checked /\ Ends(c)
              \/ checked' = [checked EXCEPT ![r] = clock] /\ MovesTo(c, "persist", r)
<1>1. /\ Leave(c) => Ends(c)
      /\ Move(c, "persist") => MovesTo(c, "persist", logins[c].guid)
  BY Left, MovedOn DEF Ends, LoginSteps
<1> QED BY <1>1 DEF RecordDirectoryCheck

(* In an outage a call ends with an answer from the stamp in memory, or takes
   the stored stamp along.                                                  *)
LEMMA OutageAsked ==
    ASSUME DirectoryTypes, DirectoryConstants, NEW c \in Login, DirectoryOutageDenies(c)
    PROVE  LET r == logins[c].guid IN
           \/ /\ checked[r] < 0
              /\ logins' \in [Login -> LoginState]
              /\ \A d \in Login \ {c} : logins'[d] = logins[d]
              /\ logins'[c].step = "load" /\ logins'[c].guid = r /\ logins'[c].kind = logins[c].kind
              /\ logins'[c].name = logins[c].name /\ logins'[c].stamp = stored[r]
              /\ outage' = outage
           \/ /\ checked[r] >= 0 \/ OutagePolicy # "grace"
              /\ Ends(c) /\ Answer(r, AllowedInOutage(checked[r]), misfortunes)
<1> DEFINE r == logins[c].guid
           moved == [logins[c] EXCEPT !.step = "load"]
           given == [moved EXCEPT !.stamp = stored[r]]
<1>1. /\ logins[c] \in LoginState /\ logins \in [Login -> LoginState]
      /\ r \in Record /\ stored[r] \in Nat \cup {-1} /\ checked[r] \in Nat \cup {-1}
  BY DEF DirectoryTypes, RecordTypes, WorldTypes, LoginTypes, ReferencesExist, DirectoryOutageDenies, OnRecord
<1>2. \/ checked[r] < 0 /\ outage' = outage
         /\ logins' = [logins EXCEPT ![c].step = "load", ![c].stamp = stored[r]]
      \/ /\ checked[r] >= 0 \/ OutagePolicy # "grace"
         /\ Leave(c) /\ Answer(r, AllowedInOutage(checked[r]), misfortunes)
  BY <1>1 DEF DirectoryOutageDenies
<1>3. /\ moved \in LoginState /\ moved.step = "load" /\ moved.kind = logins[c].kind
      /\ moved.name = logins[c].name /\ moved.guid = r
  BY <1>1 DEF LoginState, LoginSteps
<1>4. ASSUME logins' = [logins EXCEPT ![c].step = "load", ![c].stamp = stored[r]]
      PROVE  logins' = [logins EXCEPT ![c] = given]
  <2>1. logins' = [[logins EXCEPT ![c] = moved] EXCEPT ![c].stamp = stored[r]] BY <1>4
  <2> HIDE DEF moved, r
  <2>2. [logins EXCEPT ![c] = moved][c] = moved BY <1>1
  <2> QED BY <1>1, <2>1, <2>2
<1> HIDE DEF moved
<1>5. /\ given \in LoginState /\ given.step = "load" /\ given.guid = r /\ given.kind = moved.kind
      /\ given.name = moved.name /\ given.stamp = stored[r]
  BY <1>1, <1>3 DEF LoginState
<1> HIDE DEF given
<1> QED BY <1>1, <1>2, <1>3, <1>4, <1>5, Left DEF Ends

(* A call that moves to a step it fits keeps the types, as records stay and
   names refer to existing ones.                                            *)
LEMMA LoginMoves ==
    ASSUME DirectoryTypes, NEW c \in Login,
           logins' \in [Login -> LoginState], \A d \in Login \ {c} : logins'[d] = logins[d],
           KindFits(logins'[c]),
           logins'[c].step \in OnRecord => logins'[c].guid \in Record /\ Exists(logins[c].guid)',
           UNCHANGED theWorld,
           records' \in [Record -> {"none", "unnamed", "named"}],
           \A r \in Record : Exists(r) => Exists(r)',
           ldap' \in [Name -> Record \cup {NoRecord}], local' \in [Name -> Record \cup {NoRecord}],
           \A n \in Name : /\ ldap'[n] # NoRecord => Exists(ldap[n])'
                           /\ local'[n] # NoRecord => Exists(local[n])',
           checked' \in [Record -> Nat \cup {-1}], stored' \in [Record -> Nat \cup {-1}],
           confirmed' \in [Record -> Nat \cup {-1}], misfortunes' \subseteq Misfortune
    PROVE  DirectoryTypes'
<1>1. \A d \in Login : /\ KindFits(logins'[d])
                       /\ logins'[d].step \in OnRecord => logins'[d].guid \in Record
  BY DEF DirectoryTypes, RecordTypes, WorldTypes, LoginTypes, ReferencesExist
<1>2. \A d \in Login : logins'[d].step \in OnRecord => records'[logins'[d].guid] # "none"
  BY <1>1 DEF DirectoryTypes, ReferencesExist, LoginTypes, Exists
<1>3. /\ account' \in {"active", "disabled", "gone"} /\ reachable' \in BOOLEAN
      /\ clock' \in Nat /\ activeAt' \in 0 .. clock'
  BY DEF DirectoryTypes, RecordTypes, WorldTypes, LoginTypes, ReferencesExist, theWorld
<1>4. \A n \in Name : /\ ldap'[n] # NoRecord => records'[ldap'[n]] # "none"
                      /\ local'[n] # NoRecord => records'[local'[n]] # "none"
  BY DEF Exists
<1>5. LoginState' = LoginState /\ OnRecord' = OnRecord /\ Misfortune' = Misfortune
  BY DEF LoginState, LoginSteps, OnRecord, Misfortune
<1>6. LoginTypes' BY <1>1, <1>5 DEF LoginTypes
<1>7. WorldTypes' BY <1>3, <1>5 DEF WorldTypes
<1>8. RecordTypes' BY DEF RecordTypes
<1>9. ReferencesExist' BY <1>2, <1>4, <1>5 DEF ReferencesExist, Exists
<1> QED BY <1>6, <1>7, <1>8, <1>9 DEF DirectoryTypes

LEMMA BeginTypes ==
    ASSUME DirectoryTypes, DirectoryConstants, NEW c \in Login,
           \/ \E n \in Name : BeginBind(c, n) \/ BeginKerberos(c, n) \/ BeginImport(c, n) \/ BeginLocal(c, n)
           \/ \E r \in Record : BeginSession(c, r)
    PROVE  DirectoryTypes'
<1>1. /\ UNCHANGED <<theWorld, theRecords, theStamps>> /\ misfortunes' \subseteq Misfortune
  BY DEF BeginBind, BeginKerberos, BeginImport, BeginLocal, BeginSession, Misfortune, DirectoryTypes, RecordTypes, WorldTypes, LoginTypes, ReferencesExist
<1>2. /\ \A r \in Record : Exists(r) <=> Exists(r)'
      /\ UNCHANGED <<records, ldap, local, checked, stored, confirmed>>
  BY <1>1 DEF Exists, theRecords, theStamps
<1>3. /\ logins' \in [Login -> LoginState] /\ \A d \in Login \ {c} : logins'[d] = logins[d]
      /\ \/ logins'[c].step = "bind" /\ logins'[c].kind = "password"
         \/ logins'[c].step = "ticket" /\ logins'[c].kind = "kerberos"
         \/ logins'[c].step = "create" /\ logins'[c].kind = "import"
         \/ logins'[c].step = "status" /\ logins'[c].guid \in Record /\ Exists(logins'[c].guid)
  <2>1. CASE \E n \in Name : BeginBind(c, n) BY <2>1, Entered DEF Starts
  <2>2. CASE \E n \in Name : BeginKerberos(c, n) BY <2>2, Entered DEF Starts
  <2>3. CASE \E n \in Name : BeginImport(c, n) BY <2>3, Entered DEF Starts
  <2>4. ASSUME NEW n \in Name, BeginLocal(c, n)
        PROVE  /\ local[n] \in Record /\ Exists(local[n])
               /\ Starts(c, "status", "none", Sam, local[n])
    BY <2>4, Entered DEF BeginLocal, DirectoryTypes, RecordTypes, WorldTypes, LoginTypes, ReferencesExist
  <2>5. ASSUME NEW r \in Record, BeginSession(c, r)
        PROVE  Exists(r) /\ Starts(c, "status", "none", Sam, r)
    BY <2>5, Entered DEF BeginSession, Exists
  <2> QED BY <2>1, <2>2, <2>3, <2>4, <2>5 DEF Starts
<1>4. /\ KindFits(logins'[c])
      /\ logins'[c].step \in OnRecord => logins'[c].guid \in Record /\ Exists(logins[c].guid)'
  BY <1>2, <1>3 DEF KindFits, OnRecord
<1>5. \A n \in Name : /\ ldap'[n] # NoRecord => Exists(ldap[n])'
                      /\ local'[n] # NoRecord => Exists(local[n])'
  BY <1>2 DEF DirectoryTypes, RecordTypes, WorldTypes, LoginTypes, ReferencesExist, Exists
<1> QED BY <1>1, <1>2, <1>3, <1>4, <1>5, LoginMoves DEF DirectoryTypes, RecordTypes, WorldTypes, LoginTypes, ReferencesExist

LEMMA CallTypes ==
    ASSUME DirectoryTypes, DirectoryConstants, NEW c \in Login,
           \/ Bind(c) \/ Ticket(c) \/ DoubleCheck(c) \/ CreateRecord(c) \/ MapName(c)
           \/ MapOtherName(c) \/ SyncNames(c) \/ RecordDirectoryCheck(c) \/ PersistCheck(c)
           \/ DirectoryAccountStatus(c) \/ DirectoryOutageDenies(c) \/ LoadLastCheck(c)
    PROVE  DirectoryTypes'
<1> DEFINE g == logins[c].guid
<1>0. /\ logins[c] \in LoginState /\ KindFits(logins[c])
      /\ logins[c].step \in OnRecord => g \in Record /\ Exists(g)
      /\ ldap \in [Name -> Record \cup {NoRecord}] /\ local \in [Name -> Record \cup {NoRecord}]
      /\ records \in [Record -> {"none", "unnamed", "named"}]
      /\ \A n \in Name : /\ ldap[n] # NoRecord => Exists(ldap[n])
                         /\ local[n] # NoRecord => Exists(local[n])
      /\ checked \in [Record -> Nat \cup {-1}] /\ stored \in [Record -> Nat \cup {-1}]
      /\ confirmed \in [Record -> Nat \cup {-1}] /\ misfortunes \subseteq Misfortune
      /\ clock \in Nat
  BY DEF DirectoryTypes, RecordTypes, WorldTypes, LoginTypes, ReferencesExist
<1>1. logins[c].name \in Name /\ Sam \in Name /\ NoRecord \notin Record /\ logins[c].stamp \in Nat \cup {-1}
  BY <1>0 DEF LoginState, DirectoryConstants
<1>2. UNCHANGED theWorld
  BY DEF Bind, Ticket, DoubleCheck, CreateRecord, MapName, MapOtherName, SyncNames,
         RecordDirectoryCheck, PersistCheck, DirectoryAccountStatus, DirectoryOutageDenies, LoadLastCheck
<1>3. misfortunes' \subseteq Misfortune
  BY <1>0 DEF Bind, Ticket, DoubleCheck, CreateRecord, MapName, MapOtherName, SyncNames, Overlap, Misfortune,
         RecordDirectoryCheck, PersistCheck, DirectoryAccountStatus, DirectoryOutageDenies, LoadLastCheck
<1>4. /\ checked' \in [Record -> Nat \cup {-1}] /\ stored' \in [Record -> Nat \cup {-1}]
      /\ confirmed' \in [Record -> Nat \cup {-1}]
  <2>1. CASE RecordDirectoryCheck(c) \/ PersistCheck(c) \/ LoadLastCheck(c)
    BY <1>0, <1>1, <2>1 DEF RecordDirectoryCheck, PersistCheck, LoadLastCheck
  <2>2. CASE ~(RecordDirectoryCheck(c) \/ PersistCheck(c) \/ LoadLastCheck(c))
    <3>1. UNCHANGED theStamps
      BY <2>2 DEF Bind, Ticket, DoubleCheck, CreateRecord, MapName, MapOtherName, SyncNames,
                  DirectoryAccountStatus, DirectoryOutageDenies
    <3> QED BY <1>0, <3>1 DEF theStamps
  <2> QED BY <2>1, <2>2
<1>5. /\ logins' \in [Login -> LoginState] /\ \A d \in Login \ {c} : logins'[d] = logins[d]
      /\ KindFits(logins'[c])
      /\ logins'[c].step \in OnRecord => logins'[c].guid \in Record
      /\ logins'[c].step \in OnRecord \ {"map"} => Exists(logins'[c].guid)
      /\ logins'[c].step = "map" => CreateRecord(c)
  <2> DEFINE Good == /\ KindFits(logins'[c])
                     /\ logins'[c].step \in OnRecord => logins'[c].guid \in Record
                     /\ logins'[c].step \in OnRecord \ {"map"} => Exists(logins'[c].guid)
                     /\ logins'[c].step = "map" => CreateRecord(c)
             Others == /\ logins' \in [Login -> LoginState]
                       /\ \A d \in Login \ {c} : logins'[d] = logins[d]
  <2>1. ASSUME Ends(c) PROVE Others /\ Good BY <2>1 DEF Ends, Starts, KindFits, OnRecord
  <2>2. ASSUME NEW step, NEW r, MovesTo(c, step, r)
        PROVE  /\ Others /\ logins'[c].step = step /\ logins'[c].guid = r
               /\ logins'[c].kind = logins[c].kind
    BY <2>2 DEF MovesTo
  <2> SUFFICES Others /\ Good OBVIOUS
  <2> HIDE DEF Others, Good
  <2>3. CASE Bind(c)
    <3>1. logins[c].kind = "password" BY <1>0, <2>3 DEF Bind, KindFits
    <3>2. ASSUME MovesTo(c, "create", g) PROVE Good
      BY <2>2, <3>1, <3>2 DEF Good, KindFits, OnRecord
    <3>3. ASSUME NEW r \in Record, Exists(r), MovesTo(c, "confirm", r) PROVE Good
      BY <2>2, <3>1, <3>3 DEF Good, KindFits, OnRecord
    <3> QED BY <1>0, <1>1, <2>1, <2>2, <2>3, <3>2, <3>3, LoginEffects
  <2>4. CASE Ticket(c)
    <3>1. logins[c].kind = "kerberos" BY <1>0, <2>4 DEF Ticket, KindFits
    <3>2. ASSUME MovesTo(c, "double", g) PROVE Good
      BY <2>2, <3>1, <3>2 DEF Good, KindFits, OnRecord
    <3>3. ASSUME NEW r \in Record, Exists(r), MovesTo(c, "confirm", r) \/ MovesTo(c, "status", r)
          PROVE  Good
      BY <2>2, <3>1, <3>3 DEF Good, KindFits, OnRecord
    <3> QED BY <1>0, <1>1, <2>1, <2>2, <2>4, <3>2, <3>3, LoginEffects
  <2>5. CASE DoubleCheck(c)
    <3>1. logins[c].kind = "kerberos" BY <1>0, <2>5 DEF DoubleCheck, KindFits
    <3>2. ASSUME MovesTo(c, "create", g) PROVE Good
      BY <2>2, <3>1, <3>2 DEF Good, KindFits, OnRecord
    <3> QED BY <2>1, <2>2, <2>5, <3>2, LoginEffects
  <2>6. CASE CreateRecord(c)
    <3>1. logins[c].kind # "none" BY <1>0, <2>6 DEF CreateRecord, KindFits
    <3>2. PICK r \in Record : MovesTo(c, "map", r) BY <2>6, RecordCreated
    <3> QED BY <2>2, <2>6, <3>1, <3>2 DEF Good, KindFits, OnRecord
  <2>7. CASE MapName(c) \/ MapOtherName(c) \/ SyncNames(c)
    <3>1. g \in Record /\ Exists(g)
      BY <1>0, <2>7 DEF MapName, MapOtherName, SyncNames, OnRecord
    <3>2. ASSUME MovesTo(c, "also", g), logins[c].kind # "import", MapName(c) PROVE Good
      <4>1. logins[c].kind \in {"password", "kerberos"}
        BY <1>0, <3>2 DEF MapName, KindFits, LoginState
      <4> QED BY <2>2, <3>1, <3>2, <4>1 DEF Good, KindFits, OnRecord
    <3>3. ASSUME MovesTo(c, "record", g) PROVE Good
      BY <2>2, <3>1, <3>3 DEF Good, KindFits, OnRecord
    <3>4. ASSUME MovesTo(c, "confirm", g), logins[c].kind = "password" PROVE Good
      BY <2>2, <3>1, <3>4 DEF Good, KindFits, OnRecord
    <3> QED BY <2>1, <2>2, <2>7, <3>2, <3>3, <3>4, LoginEffects
  <2>8. CASE RecordDirectoryCheck(c) \/ DirectoryAccountStatus(c)
    <3>1. g \in Record /\ Exists(g)
      BY <1>0, <2>8 DEF RecordDirectoryCheck, DirectoryAccountStatus, OnRecord
    <3>2. ASSUME MovesTo(c, "record", g) \/ MovesTo(c, "outage", g) \/ MovesTo(c, "persist", g)
          PROVE  Good
      BY <2>2, <3>1, <3>2 DEF Good, KindFits, OnRecord
    <3> QED BY <2>1, <2>2, <2>8, <3>2, LoginEffects, CheckRecorded
  <2>9. CASE DirectoryOutageDenies(c)
    <3>1. g \in Record /\ Exists(g) BY <1>0, <2>9 DEF DirectoryOutageDenies, OnRecord
    <3>2. \/ /\ Others /\ logins'[c].step = "load" /\ logins'[c].guid = g
          \/ Ends(c)
      BY <2>9, OutageAsked DEF Others
    <3> QED BY <2>1, <3>1, <3>2 DEF Good, KindFits, OnRecord
  <2>10. CASE PersistCheck(c) \/ LoadLastCheck(c) BY <2>1, <2>10, LoginEffects
  <2> QED BY <2>3, <2>4, <2>5, <2>6, <2>7, <2>8, <2>9, <2>10
<1>6. /\ records' \in [Record -> {"none", "unnamed", "named"}]
      /\ \A r \in Record : Exists(r) => Exists(r)'
      /\ logins'[c].step = "map" => Exists(logins[c].guid)'
  <2>1. CASE CreateRecord(c)
    <3>1. PICK r \in Record :
            /\ MovesTo(c, "map", r)
            /\ records' \in [Record -> {"none", "unnamed", "named"}] /\ records'[r] # "none"
            /\ \A s \in Record \ {r} : records'[s] = records[s]
      BY <2>1, RecordCreated
    <3> QED BY <3>1 DEF MovesTo, Exists
  <2>2. CASE SyncNames(c)
    <3>1. records' = [records EXCEPT ![g] = "named"] /\ g \in Record
      BY <1>0, <2>2 DEF SyncNames, OnRecord
    <3>2. logins'[c].step # "map" BY <1>5, <2>2 DEF SyncNames, CreateRecord
    <3> QED BY <1>0, <3>1, <3>2 DEF Exists
  <2>3. CASE ~CreateRecord(c) /\ ~SyncNames(c)
    <3>1. UNCHANGED records
      BY <2>3 DEF Bind, Ticket, DoubleCheck, MapName, MapOtherName, RecordDirectoryCheck, theRecords,
                  PersistCheck, DirectoryAccountStatus, DirectoryOutageDenies, LoadLastCheck
    <3> QED BY <1>0, <1>5, <2>3, <3>1 DEF Exists
  <2> QED BY <2>1, <2>2, <2>3
<1>7. /\ ldap' \in [Name -> Record \cup {NoRecord}] /\ local' \in [Name -> Record \cup {NoRecord}]
      /\ \A n \in Name : /\ ldap'[n] # NoRecord => ldap'[n] \in Record /\ Exists(ldap'[n])
                         /\ local'[n] # NoRecord => local'[n] \in Record /\ Exists(local'[n])
  <2>1. CASE DoubleCheck(c) BY <1>0, <1>1, <2>1 DEF DoubleCheck
  <2>2. CASE MapName(c) \/ MapOtherName(c)
    <3>1. g \in Record /\ Exists(g) BY <1>0, <2>2 DEF MapName, MapOtherName, OnRecord
    <3>2. FirstName(logins[c]) \in Name BY <1>1 DEF FirstName
    <3> QED BY <1>0, <1>1, <2>2, <3>1, <3>2 DEF MapName, MapOtherName
  <2>3. CASE SyncNames(c)
    <3>1. g \in Record /\ Exists(g) BY <1>0, <2>3 DEF SyncNames, OnRecord
    <3> QED BY <1>0, <1>1, <2>3, <3>1 DEF SyncNames
  <2>4. CASE ~(DoubleCheck(c) \/ MapName(c) \/ MapOtherName(c) \/ SyncNames(c))
    <3>1. UNCHANGED <<ldap, local>>
      BY <2>4 DEF Bind, Ticket, CreateRecord, RecordDirectoryCheck, PersistCheck, theRecords,
                  DirectoryAccountStatus, DirectoryOutageDenies, LoadLastCheck
    <3> QED BY <1>0, <3>1
  <2> QED BY <2>1, <2>2, <2>3, <2>4
<1>8. \A n \in Name : /\ ldap'[n] # NoRecord => Exists(ldap[n])'
                      /\ local'[n] # NoRecord => Exists(local[n])'
  BY <1>6, <1>7 DEF Exists
<1>9. logins'[c].step \in OnRecord => logins'[c].guid \in Record /\ Exists(logins[c].guid)'
  BY <1>5, <1>6 DEF Exists
<1> QED BY <1>2, <1>3, <1>4, <1>5, <1>6, <1>7, <1>8, <1>9, LoginMoves

LEMMA StoppedLogins ==
    ASSUME DirectoryConstants, StopDirectory
    PROVE  /\ logins' \in [Login -> LoginState]
           /\ \A c \in Login : /\ logins'[c].step = "none" /\ logins'[c].kind = "none"
                               /\ logins'[c].name = Sam /\ logins'[c].stamp = -1
BY NoLoginFacts DEF StopDirectory

LEMMA DirectoryTypesStep ==
    ASSUME DirectoryTypes, DirectoryConstants, [DirectoryNext]_directoryVars
    PROVE  DirectoryTypes'
<1>0. LoginState' = LoginState /\ OnRecord' = OnRecord /\ Misfortune' = Misfortune
  BY DEF LoginState, LoginSteps, OnRecord, Misfortune
<1>1. CASE UNCHANGED directoryVars
  BY <1>0, <1>1 DEF directoryVars, DirectoryTypes, RecordTypes, WorldTypes, LoginTypes, ReferencesExist, Exists
<1>2. CASE FirstLoginSteps BY <1>2, BeginTypes, CallTypes DEF FirstLoginSteps
<1>3. CASE LaterUseSteps BY <1>3, BeginTypes, CallTypes DEF LaterUseSteps
<1>4. CASE ChangeReachable \/ PassMinutes \/ \E state \in {"active", "disabled", "gone"} : ChangeAccount(state)
  <2>1. UNCHANGED <<records, ldap, local, checked, stored, confirmed, logins, misfortunes>>
    BY <1>4 DEF ChangeReachable, PassMinutes, ChangeAccount, theRecords, theStamps
  <2>2. /\ account' \in {"active", "disabled", "gone"} /\ reachable' \in BOOLEAN
        /\ clock' \in Nat /\ activeAt' \in 0 .. clock'
    <3>1. CASE ChangeReachable BY <3>1 DEF ChangeReachable, DirectoryTypes, WorldTypes
    <3>2. CASE PassMinutes BY <3>2 DEF PassMinutes, DirectoryTypes, WorldTypes
    <3>3. ASSUME NEW state \in {"active", "disabled", "gone"}, ChangeAccount(state)
          PROVE  /\ account' \in {"active", "disabled", "gone"} /\ reachable' \in BOOLEAN
                 /\ clock' \in Nat /\ activeAt' \in 0 .. clock'
      BY <3>3 DEF ChangeAccount, DirectoryTypes, WorldTypes
    <3> QED BY <1>4, <3>1, <3>2, <3>3
  <2> QED
    BY <1>0, <2>1, <2>2
       DEF DirectoryTypes, RecordTypes, WorldTypes, LoginTypes, ReferencesExist, Exists
<1>5. CASE StopDirectory
  <2>1. /\ UNCHANGED <<account, reachable, clock, activeAt, records, ldap, local, stored, confirmed>>
        /\ checked' \in [Record -> Nat \cup {-1}] /\ misfortunes' \subseteq Misfortune
    BY <1>5 DEF StopDirectory, theWorld, theRecords, Misfortune, DirectoryTypes, WorldTypes
  <2>2. LoginTypes' /\ \A c \in Login : logins'[c].step \notin OnRecord
    BY <1>0, <1>5, StoppedLogins DEF LoginTypes, KindFits, OnRecord
  <2> QED
    BY <1>0, <2>1, <2>2 DEF DirectoryTypes, RecordTypes, WorldTypes, ReferencesExist, Exists
<1> QED BY <1>1, <1>2, <1>3, <1>4, <1>5 DEF DirectoryNext, WorldSteps

LEMMA DirectoryTypesInit ==
    ASSUME DirectoryConstants, DirectoryInit
    PROVE  DirectoryTypes
<1>1. \A c \in Login : logins[c] = NoLogin /\ logins[c] \in LoginState
  BY NoLoginFacts DEF DirectoryInit
<1> QED
  BY <1>1, NoLoginFacts DEF DirectoryInit, DirectoryTypes, RecordTypes, WorldTypes, LoginTypes,
     ReferencesExist, Exists, KindFits, OnRecord, Misfortune

(* Logins begin and go on; the steps of a call. *)
CallSteps(c) ==
    \/ \E n \in Name : BeginBind(c, n) \/ BeginKerberos(c, n) \/ BeginImport(c, n) \/ BeginLocal(c, n)
    \/ \E r \in Record : BeginSession(c, r)
    \/ Bind(c) \/ Ticket(c) \/ DoubleCheck(c) \/ CreateRecord(c) \/ MapName(c)
    \/ MapOtherName(c) \/ SyncNames(c) \/ RecordDirectoryCheck(c) \/ PersistCheck(c)
    \/ DirectoryAccountStatus(c) \/ DirectoryOutageDenies(c) \/ LoadLastCheck(c)

(* What a begun call looks like. *)
Begins(c) ==
    /\ logins' \in [Login -> LoginState] /\ \A d \in Login \ {c} : logins'[d] = logins[d]
    /\ logins'[c].stamp = -1 /\ logins[c] = NoLogin
    /\ \/ logins'[c].step = "bind" /\ logins'[c].kind = "password"
       \/ logins'[c].step = "ticket" /\ logins'[c].kind = "kerberos"
       \/ logins'[c].step = "create" /\ logins'[c].kind = "import" /\ ldap[logins'[c].name] = NoRecord
       \/ logins'[c].step = "status" /\ logins'[c].kind = "none"
    /\ logins'[c].kind \in {"password", "import"} /\ logins'[c].name # Sam => "alias" \in misfortunes'
    /\ misfortunes \subseteq misfortunes'
    /\ UNCHANGED <<theWorld, theRecords, theStamps, outage>>

LEMMA Begun ==
    ASSUME DirectoryTypes, DirectoryConstants, NEW c \in Login,
           \/ \E n \in Name : BeginBind(c, n) \/ BeginKerberos(c, n) \/ BeginImport(c, n) \/ BeginLocal(c, n)
           \/ \E r \in Record : BeginSession(c, r)
    PROVE  Begins(c)
<1>1. CASE \E n \in Name : BeginBind(c, n)
  BY <1>1, Entered DEF Starts, Begins, BeginBind, Enter
<1>2. CASE \E n \in Name : BeginKerberos(c, n)
  BY <1>2, Entered DEF Starts, Begins, BeginKerberos, Enter
<1>3. CASE \E n \in Name : BeginImport(c, n)
  BY <1>3, Entered DEF Starts, Begins, BeginImport, Enter
<1>4. CASE \E n \in Name : BeginLocal(c, n)
  BY <1>4, Entered DEF Starts, Begins, BeginLocal, Enter
<1>5. CASE \E r \in Record : BeginSession(c, r)
  BY <1>5, Entered DEF Starts, Begins, BeginSession, Enter
<1> QED BY <1>1, <1>2, <1>3, <1>4, <1>5

-----------------------------------------------------------------------------
(* The outage policy lets in. *)

(* The call has, or was admitted by, the directory's answer that the account
   is active, and no time has passed since.                                 *)
Admitted(call) ==
    \/ call.step \in {"double", "also", "confirm", "record", "persist"}
    \/ call.step \in {"create", "map"} /\ call.kind # "import"

(* No stamp is newer than the account's last active minute. *)
EarnedInv ==
    /\ account = "active" => activeAt = clock
    /\ \A c \in Login : Admitted(logins[c]) => activeAt = clock
    /\ \A r \in Record : checked[r] <= activeAt /\ stored[r] <= activeAt /\ confirmed[r] <= activeAt
    /\ \A c \in Login : logins[c].stamp <= activeAt
    /\ GraceIsEarned

(* A call is admitted by an answer given now, or was admitted before. *)
LEMMA AdmittedNow ==
    ASSUME DirectoryTypes, DirectoryConstants, EarnedInv, NEW c \in Login, CallSteps(c)
    PROVE  Admitted(logins'[c]) => activeAt = clock
<1>0. /\ Admitted(logins[c]) \/ account = "active" => activeAt = clock
      /\ KindFits(logins[c])
      /\ Ends(c) => ~Admitted(logins'[c])
  BY DEF EarnedInv, DirectoryTypes, LoginTypes, Ends, Starts, Admitted
<1>1. ASSUME Begins(c) PROVE ~Admitted(logins'[c]) BY <1>1 DEF Begins, Admitted
<1>2. CASE Bind(c) \/ Ticket(c) \/ DoubleCheck(c) \/ DirectoryAccountStatus(c)
  <2>1. DoubleCheck(c) => Admitted(logins[c]) BY DEF DoubleCheck, Admitted
  <2>2. \A r : MovesTo(c, "outage", r) \/ MovesTo(c, "status", r) => ~Admitted(logins'[c])
    BY DEF MovesTo, Admitted
  <2> QED BY <1>0, <1>2, <2>1, <2>2, LoginEffects
<1>3. CASE CreateRecord(c)
  <2>1. PICK r \in Record : MovesTo(c, "map", r) BY <1>3, RecordCreated
  <2>2. logins[c].step = "create" BY <1>3 DEF CreateRecord
  <2> QED BY <1>0, <2>1, <2>2 DEF MovesTo, Admitted
<1>4. CASE MapName(c) \/ MapOtherName(c) \/ SyncNames(c) \/ RecordDirectoryCheck(c)
  <2>1. (logins[c].kind = "import" /\ MapName(c)) \/ Admitted(logins[c])
    BY <1>4 DEF MapName, MapOtherName, SyncNames, RecordDirectoryCheck, Admitted
  <2> QED BY <1>0, <1>4, <2>1, LoginEffects
<1>5. CASE PersistCheck(c) \/ LoadLastCheck(c) BY <1>0, <1>5, LoginEffects
<1>6. CASE DirectoryOutageDenies(c) BY <1>0, <1>6, OutageAsked DEF Admitted
<1> QED BY <1>1, <1>2, <1>3, <1>4, <1>5, <1>6, Begun DEF CallSteps

(* A record's last active minute counts from a stamp of it. *)
LEMMA EarnedAnswer ==
    ASSUME DirectoryTypes, DirectoryConstants, NEW r, NEW last \in Nat \cup {-1}, last <= activeAt,
           NEW excuses, Answer(r, AllowedInOutage(last), excuses)
    PROVE  GraceIsEarned'
<1>1. clock \in Nat /\ activeAt \in 0 .. clock /\ Grace \in Nat
  BY DEF DirectoryTypes, WorldTypes, DirectoryConstants
<1>2. outage'.allowed = AllowedInOutage(last) /\ outage'.since = clock - activeAt BY DEF Answer
<1>3. AllowedInOutage(last) => OutagePolicy = "allow" \/ clock - activeAt < Grace
  BY <1>1 DEF AllowedInOutage
<1> QED BY <1>2, <1>3 DEF GraceIsEarned

LEMMA EarnedStep ==
    ASSUME DirectoryTypes, DirectoryConstants, EarnedInv, [DirectoryNext]_directoryVars
    PROVE  EarnedInv'
<1>0. /\ clock \in Nat /\ activeAt \in 0 .. clock
      /\ checked \in [Record -> Nat \cup {-1}] /\ stored \in [Record -> Nat \cup {-1}]
      /\ confirmed \in [Record -> Nat \cup {-1}] /\ logins \in [Login -> LoginState]
      /\ \A c \in Login : /\ logins[c].stamp \in Nat \cup {-1}
                          /\ logins[c].step \in OnRecord => logins[c].guid \in Record
  BY DEF DirectoryTypes, WorldTypes, RecordTypes, LoginTypes, LoginState
<1>1. CASE UNCHANGED directoryVars
  BY <1>1 DEF directoryVars, EarnedInv, GraceIsEarned, Admitted
<1>2. ASSUME NEW c \in Login, CallSteps(c) PROVE EarnedInv'
  <2>1. Admitted(logins'[c]) => activeAt = clock BY <1>2, AdmittedNow
  <2>2. UNCHANGED <<account, clock, activeAt>>
    BY <1>2, Begun DEF Begins, CallSteps, Bind, Ticket, DoubleCheck, CreateRecord, MapName, MapOtherName,
                SyncNames, RecordDirectoryCheck, PersistCheck, DirectoryAccountStatus,
                DirectoryOutageDenies, LoadLastCheck, theWorld
  <2>3. /\ \A d \in Login \ {c} : logins'[d] = logins[d]
        /\ logins'[c].stamp <= activeAt
    <3>0. /\ \A step, r : MovesTo(c, step, r) =>
                /\ \A d \in Login \ {c} : logins'[d] = logins[d]
                /\ logins'[c].stamp = logins[c].stamp
          /\ Ends(c) \/ Begins(c) => /\ \A d \in Login \ {c} : logins'[d] = logins[d]
                                     /\ logins'[c].stamp = -1
      BY DEF MovesTo, Ends, Starts, Begins
    <3>1. logins[c].stamp <= activeAt /\ -1 <= activeAt BY <1>0 DEF EarnedInv
    <3>2. CASE DirectoryOutageDenies(c)
      <4>1. logins[c].guid \in Record BY <1>0, <3>2 DEF DirectoryOutageDenies, OnRecord
      <4> QED BY <3>0, <3>1, <3>2, <4>1, OutageAsked DEF EarnedInv
    <3>3. CASE ~DirectoryOutageDenies(c)
      <4>1. Ends(c) \/ Begins(c) \/ \E step, r : MovesTo(c, step, r)
        BY <1>2, <3>3, Begun, LoginEffects, RecordCreated, CheckRecorded DEF CallSteps
      <4> QED BY <3>0, <3>1, <4>1
    <3> QED BY <3>2, <3>3
  <2>4. \A r \in Record : checked'[r] <= activeAt /\ stored'[r] <= activeAt /\ confirmed'[r] <= activeAt
    <3>0. \A r \in Record : checked[r] <= activeAt /\ stored[r] <= activeAt /\ confirmed[r] <= activeAt
      BY DEF EarnedInv
    <3>1. CASE RecordDirectoryCheck(c) \/ PersistCheck(c)
      <4>1. activeAt = clock BY <3>1 DEF RecordDirectoryCheck, PersistCheck, EarnedInv, Admitted
      <4> QED BY <1>0, <3>0, <3>1, <4>1 DEF RecordDirectoryCheck, PersistCheck
    <3>2. CASE LoadLastCheck(c)
      <4>1. logins[c].stamp <= activeAt BY DEF EarnedInv
      <4> QED BY <1>0, <3>0, <3>2, <4>1 DEF LoadLastCheck
    <3>3. CASE ~RecordDirectoryCheck(c) /\ ~PersistCheck(c) /\ ~LoadLastCheck(c)
      <4>1. UNCHANGED theStamps
        BY <1>2, <3>3, Begun DEF Begins, CallSteps, Bind, Ticket, DoubleCheck, CreateRecord, MapName,
                    MapOtherName, SyncNames, DirectoryAccountStatus, DirectoryOutageDenies
      <4> QED BY <3>0, <4>1 DEF theStamps
    <3> QED BY <3>1, <3>2, <3>3
  <2>5. GraceIsEarned'
    <3>1. CASE DirectoryOutageDenies(c)
      <4>1. logins[c].guid \in Record BY <1>0, <3>1 DEF DirectoryOutageDenies, OnRecord
      <4>2. /\ checked[logins[c].guid] \in Nat \cup {-1}
            /\ checked[logins[c].guid] <= activeAt
        BY <1>0, <4>1 DEF EarnedInv
      <4>3. CASE outage' = outage BY <4>3 DEF EarnedInv, GraceIsEarned
      <4>4. CASE Answer(logins[c].guid, AllowedInOutage(checked[logins[c].guid]), misfortunes)
        BY <4>2, <4>4, EarnedAnswer
      <4> QED BY <3>1, <4>3, <4>4, OutageAsked
    <3>2. CASE LoadLastCheck(c)
      <4>1. Answer(logins[c].guid, AllowedInOutage(logins[c].stamp), misfortunes')
        BY <3>2 DEF LoadLastCheck
      <4>2. logins[c].stamp <= activeAt BY DEF EarnedInv
      <4> QED BY <1>0, <4>1, <4>2, EarnedAnswer
    <3>3. CASE ~DirectoryOutageDenies(c) /\ ~LoadLastCheck(c)
      <4>1. UNCHANGED outage
        BY <1>2, <3>3, Begun DEF Begins, CallSteps, Bind, Ticket, DoubleCheck, CreateRecord, MapName,
                    MapOtherName, SyncNames, DirectoryAccountStatus, RecordDirectoryCheck, PersistCheck
      <4> QED BY <4>1 DEF EarnedInv, GraceIsEarned
    <3> QED BY <3>1, <3>2, <3>3
  <2>6. \A d \in Login : Admitted(logins'[d]) => activeAt = clock
    BY <2>1, <2>3 DEF EarnedInv
  <2> QED BY <2>2, <2>3, <2>4, <2>5, <2>6 DEF EarnedInv, Admitted
<1>3. CASE ChangeReachable \/ PassMinutes \/ \E state \in {"active", "disabled", "gone"} : ChangeAccount(state)
  <2>1. UNCHANGED <<checked, stored, confirmed, logins, outage>>
    BY <1>3 DEF ChangeReachable, PassMinutes, ChangeAccount, theStamps
  <2>2. /\ activeAt' \in Int /\ activeAt' >= activeAt
        /\ account' = "active" => activeAt' = clock'
        /\ \A c \in Login : Admitted(logins[c]) => activeAt' = clock'
    <3>1. CASE ChangeReachable BY <1>0, <3>1 DEF ChangeReachable, EarnedInv
    <3>2. CASE PassMinutes
      <4>1. \A c \in Login : ~Admitted(logins[c]) BY <3>2 DEF PassMinutes, Admitted, Answered
      <4> QED BY <1>0, <3>2, <4>1 DEF PassMinutes, EarnedInv
    <3>3. ASSUME NEW state \in {"active", "disabled", "gone"}, ChangeAccount(state)
          PROVE  /\ activeAt' \in Int /\ activeAt' >= activeAt
                 /\ account' = "active" => activeAt' = clock'
                 /\ \A c \in Login : Admitted(logins[c]) => activeAt' = clock'
      BY <1>0, <3>3 DEF ChangeAccount, EarnedInv
    <3> QED BY <1>3, <3>1, <3>2, <3>3
  <2> QED BY <1>0, <2>1, <2>2 DEF EarnedInv, GraceIsEarned, Admitted
<1>4. CASE StopDirectory
  <2>1. /\ UNCHANGED <<account, clock, activeAt, stored, confirmed, outage>>
        /\ checked' = [r \in Record |-> -1]
    BY <1>4 DEF StopDirectory, theWorld
  <2>2. \A c \in Login : ~Admitted(logins'[c]) /\ logins'[c].stamp = -1
    BY <1>4, StoppedLogins DEF Admitted
  <2> QED BY <1>0, <2>1, <2>2 DEF EarnedInv, GraceIsEarned, Admitted
<1> QED BY <1>1, <1>2, <1>3, <1>4
      DEF DirectoryNext, FirstLoginSteps, LaterUseSteps, WorldSteps, CallSteps

-----------------------------------------------------------------------------
(* The outage policy turns away. *)

(* A stamp of r is on its way to the store. *)
Saving(r) == \E c \in Login : logins[c].step = "persist" /\ logins[c].guid = r

(* The stamps in memory and in the store trail the last check by less than the
   throttle; one in memory was in the store, or is about to be.             *)
Trails(r) ==
    /\ Saving(r) => checked[r] >= 0
    /\ checked[r] >= 0 => confirmed[r] - checked[r] < Throttle
    /\ checked[r] >= 0 => Saving(r) \/ checked[r] <= stored[r]
    /\ confirmed[r] >= 0 => Saving(r) \/ (stored[r] >= 0 /\ confirmed[r] - stored[r] < Throttle)

(* A stamp read from the store does so too, unless a newer one went into
   memory since.                                                            *)
LoadTrails(c) ==
    logins[c].step = "load" =>
      /\ logins[c].stamp <= stored[logins[c].guid]
      /\ \/ checked[logins[c].guid] > logins[c].stamp
         \/ confirmed[logins[c].guid] < 0
         \/ logins[c].stamp >= 0 /\ confirmed[logins[c].guid] - logins[c].stamp < Throttle

StampsKept == misfortunes \cap {"unsaved", "crossed"} = {}

GrantedInv ==
    /\ StampsKept => (\A r \in Record : Trails(r)) /\ (\A c \in Login : LoadTrails(c))
    /\ GraceIsGranted

(* Each answer of the outage policy that a stamp trailing the last check is
   the reason for.                                                          *)
LEMMA GrantedAnswer ==
    ASSUME DirectoryTypes, DirectoryConstants, NEW r \in Record, NEW last \in Nat \cup {-1},
           NEW excuses,
           excuses \cap {"unsaved", "crossed"} = {} /\ OutagePolicy = "grace" =>
             confirmed[r] < 0 \/ (last >= 0 /\ confirmed[r] - last < Throttle),
           Answer(r, AllowedInOutage(last), excuses)
    PROVE  GraceIsGranted'
<1>1. clock \in Nat /\ Grace \in Nat /\ Throttle \in Nat \ {0} /\ LastTime \in Nat
      /\ confirmed[r] \in Nat \cup {-1}
  BY DEF DirectoryTypes, WorldTypes, RecordTypes, DirectoryConstants
<1>2. /\ outage'.allowed = AllowedInOutage(last)
      /\ outage'.unconfirmed = IF confirmed[r] < 0 THEN LastTime + Grace ELSE clock - confirmed[r]
      /\ outage'.excused = (excuses \cap {"unsaved", "crossed"} # {})
  BY DEF Answer
<1> SUFFICES ASSUME OutagePolicy = "grace", ~AllowedInOutage(last),
                    excuses \cap {"unsaved", "crossed"} = {}
             PROVE  outage'.unconfirmed > Grace - Throttle
  BY <1>2 DEF GraceIsGranted
<1>3. CASE confirmed[r] < 0 BY <1>1, <1>2, <1>3
<1>4. CASE confirmed[r] >= 0 /\ last >= 0 /\ confirmed[r] - last < Throttle
  <2>1. clock - last >= Grace BY <1>1, <1>4 DEF AllowedInOutage
  <2> QED BY <1>1, <1>2, <1>4, <2>1
<1> QED BY <1>1, <1>3, <1>4

(* Steps that leave the stamps alone leave alone how they trail. *)
LEMMA StampsUntouched ==
    ASSUME GrantedInv, UNCHANGED <<theStamps, outage>>, misfortunes \subseteq misfortunes',
           \A c \in Login : logins'[c] = logins[c] \/ {logins[c].step, logins'[c].step} \cap {"persist", "load"} = {}
    PROVE  GrantedInv'
<1>1. \A r \in Record : Saving(r)' <=> Saving(r) BY DEF Saving
<1>2. StampsKept' => StampsKept BY DEF StampsKept
<1>3. ASSUME StampsKept' PROVE (\A r \in Record : Trails(r))'
  BY <1>1, <1>2, <1>3 DEF GrantedInv, Trails, theStamps
<1>4. ASSUME StampsKept' PROVE (\A c \in Login : LoadTrails(c))'
  BY <1>2, <1>4 DEF GrantedInv, LoadTrails, theStamps
<1> QED BY <1>3, <1>4 DEF GrantedInv, GraceIsGranted

(* Times and stamps, as the steps below use them. *)
LEMMA StampFacts ==
    ASSUME DirectoryTypes, DirectoryConstants, EarnedInv
    PROVE  /\ clock \in Nat /\ Throttle \in Nat \ {0} /\ NoRecord \notin Record
           /\ checked \in [Record -> Nat \cup {-1}] /\ stored \in [Record -> Nat \cup {-1}]
           /\ confirmed \in [Record -> Nat \cup {-1}]
           /\ \A r \in Record : checked[r] <= clock /\ stored[r] <= clock /\ confirmed[r] <= clock
           /\ \A c \in Login : /\ logins[c].stamp \in Nat \cup {-1} /\ logins[c].stamp <= clock
                               /\ logins[c].step \in OnRecord => logins[c].guid \in Record
<1>1. /\ clock \in Nat /\ activeAt \in 0 .. clock
      /\ checked \in [Record -> Nat \cup {-1}] /\ stored \in [Record -> Nat \cup {-1}]
      /\ confirmed \in [Record -> Nat \cup {-1}] /\ logins \in [Login -> LoginState]
      /\ \A c \in Login : logins[c].step \in OnRecord => logins[c].guid \in Record
  BY DEF DirectoryTypes, RecordTypes, WorldTypes, LoginTypes
<1>2. \A c \in Login : logins[c].stamp \in Nat \cup {-1} BY <1>1 DEF LoginState
<1> QED BY <1>1, <1>2 DEF EarnedInv, DirectoryConstants

LEMMA RecordTrails ==
    ASSUME DirectoryTypes, DirectoryConstants, EarnedInv, GrantedInv, NEW c \in Login,
           RecordDirectoryCheck(c)
    PROVE  GrantedInv'
<1>r. PICK r \in Record : r = logins[c].guid BY StampFacts DEF RecordDirectoryCheck, OnRecord
<1>0. /\ r = logins[c].guid /\ logins[c].step = "record"
      /\ UNCHANGED <<stored, outage, misfortunes, clock>>
  BY <1>r DEF RecordDirectoryCheck, theWorld
<1>1. confirmed' = [confirmed EXCEPT ![r] = clock] BY <1>r, CheckRecorded
<1>2. GraceIsGranted' BY <1>0 DEF GrantedInv, GraceIsGranted
<1> SUFFICES ASSUME StampsKept
             PROVE  (\A s \in Record : Trails(s))' /\ (\A d \in Login : LoadTrails(d))'
  BY <1>0, <1>2 DEF GrantedInv, StampsKept
<1>3. (\A s \in Record : Trails(s)) /\ (\A d \in Login : LoadTrails(d)) BY DEF GrantedInv
<1>4. CASE checked[r] >= 0 /\ clock - checked[r] < Throttle /\ checked' = checked /\ Ends(c)
  <2>1. \A s \in Record : Saving(s)' <=> Saving(s)
    BY <1>0, <1>4 DEF Saving, Ends, Starts
  <2>2. ASSUME NEW s \in Record PROVE Trails(s)'
    <3>1. CASE s = r BY <1>0, <1>1, <1>3, <1>4, <2>1, <3>1, StampFacts DEF Trails
    <3>2. CASE s # r BY <1>0, <1>1, <1>3, <1>4, <2>1, <3>2, StampFacts DEF Trails
    <3> QED BY <3>1, <3>2
  <2>3. ASSUME NEW d \in Login PROVE LoadTrails(d)'
    <3>1. CASE d = c BY <1>4, <3>1 DEF LoadTrails, Ends, Starts
    <3>2. CASE d # c /\ logins[d].step = "load"
      <4>1. logins'[d] = logins[d] /\ logins[d].guid \in Record
        BY <1>4, <3>2, StampFacts DEF Ends, Starts, OnRecord
      <4>2. CASE logins[d].guid = r
        BY <1>0, <1>1, <1>3, <1>4, <3>2, <4>1, <4>2, StampFacts DEF LoadTrails
      <4>3. CASE logins[d].guid # r
        BY <1>0, <1>1, <1>3, <1>4, <3>2, <4>1, <4>3, StampFacts DEF LoadTrails
      <4> QED BY <4>2, <4>3
    <3>3. CASE d # c /\ logins[d].step # "load" BY <1>4, <3>3 DEF LoadTrails, Ends, Starts
    <3> QED BY <3>1, <3>2, <3>3
  <2> QED BY <2>2, <2>3
<1>5. CASE checked' = [checked EXCEPT ![r] = clock] /\ MovesTo(c, "persist", r)
  <2>1. /\ Saving(r)' /\ \A s \in Record \ {r} : Saving(s)' <=> Saving(s)
    BY <1>0, <1>5 DEF Saving, MovesTo
  <2>2. ASSUME NEW s \in Record PROVE Trails(s)'
    <3>1. CASE s = r BY <1>0, <1>1, <1>5, <2>1, <3>1, StampFacts DEF Trails
    <3>2. CASE s # r BY <1>0, <1>1, <1>3, <1>5, <2>1, <3>2, StampFacts DEF Trails
    <3> QED BY <3>1, <3>2
  <2>3. ASSUME NEW d \in Login PROVE LoadTrails(d)'
    <3>1. CASE d = c BY <1>5, <3>1 DEF LoadTrails, MovesTo
    <3>2. CASE d # c /\ logins[d].step = "load"
      <4>1. logins'[d] = logins[d] /\ logins[d].guid \in Record
        BY <1>5, <3>2, StampFacts DEF MovesTo, OnRecord
      <4>2. CASE logins[d].guid = r
        BY <1>0, <1>1, <1>3, <1>5, <3>2, <4>1, <4>2, StampFacts DEF LoadTrails
      <4>3. CASE logins[d].guid # r
        BY <1>0, <1>1, <1>3, <1>5, <3>2, <4>1, <4>3, StampFacts DEF LoadTrails
      <4> QED BY <4>2, <4>3
    <3>3. CASE d # c /\ logins[d].step # "load" BY <1>5, <3>3 DEF LoadTrails, MovesTo
    <3> QED BY <3>1, <3>2, <3>3
  <2> QED BY <2>2, <2>3
<1> QED BY <1>r, <1>4, <1>5, CheckRecorded

LEMMA PersistTrails ==
    ASSUME DirectoryTypes, DirectoryConstants, EarnedInv, GrantedInv, NEW c \in Login, PersistCheck(c)
    PROVE  GrantedInv'
<1>r. PICK r \in Record : r = logins[c].guid BY StampFacts DEF PersistCheck, OnRecord
<1>0. /\ r = logins[c].guid /\ logins[c].step = "persist" /\ Ends(c)
      /\ UNCHANGED <<checked, confirmed, outage, clock>> /\ misfortunes \subseteq misfortunes'
  BY <1>r, LoginEffects DEF PersistCheck, theWorld
<1>1. \/ stored' = [stored EXCEPT ![r] = clock]
      \/ ~StampsKept'
  BY <1>r DEF PersistCheck, StampsKept
<1>2. GraceIsGranted' BY <1>0 DEF GrantedInv, GraceIsGranted
<1> SUFFICES ASSUME StampsKept'
             PROVE  (\A s \in Record : Trails(s))' /\ (\A d \in Login : LoadTrails(d))'
  BY <1>2 DEF GrantedInv
<1>3. (\A s \in Record : Trails(s)) /\ (\A d \in Login : LoadTrails(d))
  BY <1>0 DEF GrantedInv, StampsKept
<1>4. stored' = [stored EXCEPT ![r] = clock] BY <1>1
<1>5. /\ Saving(r)' => Saving(r)
      /\ \A s \in Record \ {r} : Saving(s)' <=> Saving(s)
  BY <1>0 DEF Saving, Ends, Starts
<1>6. ASSUME NEW s \in Record PROVE Trails(s)'
  <2>1. CASE s = r BY <1>0, <1>3, <1>4, <1>5, <2>1, StampFacts DEF Trails
  <2>2. CASE s # r BY <1>0, <1>3, <1>4, <1>5, <2>2, StampFacts DEF Trails
  <2> QED BY <2>1, <2>2
<1>7. ASSUME NEW d \in Login PROVE LoadTrails(d)'
  <2>1. CASE d = c BY <1>0, <2>1 DEF LoadTrails, Ends, Starts
  <2>2. CASE d # c /\ logins[d].step = "load"
    <3>1. logins'[d] = logins[d] /\ logins[d].guid \in Record
      BY <1>0, <2>2, StampFacts DEF Ends, Starts, OnRecord
    <3> QED BY <1>0, <1>3, <1>4, <2>2, <3>1, StampFacts DEF LoadTrails
  <2>3. CASE d # c /\ logins[d].step # "load" BY <1>0, <2>3 DEF LoadTrails, Ends, Starts
  <2> QED BY <2>1, <2>2, <2>3
<1> QED BY <1>6, <1>7

LEMMA OutageTrails ==
    ASSUME DirectoryTypes, DirectoryConstants, EarnedInv, GrantedInv, NEW c \in Login,
           DirectoryOutageDenies(c)
    PROVE  GrantedInv'
<1> DEFINE r == logins[c].guid
<1>0. /\ r \in Record /\ logins[c].step = "outage"
      /\ UNCHANGED <<checked, stored, confirmed, misfortunes, clock>>
  BY StampFacts DEF DirectoryOutageDenies, OnRecord, theWorld, theStamps
<1>1. StampsKept => (\A s \in Record : Trails(s)) /\ (\A d \in Login : LoadTrails(d))
  BY DEF GrantedInv
<1>2. \/ checked[r] < 0 /\ logins'[c].step = "load" /\ logins'[c].guid = r
         /\ logins'[c].stamp = stored[r] /\ outage' = outage
      \/ /\ checked[r] >= 0 \/ OutagePolicy # "grace"
         /\ Ends(c) /\ Answer(r, AllowedInOutage(checked[r]), misfortunes)
  BY OutageAsked
<1>3. \A d \in Login \ {c} : logins'[d] = logins[d] BY OutageAsked DEF Ends, Starts
<1>4. GraceIsGranted'
  <2>1. CASE outage' = outage BY <2>1 DEF GrantedInv, GraceIsGranted
  <2>2. CASE /\ checked[r] >= 0 \/ OutagePolicy # "grace"
             /\ Answer(r, AllowedInOutage(checked[r]), misfortunes)
    <3>1. misfortunes \cap {"unsaved", "crossed"} = {} /\ OutagePolicy = "grace" =>
            confirmed[r] < 0 \/ (checked[r] >= 0 /\ confirmed[r] - checked[r] < Throttle)
      BY <1>0, <1>1, <2>2 DEF StampsKept, Trails
    <3> QED BY <1>0, <2>2, <3>1, StampFacts, GrantedAnswer
  <2> QED BY <1>2, <2>1, <2>2
<1> SUFFICES ASSUME StampsKept
             PROVE  (\A s \in Record : Trails(s))' /\ (\A d \in Login : LoadTrails(d))'
  BY <1>0, <1>4 DEF GrantedInv, StampsKept
<1>5. \A s \in Record : Saving(s)' <=> Saving(s)
  <2>1. logins[c].step # "persist" /\ logins'[c].step # "persist"
    BY <1>0, <1>2 DEF Ends, Starts
  <2> QED BY <1>3, <2>1 DEF Saving
<1>6. (\A s \in Record : Trails(s))' BY <1>0, <1>1, <1>5 DEF Trails
<1>7. ASSUME NEW d \in Login PROVE LoadTrails(d)'
  <2>1. CASE d # c BY <1>0, <1>1, <1>3, <2>1 DEF LoadTrails
  <2>2. CASE d = c /\ Ends(c) BY <2>2 DEF LoadTrails, Ends, Starts
  <2>3. CASE d = c /\ checked[r] < 0 /\ logins'[c].guid = r /\ logins'[c].stamp = stored[r]
    <3>1. ~Saving(r) BY <1>0, <1>1, <2>3, StampFacts DEF Trails
    <3>2. confirmed[r] < 0 \/ (stored[r] >= 0 /\ confirmed[r] - stored[r] < Throttle)
      BY <1>0, <1>1, <3>1, StampFacts DEF Trails
    <3> QED BY <1>0, <2>3, <3>2, StampFacts DEF LoadTrails
  <2> QED BY <1>2, <2>1, <2>2, <2>3
<1> QED BY <1>6, <1>7

LEMMA LoadKeepsTrails ==
    ASSUME DirectoryTypes, DirectoryConstants, EarnedInv, GrantedInv, NEW c \in Login, LoadLastCheck(c)
    PROVE  GrantedInv'
<1> DEFINE r == logins[c].guid
           stamp == logins[c].stamp
<1>0. /\ r \in Record /\ logins[c].step = "load" /\ Ends(c)
      /\ UNCHANGED <<stored, confirmed, clock>> /\ misfortunes \subseteq misfortunes'
      /\ checked' = IF stamp < 0 THEN checked ELSE [checked EXCEPT ![r] = stamp]
      /\ Answer(r, AllowedInOutage(stamp), misfortunes')
  BY StampFacts, LoginEffects DEF LoadLastCheck, OnRecord, theWorld
<1>1. checked[r] > stamp => ~StampsKept' BY DEF LoadLastCheck, StampsKept
<1>2. StampsKept' => (\A s \in Record : Trails(s)) /\ (\A d \in Login : LoadTrails(d))
  BY <1>0 DEF GrantedInv, StampsKept
<1>3. StampsKept' => /\ stamp <= stored[r]
                     /\ confirmed[r] < 0 \/ (stamp >= 0 /\ confirmed[r] - stamp < Throttle)
  BY <1>0, <1>1, <1>2 DEF LoadTrails
<1>4. GraceIsGranted'
  <2>1. stamp \in Nat \cup {-1} BY StampFacts
  <2>2. misfortunes' \cap {"unsaved", "crossed"} = {} /\ OutagePolicy = "grace" =>
          confirmed[r] < 0 \/ (stamp >= 0 /\ confirmed[r] - stamp < Throttle)
    BY <1>3 DEF StampsKept
  <2> HIDE DEF stamp
  <2> QED BY <1>0, <2>1, <2>2, GrantedAnswer
<1> SUFFICES ASSUME StampsKept'
             PROVE  (\A s \in Record : Trails(s))' /\ (\A d \in Login : LoadTrails(d))'
  BY <1>4 DEF GrantedInv
<1>5. \A s \in Record : Saving(s)' <=> Saving(s) BY <1>0 DEF Saving, Ends, Starts
<1>6. ASSUME NEW s \in Record PROVE Trails(s)'
  <2>1. CASE s = r BY <1>0, <1>1, <1>2, <1>3, <1>5, <2>1, StampFacts DEF Trails
  <2>2. CASE s # r BY <1>0, <1>2, <1>5, <2>2, StampFacts DEF Trails
  <2> QED BY <2>1, <2>2
<1>7. ASSUME NEW d \in Login PROVE LoadTrails(d)'
  <2>1. CASE d = c BY <1>0, <2>1 DEF LoadTrails, Ends, Starts
  <2>2. CASE d # c /\ logins[d].step = "load"
    <3>1. logins'[d] = logins[d] /\ logins[d].guid \in Record
      BY <1>0, <2>2, StampFacts DEF Ends, Starts, OnRecord
    <3>2. checked'[logins[d].guid] >= checked[logins[d].guid]
      BY <1>0, <1>1, <3>1, StampFacts
    <3> QED BY <1>0, <1>2, <2>2, <3>1, <3>2, StampFacts DEF LoadTrails
  <2>3. CASE d # c /\ logins[d].step # "load" BY <1>0, <2>3 DEF LoadTrails, Ends, Starts
  <2> QED BY <2>1, <2>2, <2>3
<1> QED BY <1>6, <1>7

LEMMA GrantedStep ==
    ASSUME DirectoryTypes, DirectoryConstants, EarnedInv, GrantedInv, [DirectoryNext]_directoryVars
    PROVE  GrantedInv'
<1>1. CASE UNCHANGED directoryVars BY <1>1, StampsUntouched DEF directoryVars, theStamps
<1>2. CASE WorldSteps /\ ~StopDirectory
  BY <1>2, StampsUntouched DEF WorldSteps, ChangeReachable, PassMinutes, ChangeAccount
<1>3. CASE StopDirectory
  <2>1. /\ UNCHANGED <<stored, confirmed, outage>> /\ misfortunes \subseteq misfortunes'
        /\ checked' = [r \in Record |-> -1]
        /\ \A c \in Login : logins'[c].step = "none"
    BY <1>3, StoppedLogins DEF StopDirectory
  <2>2. StampsKept' => \A c \in Login : logins[c].step # "persist"
    BY <1>3 DEF StopDirectory, StampsKept
  <2>3. StampsKept' => \A r \in Record : Trails(r)
    BY <2>1 DEF GrantedInv, StampsKept
  <2>4. ASSUME StampsKept', NEW r \in Record PROVE Trails(r)'
    <3>1. confirmed[r] >= 0 => stored[r] >= 0 /\ confirmed[r] - stored[r] < Throttle
      BY <2>2, <2>3, <2>4 DEF Trails, Saving
    <3>2. ~Saving(r)' BY <2>1 DEF Saving
    <3> QED BY <2>1, <3>1, <3>2 DEF Trails
  <2>5. (\A c \in Login : LoadTrails(c))' BY <2>1 DEF LoadTrails
  <2> QED BY <2>1, <2>4, <2>5 DEF GrantedInv, GraceIsGranted
<1>4. ASSUME NEW c \in Login, CallSteps(c) PROVE GrantedInv'
  <2>1. CASE RecordDirectoryCheck(c) BY <2>1, RecordTrails
  <2>2. CASE PersistCheck(c) BY <2>2, PersistTrails
  <2>3. CASE DirectoryOutageDenies(c) BY <2>3, OutageTrails
  <2>4. CASE LoadLastCheck(c) BY <2>4, LoadKeepsTrails
  <2>5. ASSUME Begins(c) PROVE GrantedInv'
    <3>1. logins[c].step = "none" BY <2>5, NoLoginFacts DEF Begins
    <3> QED BY <2>5, <3>1, StampsUntouched DEF Begins
  <2>6. CASE \/ Bind(c) \/ Ticket(c) \/ DoubleCheck(c) \/ CreateRecord(c) \/ MapName(c)
             \/ MapOtherName(c) \/ SyncNames(c) \/ DirectoryAccountStatus(c)
    <3>1. /\ UNCHANGED <<theStamps, outage>> /\ misfortunes \subseteq misfortunes'
          /\ logins[c].step \notin {"persist", "load"}
      BY <2>6 DEF Bind, Ticket, DoubleCheck, CreateRecord, MapName, MapOtherName, SyncNames,
                  DirectoryAccountStatus
    <3>2. \/ Ends(c)
          \/ \E step \in LoginSteps \ {"persist", "load"} : \E r : MovesTo(c, step, r)
      BY <2>6, LoginEffects, RecordCreated DEF LoginSteps
    <3>3. /\ \A d \in Login \ {c} : logins'[d] = logins[d]
          /\ logins'[c].step \notin {"persist", "load"}
      BY <3>2 DEF Ends, Starts, MovesTo
    <3> QED BY <3>1, <3>3, StampsUntouched
  <2> QED BY <1>4, <2>1, <2>2, <2>3, <2>4, <2>5, <2>6, Begun DEF CallSteps
<1> QED BY <1>1, <1>2, <1>3, <1>4
      DEF DirectoryNext, FirstLoginSteps, LaterUseSteps, WorldSteps, CallSteps

-----------------------------------------------------------------------------
(* One record. *)

Mapping(c) == logins[c].step = "map"

(* While first logins come one at a time and under the sAMAccountName, that
   name is mapped as soon as any name is; a record is what it is mapped to, or
   is about to be.                                                          *)
NamesInv ==
    /\ \A r \in Record : Exists(r) => ldap[Sam] = r \/ \E c \in Login : Mapping(c) /\ logins[c].guid = r
    /\ \A n \in Name : ldap[n] # NoRecord \/ local[n] # NoRecord => ldap[Sam] # NoRecord
    /\ \A c \in Login : /\ logins[c].step \in {"create", "map"} => ldap[Sam] = NoRecord
                        /\ logins[c].step \in {"also", "confirm"} => ldap[Sam] # NoRecord
    /\ \A c, d \in Login : Mapping(c) /\ Mapping(d) => c = d
    /\ \A c \in Login : /\ logins[c].kind \in {"password", "import"} => logins[c].name = Sam
                        /\ logins[c].step = "also" => logins[c].name # Sam

OneInv == misfortunes \cap {"overlap", "alias"} = {} => NamesInv

(* A call that neither has a record to map nor gets one, while what the
   sAMAccountName is mapped to stays.                                       *)
LEMMA NamesKept ==
    ASSUME NamesInv, NEW c \in Login, \A d \in Login \ {c} : logins'[d] = logins[d],
           ldap'[Sam] = ldap[Sam], \A r \in Record : records'[r] # "none" => records[r] # "none",
           \A n \in Name : ldap'[n] # NoRecord \/ local'[n] # NoRecord => ldap[Sam] # NoRecord,
           ~Mapping(c), logins'[c].step # "map",
           logins'[c].step = "create" => ldap[Sam] = NoRecord,
           logins'[c].step \in {"also", "confirm"} => ldap[Sam] # NoRecord,
           logins'[c].kind \in {"password", "import"} => logins'[c].name = Sam,
           logins'[c].step = "also" => logins'[c].name # Sam
    PROVE  NamesInv'
<1>1. /\ ~Mapping(c)'
      /\ \A d \in Login \ {c} : (Mapping(d)' <=> Mapping(d)) /\ logins'[d].guid = logins[d].guid
  BY DEF Mapping
<1>2. ASSUME NEW r \in Record, records'[r] # "none"
      PROVE  ldap'[Sam] = r \/ \E d \in Login : Mapping(d)' /\ logins'[d].guid = r
  BY <1>1, <1>2 DEF NamesInv, Exists
<1>3. \A n \in Name : ldap'[n] # NoRecord \/ local'[n] # NoRecord => ldap'[Sam] # NoRecord
  OBVIOUS
<1>4. \A d \in Login : /\ logins'[d].step \in {"create", "map"} => ldap'[Sam] = NoRecord
                       /\ logins'[d].step \in {"also", "confirm"} => ldap'[Sam] # NoRecord
                       /\ logins'[d].kind \in {"password", "import"} => logins'[d].name = Sam
                       /\ logins'[d].step = "also" => logins'[d].name # Sam
  BY DEF NamesInv
<1>5. \A d, e \in Login : Mapping(d)' /\ Mapping(e)' => d = e BY <1>1 DEF NamesInv
<1> QED BY <1>2, <1>3, <1>4, <1>5 DEF NamesInv, Exists

(* No other first login is under way when one creates or maps. *)
LEMMA ComesAlone ==
    ASSUME NEW c \in Login, CreateRecord(c) \/ MapName(c), misfortunes' \cap {"overlap", "alias"} = {}
    PROVE  \A d \in Login \ {c} : logins[d].step \notin {"create", "map"}
BY DEF CreateRecord, MapName, Overlap

LEMMA NamesStep ==
    ASSUME DirectoryTypes, DirectoryConstants, NamesInv, [DirectoryNext]_directoryVars,
           misfortunes' \cap {"overlap", "alias"} = {}
    PROVE  NamesInv'
<1>0. /\ Sam \in Name /\ NoRecord \notin Record
      /\ ldap \in [Name -> Record \cup {NoRecord}] /\ local \in [Name -> Record \cup {NoRecord}]
      /\ records \in [Record -> {"none", "unnamed", "named"}]
      /\ \A c \in Login : /\ logins[c] \in LoginState /\ logins[c].name \in Name
                          /\ KindFits(logins[c])
                          /\ logins[c].step \in OnRecord =>
                               logins[c].guid \in Record /\ Exists(logins[c].guid)
  BY DEF DirectoryConstants, DirectoryTypes, RecordTypes, LoginTypes, ReferencesExist, LoginState
<1>1. CASE UNCHANGED <<records, ldap, local, logins>>
  BY <1>1 DEF NamesInv, Exists, Mapping
<1>2. CASE WorldSteps /\ ~StopDirectory
  BY <1>1, <1>2 DEF WorldSteps, ChangeReachable, PassMinutes, ChangeAccount, theRecords
<1>3. CASE StopDirectory
  <2>1. /\ UNCHANGED <<records, ldap, local>>
        /\ \A c \in Login : logins[c].step \notin {"map", "also"}
    BY <1>3 DEF StopDirectory, theRecords
  <2>2. \A c \in Login : /\ logins'[c].step = "none" /\ logins'[c].kind = "none"
    BY <1>3, StoppedLogins
  <2> QED BY <2>1, <2>2 DEF NamesInv, Exists, Mapping
<1>4. ASSUME NEW c \in Login, CallSteps(c) PROVE NamesInv'
  <2> DEFINE g == logins[c].guid
             name == logins[c].name
  <2>0. /\ Ends(c) => /\ \A d \in Login \ {c} : logins'[d] = logins[d]
                      /\ logins'[c].step = "none" /\ logins'[c].kind = "none"
        /\ \A step, r : MovesTo(c, step, r) =>
              /\ \A d \in Login \ {c} : logins'[d] = logins[d]
              /\ logins'[c].step = step /\ logins'[c].guid = r /\ logins'[c].kind = logins[c].kind
              /\ logins'[c].name = name
    BY DEF Ends, Starts, MovesTo
  <2>n. logins[c].kind \in {"password", "import"} => name = Sam BY DEF NamesInv
  <2>1. ASSUME Begins(c) PROVE NamesInv'
    <3>1. ~Mapping(c) BY <2>1, NoLoginFacts DEF Begins, Mapping
    <3>2. UNCHANGED <<records, ldap, local>> BY <2>1 DEF Begins, theRecords
    <3>3. /\ logins'[c].step \in {"bind", "ticket", "create", "status"}
          /\ logins'[c].kind \in {"password", "import"} => logins'[c].name = Sam
          /\ logins'[c].step = "create" => ldap[Sam] = NoRecord
      BY <2>1 DEF Begins
    <3>4. \A d \in Login \ {c} : logins'[d] = logins[d] BY <2>1 DEF Begins
    <3>5. \A n \in Name : ldap'[n] # NoRecord \/ local'[n] # NoRecord => ldap[Sam] # NoRecord
      BY <3>2 DEF NamesInv
    <3> QED BY <3>1, <3>2, <3>3, <3>4, <3>5, NamesKept
  <2>2. CASE \/ Bind(c) \/ Ticket(c) \/ RecordDirectoryCheck(c) \/ PersistCheck(c)
             \/ DirectoryAccountStatus(c) \/ DirectoryOutageDenies(c) \/ LoadLastCheck(c)
    <3>1. UNCHANGED <<records, ldap, local>> /\ ~Mapping(c)
      BY <2>2 DEF Bind, Ticket, RecordDirectoryCheck, PersistCheck, DirectoryAccountStatus,
                  DirectoryOutageDenies, LoadLastCheck, theRecords, Mapping
    <3>2. \A n \in Name : ldap'[n] # NoRecord \/ local'[n] # NoRecord => ldap[Sam] # NoRecord
      BY <3>1 DEF NamesInv
    <3>3. /\ \A d \in Login \ {c} : logins'[d] = logins[d]
          /\ logins'[c].step \notin {"map", "also"}
          /\ logins'[c].step = "create" => ldap[Sam] = NoRecord
          /\ logins'[c].step = "confirm" => ldap[Sam] # NoRecord
          /\ logins'[c].kind \in {"password", "import"} => logins'[c].name = Sam
      <4>1. CASE Bind(c)
        <5>1. name = Sam BY <1>0, <2>n, <4>1 DEF Bind, KindFits
        <5> QED BY <2>0, <2>n, <4>1, <5>1, LoginEffects
      <4>2. CASE Ticket(c)
        <5>1. ASSUME NEW r \in Record, r \in {ldap[name], local[name]} PROVE ldap[Sam] # NoRecord
          BY <1>0, <5>1 DEF NamesInv
        <5> QED BY <2>0, <2>n, <4>2, <5>1, LoginEffects
      <4>3. CASE RecordDirectoryCheck(c) \/ PersistCheck(c) \/ DirectoryAccountStatus(c) \/ LoadLastCheck(c)
        BY <2>0, <2>n, <4>3, LoginEffects, CheckRecorded
      <4>4. CASE DirectoryOutageDenies(c) BY <2>0, <2>n, <4>4, OutageAsked
      <4> QED BY <2>2, <4>1, <4>2, <4>3, <4>4
    <3> QED BY <3>1, <3>2, <3>3, NamesKept
  <2>3. CASE DoubleCheck(c)
    <3>1. UNCHANGED <<records, local>> /\ ~Mapping(c) BY <2>3 DEF DoubleCheck, Mapping
    <3>2. /\ ldap'[Sam] = ldap[Sam]
          /\ \A n \in Name : ldap'[n] # NoRecord \/ local'[n] # NoRecord => ldap[Sam] # NoRecord
      BY <1>0, <2>3, <3>1 DEF DoubleCheck, NamesInv
    <3> QED BY <2>0, <2>n, <2>3, <3>1, <3>2, LoginEffects, NamesKept
  <2>4. CASE CreateRecord(c)
    <3>1. PICK r \in Record :
            /\ MovesTo(c, "map", r) /\ \A s \in Record \ {r} : records'[s] = records[s]
      BY <2>4, RecordCreated
    <3>2. /\ UNCHANGED <<ldap, local>> /\ ldap[Sam] = NoRecord
          /\ \A d \in Login \ {c} : logins'[d] = logins[d] /\ logins[d].step \notin {"create", "map"}
          /\ logins[c].step = "create"
      BY <2>0, <2>4, <3>1, ComesAlone DEF CreateRecord, NamesInv
    <3>3. \A s \in Record : ~Exists(s) BY <3>2 DEF NamesInv, Mapping
    <3>4. \A s \in Record : records'[s] # "none" => s = r BY <3>1, <3>3 DEF Exists
    <3>5. Mapping(c)' /\ logins'[c].guid = r BY <2>0, <3>1 DEF Mapping
    <3>6. (\A d, e \in Login : Mapping(d) /\ Mapping(e) => d = e)' BY <3>2 DEF Mapping
    <3>7. \A d \in Login : /\ logins'[d].step \notin {"also", "confirm"} \/ ldap[Sam] # NoRecord
                           /\ logins'[d].kind \in {"password", "import"} => logins'[d].name = Sam
                           /\ logins'[d].step = "also" => logins'[d].name # Sam
      BY <2>0, <2>n, <3>1, <3>2 DEF NamesInv
    <3>8. \A n \in Name : ldap'[n] # NoRecord \/ local'[n] # NoRecord => ldap'[Sam] # NoRecord
      BY <3>2 DEF NamesInv
    <3> QED BY <3>2, <3>4, <3>5, <3>6, <3>7, <3>8 DEF NamesInv, Exists
  <2>5. CASE MapName(c)
    <3>1. PICK r \in Record : r = g BY <1>0, <2>5 DEF MapName, OnRecord
    <3>2. FirstName(logins[c]) = Sam
      <4>1. logins[c].kind \in {"password", "kerberos", "import"}
        BY <1>0, <2>5 DEF MapName, KindFits, LoginState
      <4> QED BY <2>n, <4>1 DEF FirstName
    <3>3. /\ ldap' = [ldap EXCEPT ![Sam] = r] /\ records' = records
          /\ logins[c].step = "map"
      BY <2>5, <3>1, <3>2 DEF MapName
    <3>4. /\ \A d \in Login \ {c} : logins'[d] = logins[d] /\ logins[d].step \notin {"create", "map"}
          /\ logins'[c].step \in {"none", "also", "record", "confirm"}
          /\ logins'[c].kind \in {"password", "import"} => logins'[c].name = Sam
          /\ logins'[c].step = "also" => logins'[c].name # Sam
      BY <2>0, <2>n, <2>5, LoginEffects, ComesAlone
    <3>5. ldap'[Sam] = r /\ r # NoRecord BY <1>0, <3>3
    <3>6. \A s \in Record : records'[s] # "none" => s = r
      <4>1. ldap[Sam] = NoRecord BY <3>3 DEF NamesInv
      <4> QED BY <1>0, <3>1, <3>3, <4>1 DEF NamesInv, Exists, Mapping
    <3>7. \A d \in Login : logins'[d].step # "map" BY <3>4
    <3>8. \A d \in Login : /\ logins'[d].step \notin {"create", "map"}
                           /\ logins'[d].kind \in {"password", "import"} => logins'[d].name = Sam
                           /\ logins'[d].step = "also" => logins'[d].name # Sam
      BY <3>4 DEF NamesInv
    <3> QED BY <3>5, <3>6, <3>7, <3>8 DEF NamesInv, Exists, Mapping
  <2>6. CASE MapOtherName(c)
    <3>1. logins[c].step = "also" /\ name # Sam /\ ldap[Sam] # NoRecord
      BY <2>6 DEF MapOtherName, NamesInv
    <3>2. logins[c].kind = "kerberos" BY <1>0, <2>n, <3>1 DEF KindFits
    <3>3. ldap' = [ldap EXCEPT ![name] = g] /\ records' = records
      BY <2>6, <3>2 DEF MapOtherName
    <3>4. ldap'[Sam] = ldap[Sam] BY <1>0, <3>1, <3>3
    <3>5. MovesTo(c, "record", g) BY <2>6, <3>2, LoginEffects
    <3>6. ~Mapping(c) BY <3>1 DEF Mapping
    <3> QED BY <2>0, <2>n, <3>1, <3>3, <3>4, <3>5, <3>6, NamesKept
  <2>7. CASE SyncNames(c)
    <3>1. logins[c].step = "confirm" /\ ldap[Sam] # NoRecord BY <2>7 DEF SyncNames, NamesInv
    <3>2. ldap' = ldap /\ records' = [records EXCEPT ![g] = "named"] BY <2>7, <3>1 DEF SyncNames
    <3>3. \A s \in Record : records'[s] # "none" => records[s] # "none"
      BY <1>0, <3>1, <3>2 DEF OnRecord, Exists
    <3>4. MovesTo(c, "record", g) BY <2>7, LoginEffects
    <3>5. ~Mapping(c) BY <3>1 DEF Mapping
    <3> QED BY <2>0, <2>n, <3>1, <3>2, <3>3, <3>4, <3>5, NamesKept
  <2> QED BY <1>4, <2>1, <2>2, <2>3, <2>4, <2>5, <2>6, <2>7, Begun DEF CallSteps
<1> QED BY <1>1, <1>2, <1>3, <1>4
      DEF DirectoryNext, FirstLoginSteps, LaterUseSteps, WorldSteps, CallSteps, directoryVars

THEOREM DirectoryInvariant ==
    DirectorySpec => [](DirectoryTypes /\ EarnedInv /\ GrantedInv /\ OneInv)
<1>1. ASSUME DirectoryInit PROVE DirectoryTypes /\ EarnedInv /\ GrantedInv /\ OneInv
  <2>1. DirectoryTypes BY <1>1, DirectoryTypesInit, DirectoryConstants
  <2>2. \A c \in Login : logins[c].step = "none" /\ logins[c].kind = "none" /\ logins[c].stamp = -1
    BY <1>1, DirectoryConstants, NoLoginFacts DEF DirectoryInit
  <2>3. EarnedInv
    BY <1>1, <2>2 DEF DirectoryInit, EarnedInv, GraceIsEarned, Admitted, NoOutage
  <2>4. GrantedInv
    BY <1>1, <2>2 DEF DirectoryInit, GrantedInv, GraceIsGranted, Trails, LoadTrails, Saving, NoOutage
  <2>5. OneInv
    BY <1>1, <2>2 DEF DirectoryInit, OneInv, NamesInv, Exists, Mapping
  <2> QED BY <2>1, <2>3, <2>4, <2>5
<1>2. ASSUME DirectoryTypes, EarnedInv, GrantedInv, OneInv, [DirectoryNext]_directoryVars
      PROVE  (DirectoryTypes /\ EarnedInv /\ GrantedInv /\ OneInv)'
  <2>1. misfortunes \subseteq misfortunes'
    BY <1>2 DEF DirectoryNext, FirstLoginSteps, LaterUseSteps, WorldSteps, directoryVars, BeginBind,
       BeginKerberos, BeginImport, BeginLocal, BeginSession, Bind, Ticket, DoubleCheck, CreateRecord,
       MapName, MapOtherName, SyncNames, RecordDirectoryCheck, PersistCheck, DirectoryAccountStatus,
       DirectoryOutageDenies, LoadLastCheck, ChangeAccount, ChangeReachable, PassMinutes, StopDirectory
  <2>2. OneInv' BY <1>2, <2>1, NamesStep, DirectoryConstants DEF OneInv
  <2> QED
    BY <1>2, <2>2, DirectoryTypesStep, EarnedStep, GrantedStep, DirectoryConstants
<1> QED BY <1>1, <1>2, PTL DEF DirectorySpec

(***************************************************************************)
(* In an outage the policy grace lets in only within the grace period of   *)
(* the account's last active minute: neither being let in nor a restart,   *)
(* which reads the stored stamp, lengthens the period                      *)
(* (directoryOutageDenies, recordDirectoryCheck, lastDirectoryCheck).      *)
(***************************************************************************)
THEOREM GraceEarned == DirectorySpec => []GraceIsEarned
BY DirectoryInvariant, PTL DEF EarnedInv

(***************************************************************************)
(* Within the grace period, less the throttle of the stamps, nobody is     *)
(* turned away, restarts included, unless a stamp was not saved or an      *)
(* older one overtook a newer (recordDirectoryCheck, lastDirectoryCheck).  *)
(***************************************************************************)
THEOREM GraceGranted == DirectorySpec => []GraceIsGranted
BY DirectoryInvariant, PTL DEF GrantedInv

(***************************************************************************)
(* A person has one record while first logins do not overlap and use the   *)
(* sAMAccountName, whatever forms of the name tickets carry                *)
(* (resolveKerberosUser, authenticateUser, syncUserFromLDAP).              *)
(***************************************************************************)
THEOREM OneRecord == DirectorySpec => []OneRecordPerPerson
<1>1. ASSUME DirectoryTypes, OneInv PROVE OneRecordPerPerson
  <2> SUFFICES ASSUME NamesInv, NEW r \in Record, NEW s \in Record, Exists(r), Exists(s)
               PROVE  r = s
    BY <1>1 DEF OneRecordPerPerson, OneInv, Exists
  <2>1. CASE ldap[Sam] # NoRecord BY <2>1 DEF NamesInv, Mapping
  <2>2. CASE ldap[Sam] = NoRecord BY <2>2, DirectoryConstants DEF NamesInv, DirectoryConstants
  <2> QED BY <2>1, <2>2
<1> QED BY <1>1, DirectoryInvariant, PTL

=============================================================================
