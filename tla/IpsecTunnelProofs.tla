------------------------- MODULE IpsecTunnelProofs -------------------------
(***************************************************************************)
(* Proofs about the tunnel files, for every set of tunnels and arguments.  *)
(***************************************************************************)
EXTENDS IpsecTunnel, TLAPS

(* The type invariant is kept by every call, failure and kill.             *)
LEMMA TypeIsKept == TypeOK /\ [Next]_vars => TypeOK'
<1> SUFFICES ASSUME TypeOK, [Next]_vars PROVE TypeOK'
  OBVIOUS
<1> USE DEF TypeOK, Content, Errno
<1>1. ASSUME NEW n \in Name, sec_ipsec_remove_tunnel(n) PROVE TypeOK'
  BY <1>1 DEF sec_ipsec_remove_tunnel, Goto, files
<1>2. ASSUME NEW n \in Name, NEW a \in Args, sec_ipsec_create_tunnel(n, a) PROVE TypeOK'
  BY <1>2 DEF sec_ipsec_create_tunnel, Goto, files
<1>3. CASE OpenConf
  BY <1>3 DEF OpenConf, Goto, Return
<1>4. CASE WriteConf
  BY <1>4 DEF WriteConf, Goto, Ignored
<1>5. CASE OpenSecrets
  BY <1>5 DEF OpenSecrets, Goto, Return
<1>6. CASE WriteSecrets
  BY <1>6 DEF WriteSecrets, Goto, Ignored
<1>7. CASE Chmod
  BY <1>7 DEF Chmod, Goto, Return, Ignored
<1>8. CASE RemoveConf
  BY <1>8 DEF RemoveConf, Goto
<1>9. CASE RemoveSecrets
  <2>1. PICK failed \in BOOLEAN, e \in Errno, f \in [Name -> Content] :
           /\ secrets' = f /\ errno' = e
           /\ Return("remove secrets",
                     IF (ret_conf \/ failed) /\ e # "ENOENT" THEN "-EIO" ELSE "removed")
    BY <1>9 DEF RemoveSecrets
  <2>2. outcome' \in [Name -> {"none", "created", "removed", "-EIO", "killed"}] /\ pc' = "idle"
    BY <2>1 DEF Return, Goto
  <2>3. mode' \in [Name -> BOOLEAN]
    BY <1>9 DEF RemoveSecrets
  <2> QED BY <2>1, <2>2, <2>3, <1>9 DEF RemoveSecrets
<1>10. CASE Crash
  BY <1>10 DEF Crash, Goto, Return, files
<1>11. CASE UNCHANGED vars
  BY <1>11 DEF vars, files
<1> QED BY <1>1, <1>2, <1>3, <1>4, <1>5, <1>6, <1>7, <1>8, <1>9, <1>10, <1>11 DEF Next

(* TypeOK is an invariant: neither files nor outcomes leave their types.   *)
THEOREM TypeCorrect == Spec => []TypeOK
<1>1. Init => TypeOK
  BY DEF Init, TypeOK, Content, Errno
<1> QED BY <1>1, TypeIsKept, PTL DEF Spec

----------------------------------------------------------------------------
(* What a creation in progress has already put on the disk.                *)
CreationInv ==
    /\ pc \in {"secrets", "write secrets", "chmod"} /\ ~ignored[name] => conf[name] = args
    /\ pc = "chmod" /\ ~ignored[name] => secrets[name] = args

(* How the first remove left the configuration: gone, or failed with the   *)
(* error that the end of the call will look at.                            *)
RemovalInv == pc = "remove secrets" => conf[name] = "absent" \/ (ret_conf /\ errno = "EACCES")

FilesInv == TypeOK /\ CreationInv /\ RemovalInv /\ CreatedTunnelIsComplete /\ RemovedSecretIsGone

(* Every call, failure and kill keeps the files in step with what the      *)
(* callers of both functions were told.                                    *)
LEMMA FilesInvIsKept == FilesInv /\ [Next]_vars => FilesInv'
<1> SUFFICES ASSUME FilesInv, [Next]_vars PROVE FilesInv'
  OBVIOUS
<1>0. TypeOK /\ TypeOK'
  BY TypeIsKept DEF FilesInv
<1> USE <1>0
<1> USE DEF FilesInv, CreationInv, RemovalInv, CreatedTunnelIsComplete, RemovedSecretIsGone, Working
<1>1. ASSUME NEW n \in Name, sec_ipsec_remove_tunnel(n) PROVE FilesInv'
  BY <1>1 DEF sec_ipsec_remove_tunnel, Goto, files, TypeOK
<1>2. ASSUME NEW n \in Name, NEW a \in Args, sec_ipsec_create_tunnel(n, a) PROVE FilesInv'
  BY <1>2 DEF sec_ipsec_create_tunnel, Goto, files, TypeOK
<1>3. CASE OpenConf
  BY <1>3 DEF OpenConf, Goto, Return, TypeOK
<1>4. CASE WriteConf
  BY <1>4 DEF WriteConf, Goto, Ignored, TypeOK
<1>5. CASE OpenSecrets
  <2>1. pc = "secrets" /\ UNCHANGED <<conf, mode, name, args, ret_conf, errno, ignored>>
    BY <1>5 DEF OpenSecrets, Goto, Return
  <2>2. \A n \in Name : n # name => secrets'[n] = secrets[n] /\ outcome'[n] = outcome[n]
    BY <1>5 DEF OpenSecrets, Return, TypeOK
  <2>3. pc' = "write secrets" \/ (pc' = "idle" /\ outcome'[name] = "-EIO")
    BY <1>5 DEF OpenSecrets, Goto, Return, TypeOK
  <2> QED BY <2>1, <2>2, <2>3
<1>6. CASE WriteSecrets
  BY <1>6 DEF WriteSecrets, Goto, Ignored, TypeOK
<1>7. CASE Chmod
  BY <1>7 DEF Chmod, Goto, Return, Ignored, TypeOK
<1>8. CASE RemoveConf
  <2>0. PICK failed \in BOOLEAN, e \in Errno, f \in [Name -> Content] :
           Removed(conf, f, failed, e) /\ conf' = f /\ ret_conf' = failed /\ errno' = e
    BY <1>8 DEF RemoveConf
  <2>1. \A n \in Name : n # name => conf'[n] = conf[n]
    <3>1. conf' = [conf EXCEPT ![name] = "absent"] \/ conf' = conf
      BY <2>0 DEF Removed
    <3> QED BY <3>1 DEF TypeOK
  <2>2. /\ pc' = "remove secrets"
        /\ UNCHANGED <<secrets, mode, name, args, outcome, ignored>>
    BY <1>8 DEF RemoveConf, Goto
  <2>3. conf'[name] = "absent" \/ (ret_conf' /\ errno' = "EACCES")
    <3>1. \/ conf' = [conf EXCEPT ![name] = "absent"]
          \/ ret_conf' /\ errno' = "EACCES"
          \/ conf'[name] = "absent"
      BY <2>0 DEF Removed
    <3> QED BY <3>1 DEF TypeOK
  <2> QED BY <2>1, <2>2, <2>3 DEF TypeOK
<1>9. CASE RemoveSecrets
  <2>0. PICK failed \in BOOLEAN, e \in Errno, f \in [Name -> Content] :
           /\ Removed(secrets, f, failed, e) /\ secrets' = f
           /\ Return("remove secrets",
                     IF (ret_conf \/ failed) /\ e # "ENOENT" THEN "-EIO" ELSE "removed")
    BY <1>9 DEF RemoveSecrets
  <2>1. \A n \in Name : n # name => secrets'[n] = secrets[n] /\ mode'[n] = mode[n]
    <3>1. secrets' = [secrets EXCEPT ![name] = "absent"] \/ secrets' = secrets
      BY <2>0 DEF Removed
    <3>2. mode' = [mode EXCEPT ![name] = @ /\ secrets'[name] # "absent"]
      BY <1>9 DEF RemoveSecrets
    <3> QED BY <3>1, <3>2 DEF TypeOK
  <2>2. secrets'[name] # "absent" => failed /\ e = "EACCES"
    <3>1. \/ secrets' = [secrets EXCEPT ![name] = "absent"]
          \/ failed /\ e = "EACCES"
          \/ secrets'[name] = "absent"
      BY <2>0 DEF Removed
    <3> QED BY <3>1 DEF TypeOK
  <2>3. /\ pc' = "idle"
        /\ outcome'[name] # "created"
        /\ outcome'[name] = "removed" => secrets'[name] = "absent"
        /\ \A n \in Name : n # name => outcome'[n] = outcome[n]
    BY <2>0, <2>2 DEF Return, Goto, TypeOK
  <2>4. UNCHANGED <<conf, name, args, ignored>>
    BY <1>9 DEF RemoveSecrets
  <2> QED BY <2>1, <2>3, <2>4
<1>10. CASE Crash
  BY <1>10 DEF Crash, Goto, Return, files, TypeOK
<1>11. CASE UNCHANGED vars
  BY <1>11 DEF vars, files
<1> QED BY <1>1, <1>2, <1>3, <1>4, <1>5, <1>6, <1>7, <1>8, <1>9, <1>10, <1>11 DEF Next

LEMMA FilesInvHolds == Spec => []FilesInv
<1>1. Init => TypeOK
  BY DEF Init, TypeOK, Content, Errno
<1>2. Init => CreationInv /\ RemovalInv /\ CreatedTunnelIsComplete /\ RemovedSecretIsGone
  BY DEF Init, CreationInv, RemovalInv, CreatedTunnelIsComplete, RemovedSecretIsGone
<1>3. Init => FilesInv
  BY <1>1, <1>2 DEF FilesInv
<1> QED BY <1>3, FilesInvIsKept, PTL DEF Spec

(* A tunnel reported as written has both files, of the same arguments, and *)
(* a private key, unless fclose or chmod failed unseen.                    *)
THEOREM CreatedIsComplete == Spec => []CreatedTunnelIsComplete
<1>1. FilesInv => CreatedTunnelIsComplete
  BY DEF FilesInv
<1> QED BY <1>1, FilesInvHolds, PTL

(* The key of a tunnel reported as removed is gone, although one errno     *)
(* judges two removes.                                                     *)
THEOREM RemovedKeyIsGone == Spec => []RemovedSecretIsGone
<1>1. FilesInv => RemovedSecretIsGone
  BY DEF FilesInv
<1> QED BY <1>1, FilesInvHolds, PTL

(* A 0 of sec_ipsec_remove_tunnel for a tunnel that has its key means that *)
(* both files are gone: then the errno of the first remove is still there  *)
(* when it is judged.                                                      *)
THEOREM WholeTunnelGoes == Spec => WholeTunnelIsRemoved
<1> DEFINE Whole ==
      pc = "remove secrets" /\ outcome'[name] = "removed" /\ pc' = "idle" /\ secrets[name] # "absent" =>
          conf'[name] = "absent" /\ secrets'[name] = "absent"
<1>1. ASSUME FilesInv, [Next]_vars PROVE [Whole]_vars
  <2> SUFFICES ASSUME pc = "remove secrets", outcome'[name] = "removed", pc' = "idle",
                      secrets[name] # "absent"
               PROVE  conf'[name] = "absent" /\ secrets'[name] = "absent"
    OBVIOUS
  <2>1. TypeOK /\ RemovalInv
    BY <1>1 DEF FilesInv
  <2>2. RemoveSecrets
    <3>1. ~Crash
      BY <2>1 DEF Crash, Return, TypeOK
    <3> QED BY <1>1, <3>1 DEF Next, vars, sec_ipsec_remove_tunnel, sec_ipsec_create_tunnel,
               OpenConf, WriteConf, OpenSecrets, WriteSecrets, Chmod, RemoveConf, Return, Goto
  <2>3. PICK failed \in BOOLEAN, e \in Errno, f \in [Name -> Content] :
           /\ Removed(secrets, f, failed, e) /\ secrets' = f
           /\ Return("remove secrets",
                     IF (ret_conf \/ failed) /\ e # "ENOENT" THEN "-EIO" ELSE "removed")
    BY <2>2 DEF RemoveSecrets
  <2>4. (ret_conf \/ failed) => e = "ENOENT"
    BY <2>1, <2>3 DEF Return, TypeOK
  <2>5. ~failed /\ e = errno /\ secrets' = [secrets EXCEPT ![name] = "absent"]
    BY <2>3, <2>4 DEF Removed
  <2>6. conf[name] = "absent" /\ conf' = conf
    BY <2>1, <2>2, <2>4, <2>5 DEF RemovalInv, RemoveSecrets
  <2> QED BY <2>1, <2>5, <2>6 DEF TypeOK
<1> QED BY <1>1, FilesInvHolds, PTL DEF Spec, WholeTunnelIsRemoved
=============================================================================
