---------------------------- MODULE IpsecTunnel ----------------------------
(***************************************************************************)
(* The tunnel files of src/security/security_policy.c.  A tunnel is a      *)
(* configuration and a secrets file under /etc/ipsec.d, written one after  *)
(* the other by sec_ipsec_create_tunnel and deleted one after the other by *)
(* sec_ipsec_remove_tunnel.  Either may fail at any call, the process may  *)
(* be killed between two calls, and the files outlive it.                  *)
(***************************************************************************)
EXTENDS Naturals

CONSTANTS
    Name,            \* tunnels
    Args             \* what a tunnel is made from: the two addresses and the key

ASSUME ArgsAssumption == {"absent", "empty"} \cap Args = {}

VARIABLES
    conf, secrets,   \* contents of the two files of each tunnel
    mode,            \* is the secrets file readable by its owner only?
    pc, name, args,  \* the call in progress
    ret_conf,        \* did the remove of the configuration fail?
    errno,
    outcome,         \* what the last call for each tunnel told its caller
    ignored          \* did fclose or chmod fail in the last creation of each tunnel?

files == <<conf, secrets, mode>>
vars == <<files, pc, name, args, ret_conf, errno, outcome, ignored>>

Content == {"absent", "empty"} \cup Args
Errno == {"none", "ENOENT", "EACCES"}

TypeOK ==
    /\ conf \in [Name -> Content]
    /\ secrets \in [Name -> Content]
    /\ mode \in [Name -> BOOLEAN]
    /\ pc \in {"idle", "conf", "write conf", "secrets", "write secrets", "chmod",
               "remove conf", "remove secrets"}
    /\ name \in Name
    /\ args \in Args
    /\ ret_conf \in BOOLEAN
    /\ errno \in Errno
    /\ outcome \in [Name -> {"none", "created", "removed", "-EIO", "killed"}]
    /\ ignored \in [Name -> BOOLEAN]

Init ==
    /\ conf = [n \in Name |-> "absent"]
    /\ secrets = [n \in Name |-> "absent"]
    /\ mode = [n \in Name |-> FALSE]
    /\ pc = "idle"
    /\ name \in Name
    /\ args \in Args
    /\ ret_conf = FALSE
    /\ errno = "none"
    /\ outcome = [n \in Name |-> "none"]
    /\ ignored = [n \in Name |-> FALSE]

Goto(from, to) == pc = from /\ pc' = to
Ignored == ignored' = [ignored EXCEPT ![name] = TRUE]
Return(from, what) == Goto(from, "idle") /\ outcome' = [outcome EXCEPT ![name] = what]

----------------------------------------------------------------------------
(* sec_ipsec_create_tunnel.                                                *)
sec_ipsec_create_tunnel(n, a) ==
    /\ Goto("idle", "conf")
    /\ name' = n /\ args' = a
    /\ ignored' = [ignored EXCEPT ![n] = FALSE]
    /\ UNCHANGED <<files, ret_conf, errno, outcome>>

(* fopen(..., "w") empties the file or creates it.                         *)
OpenConf ==
    /\ \/ /\ Goto("conf", "write conf")
          /\ conf' = [conf EXCEPT ![name] = "empty"]
          /\ UNCHANGED outcome
       \/ Return("conf", "-EIO") /\ UNCHANGED conf
    /\ UNCHANGED <<secrets, mode, name, args, ret_conf, errno, ignored>>

(* fprintf and fclose, whose results are not looked at: on a full disk     *)
(* what was buffered is lost.                                              *)
WriteConf ==
    /\ Goto("write conf", "secrets")
    /\ \/ conf' = [conf EXCEPT ![name] = args] /\ UNCHANGED ignored
       \/ Ignored /\ UNCHANGED conf
    /\ UNCHANGED <<secrets, mode, name, args, ret_conf, errno, outcome>>

(* Mutant: a secrets file that cannot be opened is passed over.            *)
OpenSecrets_GoesOn ==
    /\ \/ /\ Goto("secrets", "write secrets")
          /\ secrets' = [secrets EXCEPT ![name] = "empty"]
          /\ UNCHANGED outcome
       \/ Return("secrets", "created") /\ UNCHANGED secrets
    /\ UNCHANGED <<conf, mode, name, args, ret_conf, errno, ignored>>

OpenSecrets ==
    /\ \/ /\ Goto("secrets", "write secrets")
          /\ secrets' = [secrets EXCEPT ![name] = "empty"]
          /\ UNCHANGED outcome
       \/ Return("secrets", "-EIO") /\ UNCHANGED secrets
    /\ UNCHANGED <<conf, mode, name, args, ret_conf, errno, ignored>>

WriteSecrets ==
    /\ Goto("write secrets", "chmod")
    /\ \/ secrets' = [secrets EXCEPT ![name] = args] /\ UNCHANGED ignored
       \/ Ignored /\ UNCHANGED secrets
    /\ UNCHANGED <<conf, mode, name, args, ret_conf, errno, outcome>>

Chmod ==
    /\ Return("chmod", "created")
    /\ \/ mode' = [mode EXCEPT ![name] = TRUE] /\ UNCHANGED ignored
       \/ Ignored /\ UNCHANGED mode
    /\ UNCHANGED <<conf, secrets, name, args, ret_conf, errno>>

----------------------------------------------------------------------------
(* sec_ipsec_remove_tunnel.                                                *)
sec_ipsec_remove_tunnel(n) ==
    /\ Goto("idle", "remove conf")
    /\ name' = n
    /\ UNCHANGED <<files, args, ret_conf, errno, outcome, ignored>>

(* remove(): file f afterwards, whether it failed, and errno.  External.   *)
Removed(f, f2, failed, e) ==
    \/ f[name] # "absent" /\ f2 = [f EXCEPT ![name] = "absent"] /\ ~failed /\ e = errno
    \/ f[name] # "absent" /\ f2 = f /\ failed /\ e = "EACCES"
    \/ f[name] = "absent" /\ f2 = f /\ failed /\ e = "ENOENT"

RemoveConf ==
    /\ Goto("remove conf", "remove secrets")
    /\ \E failed \in BOOLEAN, e \in Errno, f \in [Name -> Content] :
          /\ Removed(conf, f, failed, e)
          /\ conf' = f /\ ret_conf' = failed /\ errno' = e
    /\ UNCHANGED <<secrets, mode, name, args, outcome, ignored>>

(* Mutant: the result of the second remove is not looked at.               *)
RemoveSecrets_Unjudged ==
    /\ \E failed \in BOOLEAN, e \in Errno, f \in [Name -> Content] :
          /\ Removed(secrets, f, failed, e)
          /\ secrets' = f /\ errno' = e
          /\ Return("remove secrets", IF ret_conf /\ e # "ENOENT" THEN "-EIO" ELSE "removed")
    /\ mode' = [mode EXCEPT ![name] = @ /\ secrets'[name] # "absent"]
    /\ UNCHANGED <<conf, name, args, ret_conf, ignored>>

(* Mutant: only the result of the second remove is looked at.              *)
RemoveSecrets_LastOnly ==
    /\ \E failed \in BOOLEAN, e \in Errno, f \in [Name -> Content] :
          /\ Removed(secrets, f, failed, e)
          /\ secrets' = f /\ errno' = e
          /\ Return("remove secrets", IF failed /\ e # "ENOENT" THEN "-EIO" ELSE "removed")
    /\ mode' = [mode EXCEPT ![name] = @ /\ secrets'[name] # "absent"]
    /\ UNCHANGED <<conf, name, args, ret_conf, ignored>>

(* The second remove, and both results judged by the errno it left.        *)
RemoveSecrets ==
    /\ \E failed \in BOOLEAN, e \in Errno, f \in [Name -> Content] :
          /\ Removed(secrets, f, failed, e)
          /\ secrets' = f /\ errno' = e
          /\ Return("remove secrets",
                    IF (ret_conf \/ failed) /\ e # "ENOENT" THEN "-EIO" ELSE "removed")
    /\ mode' = [mode EXCEPT ![name] = @ /\ secrets'[name] # "absent"]
    /\ UNCHANGED <<conf, name, args, ret_conf, ignored>>

Crash ==
    /\ pc # "idle"
    /\ Return(pc, "killed")
    /\ UNCHANGED <<files, name, args, ret_conf, errno, ignored>>

Next ==
    \/ \E n \in Name : sec_ipsec_remove_tunnel(n) \/ \E a \in Args : sec_ipsec_create_tunnel(n, a)
    \/ OpenConf \/ WriteConf \/ OpenSecrets \/ WriteSecrets \/ Chmod
    \/ RemoveConf \/ RemoveSecrets
    \/ Crash

Spec == Init /\ [][Next]_vars

----------------------------------------------------------------------------
(* A tunnel that sec_ipsec_create_tunnel reported as written has both its  *)
(* files, of one set of arguments, and keeps its key private, unless a     *)
(* failure that the code does not look at, of fclose or chmod, came in     *)
(* between; failures that it sees, kills and calls for other tunnels do    *)
(* not change that.                                                        *)
Working(n) == pc # "idle" /\ name = n

CreatedTunnelIsComplete ==
    \A n \in Name : outcome[n] = "created" /\ ~ignored[n] /\ ~Working(n) =>
        conf[n] \in Args /\ secrets[n] = conf[n] /\ mode[n]

(* After sec_ipsec_remove_tunnel returned 0 the key is gone from the disk, *)
(* even if the call followed a creation that failed or was killed halfway. *)
RemovedSecretIsGone ==
    \A n \in Name : outcome[n] = "removed" /\ ~Working(n) => secrets[n] = "absent"

(* A 0 for a tunnel that still has its key means that both files are gone. *)
(* One without a key may keep its configuration: the errno that judges the *)
(* first remove is then the ENOENT of the second.                          *)
WholeTunnelIsRemoved ==
    [][pc = "remove secrets" /\ outcome'[name] = "removed" /\ pc' = "idle" /\ secrets[name] # "absent" =>
          conf'[name] = "absent" /\ secrets'[name] = "absent"]_vars
=============================================================================
