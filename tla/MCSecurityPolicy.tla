-------------------------- MODULE MCSecurityPolicy --------------------------
(***************************************************************************)
(* Instances of SecurityPolicy for TLC: an ACCEPT for one host, an IPSec   *)
(* rule with a long comment and a catch-all DROP.                          *)
(***************************************************************************)
EXTENDS SecurityPolicy

MCAccept == [ZeroRule EXCEPT !.src_ip = 1, !.dst_port = 80, !.protocol = 6, !.comment = 1]
MCIpsec  == [ZeroRule EXCEPT !.chain = "OUTPUT", !.dst_port = 500, !.protocol = 17, !.comment = 3]
MCDeny   == [ZeroRule EXCEPT !.action = "DROP"]

MCRule == {MCAccept, MCIpsec, MCDeny}
=============================================================================
