--------------------------- MODULE MCIpsecTunnel ---------------------------
(***************************************************************************)
(* Instances of IpsecTunnel for TLC.  Neither tunnels nor arguments are    *)
(* told apart by the code, so both may be permuted.                        *)
(***************************************************************************)
EXTENDS IpsecTunnel, TLC

Symmetry == Permutations(Name) \cup Permutations(Args)
=============================================================================
