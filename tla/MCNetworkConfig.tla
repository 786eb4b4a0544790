-------------------------- MODULE MCNetworkConfig --------------------------
(***************************************************************************)
(* Instances of NetworkConfig for TLC: the default address, one with a     *)
(* mask that is not the one of its class, a multicast address, and masks   *)
(* that are empty or have holes, all of which app_config_validate accepts. *)
(***************************************************************************)
EXTENDS NetworkConfig

MCConfig ==
    [ ip   : {<<192, 168, 0, 100>>, <<10, 0, 0, 1>>, <<224, 0, 0, 1>>},
      mask : {<<255, 255, 255, 0>>, <<255, 240, 0, 0>>, <<255, 0, 255, 0>>, <<0, 0, 0, 0>>} ]

(* Bound: the interface and the tuning share no state, so it is enough to  *)
(* see any calls for the interface on a host whose tuning is as it booted, *)
(* and any calls for the tuning on a host without an address.              *)
TuningUntouched == applied = Unknown /\ current = Unknown /\ \A f \in SwitchFile : proc[f] = 1

InterfaceUntouched ==
    /\ ret = "none" /\ got = None /\ given = None /\ ~raced
    /\ link.addr = ZeroAddress /\ link.flags = {}
    /\ cfg = [ip |-> <<192, 168, 0, 100>>, mask |-> <<255, 255, 255, 0>>]

MCNext ==
    \/ TuningUntouched /\ InterfaceNext /\ UNCHANGED tuning
    \/ pc = "idle" /\ InterfaceUntouched /\ TuningNext /\ UNCHANGED interface

MCSpec == Init /\ [][MCNext]_vars

MCDefault == [ip : {<<192, 168, 0, 100>>}, mask : {<<255, 255, 255, 0>>}]
=============================================================================
