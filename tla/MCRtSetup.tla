----------------------------- MODULE MCRtSetup -----------------------------
(***************************************************************************)
(* Instances of RtSetup for TLC.                                           *)
(***************************************************************************)
EXTENDS RtSetup
=============================================================================
