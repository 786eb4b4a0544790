----------------------------- MODULE MCManager -----------------------------
(***************************************************************************)
(* Instances of Manager for TLC.                                           *)
(***************************************************************************)
EXTENDS Manager
=============================================================================
