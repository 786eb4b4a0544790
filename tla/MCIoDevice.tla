----------------------------- MODULE MCIoDevice -----------------------------
(***************************************************************************)
(* Instances of IoDevice for TLC.                                          *)
(***************************************************************************)
EXTENDS IoDevice
=============================================================================
