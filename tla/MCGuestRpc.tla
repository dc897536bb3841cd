------------------------------ MODULE MCGuestRpc ------------------------------
(***************************************************************************)
(* GuestRpc for TLC: three calls, two blocks.                               *)
(***************************************************************************)
EXTENDS GuestRpc
=============================================================================
