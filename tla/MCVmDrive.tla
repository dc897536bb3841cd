------------------------------ MODULE MCVmDrive ------------------------------
(***************************************************************************)
(* VmDrive for TLC: the values of the constants are in the cfg files.       *)
(***************************************************************************)
EXTENDS VmDrive
=============================================================================
