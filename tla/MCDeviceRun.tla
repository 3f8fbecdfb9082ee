---------------------------- MODULE MCDeviceRun ----------------------------
(***************************************************************************)
(* The image of MCImageFlow, for as long as sc_main lets the device run.   *)
(***************************************************************************)
EXTENDS MCImageFlow, DeviceRun
=============================================================================
