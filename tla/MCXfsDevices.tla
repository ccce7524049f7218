---------------------------- MODULE MCXfsDevices ----------------------------
(* Three commands to one device, in every order of their delays.           *)
EXTENDS XfsDevices
=============================================================================
