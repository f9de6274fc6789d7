---------------------------- MODULE MCTrayMenu ----------------------------
(* Small instances of TrayMenu. *)
EXTENDS TrayMenu

CONSTANTS s1, s2, s3

===========================================================================
