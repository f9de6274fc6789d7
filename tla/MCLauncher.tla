---------------------------- MODULE MCLauncher ----------------------------
(* Small instances of Launcher. *)
EXTENDS Launcher

CONSTANTS p1, p2, p3, p4

===========================================================================
