---------------------------- MODULE MC_LiveLoop ----------------------------
(***************************************************************************)
(* Instances of LiveLoop for TLC.  The config files differ in their bounds *)
(* and in CrashWhileSettling only.                                         *)
(***************************************************************************)
EXTENDS LiveLoop
=============================================================================
