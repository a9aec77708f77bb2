----------------------------- MODULE MCRecovery -----------------------------
(* CrashRecovery for TLC; the cfg files give the constants their values. *)
EXTENDS CrashRecovery
=============================================================================
