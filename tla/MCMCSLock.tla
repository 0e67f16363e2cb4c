----------------------------- MODULE MCMCSLock -----------------------------
(* Three threads and two locks: one waits while one links and one unlocks. *)
EXTENDS MCSLock
=============================================================================
