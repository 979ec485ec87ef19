-------------------------- MODULE MCMTLDeviceCache --------------------------
(* Render threads are interchangeable. *)
EXTENDS MTLDeviceCache, TLC

ThreadSymmetry == Permutations(Threads)
=============================================================================
