-------------------------- MODULE MCSecureDatagram --------------------------
(* Threads of one side are interchangeable. *)
EXTENDS SecureDatagram, TLC

ThreadSymmetry == Permutations(Senders) \cup Permutations(Receivers)
=============================================================================
