----------------------------- MODULE MCListener -----------------------------
(* Model values for the safety run of Listener. *)
EXTENDS Listener, TLC

\* Instances are interchangeable: every action treats them alike.
InstanceSymmetry == Permutations(Instances)
=============================================================================
