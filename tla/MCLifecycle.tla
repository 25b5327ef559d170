------------------------------ MODULE MCLifecycle ------------------------------
(* Instances of Lifecycle are given by their configuration files alone: every *)
(* constant is a flag or a small number.                                      *)
EXTENDS Lifecycle
=============================================================================
