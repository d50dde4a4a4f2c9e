-------------------------- MODULE MCThreadRegistry --------------------------
(* Instances of the registration protocol for TLC. *)
EXTENDS ThreadRegistry
=============================================================================
