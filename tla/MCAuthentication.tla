-------------------------- MODULE MCAuthentication --------------------------
(***************************************************************************)
(* Instances of Authentication for TLC.  Phone numbers are interchangeable *)
(* and so are handlers.                                                    *)
(***************************************************************************)
EXTENDS Authentication, TLC

Symmetry == Permutations(Msisdns) \cup Permutations(Handlers)
=============================================================================
