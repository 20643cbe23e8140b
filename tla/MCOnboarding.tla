---------------------------- MODULE MCOnboarding ----------------------------
(***************************************************************************)
(* Onboarding with two requests at a time.                                 *)
(***************************************************************************)
EXTENDS Onboarding, TLC

Symmetry == Permutations(Admins)
=============================================================================
