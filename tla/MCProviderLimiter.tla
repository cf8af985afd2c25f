-------------------------- MODULE MCProviderLimiter --------------------------
(***************************************************************************)
(* Instances of ProviderLimiter for TLC.  Callers are interchangeable, and *)
(* no constant tells them apart, so the safety run uses symmetry.          *)
(***************************************************************************)
EXTENDS ProviderLimiter, TLC

CallerSymmetry == Permutations(Caller)
=============================================================================
