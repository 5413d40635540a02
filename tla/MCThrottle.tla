----------------------------- MODULE MCThrottle -----------------------------
(***************************************************************************)
(* An instance of Throttle for TLC.                                        *)
(***************************************************************************)
EXTENDS Throttle, TLC

CallerSymmetry == Permutations(Callers)
=============================================================================
