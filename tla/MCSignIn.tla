------------------------------ MODULE MCSignIn ------------------------------
(***************************************************************************)
(* Values for the model-checking run of SignIn.                            *)
(***************************************************************************)
EXTENDS SignIn, TLC

\* No definition and no property tells one session from another.
SessionsAlike == Permutations(Sessions)
=============================================================================
