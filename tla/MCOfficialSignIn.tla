-------------------------- MODULE MCOfficialSignIn --------------------------
(***************************************************************************)
(* An instance of OfficialSignIn for TLC.  Challenges and requests are     *)
(* interchangeable, and only invariants are checked.                       *)
(***************************************************************************)
EXTENDS OfficialSignIn, TLC

Interchangeable == Permutations(Challenges) \cup Permutations(Sessions)
=============================================================================
