------------------------------ MODULE MCReview ------------------------------
(***************************************************************************)
(* An instance of Review for TLC: the legacy key stands for category q.    *)
(***************************************************************************)
EXTENDS Review

CONSTANTS q, old

LegacyKeys == [k \in {old} |-> q]
=============================================================================
