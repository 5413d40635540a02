------------------------------ MODULE Consent ------------------------------
(***************************************************************************)
(* What the program promises a citizen about a complaint, with nothing of  *)
(* how it is kept: the citizen answers once; only a Yes files the          *)
(* complaint, in the commit that records it; and only a complaint that was *)
(* agreed to is handed to a department (core.py: finalize_grievance,       *)
(* cancel_grievance; db/models.py: the lifecycle of Grievance).            *)
(*                                                                         *)
(* Reopened are the complaints whose status a late commit may overwrite:   *)
(* they may seem unfiled, or unanswered after a No, but a Yes stays and    *)
(* they are never filed without one.  Grievance implements this module.    *)
(***************************************************************************)
CONSTANTS Complaints, Reopened

VARIABLES
    answer,  \* "none", "yes" or "no", for each complaint
    filed,   \* whether the citizen sees the complaint as filed
    handed   \* whether a department was handed the complaint

vars == <<answer, filed, handed>>

Init ==
    /\ answer = [g \in Complaints |-> "none"]
    /\ filed = [g \in Complaints |-> FALSE]
    /\ handed = [g \in Complaints |-> FALSE]

Agree(g) ==
    /\ answer[g] = "none" \/ g \in Reopened
    /\ answer' = [answer EXCEPT ![g] = "yes"]
    /\ filed' = [filed EXCEPT ![g] = TRUE]
    /\ UNCHANGED handed

Refuse(g) ==
    /\ answer[g] = "none"
    /\ answer' = [answer EXCEPT ![g] = "no"]
    /\ UNCHANGED <<filed, handed>>

HandOver(g) ==
    /\ answer[g] = "yes"
    /\ filed[g] \/ g \in Reopened
    /\ handed' = [handed EXCEPT ![g] = TRUE]
    /\ UNCHANGED <<answer, filed>>

\* A late commit overwrites the status: a Yes and what was handed over stay.
Reopen(g) ==
    /\ g \in Reopened
    /\ \/ /\ answer[g] = "yes"
          /\ \E f \in BOOLEAN : filed' = [filed EXCEPT ![g] = f]
          /\ UNCHANGED answer
       \/ /\ answer[g] # "yes"
          /\ \E a \in {"none", "no"} : answer' = [answer EXCEPT ![g] = a]
          /\ UNCHANGED filed
    /\ UNCHANGED handed

Next ==
    \E g \in Complaints : Agree(g) \/ Refuse(g) \/ HandOver(g) \/ Reopen(g)

Spec == Init /\ [][Next]_vars
=============================================================================
