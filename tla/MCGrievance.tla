----------------------------- MODULE MCGrievance -----------------------------
(***************************************************************************)
(* Instances of Grievance for TLC.                                         *)
(***************************************************************************)
EXTENDS Grievance

\* Every decision classification and policy can reach.
AllDecisions == Decision

\* Decisions with dispatch enabled: a reviewed route row exists.
LiveDecisions == {d \in AllDecisions : d.live}

\* A held and a normal decision, dispatch enabled.
TwoDecisions == {d \in LiveDecisions : d.hold <=> d.prio = "priority"}

\* Something has happened to the complaint since it was drafted.
Begun(g) ==
    \/ row[g] # Draft
    \/ chat[g] \notin {"web", "processing"}
    \/ \E s \in Sessions : task[s].on = g

\* Bound: a behaviour is about one complaint, whichever kind of complaint it is.
OneBegun == \A g, h \in Complaints : Begun(g) /\ Begun(h) => g = h
=============================================================================
