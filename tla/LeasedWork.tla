----------------------------- MODULE LeasedWork -----------------------------
(***************************************************************************)
(* What a leased row promises: a piece of work is done by one actor at a   *)
(* time, may be taken over once that actor has stopped, and is closed      *)
(* once.  The queue of pipeline jobs (JobQueue) and the outgoing replies   *)
(* (Outbox) implement it, as long as work ends within its lease            *)
(* (repositories/messages.py, claim_outbound: "Only one caller wins").     *)
(***************************************************************************)
CONSTANTS
    Items,  \* pieces of work
    Actors  \* who does them

VARIABLES
    state,   \* "absent", "open" or "closed", for each item
    holders  \* the actors at work on each item

vars == <<state, holders>>

Init ==
    /\ state = [i \in Items |-> "absent"]
    /\ holders = [i \in Items |-> {}]

Add(i) ==
    /\ state[i] = "absent"
    /\ state' = [state EXCEPT ![i] = "open"]
    /\ UNCHANGED holders

\* Actor a takes up some open items that nobody is at work on.
Take(a, new) ==
    /\ \A i \in new : state[i] = "open" /\ holders[i] = {}
    /\ holders' = [i \in Items |-> IF i \in new THEN {a} ELSE holders[i]]
    /\ UNCHANGED state

\* Actor a stops work on some items, finished or not.
Release(a, some) ==
    /\ \A i \in some : holders[i] = {a}
    /\ holders' = [i \in Items |-> IF i \in some THEN {} ELSE holders[i]]
    /\ UNCHANGED state

\* Actor a closes an open item that nobody else is at work on.
Close(a, i) ==
    /\ state[i] = "open"
    /\ holders[i] \subseteq {a}
    /\ state' = [state EXCEPT ![i] = "closed"]
    /\ holders' = [holders EXCEPT ![i] = {}]

Next ==
    \/ \E i \in Items : Add(i)
    \/ \E a \in Actors, is \in SUBSET Items : Take(a, is) \/ Release(a, is)
    \/ \E a \in Actors, i \in Items : Close(a, i)

Spec == Init /\ [][Next]_vars
=============================================================================
