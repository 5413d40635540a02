----------------------------- MODULE DedupProofs -----------------------------
(***************************************************************************)
(* Theorems about Dedup, for any complaints, nearness and calls.           *)
(***************************************************************************)
EXTENDS Dedup, FiniteSetTheorems, TLAPS

-----------------------------------------------------------------------------
(***************************************************************************)
(* Type correctness.                                                       *)
(***************************************************************************)

TInv ==
    /\ TypeOK
    /\ \A t \in Confirms :
          txn[t].pc \in {"attach", "attached"} => txn[t].found \in Complaints

LEMMA OfComplaint ==
    /\ \A t \in Confirms : Of[t] \in Complaints
    /\ \A r \in Rewrites : Of[r] \in Complaints
BY DedupAssumption

LEMMA TInvInit == Init => TInv
BY DedupAssumption DEF Init, TInv, TypeOK, Txn, Rewrite, Status, Checked

LEMMA OverwriteTyped ==
    ASSUME TInv, NEW r \in Rewrites, NEW s \in Status, Overwrite(r, s)
    PROVE  TInv'
<1>1. Of[r] \in Complaints
  BY OfComplaint
<1>2. /\ status' = [status EXCEPT ![Of[r]] = s]
      /\ \E pc \in {"over", "back"} :
            rewrite' = [rewrite EXCEPT ![r].pc = pc]
      /\ UNCHANGED <<category, open, master, count, lock, txn, due, calling>>
  BY DEF Overwrite, SetStatus
<1> QED  BY <1>1, <1>2 DEF TInv, TypeOK, Rewrite

LEMMA TInvNext == TInv /\ [Next]_vars => TInv'
<1> SUFFICES ASSUME TInv, [Next]_vars PROVE TInv'
  OBVIOUS
<1>o. /\ \A t \in Confirms : Of[t] \in Complaints
      /\ \A r \in Rewrites : Of[r] \in Complaints
  BY OfComplaint
<1>n. None \notin Complaints /\ None \notin Confirms
  BY DedupAssumption
<1>s. /\ \A s \in {"registered", "pending_window", "dispatching", "submitted",
                   "dispatch_failed", "duplicate", "cancelled"} : s \in Status
      /\ Checked \subseteq Status
  BY DEF Status, Filed, Standing
<1> USE DEF TInv, TypeOK
<1>1. ASSUME NEW t \in Confirms, FileAtOnce(t) PROVE TInv'
  BY <1>1, <1>o, <1>s DEF FileAtOnce, SetStatus, Release, Txn
<1>2. ASSUME NEW t \in Confirms, Register(t) PROVE TInv'
  BY <1>2, <1>o DEF Register, Txn
<1>3. ASSUME NEW t \in Confirms, FindDuplicate(t) PROVE TInv'
  <2>1. Candidates(Of[t]) \subseteq Complaints
    BY DEF Candidates
  <2>2. \A m \in Complaints : count[m] \in Nat
    OBVIOUS
  <2>3. UNCHANGED <<status, category, open, master, count, lock, rewrite, due,
                    calling>>
    BY <1>3 DEF FindDuplicate
  <2>4. CASE \E m \in Candidates(Of[t]) : Found(t, m)
    <3>1. PICK m \in Complaints :
             txn' = [txn EXCEPT ![t] = [pc |-> "attach", found |-> m,
                                        seen |-> count[m]]]
      BY <2>1, <2>4 DEF Found
    <3> QED  BY <2>2, <2>3, <3>1 DEF Txn
  <2>5. CASE txn' = [txn EXCEPT ![t].pc = "enter"]
    BY <2>3, <2>5 DEF Txn
  <2> QED  BY <1>3, <2>4, <2>5 DEF FindDuplicate
<1>4. ASSUME NEW t \in Confirms, AttachToMaster(t) PROVE TInv'
  <2>1. txn[t].found \in Complaints /\ txn[t].seen + 1 \in Nat
    BY <1>4 DEF AttachToMaster, Txn
  <2> QED  BY <1>4, <1>o, <1>s, <2>1
           DEF AttachToMaster, NewCount, SetStatus, Release, Txn
<1>5. ASSUME NEW t \in Confirms, EnterWindow(t) PROVE TInv'
  BY <1>5, <1>o, <1>s DEF EnterWindow, SetStatus, Release, Txn
<1>6. ASSUME NEW t \in Confirms, Rollback(t) PROVE TInv'
  BY <1>6, <1>o DEF Rollback, Release, Txn
<1>7. ASSUME NEW g \in Complaints, WindowExpires(g) \/ FetchDue(g)
      PROVE  TInv'
  BY <1>7 DEF WindowExpires, FetchDue
<1>8. ASSUME NEW g \in Complaints, RefuseDispatch(g) \/ BeginDispatch(g)
      PROVE  TInv'
  BY <1>8, <1>s DEF RefuseDispatch, BeginDispatch, SetStatus
<1>9. ASSUME NEW g \in Complaints, EndDispatch(g) PROVE TInv'
  BY <1>9, <1>s DEF EndDispatch, SetStatus
<1>10. ASSUME NEW g \in Complaints, UpdateReview(g) PROVE TInv'
  BY <1>10 DEF UpdateReview
<1>11. ASSUME NEW r \in Rewrites, BeginCheck(r) PROVE TInv'
  BY <1>11, <1>o DEF BeginCheck, Rewrite
<1>12. ASSUME NEW r \in Rewrites, EndCheck(r) PROVE TInv'
  <2>1. CASE \E s \in Checked : Overwrite(r, s)
    BY <1>s, <2>1, OverwriteTyped
  <2>2. CASE /\ rewrite' = [rewrite EXCEPT ![r].pc = "over"]
             /\ UNCHANGED <<status, category, open, master, count, lock, txn,
                            due, calling>>
    BY <2>2 DEF Rewrite
  <2> QED  BY <1>12, <2>1, <2>2 DEF EndCheck
<1>13. ASSUME NEW r \in Rewrites, CancelGrievance(r) PROVE TInv'
  BY <1>13, <1>s, OverwriteTyped DEF CancelGrievance
<1>14. CASE UNCHANGED vars
  BY <1>14 DEF vars
<1> QED  BY <1>1, <1>2, <1>3, <1>4, <1>5, <1>6, <1>7, <1>8, <1>9, <1>10,
            <1>11, <1>12, <1>13, <1>14 DEF Next

\* Every variable keeps its type.
THEOREM TypeCorrect == Spec => []TypeOK
<1>1. TInv => TypeOK
  BY DEF TInv
<1> QED  BY <1>1, TInvInit, TInvNext, PTL DEF Spec

-----------------------------------------------------------------------------
(***************************************************************************)
(* What a step can do to one complaint.  It is one of three kinds: it      *)
(* commits a confirmation, it overwrites a status, or it moves a complaint *)
(* that stands, or is given to dispatch_grievance, on among the statuses   *)
(* of a complaint that stands.                                             *)
(***************************************************************************)

\* The statuses of a complaint nobody has filed.
Unfiled == {"photo_mismatch", "awaiting_confirmation", "cancelled"}

Filing(t) ==
    /\ txn[t].pc \in {"new", "enter"}
    /\ txn' = [txn EXCEPT ![t].pc = "filed"]
    /\ \E s \in Standing : status' = [status EXCEPT ![Of[t]] = s]
    /\ due' \subseteq due \cup {Of[t]}
    /\ UNCHANGED <<master, count, rewrite, calling>>

Attaching(t) ==
    LET m == txn[t].found
    IN  /\ txn[t].pc = "attach"
        /\ txn' = [txn EXCEPT ![t].pc = "attached"]
        /\ status' = [status EXCEPT ![Of[t]] = "duplicate"]
        /\ master' = [master EXCEPT ![Of[t]] = m]
        /\ count' = [count EXCEPT ![m] = txn[t].seen + 1]
        /\ UNCHANGED <<rewrite, due, calling>>

Searching(t) ==
    /\ \/ /\ txn[t].pc = "search"
          /\ \E m \in Complaints :
                /\ status[m] = "pending_window"
                /\ txn' = [txn EXCEPT ![t] = [pc |-> "attach", found |-> m,
                                              seen |-> count[m]]]
       \/ /\ txn[t].pc \in {"new", "search", "attach", "enter"}
          /\ \E pc \in {"search", "enter", "lost"} :
                txn' = [txn EXCEPT ![t].pc = pc]
    /\ UNCHANGED <<status, master, count, rewrite, due, calling>>

Moving(g) ==
    /\ \/ status' = status
       \/ /\ g \in due \cup calling
          /\ \E s \in Standing : status' = [status EXCEPT ![g] = s]
    /\ \/ due' \subseteq due
       \/ status[g] \in Standing /\ due' = due \cup {g}
    /\ calling' \subseteq calling \cup (due \cap {g})
    /\ UNCHANGED <<master, count, txn, rewrite>>

Rewriting(r) ==
    /\ rewrite[r].pc \in {"new", "check"}
    /\ \/ /\ status' = status
          /\ \/ \E s \in Status :
                   rewrite' = [rewrite EXCEPT ![r] = [pc |-> "check", read |-> s]]
             \/ rewrite' = [rewrite EXCEPT ![r].pc = "over"]
       \/ /\ \E s \in Unfiled : status' = [status EXCEPT ![Of[r]] = s]
          /\ rewrite' = [rewrite EXCEPT ![r].pc = IF status[Of[r]] \in Filed
                                                  THEN "back" ELSE "over"]
    /\ UNCHANGED <<master, count, txn, due, calling>>

Kinds ==
    \/ \E t \in Confirms : Filing(t) \/ Attaching(t) \/ Searching(t)
    \/ \E g \in Complaints : Moving(g)
    \/ \E r \in Rewrites : Rewriting(r)
    \/ UNCHANGED <<status, master, count, txn, rewrite, due, calling>>

LEMMA StepKinds == ASSUME TInv, [Next]_vars PROVE Kinds
<1>o. /\ \A t \in Confirms : Of[t] \in Complaints
      /\ \A r \in Rewrites : Of[r] \in Complaints
  BY OfComplaint
<1>1. ASSUME NEW t \in Confirms, FileAtOnce(t) PROVE Filing(t)
  BY <1>1 DEF FileAtOnce, Filing, Release, SetStatus, Standing
<1>2. ASSUME NEW t \in Confirms, Register(t) PROVE Searching(t)
  BY <1>2 DEF Register, Searching
<1>3. ASSUME NEW t \in Confirms, FindDuplicate(t) PROVE Searching(t)
  <2>1. \A m \in Candidates(Of[t]) :
           m \in Complaints /\ status[m] = "pending_window"
    BY DEF Candidates
  <2> QED  BY <1>3, <2>1 DEF FindDuplicate, Found, Searching
<1>4. ASSUME NEW t \in Confirms, AttachToMaster(t) PROVE Attaching(t)
  BY <1>4 DEF AttachToMaster, Attaching, Release, SetStatus, NewCount
<1>5. ASSUME NEW t \in Confirms, EnterWindow(t) PROVE Filing(t)
  BY <1>5 DEF EnterWindow, Filing, Release, SetStatus, Standing
<1>6. ASSUME NEW t \in Confirms, Rollback(t) PROVE Searching(t)
  BY <1>6 DEF Rollback, Searching, Release
<1>7. ASSUME NEW g \in Complaints, WindowExpires(g) PROVE Moving(g)
  BY <1>7 DEF WindowExpires, Moving
<1>8. ASSUME NEW g \in Complaints, FetchDue(g) PROVE Moving(g)
  BY <1>8 DEF FetchDue, Moving, Standing
<1>9. ASSUME NEW g \in Complaints, RefuseDispatch(g) PROVE Moving(g)
  BY <1>9 DEF RefuseDispatch, Moving, SetStatus, Standing
<1>10. ASSUME NEW g \in Complaints, BeginDispatch(g) PROVE Moving(g)
  BY <1>10 DEF BeginDispatch, Moving, SetStatus, Standing
<1>11. ASSUME NEW g \in Complaints, EndDispatch(g) PROVE Moving(g)
  BY <1>11 DEF EndDispatch, Moving, SetStatus, Standing
<1>12. ASSUME NEW g \in Complaints, UpdateReview(g) PROVE Moving(g)
  BY <1>12 DEF UpdateReview, Moving
<1>13. ASSUME NEW r \in Rewrites, BeginCheck(r) PROVE Rewriting(r)
  <2>1. status[Of[r]] \in Status
    BY <1>o DEF TInv, TypeOK
  <2> QED  BY <1>13, <2>1 DEF BeginCheck, Rewriting
<1>14. ASSUME NEW r \in Rewrites, EndCheck(r) PROVE Rewriting(r)
  BY <1>14 DEF EndCheck, Overwrite, SetStatus, Rewriting, Checked, Unfiled
<1>15. ASSUME NEW r \in Rewrites, CancelGrievance(r) PROVE Rewriting(r)
  BY <1>15 DEF CancelGrievance, Overwrite, SetStatus, Rewriting, Unfiled
<1>16. CASE UNCHANGED vars
  BY <1>16 DEF vars, Kinds
<1> QED  BY <1>1, <1>2, <1>3, <1>4, <1>5, <1>6, <1>7, <1>8, <1>9, <1>10,
            <1>11, <1>12, <1>13, <1>14, <1>15, <1>16 DEF Next, Kinds

-----------------------------------------------------------------------------
(***************************************************************************)
(* Masters.  What an undisturbed complaint's row says follows from its one *)
(* committed confirmation: without one it is not filed and nobody is about *)
(* to dispatch it; one that filed it leaves it standing for itself, and    *)
(* one that attached it leaves it a duplicate.  So a master the search     *)
(* found waiting stands until it is taken back or filed again.             *)
(***************************************************************************)

Settled(g, t) ==
    IF txn[t].pc = "filed" THEN status[g] \in Standing
    ELSE /\ status[g] = "duplicate"
         /\ master[g] = txn[t].found
         /\ g \notin due \cup calling

AsConfirmed(g) ==
    /\ (\A t \in Confirms : Of[t] = g => ~Done(t))
          => status[g] \in Unfiled /\ g \notin due \cup calling
    /\ \A t \in Confirms : Of[t] = g /\ Done(t) => Settled(g, t)

MInv ==
    /\ TInv
    /\ \A g \in Complaints : Undisturbed(g) => AsConfirmed(g)
    /\ \A t \in Confirms :
          txn[t].pc = "attach" /\ Undisturbed(txn[t].found)
             => status[txn[t].found] \in Standing
    /\ \A g \in Complaints :
          status[g] = "duplicate" =>
             /\ master[g] \in Complaints
             /\ Undisturbed(master[g]) => status[master[g]] \in Standing

LEMMA MInvInit == Init => MInv
<1> SUFFICES ASSUME Init PROVE MInv
  OBVIOUS
<1>1. /\ \A g \in Complaints : status[g] \in Checked
      /\ \A t \in Confirms : txn[t].pc = "new"
      /\ due = {} /\ calling = {}
  BY DEF Init
<1> QED  BY <1>1, TInvInit
         DEF MInv, AsConfirmed, Done, Unfiled, Checked

\* What is done stays done, and what disturbed a complaint stays on record.
LEMMA StaysDone ==
    ASSUME TInv, Kinds
    PROVE  /\ \A t \in Confirms :
                 Done(t) => /\ txn'[t] = txn[t]
                            /\ Done(t)'
           /\ \A g \in Complaints : Undisturbed(g)' => Undisturbed(g)
<1>t. txn \in [Confirms -> Txn] /\ rewrite \in [Rewrites -> Rewrite]
  BY DEF TInv, TypeOK
<1>1. \A t \in Confirms : Done(t) => txn'[t] = txn[t]
  <2>1. ASSUME NEW t \in Confirms, Filing(t) \/ Attaching(t) \/ Searching(t)
        PROVE  \A u \in Confirms : Done(u) => txn'[u] = txn[u]
    BY <1>t, <2>1 DEF Filing, Attaching, Searching, Done, Txn
  <2>2. ASSUME NEW g \in Complaints, Moving(g) PROVE txn' = txn
    BY <2>2 DEF Moving
  <2>3. ASSUME NEW r \in Rewrites, Rewriting(r) PROVE txn' = txn
    BY <2>3 DEF Rewriting
  <2> QED  BY <2>1, <2>2, <2>3 DEF Kinds
<1>2. \A r \in Rewrites : rewrite[r].pc = "back" => rewrite'[r].pc = "back"
  <2>1. ASSUME NEW t \in Confirms, Filing(t) \/ Attaching(t) \/ Searching(t)
        PROVE  rewrite' = rewrite
    BY <2>1 DEF Filing, Attaching, Searching
  <2>2. ASSUME NEW g \in Complaints, Moving(g) PROVE rewrite' = rewrite
    BY <2>2 DEF Moving
  <2>3. ASSUME NEW r \in Rewrites, Rewriting(r)
        PROVE  \A q \in Rewrites :
                  rewrite[q].pc = "back" => rewrite'[q].pc = "back"
    BY <1>t, <2>3 DEF Rewriting, Rewrite
  <2> QED  BY <2>1, <2>2, <2>3 DEF Kinds
<1>3. \A t \in Confirms : Done(t) => Done(t)'
  BY <1>1 DEF Done
<1>4. ASSUME NEW g \in Complaints, Undisturbed(g)' PROVE Undisturbed(g)
  <2>1. ~TakenBack(g)
    BY <1>2, <1>4 DEF Undisturbed, TakenBack
  <2>2. ~ConfirmedAgain(g)
    BY <1>3, <1>4 DEF Undisturbed, ConfirmedAgain
  <2> QED  BY <2>1, <2>2 DEF Undisturbed
<1> QED  BY <1>1, <1>3, <1>4

\* A complaint that stands and is still undisturbed stands on.
LEMMA StandsOn ==
    ASSUME MInv, Kinds, NEW m \in Complaints,
           Undisturbed(m)', status[m] \in Standing
    PROVE  status'[m] \in Standing
<1>t. /\ status \in [Complaints -> Status]
      /\ rewrite \in [Rewrites -> Rewrite]
      /\ txn \in [Confirms -> Txn]
      /\ \A t \in Confirms : Of[t] \in Complaints
      /\ \A r \in Rewrites : Of[r] \in Complaints
  BY OfComplaint DEF MInv, TInv, TypeOK
<1>u. Undisturbed(m)
  BY StaysDone DEF MInv
<1>d. PICK d \in Confirms : Of[d] = m /\ Done(d)
  <2>1. status[m] \notin Unfiled
    BY DEF Standing, Unfiled
  <2> QED  BY <1>u, <2>1 DEF MInv, AsConfirmed
<1>e. Done(d)'
  BY <1>d, StaysDone DEF MInv
<1>1. ASSUME NEW t \in Confirms, Filing(t) \/ Attaching(t)
      PROVE  status'[m] \in Standing
  <2>1. Done(t)' /\ t # d
    BY <1>t, <1>1, <1>d DEF Filing, Attaching, Done, Txn
  <2>2. Of[t] # m
    BY <1>d, <1>e, <2>1 DEF Undisturbed, ConfirmedAgain
  <2> QED  BY <1>t, <1>1, <2>2 DEF Filing, Attaching
<1>2. ASSUME NEW t \in Confirms, Searching(t) PROVE status'[m] \in Standing
  BY <1>2 DEF Searching
<1>3. ASSUME NEW g \in Complaints, Moving(g) PROVE status'[m] \in Standing
  BY <1>t, <1>3 DEF Moving
<1>4. ASSUME NEW r \in Rewrites, Rewriting(r) PROVE status'[m] \in Standing
  <2>1. CASE Of[r] = m /\ status' # status
    <3>1. rewrite'[r].pc = "back"
      BY <1>t, <1>4, <2>1 DEF Rewriting, Filed, Rewrite
    <3> QED  BY <2>1, <3>1 DEF Undisturbed, TakenBack
  <2>2. CASE Of[r] # m \/ status' = status
    BY <1>t, <1>4, <2>2 DEF Rewriting
  <2> QED  BY <2>1, <2>2
<1> QED  BY <1>1, <1>2, <1>3, <1>4 DEF Kinds

\* What the row of an undisturbed complaint says keeps following from its
\* confirmation.
LEMMA ConfirmedOn ==
    ASSUME MInv, Kinds, NEW g \in Complaints, Undisturbed(g)'
    PROVE  AsConfirmed(g)'
<1>t. /\ status \in [Complaints -> Status]
      /\ master \in [Complaints -> Complaints \cup {None}]
      /\ rewrite \in [Rewrites -> Rewrite]
      /\ txn \in [Confirms -> Txn]
      /\ \A t \in Confirms : Of[t] \in Complaints
      /\ \A r \in Rewrites : Of[r] \in Complaints
  BY OfComplaint DEF MInv, TInv, TypeOK
<1>u. AsConfirmed(g)
  BY StaysDone DEF MInv
<1>d. \A t \in Confirms : Done(t) => Done(t)' /\ txn'[t] = txn[t]
  BY StaysDone DEF MInv
<1>1. ASSUME NEW t \in Confirms, Filing(t) \/ Attaching(t), Of[t] = g
      PROVE  AsConfirmed(g)'
  <2>1. Done(t)' /\ ~Done(t)
    BY <1>t, <1>1 DEF Filing, Attaching, Done, Txn
  <2>2. \A u \in Confirms : Of[u] = g /\ Done(u)' => u = t
    BY <1>1, <2>1 DEF Undisturbed, ConfirmedAgain
  <2>3. \A u \in Confirms : Of[u] = g => ~Done(u)
    BY <1>d, <2>1, <2>2
  <2>4. g \notin due \cup calling
    BY <1>u, <2>3 DEF AsConfirmed
  <2>5. Settled(g, t)'
    <3>1. CASE Filing(t)
      BY <1>t, <1>1, <3>1 DEF Filing, Settled, Txn
    <3>2. CASE Attaching(t)
      <4>1. txn'[t].pc = "attached" /\ txn'[t].found = txn[t].found
        BY <1>t, <3>2 DEF Attaching, Txn
      <4>2. status'[g] = "duplicate" /\ master'[g] = txn[t].found
        BY <1>t, <1>1, <3>2 DEF Attaching
      <4>3. g \notin due' \cup calling'
        BY <2>4, <3>2 DEF Attaching
      <4> QED  BY <4>1, <4>2, <4>3 DEF Settled
    <3> QED  BY <1>1, <3>1, <3>2
  <2> QED  BY <1>1, <2>1, <2>2, <2>5 DEF AsConfirmed
\* No other step is a commit of a confirmation of g.
<1>2. ASSUME \A t \in Confirms : Of[t] = g /\ Done(t)' => Done(t),
             \/ status'[g] = status[g]
             \/ /\ g \in due \cup calling
                /\ status'[g] \in Standing
             \/ status[g] \in Unfiled /\ status'[g] \in Unfiled,
             master'[g] = master[g],
             \/ g \in due' \cup calling' => g \in due \cup calling
             \/ status[g] \in Standing
      PROVE  AsConfirmed(g)'
  <2>1. ASSUME \A t \in Confirms : Of[t] = g => ~Done(t)'
        PROVE  status'[g] \in Unfiled /\ g \notin due' \cup calling'
    <3>1. status[g] \in Unfiled /\ g \notin due \cup calling
      BY <1>d, <1>u, <2>1 DEF AsConfirmed
    <3> QED  BY <1>2, <3>1 DEF Unfiled, Standing
  <2>2. ASSUME NEW t \in Confirms, Of[t] = g, Done(t)'
        PROVE  Settled(g, t)'
    <3>1. txn'[t] = txn[t] /\ Done(t) /\ Settled(g, t)
      BY <1>2, <1>d, <1>u, <2>2 DEF AsConfirmed
    <3>2. CASE txn[t].pc = "filed"
      BY <1>2, <3>1, <3>2 DEF Settled, Unfiled, Standing
    <3>3. CASE txn[t].pc # "filed"
      BY <1>2, <3>1, <3>3 DEF Settled, Unfiled, Standing
    <3> QED  BY <3>2, <3>3
  <2> QED  BY <2>1, <2>2 DEF AsConfirmed
<1>3. ASSUME NEW t \in Confirms, Filing(t) \/ Attaching(t), Of[t] # g
      PROVE  AsConfirmed(g)'
  <2>1. \A u \in Confirms : Of[u] = g /\ Done(u)' => Done(u)
    BY <1>t, <1>3 DEF Filing, Attaching, Done, Txn
  <2>2. status'[g] = status[g] /\ master'[g] = master[g]
    BY <1>t, <1>3 DEF Filing, Attaching
  <2>3. g \in due' \cup calling' => g \in due \cup calling
    BY <1>3 DEF Filing, Attaching
  <2> QED  BY <1>2, <2>1, <2>2, <2>3
<1>4. ASSUME NEW t \in Confirms, Searching(t) PROVE AsConfirmed(g)'
  <2>1. \A u \in Confirms : Done(u)' => Done(u)
    BY <1>t, <1>4 DEF Searching, Done, Txn
  <2> QED  BY <1>2, <1>4, <2>1 DEF Searching
<1>5. ASSUME NEW x \in Complaints, Moving(x) PROVE AsConfirmed(g)'
  <2>1. \A u \in Confirms : Done(u)' => Done(u)
    BY <1>5 DEF Moving, Done
  <2>2. /\ \/ status'[g] = status[g]
           \/ g \in due \cup calling /\ status'[g] \in Standing
        /\ master'[g] = master[g]
    BY <1>t, <1>5 DEF Moving
  <2>3. \/ g \in due' \cup calling' => g \in due \cup calling
        \/ status[g] \in Standing
    BY <1>5 DEF Moving
  <2> QED  BY <1>2, <2>1, <2>2, <2>3
<1>6. ASSUME NEW r \in Rewrites, Rewriting(r) PROVE AsConfirmed(g)'
  <2>1. \A u \in Confirms : Done(u)' => Done(u)
    BY <1>6 DEF Rewriting, Done
  <2>2. \/ status'[g] = status[g]
        \/ status[g] \in Unfiled /\ status'[g] \in Unfiled
    <3>1. CASE Of[r] = g /\ status[g] \in Filed
      <4>1. rewrite'[r].pc # "back"
        BY <3>1 DEF Undisturbed, TakenBack
      <4> QED  BY <1>t, <1>6, <3>1, <4>1 DEF Rewriting, Rewrite
    <3>2. CASE Of[r] = g /\ status[g] \notin Filed
      <4>1. status[g] \in Unfiled
        BY <1>t, <3>2 DEF Status, Checked, Unfiled
      <4> QED  BY <1>t, <1>6, <3>2, <4>1 DEF Rewriting
    <3>3. CASE Of[r] # g
      BY <1>t, <1>6, <3>3 DEF Rewriting
    <3> QED  BY <3>1, <3>2, <3>3
  <2>3. UNCHANGED <<master, due, calling>>
    BY <1>6 DEF Rewriting
  <2> QED  BY <1>2, <2>1, <2>2, <2>3
<1>7. CASE UNCHANGED <<status, master, count, txn, rewrite, due, calling>>
  BY <1>u, <1>7 DEF AsConfirmed, Settled, Done
<1> QED  BY <1>1, <1>3, <1>4, <1>5, <1>6, <1>7 DEF Kinds

LEMMA MInvNext == ASSUME MInv, [Next]_vars PROVE MInv'
<1>i. TInv /\ TInv' /\ Kinds
  BY TInvNext, StepKinds DEF MInv
<1>t. /\ status \in [Complaints -> Status]
      /\ master \in [Complaints -> Complaints \cup {None}]
      /\ txn \in [Confirms -> Txn]
      /\ \A t \in Confirms : Of[t] \in Complaints
      /\ \A r \in Rewrites : Of[r] \in Complaints
      /\ \A t \in Confirms : txn[t].pc = "attach"
                                => txn[t].found \in Complaints
  BY <1>i, OfComplaint DEF TInv, TypeOK
<1>u. \A g \in Complaints : Undisturbed(g)' => Undisturbed(g)
  BY <1>i, StaysDone
<1>s. \A m \in Complaints :
         Undisturbed(m)' /\ status[m] \in Standing => status'[m] \in Standing
  BY <1>i, StandsOn
<1>1. \A g \in Complaints : Undisturbed(g)' => AsConfirmed(g)'
  BY <1>i, ConfirmedOn
<1>2. ASSUME NEW t \in Confirms, txn'[t].pc = "attach"
      PROVE  \/ txn'[t] = txn[t]
             \/ /\ txn'[t].found \in Complaints
                /\ status'[txn'[t].found] = "pending_window"
  <2>1. ASSUME NEW u \in Confirms, Filing(u) \/ Attaching(u) PROVE txn'[t] = txn[t]
    BY <1>t, <1>2, <2>1 DEF Filing, Attaching, Txn
  <2>2. ASSUME NEW u \in Confirms, Searching(u)
        PROVE  \/ txn'[t] = txn[t]
               \/ /\ txn'[t].found \in Complaints
                  /\ status'[txn'[t].found] = "pending_window"
    BY <1>t, <1>2, <2>2 DEF Searching, Txn
  <2>3. ASSUME NEW g \in Complaints, Moving(g) PROVE txn'[t] = txn[t]
    BY <2>3 DEF Moving
  <2>4. ASSUME NEW r \in Rewrites, Rewriting(r) PROVE txn'[t] = txn[t]
    BY <2>4 DEF Rewriting
  <2> QED  BY <1>i, <2>1, <2>2, <2>3, <2>4 DEF Kinds
<1>3. ASSUME NEW t \in Confirms, txn'[t].pc = "attach",
             NEW m \in Complaints, m = txn'[t].found, Undisturbed(m)'
      PROVE  status'[m] \in Standing
  <2>1. CASE txn'[t] = txn[t]
    BY <1>s, <1>u, <1>3, <2>1 DEF MInv
  <2>2. CASE status'[txn'[t].found] = "pending_window"
    BY <1>3, <2>2 DEF Standing
  <2> QED  BY <1>2, <1>3, <2>1, <2>2
<1>4. ASSUME NEW g \in Complaints, status'[g] = "duplicate"
      PROVE  \/ status[g] = "duplicate" /\ master'[g] = master[g]
             \/ \E t \in Confirms : txn[t].pc = "attach" /\ master'[g] = txn[t].found
  <2>1. ASSUME NEW t \in Confirms, Filing(t) \/ Searching(t)
        PROVE  status[g] = "duplicate" /\ master'[g] = master[g]
    BY <1>t, <1>4, <2>1 DEF Filing, Searching, Standing
  <2>2. ASSUME NEW t \in Confirms, Attaching(t)
        PROVE  \/ status[g] = "duplicate" /\ master'[g] = master[g]
               \/ txn[t].pc = "attach" /\ master'[g] = txn[t].found
    BY <1>t, <1>4, <2>2 DEF Attaching
  <2>3. ASSUME NEW x \in Complaints, Moving(x)
        PROVE  status[g] = "duplicate" /\ master'[g] = master[g]
    BY <1>t, <1>4, <2>3 DEF Moving, Standing
  <2>4. ASSUME NEW r \in Rewrites, Rewriting(r)
        PROVE  status[g] = "duplicate" /\ master'[g] = master[g]
    BY <1>t, <1>4, <2>4 DEF Rewriting, Unfiled
  <2> QED  BY <1>i, <1>4, <2>1, <2>2, <2>3, <2>4 DEF Kinds
<1>5. ASSUME NEW g \in Complaints, status'[g] = "duplicate"
      PROVE  /\ master'[g] \in Complaints
             /\ \A m \in Complaints :
                   m = master'[g] /\ Undisturbed(m)' => status'[m] \in Standing
  BY <1>s, <1>t, <1>u, <1>4, <1>5 DEF MInv
<1> QED  BY <1>i, <1>1, <1>2, <1>3, <1>5 DEF MInv, TInv

\* A duplicate is attached to a complaint that waits, was dispatched or is with
\* an official, never to another duplicate or to one that was not filed,
\* however confirmations, photo checks, late runs, cancellations, corrections
\* and sweeps overlap, as long as the master is not itself taken back or filed
\* a second time.
THEOREM MastersStand == Spec => []MasterStands
<1>1. MInv => MasterStands
  BY DEF MInv, MasterStands
<1>2. MInv /\ [Next]_vars => MInv'
  BY MInvNext
<1> QED  BY <1>1, <1>2, MInvInit, PTL DEF Spec

-----------------------------------------------------------------------------
(***************************************************************************)
(* The counter.  Attachments stay on record, so a count read by a search   *)
(* stays covered by the attachments there were then; writing it plus one   *)
(* is covered by the one more there is now.                                *)
(***************************************************************************)

\* How many reports a complaint stands for.
Reports(m) == 1 + Cardinality(Attached(m))

Covered ==
    /\ \A m \in Complaints : count[m] <= Reports(m)
    /\ \A t \in Confirms, m \in Complaints :
          txn[t].pc = "attach" /\ txn[t].found = m => txn[t].seen <= Reports(m)

CInv == MInv /\ Covered

LEMMA AttachedFinite ==
    ASSUME IsFiniteSet(Confirms), NEW m
    PROVE  IsFiniteSet(Attached(m)) /\ Cardinality(Attached(m)) \in Nat
<1>1. Attached(m) \subseteq Confirms
  BY DEF Attached
<1> QED  BY <1>1, FS_Subset, FS_CardinalityType

LEMMA CInvInit ==
    ASSUME IsFiniteSet(Confirms), Init PROVE CInv
<1>1. \A m \in Complaints : Reports(m) \in Nat /\ 1 <= Reports(m)
  BY AttachedFinite DEF Reports
<1>2. \A m \in Complaints : count[m] = 1
  BY DEF Init
<1>3. \A t \in Confirms : txn[t].pc # "attach"
  BY DEF Init
<1>4. Covered
  BY <1>1, <1>2, <1>3 DEF Covered
<1> QED  BY <1>4, MInvInit DEF CInv

\* A step that attaches nothing leaves the attachments alone.
LEMMA ReportsSame ==
    ASSUME \A t \in Confirms :
              \/ txn'[t] = txn[t]
              \/ txn[t].pc # "attached" /\ txn'[t].pc # "attached"
    PROVE  \A m \in Complaints : Reports(m)' = Reports(m)
<1>1. ASSUME NEW m \in Complaints PROVE Attached(m)' = Attached(m)
  BY DEF Attached
<1> QED  BY <1>1 DEF Reports

\* A step that attaches a complaint to m gives m one more.
LEMMA ReportsAttach ==
    ASSUME IsFiniteSet(Confirms), txn \in [Confirms -> Txn],
           NEW t \in Confirms, txn[t].pc # "attached",
           txn' = [txn EXCEPT ![t].pc = "attached"]
    PROVE  \A m \in Complaints :
              /\ Reports(m) \in Nat
              /\ Reports(m)' = IF m = txn[t].found THEN Reports(m) + 1
                               ELSE Reports(m)
<1>0. txn'[t].pc = "attached" /\ txn'[t].found = txn[t].found
  BY DEF Txn
<1>1. ASSUME NEW m \in Complaints
      PROVE  Attached(m)' = IF m = txn[t].found THEN Attached(m) \cup {t}
                            ELSE Attached(m)
  BY <1>0 DEF Attached
<1>2. \A m \in Complaints : t \notin Attached(m)
  BY DEF Attached
<1>3. ASSUME NEW m \in Complaints
      PROVE  /\ IsFiniteSet(Attached(m))
             /\ Cardinality(Attached(m)) \in Nat
             /\ Cardinality(Attached(m) \cup {t}) = Cardinality(Attached(m)) + 1
  BY <1>2, AttachedFinite, FS_AddElement
<1>4. ASSUME NEW m \in Complaints
      PROVE  /\ Reports(m) \in Nat
             /\ Reports(m)' = IF m = txn[t].found THEN Reports(m) + 1
                              ELSE Reports(m)
  <2>1. Reports(m) = 1 + Cardinality(Attached(m))
    BY DEF Reports
  <2>2. Reports(m)' = 1 + Cardinality(Attached(m)')
    BY DEF Reports
  <2>3. Cardinality(Attached(m)') = IF m = txn[t].found
                                    THEN Cardinality(Attached(m)) + 1
                                    ELSE Cardinality(Attached(m))
    BY <1>1, <1>3
  <2>4. Cardinality(Attached(m)) \in Nat
    BY <1>3
  <2> QED  BY <2>1, <2>2, <2>3, <2>4
<1> QED  BY <1>4

LEMMA CInvNext ==
    ASSUME IsFiniteSet(Confirms), CInv, [Next]_vars
    PROVE  CInv'
<1>i. MInv /\ MInv' /\ TInv /\ Kinds
  BY MInvNext, StepKinds DEF CInv, MInv
<1>t. /\ count \in [Complaints -> Nat]
      /\ txn \in [Confirms -> Txn]
      /\ \A t \in Confirms : txn[t].pc = "attach"
                                => txn[t].found \in Complaints
      /\ \A t \in Confirms : txn[t].seen \in Nat
  BY <1>i DEF TypeOK, TInv, Txn
<1>c. /\ \A m \in Complaints : count[m] <= Reports(m)
      /\ \A t \in Confirms : txn[t].pc = "attach"
                                => txn[t].seen <= Reports(txn[t].found)
  BY <1>t DEF CInv, Covered
<1>1. ASSUME NEW t \in Confirms, Attaching(t) PROVE Covered'
  <2>1. PICK m \in Complaints : m = txn[t].found
    BY <1>t, <1>1 DEF Attaching
  <2>2. /\ count' = [count EXCEPT ![m] = txn[t].seen + 1]
        /\ txn' = [txn EXCEPT ![t].pc = "attached"]
        /\ txn[t].pc = "attach"
    BY <1>1, <2>1 DEF Attaching
  <2>3. \A x \in Complaints :
           /\ Reports(x) \in Nat
           /\ Reports(x)' = IF x = m THEN Reports(x) + 1 ELSE Reports(x)
    BY <1>t, <2>1, <2>2, ReportsAttach
  <2>4. txn[t].seen \in Nat /\ txn[t].seen <= Reports(m)
    BY <1>c, <1>t, <2>1, <2>2
  <2>5. \A x \in Complaints : count'[x] <= Reports(x)'
    BY <1>c, <1>t, <2>2, <2>3, <2>4
  <2>6. \A u \in Confirms : txn'[u].pc = "attach" => txn'[u] = txn[u]
    BY <1>t, <2>2 DEF Txn
  <2>7. ASSUME NEW u \in Confirms, NEW x \in Complaints,
               txn'[u].pc = "attach", txn'[u].found = x
        PROVE  txn'[u].seen <= Reports(x)'
    <3>1. txn[u].seen \in Nat /\ txn[u].seen <= Reports(x)
      BY <1>c, <1>t, <2>6, <2>7
    <3>2. Reports(x) \in Nat /\ Reports(x) <= Reports(x)'
      BY <2>3
    <3>3. txn'[u] = txn[u] /\ Reports(x)' \in Nat
      BY <2>3, <2>6, <2>7
    <3> QED  BY <3>1, <3>2, <3>3
  <2> QED  BY <2>5, <2>7 DEF Covered
<1>2. ASSUME count' = count,
             \A u \in Confirms :
                \/ txn'[u] = txn[u]
                \/ txn[u].pc # "attached" /\ txn'[u].pc # "attached",
             \A u \in Confirms : txn'[u].pc = "attach" =>
                txn'[u] = txn[u] \/ txn'[u].seen = count[txn'[u].found]
      PROVE  Covered'
  <2>1. \A m \in Complaints : Reports(m)' = Reports(m)
    BY <1>2, ReportsSame
  <2> QED  BY <1>c, <1>2, <2>1 DEF Covered
<1>3. ASSUME NEW t \in Confirms, Filing(t) PROVE Covered'
  BY <1>t, <1>2, <1>3 DEF Filing, Txn
<1>4. ASSUME NEW t \in Confirms, Searching(t) PROVE Covered'
  <2>1. count' = count
    BY <1>4 DEF Searching
  <2>2. \A u \in Confirms :
           \/ txn'[u] = txn[u]
           \/ txn[u].pc # "attached" /\ txn'[u].pc # "attached"
    BY <1>t, <1>4 DEF Searching, Txn
  <2>3. \A u \in Confirms : txn'[u].pc = "attach" =>
           txn'[u] = txn[u] \/ txn'[u].seen = count[txn'[u].found]
    BY <1>t, <1>4 DEF Searching, Txn
  <2> QED  BY <1>2, <2>1, <2>2, <2>3
<1>5. ASSUME NEW g \in Complaints, Moving(g) PROVE Covered'
  BY <1>2, <1>5 DEF Moving
<1>6. ASSUME NEW r \in Rewrites, Rewriting(r) PROVE Covered'
  BY <1>2, <1>6 DEF Rewriting
<1>7. CASE UNCHANGED <<status, master, count, txn, rewrite, due, calling>>
  BY <1>i, <1>2, <1>7 DEF CInv
<1> QED  BY <1>i, <1>1, <1>3, <1>4, <1>5, <1>6, <1>7 DEF Kinds, CInv

\* However searches, attachments, rollbacks, photo checks, late runs and the
\* sweeps overlap, a counter never tells of more reports than were attached, and
\* every one of them is a duplicate of that complaint still, unless it was taken
\* back or filed a second time.
THEOREM CountsNotInflated ==
    ASSUME IsFiniteSet(Confirms)
    PROVE  Spec => []CountNotInflated
<1>1. CInv => CountNotInflated
  <2> SUFFICES ASSUME CInv, NEW m \in Complaints
               PROVE  /\ count[m] <= 1 + Cardinality(Attached(m))
                      /\ \A t \in Attached(m) :
                            Undisturbed(Of[t]) => Of[t] \in Duplicates(m)
    BY DEF CountNotInflated
  <2>1. count[m] <= 1 + Cardinality(Attached(m))
    BY DEF CInv, Covered, Reports
  <2>2. ASSUME NEW t \in Attached(m), Undisturbed(Of[t])
        PROVE  Of[t] \in Duplicates(m)
    <3>1. /\ t \in Confirms /\ Of[t] \in Complaints
          /\ txn[t].pc = "attached" /\ txn[t].found = m
      BY <2>2, OfComplaint DEF Attached
    <3>2. Settled(Of[t], t)
      BY <2>2, <3>1 DEF CInv, MInv, AsConfirmed, Done
    <3> QED  BY <3>1, <3>2 DEF Settled, Duplicates
  <2> QED  BY <2>1, <2>2
<1>2. Init => CInv
  BY CInvInit
<1>3. CInv /\ [Next]_vars => CInv'
  BY CInvNext
<1> QED  BY <1>1, <1>2, <1>3, PTL DEF Spec
=============================================================================
