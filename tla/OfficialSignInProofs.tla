------------------------ MODULE OfficialSignInProofs ------------------------
(***************************************************************************)
(* Theorems about OfficialSignIn, for any number of addresses, challenges  *)
(* and requests.                                                           *)
(***************************************************************************)
EXTENDS OfficialSignIn, FiniteSetTheorems, TLAPS

-----------------------------------------------------------------------------
(***************************************************************************)
(* The invariant.  A request that compares or grants holds the row lock of *)
(* its challenge, so what it loaded is what the row still says.            *)
(***************************************************************************)

Holds(s, h) == task[s].pc \in {"compare", "grant"} /\ task[s].on = h

\* One request at a time holds a challenge, and what it loaded is true.
LockInv ==
    /\ \A s, t \in Sessions, h \in Challenges :
          Holds(s, h) /\ Holds(t, h) => s = t
    /\ \A s \in Sessions, h \in Challenges :
          Holds(s, h) => /\ challenge[h].email # None
                         /\ ~challenge[h].consumed
                         /\ challenge[h].attempts = task[s].seen
                         /\ challenge[h].attempts < MaxGuesses

\* Tasks that are about a challenge have one.
OnInv == \A s \in Sessions :
            /\ task[s].pc \in {"mail", "compare", "grant"}
                  => task[s].on \in Challenges
            /\ task[s].pc = "counted" => task[s].email \in Emails

\* The row counts what happened to it.
CountInv ==
    \A h \in Challenges :
        /\ logins[h] = IF challenge[h].consumed THEN 1 ELSE 0
        /\ wrong[h] <= challenge[h].attempts
        /\ challenge[h].attempts <= MaxGuesses
        /\ challenge[h].email = None => challenge[h] = Unused

IInv == TypeOK /\ LockInv /\ OnInv /\ CountInv

LEMMA InitOK == Init => IInv
<1> SUFFICES ASSUME Init PROVE IInv
  OBVIOUS
<1> USE OfficialSignInAssumption DEF Init
<1>1. TypeOK
  BY DEF TypeOK, Challenge, Unused, Task, NoTask
<1>2. LockInv /\ OnInv
  BY DEF LockInv, OnInv, Holds, NoTask
<1>3. CountInv
  BY DEF CountInv, Unused
<1> QED
  BY <1>1, <1>2, <1>3 DEF IInv

\* What a step does to the tasks.
LEMMA TaskFinished ==
    ASSUME task \in [Sessions -> Task], NEW s \in Sessions, Finish(s)
    PROVE  /\ task' \in [Sessions -> Task]
           /\ task'[s] = NoTask
           /\ \A t \in Sessions \ {s} : task'[t] = task[t]
BY DEF Finish, Task, NoTask

LEMMA TaskToMail ==
    ASSUME task \in [Sessions -> Task], NEW s \in Sessions, NEW h \in Challenges,
           task' = [task EXCEPT ![s].pc = "mail", ![s].on = h]
    PROVE  /\ task' \in [Sessions -> Task]
           /\ task'[s].pc = "mail" /\ task'[s].on = h
           /\ \A t \in Sessions \ {s} : task'[t] = task[t]
<1>1. task'[s] = [task[s] EXCEPT !.pc = "mail", !.on = h]
  OBVIOUS
<1>2. task[s] \in Task
  OBVIOUS
<1>3. task'[s] \in Task /\ task'[s].pc = "mail" /\ task'[s].on = h
  BY <1>1, <1>2 DEF Task
<1> QED
  BY <1>3

LEMMA IssuedUnused ==
    ASSUME NEW e, NEW b
    PROVE  /\ [Unused EXCEPT !.email = e, !.recent = TRUE, !.official = b].attempts
                 = Unused.attempts
           /\ [Unused EXCEPT !.email = e, !.recent = TRUE, !.official = b].consumed
                 = Unused.consumed
BY DEF Unused

LEMMA IssuedTyped ==
    ASSUME NEW e \in Emails, NEW b \in BOOLEAN
    PROVE  [Unused EXCEPT !.email = e, !.recent = TRUE, !.official = b] \in Challenge
BY DEF Unused, Challenge

LEMMA ExpiredTyped ==
    ASSUME NEW c \in Challenge, NEW b \in BOOLEAN, NEW d,
           d = [c EXCEPT !.due = TRUE, !.recent = b]
    PROVE  /\ d \in Challenge
           /\ d.attempts = c.attempts
           /\ d.consumed = c.consumed
           /\ d.email = c.email
BY DEF Challenge

\* A step after which only challenges that were held, and are as they were, are
\* held, by a request that is as it was.
LEMMA LockKept ==
    ASSUME LockInv,
           \A t \in Sessions, k \in Challenges :
              Holds(t, k)' => /\ Holds(t, k) /\ task'[t].seen = task[t].seen
                              /\ challenge'[k] = challenge[k]
    PROVE  LockInv'
BY DEF LockInv

\* A request that ends takes its lock with it and changes nothing else.
LEMMA FinishOK ==
    ASSUME IInv, NEW s \in Sessions, Finish(s),
           UNCHANGED <<active, challenge, wrong, logins>>,
           mailed' \subseteq Challenges, faults' \in 0..MaxFaults
    PROVE  IInv'
<1>1. TypeOK'
  BY DEF IInv, TypeOK, Finish, Task, NoTask
<1>2. \A t \in Sessions, h \in Challenges :
         Holds(t, h)' => Holds(t, h) /\ task'[t] = task[t]
  BY DEF IInv, TypeOK, Finish, NoTask, Holds
<1>3. LockInv'
  BY <1>2 DEF IInv, LockInv
<1>4. OnInv'
  BY DEF IInv, TypeOK, OnInv, Finish, NoTask
<1>5. CountInv'
  BY DEF IInv, CountInv
<1> QED
  BY <1>1, <1>3, <1>4, <1>5 DEF IInv

LEMMA StepOK == IInv /\ [Next]_vars => IInv'
<1> SUFFICES ASSUME IInv, [Next]_vars PROVE IInv'
  OBVIOUS
<1> USE OfficialSignInAssumption DEF IInv
<1>1. ASSUME NEW s \in Sessions, NEW e \in Emails, RequestOfficialCode(s, e)
      PROVE  IInv'
  <2> USE <1>1 DEF RequestOfficialCode
  <2>1. TypeOK'
    BY DEF TypeOK, Task, NoTask
  <2>2. \A t \in Sessions, h \in Challenges :
           Holds(t, h)' => Holds(t, h) /\ task'[t] = task[t]
    BY DEF TypeOK, NoTask, Holds
  <2>3. LockInv'
    BY <2>2, LockKept
  <2>4. OnInv'
    BY DEF TypeOK, OnInv, NoTask
  <2>5. CountInv'
    BY DEF CountInv
  <2> QED
    BY <2>1, <2>3, <2>4, <2>5
<1>2. ASSUME NEW s \in Sessions, NEW h \in Challenges,
             CreateOfficialChallenge(s, h)
      PROVE  IInv'
  <2> USE <1>2 DEF CreateOfficialChallenge
  <2>1. task[s].email \in Emails /\ challenge[h] = Unused
    BY DEF OnInv, CountInv, Issued
  <2>2. challenge'[h] = [Unused EXCEPT !.email = task[s].email,
                                       !.recent = TRUE,
                                       !.official = task[s].email \in active]
    BY DEF TypeOK
  <2>9. /\ task' \in [Sessions -> Task]
        /\ \A t \in Sessions \ {s} : task'[t] = task[t]
        /\ \/ task'[s] = NoTask
           \/ task'[s].pc = "mail" /\ task'[s].on = h
    <3>0. task \in [Sessions -> Task]
      BY DEF TypeOK
    <3>1. CASE Finish(s)
      BY <3>0, <3>1, TaskFinished
    <3>2. CASE task' = [task EXCEPT ![s].pc = "mail", ![s].on = h]
      BY <3>0, <3>2, TaskToMail
    <3> QED
      BY <3>1, <3>2
  <2>3. TypeOK'
    <3>1. challenge' \in [Challenges -> Challenge]
      <4>1. (task[s].email \in active) \in BOOLEAN
        OBVIOUS
      <4>2. challenge'[h] \in Challenge
        BY <2>1, <2>2, <4>1, IssuedTyped
      <4> QED
        BY <4>2 DEF TypeOK
    <3> QED
      BY <2>9, <3>1 DEF TypeOK
  <2>4. /\ challenge'[h].attempts = challenge[h].attempts
        /\ challenge'[h].consumed = challenge[h].consumed
    BY <2>1, <2>2, IssuedUnused
  <2>5. \A t \in Sessions, k \in Challenges :
           Holds(t, k)' => Holds(t, k) /\ task'[t] = task[t]
    BY <2>9 DEF NoTask, Holds
  <2>6. LockInv'
    <3>1. \A k \in Challenges : /\ challenge'[k].attempts = challenge[k].attempts
                                /\ challenge'[k].consumed = challenge[k].consumed
                                /\ k # h => challenge'[k] = challenge[k]
      BY <2>1, <2>4 DEF TypeOK
    <3>2. \A t \in Sessions : ~Holds(t, h)
      BY DEF LockInv, Issued
    <3> QED
      BY <2>5, <3>1, <3>2 DEF LockInv
  <2>7. OnInv'
    BY <2>9 DEF OnInv, NoTask
  <2>8. CountInv'
    BY <2>1, <2>2, <2>4 DEF CountInv, TypeOK, Unused
  <2> QED
    BY <2>3, <2>6, <2>7, <2>8
<1>3. ASSUME NEW s \in Sessions, SendOfficialCodeEmail(s) PROVE IInv'
  <2>1. mailed' \subseteq Challenges
    BY <1>3 DEF SendOfficialCodeEmail, OnInv, TypeOK
  <2> QED
    BY <1>3, <2>1, FinishOK DEF SendOfficialCodeEmail, TypeOK
<1>4. ASSUME NEW s \in Sessions, NEW h \in Challenges, NEW right \in BOOLEAN,
             GetOfficialChallenge(s, h, right)
      PROVE  IInv'
  <2> USE <1>4 DEF GetOfficialChallenge
  <2>1. TypeOK'
    BY DEF TypeOK, Task, Challenge
  <2>2. task'[s].pc = "compare" /\ task'[s].on = h
        /\ task'[s].seen = challenge[h].attempts
    BY DEF TypeOK
  <2>3. \A t \in Sessions \ {s} : task'[t] = task[t] /\ ~Holds(t, h)
    BY DEF TypeOK, Held, Holds
  <2>4. LockInv'
    BY <2>2, <2>3 DEF LockInv, Holds, Live, Issued
  <2>5. OnInv'
    BY <2>2, <2>3 DEF OnInv
  <2>6. CountInv'
    BY DEF CountInv
  <2> QED
    BY <2>1, <2>4, <2>5, <2>6
<1>5. ASSUME NEW s \in Sessions, RejectCode(s) PROVE IInv'
  <2> USE <1>5 DEF RejectCode
  <2> DEFINE h == task[s].on
  <2>1. h \in Challenges /\ Holds(s, h)
    BY DEF OnInv, Holds
  <2>2. /\ challenge[h].attempts = task[s].seen
        /\ challenge[h].attempts < MaxGuesses
        /\ challenge[h].attempts \in Nat
    BY <2>1 DEF LockInv, TypeOK, Challenge
  <2>3. /\ \A k \in Challenges \ {h} : challenge'[k] = challenge[k]
        /\ challenge'[h] = [challenge[h] EXCEPT !.attempts = task[s].seen + 1]
    BY <2>1 DEF TypeOK
  <2>4. /\ challenge'[h].attempts = challenge[h].attempts + 1
        /\ challenge'[h].consumed = challenge[h].consumed
        /\ challenge'[h].email = challenge[h].email
        /\ challenge'[h] \in Challenge
    BY <2>1, <2>2, <2>3 DEF TypeOK, Challenge
  <2>5. TypeOK'
    <3>1. challenge' \in [Challenges -> Challenge]
      BY <2>3, <2>4 DEF TypeOK
    <3>2. wrong' \in [Challenges -> Nat]
      BY <2>1 DEF TypeOK
    <3>3. task' \in [Sessions -> Task]
      BY TaskFinished DEF TypeOK
    <3> QED
      BY <3>1, <3>2, <3>3 DEF TypeOK
  <2>6. \A t \in Sessions, k \in Challenges :
           Holds(t, k)' => Holds(t, k) /\ task'[t] = task[t] /\ t # s
    BY DEF TypeOK, Finish, NoTask, Holds
  <2>7. \A t \in Sessions \ {s} : ~Holds(t, h)
    BY <2>1 DEF LockInv
  <2>8. LockInv'
    <3>1. \A t \in Sessions, k \in Challenges :
             Holds(t, k)' => /\ Holds(t, k) /\ task'[t] = task[t]
                             /\ challenge'[k] = challenge[k]
      BY <2>3, <2>6, <2>7
    <3> QED
      BY <3>1, LockKept
  <2>9. OnInv'
    BY DEF TypeOK, OnInv, Finish, NoTask
  <2>10. CountInv'
    <3>1. \A k \in Challenges \ {h} : wrong'[k] = wrong[k]
      BY DEF TypeOK
    <3>2. wrong'[h] \in {wrong[h], wrong[h] + 1} /\ wrong[h] \in Nat
      BY <2>1 DEF TypeOK
    <3>3. challenge[h].email # None
      BY <2>1 DEF LockInv
    <3> QED
      BY <2>1, <2>2, <2>3, <2>4, <3>1, <3>2, <3>3 DEF CountInv
  <2> QED
    BY <2>5, <2>8, <2>9, <2>10
<1>6. ASSUME NEW s \in Sessions, GetOfficial(s) PROVE IInv'
  <2>1. CASE Finish(s)
    BY <1>6, <2>1, FinishOK DEF GetOfficial, TypeOK
  <2>2. CASE Goto(s, "grant")
    <3> USE <1>6, <2>2 DEF GetOfficial, Goto
    <3>1. TypeOK'
      BY DEF TypeOK, Task
    <3>2. \A t \in Sessions, k \in Challenges :
             Holds(t, k)' => Holds(t, k) /\ task'[t].seen = task[t].seen
      BY DEF TypeOK, Holds
    <3>3. LockInv'
      BY <3>2 DEF LockInv
    <3>4. OnInv'
      BY DEF TypeOK, OnInv
    <3>5. CountInv'
      BY DEF CountInv
    <3> QED
      BY <3>1, <3>3, <3>4, <3>5
  <2> QED
    BY <1>6, <2>1, <2>2 DEF GetOfficial
<1>7. ASSUME NEW s \in Sessions, GrantSession(s) PROVE IInv'
  <2> USE <1>7 DEF GrantSession
  <2> DEFINE h == task[s].on
  <2>1. h \in Challenges /\ Holds(s, h)
    BY DEF OnInv, Holds
  <2>2. /\ challenge[h].attempts = task[s].seen
        /\ challenge[h].attempts < MaxGuesses
        /\ ~challenge[h].consumed
        /\ challenge[h].attempts \in Nat
    BY <2>1 DEF LockInv, TypeOK, Challenge
  <2>3. /\ \A k \in Challenges \ {h} : challenge'[k] = challenge[k]
        /\ challenge'[h] = [challenge[h] EXCEPT !.attempts = task[s].seen + 1,
                                                !.consumed = TRUE]
    BY <2>1 DEF TypeOK
  <2>4. /\ challenge'[h].attempts = challenge[h].attempts + 1
        /\ challenge'[h].consumed
        /\ challenge'[h].email = challenge[h].email
        /\ challenge'[h] \in Challenge
    BY <2>1, <2>2, <2>3 DEF TypeOK, Challenge
  <2>5. TypeOK'
    <3>1. challenge' \in [Challenges -> Challenge]
      BY <2>3, <2>4 DEF TypeOK
    <3>2. logins' \in [Challenges -> Nat]
      BY <2>1 DEF TypeOK
    <3>3. task' \in [Sessions -> Task]
      BY TaskFinished DEF TypeOK
    <3> QED
      BY <3>1, <3>2, <3>3 DEF TypeOK
  <2>6. \A t \in Sessions, k \in Challenges :
           Holds(t, k)' => Holds(t, k) /\ task'[t] = task[t] /\ t # s
    BY DEF TypeOK, Finish, NoTask, Holds
  <2>7. \A t \in Sessions \ {s} : ~Holds(t, h)
    BY <2>1 DEF LockInv
  <2>8. LockInv'
    <3>1. \A t \in Sessions, k \in Challenges :
             Holds(t, k)' => /\ Holds(t, k) /\ task'[t] = task[t]
                             /\ challenge'[k] = challenge[k]
      BY <2>3, <2>6, <2>7
    <3> QED
      BY <3>1, LockKept
  <2>9. OnInv'
    BY DEF TypeOK, OnInv, Finish, NoTask
  <2>10. CountInv'
    <3>1. \A k \in Challenges \ {h} : logins'[k] = logins[k]
      BY DEF TypeOK
    <3>2. logins'[h] = 1
      BY <2>1, <2>2 DEF TypeOK, CountInv
    <3>3. wrong[h] \in Nat
      BY <2>1 DEF TypeOK
    <3>4. challenge[h].email # None
      BY <2>1 DEF LockInv
    <3> QED
      <4>1. ASSUME NEW k \in Challenges \ {h}
            PROVE  /\ logins'[k] = IF challenge'[k].consumed THEN 1 ELSE 0
                   /\ wrong'[k] <= challenge'[k].attempts
                   /\ challenge'[k].attempts <= MaxGuesses
                   /\ challenge'[k].email = None => challenge'[k] = Unused
        BY <2>3, <3>1 DEF CountInv
      <4>2. wrong'[h] <= challenge'[h].attempts
        BY <2>1, <2>2, <2>4, <3>3 DEF CountInv
      <4>3. challenge'[h].attempts <= MaxGuesses
        BY <2>2, <2>4
      <4> QED
        BY <2>4, <3>2, <3>4, <4>1, <4>2, <4>3 DEF CountInv
  <2> QED
    BY <2>5, <2>8, <2>9, <2>10
<1>8. ASSUME NEW s \in Sessions, Fail(s) PROVE IInv'
  <2>1. faults' \in 0..MaxFaults
    BY <1>8 DEF Fail, TypeOK
  <2> QED
    BY <1>8, <2>1, FinishOK DEF Fail, TypeOK
<1>9. ASSUME NEW e \in Emails, Deactivate(e) PROVE IInv'
  BY <1>9 DEF Deactivate, TypeOK, LockInv, OnInv, CountInv, Holds
<1>10. ASSUME NEW h \in Challenges, Expire(h) PROVE IInv'
  <2> USE <1>10 DEF Expire
  <2>1. /\ \A k \in Challenges \ {h} : challenge'[k] = challenge[k]
        /\ challenge'[h] \in Challenge
        /\ challenge'[h].attempts = challenge[h].attempts
        /\ challenge'[h].consumed = challenge[h].consumed
        /\ challenge'[h].email = challenge[h].email
        /\ challenge[h].email # None
    <3>1. challenge[h] \in Challenge /\ (~challenge[h].due) \in BOOLEAN
      BY DEF TypeOK
    <3>2. /\ challenge' = [challenge EXCEPT
                              ![h] = [challenge[h] EXCEPT
                                        !.due = TRUE,
                                        !.recent = ~challenge[h].due]]
          /\ challenge[h].email # None
      BY DEF Issued
    <3>3. PICK c \in Challenge, b \in BOOLEAN :
             /\ c = challenge[h]
             /\ challenge' = [challenge EXCEPT ![h] = [c EXCEPT !.due = TRUE,
                                                               !.recent = b]]
      BY <3>1, <3>2
    <3>4. challenge'[h] = [c EXCEPT !.due = TRUE, !.recent = b]
      BY <3>3 DEF TypeOK
    <3>5. /\ challenge'[h] \in Challenge
          /\ challenge'[h].attempts = c.attempts
          /\ challenge'[h].consumed = c.consumed
          /\ challenge'[h].email = c.email
      <4>1. PICK d : d = challenge'[h]
        OBVIOUS
      <4>2. c \in Challenge /\ b \in BOOLEAN
        BY <3>3
      <4>3. d = [c EXCEPT !.due = TRUE, !.recent = b]
        BY <3>4, <4>1
      <4>4. /\ d \in Challenge /\ d.attempts = c.attempts
            /\ d.consumed = c.consumed /\ d.email = c.email
        BY ONLY <4>2, <4>3, ExpiredTyped
      <4> QED
        BY <4>1, <4>4
    <3>6. \A k \in Challenges \ {h} : challenge'[k] = challenge[k]
      BY <3>3 DEF TypeOK
    <3> QED
      BY <3>2, <3>3, <3>5, <3>6
  <2>2. TypeOK'
    BY <2>1 DEF TypeOK
  <2>3. LockInv' /\ OnInv'
    <3>1. \A k \in Challenges : /\ challenge'[k].attempts = challenge[k].attempts
                                /\ challenge'[k].consumed = challenge[k].consumed
                                /\ challenge'[k].email = challenge[k].email
      BY <2>1
    <3>2. \A s \in Sessions, k \in Challenges : Holds(s, k)' <=> Holds(s, k)
      BY DEF Holds
    <3> QED
      BY <3>1, <3>2 DEF LockInv, OnInv
  <2>4. CountInv'
    BY <2>1 DEF CountInv
  <2> QED
    BY <2>2, <2>3, <2>4
<1>11. CASE UNCHANGED vars
  BY <1>11 DEF vars, TypeOK, LockInv, OnInv, CountInv, Holds
<1> QED
  BY <1>1, <1>2, <1>3, <1>4, <1>5, <1>6, <1>7, <1>8, <1>9, <1>10, <1>11
     DEF Next, Continue

\* Every value keeps its type.
THEOREM TypeCorrect == Spec => []TypeOK
<1>1. IInv => TypeOK
  BY DEF IInv
<1> QED
  BY <1>1, InitOK, StepOK, PTL DEF Spec

\* A code signs in at most once, however many requests present it together
\* (the row lock of get_official_challenge is held to the commit).
THEOREM OneLogin == Spec => []OneLoginPerChallenge
<1>1. IInv => OneLoginPerChallenge
  BY DEF IInv, CountInv, OneLoginPerChallenge
<1> QED
  BY <1>1, InitOK, StepOK, PTL DEF Spec

\* No more than MaxGuesses wrong codes are ever compared with a challenge.
THEOREM LockoutHolds == Spec => []GuessesBounded
<1>1. IInv => GuessesBounded
  BY OfficialSignInAssumption
     DEF IInv, TypeOK, Challenge, CountInv, GuessesBounded
<1> QED
  BY <1>1, InitOK, StepOK, PTL DEF Spec

-----------------------------------------------------------------------------
(***************************************************************************)
(* The hourly cap.  A request that has counted and not inserted yet is as  *)
(* good as a challenge, and there are no more of them than requests.       *)
(***************************************************************************)

Counting(e) == {s \in Sessions : task[s].pc = "counted" /\ task[s].email = e}

HourInv ==
    Cap > 0 => \A e \in Emails :
        Cardinality(RecentOf(e)) + Cardinality(Counting(e))
            < Cap + Cardinality(Sessions)

LEMMA SetsAreFinite ==
    ASSUME NEW e
    PROVE  /\ IsFiniteSet(RecentOf(e)) /\ IsFiniteSet(Counting(e))
           /\ Cardinality(RecentOf(e)) \in Nat
           /\ Cardinality(Counting(e)) \in Nat
           /\ Cardinality(Counting(e)) <= Cardinality(Sessions)
           /\ Cardinality(Sessions) \in Nat
<1>1. RecentOf(e) \subseteq Challenges /\ Counting(e) \subseteq Sessions
  BY DEF RecentOf, Counting
<1> QED
  BY <1>1, OfficialSignInAssumption, FS_Subset, FS_CardinalityType

\* Fewer recent challenges and fewer requests on the way keep the bound.
LEMMA ShrinkOK ==
    ASSUME HourInv,
           \A e \in Emails : /\ RecentOf(e)' \subseteq RecentOf(e)
                             /\ Counting(e)' \subseteq Counting(e)
    PROVE  HourInv'
<1> SUFFICES ASSUME Cap > 0, NEW e \in Emails
             PROVE  Cardinality(RecentOf(e)') + Cardinality(Counting(e)')
                        < Cap + Cardinality(Sessions)
  BY DEF HourInv
<1>1. /\ Cardinality(RecentOf(e)') <= Cardinality(RecentOf(e))
      /\ Cardinality(RecentOf(e)') \in Nat
  BY SetsAreFinite, FS_Subset, FS_CardinalityType
<1>2. /\ Cardinality(Counting(e)') <= Cardinality(Counting(e))
      /\ Cardinality(Counting(e)') \in Nat
  BY SetsAreFinite, FS_Subset, FS_CardinalityType
<1> QED
  BY <1>1, <1>2, SetsAreFinite, OfficialSignInAssumption DEF HourInv

LEMMA HourInit == Init => HourInv
<1> SUFFICES ASSUME Init, Cap > 0, NEW e \in Emails
             PROVE  Cardinality(RecentOf(e)) + Cardinality(Counting(e))
                        < Cap + Cardinality(Sessions)
  BY DEF HourInv
<1>1. RecentOf(e) = {} /\ Counting(e) = {}
  BY DEF Init, RecentOf, Counting, Unused, NoTask
<1> QED
  BY <1>1, FS_EmptySet, SetsAreFinite, OfficialSignInAssumption

LEMMA HourStep == IInv /\ HourInv /\ [Next]_vars => HourInv'
<1> SUFFICES ASSUME IInv, HourInv, [Next]_vars PROVE HourInv'
  OBVIOUS
<1> USE DEF IInv
<1>1. ASSUME NEW s \in Sessions, NEW e \in Emails, RequestOfficialCode(s, e)
      PROVE  HourInv'
  <2> SUFFICES ASSUME Cap > 0, NEW a \in Emails
               PROVE  Cardinality(RecentOf(a)') + Cardinality(Counting(a)')
                          < Cap + Cardinality(Sessions)
    BY DEF HourInv
  <2>1. RecentOf(a)' = RecentOf(a)
    BY <1>1 DEF RequestOfficialCode, RecentOf
  <2>2. CASE a = e
    <3>1. Cardinality(RecentOf(a)) < Cap
      BY <1>1, <2>2 DEF RequestOfficialCode
    <3>2. Counting(a)' \subseteq Sessions
      BY DEF Counting
    <3>3. /\ Cardinality(Counting(a)') <= Cardinality(Sessions)
          /\ Cardinality(Counting(a)') \in Nat
      BY <3>2, OfficialSignInAssumption, FS_Subset, FS_CardinalityType
    <3> QED
      BY <2>1, <3>1, <3>3, SetsAreFinite, OfficialSignInAssumption
  <2>3. CASE a # e
    <3>1. Counting(a)' = Counting(a)
      BY <1>1, <2>3 DEF RequestOfficialCode, Counting, TypeOK, NoTask, Idle
    <3> QED
      BY <2>1, <3>1 DEF HourInv
  <2> QED
    BY <2>2, <2>3
<1>2. ASSUME NEW s \in Sessions, NEW h \in Challenges,
             CreateOfficialChallenge(s, h)
      PROVE  HourInv'
  <2> DEFINE e == task[s].email
  <2> SUFFICES ASSUME Cap > 0, NEW a \in Emails
               PROVE  Cardinality(RecentOf(a)') + Cardinality(Counting(a)')
                          < Cap + Cardinality(Sessions)
    BY DEF HourInv
  <2>1. /\ \A k \in Challenges \ {h} : challenge'[k] = challenge[k]
        /\ challenge'[h].email = e /\ challenge'[h].recent
        /\ challenge[h].email = None
        /\ e \in Emails
    BY <1>2 DEF CreateOfficialChallenge, TypeOK, OnInv, Issued, Unused
  <2>2. /\ \A t \in Sessions \ {s} : task'[t] = task[t]
        /\ task[s].pc = "counted" /\ task'[s].pc # "counted"
    BY <1>2 DEF CreateOfficialChallenge, TypeOK, Finish, NoTask, Task
  <2>3. CASE a = e
    <3>1. /\ RecentOf(a)' = RecentOf(a) \cup {h}
          /\ h \notin RecentOf(a)
      BY <2>1, <2>3, OfficialSignInAssumption DEF RecentOf
    <3>2. /\ Counting(a)' = Counting(a) \ {s}
          /\ s \in Counting(a)
      BY <2>2, <2>3 DEF Counting
    <3>3. Cardinality(RecentOf(a)') = Cardinality(RecentOf(a)) + 1
      BY <3>1, SetsAreFinite, FS_AddElement
    <3>4. Cardinality(Counting(a)') = Cardinality(Counting(a)) - 1
      BY <3>2, SetsAreFinite, FS_RemoveElement
    <3> QED
      BY <3>3, <3>4, SetsAreFinite, OfficialSignInAssumption DEF HourInv
  <2>4. CASE a # e
    <3>1. RecentOf(a)' = RecentOf(a)
      BY <2>1, <2>4, OfficialSignInAssumption DEF RecentOf
    <3>2. Counting(a)' = Counting(a)
      BY <2>2, <2>4 DEF Counting
    <3> QED
      BY <3>1, <3>2 DEF HourInv
  <2> QED
    BY <2>3, <2>4
<1>3. ASSUME NEW s \in Sessions, NEW h \in Challenges, NEW right \in BOOLEAN,
             GetOfficialChallenge(s, h, right)
      PROVE  HourInv'
  BY <1>3, ShrinkOK DEF GetOfficialChallenge, RecentOf, Counting, TypeOK
<1>4. ASSUME NEW s \in Sessions,
             \/ SendOfficialCodeEmail(s) \/ GetOfficial(s) \/ Fail(s)
      PROVE  HourInv'
  BY <1>4, ShrinkOK
     DEF SendOfficialCodeEmail, GetOfficial, Fail, Goto, Finish, NoTask,
         RecentOf, Counting, TypeOK, Task
<1>5. ASSUME NEW s \in Sessions, RejectCode(s) \/ GrantSession(s)
      PROVE  HourInv'
  <2>1. \A k \in Challenges : /\ challenge'[k].email = challenge[k].email
                              /\ challenge'[k].recent = challenge[k].recent
    BY <1>5 DEF RejectCode, GrantSession, TypeOK, Challenge
  <2>2. \A e \in Emails : RecentOf(e)' \subseteq RecentOf(e)
    BY <2>1 DEF RecentOf
  <2>3. \A e \in Emails : Counting(e)' \subseteq Counting(e)
    BY <1>5 DEF RejectCode, GrantSession, Finish, NoTask, Counting, TypeOK
  <2> QED
    BY <2>2, <2>3, ShrinkOK
<1>6. ASSUME NEW h \in Challenges, Expire(h) PROVE HourInv'
  <2>1. \A e \in Emails : RecentOf(e)' \subseteq RecentOf(e)
    BY <1>6 DEF Expire, RecentOf, TypeOK, Challenge
  <2>2. \A e \in Emails : Counting(e)' \subseteq Counting(e)
    BY <1>6 DEF Expire, Counting
  <2> QED
    BY <2>1, <2>2, ShrinkOK
<1>7. ASSUME NEW e \in Emails, Deactivate(e) PROVE HourInv'
  BY <1>7, ShrinkOK DEF Deactivate, RecentOf, Counting
<1>8. CASE UNCHANGED vars
  BY <1>8, ShrinkOK DEF vars, RecentOf, Counting
<1> QED
  BY <1>1, <1>2, <1>3, <1>4, <1>5, <1>6, <1>7, <1>8 DEF Next, Continue

\* The hour's challenges for one address exceed the cap by at most the other
\* requests in flight (request_official_code counts before it inserts).
THEOREM HourlyCap == Spec => []HourlyIssueBounded
<1>1. HourInv => HourlyIssueBounded
  BY SetsAreFinite, OfficialSignInAssumption DEF HourInv, HourlyIssueBounded
<1>2. Init => IInv /\ HourInv
  BY InitOK, HourInit
<1>3. (IInv /\ HourInv) /\ [Next]_vars => (IInv /\ HourInv)'
  BY StepOK, HourStep
<1> QED
  BY <1>1, <1>2, <1>3, PTL DEF Spec
=============================================================================
