--------------------------- MODULE OfficialSignIn ---------------------------
(***************************************************************************)
(* An official's sign-in (officials.py, repositories/officials.py): a      *)
(* challenge, its code by e-mail after the response, and the verification  *)
(* of a code by whoever has the challenge's id.                            *)
(*                                                                         *)
(* Requests are READ COMMITTED transactions; one that acts on what it read *)
(* is split after the read.  get_official_challenge takes the row FOR      *)
(* UPDATE and holds it to the end of the transaction.  A code is right or  *)
(* wrong; which digits it has is left out.                                 *)
(***************************************************************************)
EXTENDS Naturals, FiniteSets

CONSTANTS
    Emails,      \* addresses that codes are asked for
    Accounts,    \* those of an official
    Challenges,  \* ids of official_login_challenges
    Sessions,    \* requests in flight at once
    None,
    DevCode,     \* TRUE if OFFICIAL_DEV_LOGIN_CODE is set (development, test)
    Cap,         \* official_code_max_per_hour
    MaxGuesses,  \* the 5 of verify_official_code
    MaxFaults    \* bound: mails lost and requests that die

ASSUME OfficialSignInAssumption ==
    /\ IsFiniteSet(Challenges) /\ IsFiniteSet(Sessions)
    /\ Accounts \subseteq Emails
    /\ None \notin Emails \cup Challenges
    /\ DevCode \in BOOLEAN
    /\ Cap \in Nat
    /\ MaxGuesses \in Nat
    /\ MaxFaults \in Nat

VARIABLES
    active,     \* the officials not deactivated
    challenge,  \* the rows
    mailed,     \* challenges whose code is in the official's mailbox
    wrong,      \* ghost: wrong codes compared with each challenge's
    logins,     \* the "login" audit rows each challenge led to
    task,       \* what each request is doing
    faults

vars == <<active, challenge, mailed, wrong, logins, task, faults>>

\* official: official_user_id is set.  recent: created_at lies in the last hour.
\* due: expires_at has passed.
Challenge == [email : Emails \cup {None}, official : BOOLEAN, recent : BOOLEAN,
              due : BOOLEAN, attempts : Nat, consumed : BOOLEAN]

Unused == [email |-> None, official |-> FALSE, recent |-> FALSE, due |-> FALSE,
           attempts |-> 0, consumed |-> FALSE]

\* right: the code compares equal, to the challenge's or to the dev code.
Task == [pc : {"idle", "counted", "mail", "compare", "grant"},
         on : Challenges \cup {None}, email : Emails \cup {None},
         right : BOOLEAN, seen : Nat]

NoTask == [pc |-> "idle", on |-> None, email |-> None, right |-> FALSE,
           seen |-> 0]

Init ==
    /\ active = Accounts
    /\ challenge = [h \in Challenges |-> Unused]
    /\ mailed = {}
    /\ wrong = [h \in Challenges |-> 0]
    /\ logins = [h \in Challenges |-> 0]
    /\ task = [s \in Sessions |-> NoTask]
    /\ faults = 0

-----------------------------------------------------------------------------

Idle(s) == task[s].pc = "idle"

Goto(s, pc) == task' = [task EXCEPT ![s].pc = pc]

Finish(s) == task' = [task EXCEPT ![s] = NoTask]

Issued(h) == challenge[h].email # None

\* _recent_official_challenge_count
RecentOf(e) == {h \in Challenges : challenge[h].email = e /\ challenge[h].recent}

-----------------------------------------------------------------------------
(***************************************************************************)
(* request_official_code.                                                  *)
(***************************************************************************)

\* A variant of RequestOfficialCode below that counts one too few.
RequestOneMore(s, e) ==
    /\ Idle(s)
    /\ Cardinality(RecentOf(e)) <= Cap
    /\ task' = [task EXCEPT ![s] = [NoTask EXCEPT !.pc = "counted", !.email = e]]
    /\ UNCHANGED <<active, challenge, mailed, wrong, logins, faults>>

\* The count is below the cap; otherwise the answer is a 429.
RequestOfficialCode(s, e) ==
    /\ Idle(s)
    /\ Cardinality(RecentOf(e)) < Cap
    /\ task' = [task EXCEPT ![s] = [NoTask EXCEPT !.pc = "counted", !.email = e]]
    /\ UNCHANGED <<active, challenge, mailed, wrong, logins, faults>>

\* The challenge is committed for any address; only one that is an active
\* official's now is bound to the official, and a mail planned for it.
CreateOfficialChallenge(s, h) ==
    LET e == task[s].email
    IN  /\ task[s].pc = "counted"
        /\ ~Issued(h)
        /\ challenge' = [challenge EXCEPT ![h] =
                            [Unused EXCEPT !.email = e, !.recent = TRUE,
                                           !.official = e \in active]]
        /\ IF e \in active
           THEN task' = [task EXCEPT ![s].pc = "mail", ![s].on = h]
           ELSE Finish(s)
        /\ UNCHANGED <<active, mailed, wrong, logins, faults>>

\* The background task, after the response.  A failure is logged, not retried.
SendOfficialCodeEmail(s) ==
    /\ task[s].pc = "mail"
    /\ mailed' = mailed \cup {task[s].on}
    /\ Finish(s)
    /\ UNCHANGED <<active, challenge, wrong, logins, faults>>

-----------------------------------------------------------------------------
(***************************************************************************)
(* verify_official_code.                                                   *)
(***************************************************************************)

HasOfficial(h) == challenge[h].official

Held(h) == \E s \in Sessions : task[s].pc \in {"compare", "grant"}
                               /\ task[s].on = h

Live(h) == /\ Issued(h)
           /\ ~challenge[h].consumed
           /\ ~challenge[h].due
           /\ challenge[h].attempts < MaxGuesses

\* A variant of GetOfficialChallenge below that does not lock the row.
GetUnlocked(s, h, right) ==
    /\ Idle(s)
    /\ Live(h)
    /\ right => h \in mailed \/ DevCode
    /\ task' = [task EXCEPT ![s] = [pc |-> "compare", on |-> h, email |-> None,
                                    right |-> right,
                                    seen |-> challenge[h].attempts]]
    /\ UNCHANGED <<active, challenge, mailed, wrong, logins, faults>>

\* The row is locked and live; otherwise nothing changes.  The right code
\* comes from the mailbox, or is the dev code.
GetOfficialChallenge(s, h, right) ==
    /\ Idle(s)
    /\ ~Held(h)
    /\ Live(h)
    /\ right => h \in mailed \/ DevCode
    /\ task' = [task EXCEPT ![s] = [pc |-> "compare", on |-> h, email |-> None,
                                    right |-> right,
                                    seen |-> challenge[h].attempts]]
    /\ UNCHANGED <<active, challenge, mailed, wrong, logins, faults>>

\* The wrong code, or the challenge of nobody who was an official when it was
\* issued: the attempt is committed.
RejectCode(s) ==
    LET h == task[s].on
    IN  /\ task[s].pc = "compare"
        /\ ~task[s].right \/ ~HasOfficial(h)
        /\ challenge' = [challenge EXCEPT ![h].attempts = task[s].seen + 1]
        /\ wrong' = [wrong EXCEPT ![h] = IF task[s].right THEN @ ELSE @ + 1]
        /\ Finish(s)
        /\ UNCHANGED <<active, mailed, logins, faults>>

\* The official is loaded: active, or a 401 that takes the attempt back.
GetOfficial(s) ==
    LET h == task[s].on
    IN  /\ task[s].pc = "compare"
        /\ task[s].right /\ HasOfficial(h)
        /\ IF challenge[h].email \in active THEN Goto(s, "grant") ELSE Finish(s)
        /\ UNCHANGED <<active, challenge, mailed, wrong, logins, faults>>

\* consumed_at, the attempt and the audit row are committed; the token follows.
GrantSession(s) ==
    LET h == task[s].on
    IN  /\ task[s].pc = "grant"
        /\ challenge' = [challenge EXCEPT ![h].attempts = task[s].seen + 1,
                                          ![h].consumed = TRUE]
        /\ logins' = [logins EXCEPT ![h] = @ + 1]
        /\ Finish(s)
        /\ UNCHANGED <<active, mailed, wrong, faults>>

-----------------------------------------------------------------------------

\* An administrator deactivates an official; no code of the service does.
Deactivate(e) ==
    /\ e \in active
    /\ active' = active \ {e}
    /\ UNCHANGED <<challenge, mailed, wrong, logins, task, faults>>

\* Ten minutes pass, or the hour.
Expire(h) ==
    /\ Issued(h) /\ challenge[h].recent
    /\ challenge' = [challenge EXCEPT ![h].due = TRUE,
                                      ![h].recent = ~challenge[h].due]
    /\ UNCHANGED <<active, mailed, wrong, logins, task, faults>>

\* The mail is lost, or the request dies and its transaction is rolled back.
Fail(s) ==
    /\ ~Idle(s)
    /\ faults < MaxFaults
    /\ faults' = faults + 1
    /\ Finish(s)
    /\ UNCHANGED <<active, challenge, mailed, wrong, logins>>

Continue(s) ==
    \/ \E h \in Challenges : CreateOfficialChallenge(s, h)
    \/ SendOfficialCodeEmail(s)
    \/ RejectCode(s) \/ GetOfficial(s) \/ GrantSession(s)

Next ==
    \/ \E s \in Sessions, e \in Emails : RequestOfficialCode(s, e)
    \/ \E s \in Sessions, h \in Challenges, right \in BOOLEAN :
          GetOfficialChallenge(s, h, right)
    \/ \E s \in Sessions : Continue(s) \/ Fail(s)
    \/ \E e \in Emails : Deactivate(e)
    \/ \E h \in Challenges : Expire(h)

Spec == Init /\ [][Next]_vars

-----------------------------------------------------------------------------
(***************************************************************************)
(* Properties.                                                             *)
(***************************************************************************)

TypeOK ==
    /\ active \subseteq Accounts
    /\ challenge \in [Challenges -> Challenge]
    /\ mailed \subseteq Challenges
    /\ wrong \in [Challenges -> Nat]
    /\ logins \in [Challenges -> Nat]
    /\ task \in [Sessions -> Task]
    /\ faults \in 0..MaxFaults

\* One code signs in once, however many requests present it at the same time
\* (verify_official_code sets consumed_at under the row lock).
OneLoginPerChallenge == \A h \in Challenges : logins[h] <= 1

\* No interleaving of verifications compares more than MaxGuesses wrong codes
\* with one challenge (the "per-challenge 5-attempt lockout").
GuessesBounded == \A h \in Challenges : wrong[h] <= MaxGuesses

\* The count of request_official_code is taken before the insert, so requests
\* in flight together pass it together: the hour's challenges for one address
\* exceed the cap by at most the other requests.
HourlyIssueBounded ==
    Cap > 0 => \A e \in Emails :
        Cardinality(RecentOf(e)) < Cap + Cardinality(Sessions)
=============================================================================
