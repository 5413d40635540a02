-------------------------------- MODULE Dedup --------------------------------
(***************************************************************************)
(* Duplicates: finalize_grievance files a complaint in the dedup window or *)
(* attaches it to a nearby complaint of the same category that waits there *)
(* (pipeline/core.py, pipeline/dedup.py, repositories/grievances.py), and  *)
(* what else writes the status of a complaint before and after.            *)
(*                                                                         *)
(* finalize_grievance is one READ COMMITTED transaction.  Its first flush  *)
(* updates the complaint's own row and so holds that row's lock to the end;*)
(* the search for a duplicate reads the other rows as committed then,      *)
(* without a lock; the master's counter is written last, from the value    *)
(* the search read.  It does not look at the status it finds, so any call  *)
(* of it may begin at any time: which calls the endpoints and the chat     *)
(* make is module Grievance's subject.                                     *)
(***************************************************************************)
EXTENDS Naturals, FiniteSets

CONSTANTS
    Complaints,  \* grievance ids
    Categories,  \* civic categories
    Near,        \* pairs of complaints within DEDUP_RADIUS_M
    Confirms,    \* calls of finalize_grievance
    Rewrites,    \* photo checks, runs of the pipeline and cancellations
    Of,          \* the complaint each of these calls is for
    None         \* no complaint, no lock holder

ASSUME DedupAssumption ==
    /\ Near \subseteq Complaints \X Complaints
    /\ Of \in [Confirms \cup Rewrites -> Complaints]
    /\ None \notin Complaints
    /\ None \notin Confirms

VARIABLES
    status,   \* the committed status of each complaint
    category, \* its category
    open,     \* whether its window_expires_at lies in the future
    master,   \* duplicate_of_id
    count,    \* report_count
    lock,     \* the transaction that holds the row's lock
    txn,      \* what each call of finalize_grievance is doing
    rewrite,  \* what each other call is doing
    due,      \* complaints dispatch_grievance is about to be called for
    calling   \* complaints whose department is being called

vars == <<status, category, open, master, count, lock, txn, rewrite, due,
          calling>>

Checked == {"photo_mismatch", "awaiting_confirmation"}

\* A complaint that stands for itself: it waits, or is with a department or an
\* official.
Standing == {"registered", "pending_window", "dispatching", "submitted",
             "dispatch_failed"}

Filed == Standing \cup {"duplicate"}

Status == Checked \cup Filed \cup {"cancelled"}

\* found, seen: the master the search returned, and its report_count then.
Txn == [pc : {"new", "search", "attach", "enter", "attached", "filed", "lost"},
        found : Complaints \cup {None}, seen : Nat]

\* read: the status a check found.  A call is "back" when it took back a
\* complaint that had been filed.
Rewrite == [pc : {"new", "check", "over", "back"}, read : Status]

Init ==
    /\ status \in [Complaints -> Checked]
    /\ category \in [Complaints -> Categories]
    /\ open = [g \in Complaints |-> FALSE]
    /\ master = [g \in Complaints |-> None]
    /\ count = [g \in Complaints |-> 1]
    /\ lock = [g \in Complaints |-> None]
    /\ txn = [t \in Confirms |-> [pc |-> "new", found |-> None, seen |-> 0]]
    /\ rewrite = [r \in Rewrites |-> [pc |-> "new",
                                      read |-> "awaiting_confirmation"]]
    /\ due = {}
    /\ calling = {}

-----------------------------------------------------------------------------
(***************************************************************************)
(* finalize_grievance.                                                     *)
(***************************************************************************)

SetStatus(g, s) == status' = [status EXCEPT ![g] = s]

Release(t, pc) ==
    /\ lock' = [lock EXCEPT ![Of[t]] = None]
    /\ txn' = [txn EXCEPT ![t].pc = pc]

\* Held for an official; or priority, and then dispatch_grievance is called.
FileAtOnce(t) ==
    /\ txn[t].pc = "new"
    /\ lock[Of[t]] = None
    /\ SetStatus(Of[t], "registered")
    /\ Release(t, "filed")
    /\ due' \in {due, due \cup {Of[t]}}
    /\ UNCHANGED <<category, open, master, count, rewrite, calling>>

\* The first flush for a normal complaint: status "registered", confirmed_at.
Register(t) ==
    /\ txn[t].pc = "new"
    /\ lock[Of[t]] = None
    /\ lock' = [lock EXCEPT ![Of[t]] = t]
    /\ txn' = [txn EXCEPT ![t].pc = "search"]
    /\ UNCHANGED <<status, category, open, master, count, rewrite, due, calling>>

\* A variant of Candidates below that does not ask whether the complaint waits
\* in the window.
AnyNear(g) ==
    {m \in Complaints \ {g} : <<g, m>> \in Near /\ category[m] = category[g]}

\* find_dedup_candidates, and the distance check of find_duplicate.
Candidates(g) ==
    {m \in Complaints \ {g} : /\ <<g, m>> \in Near
                              /\ category[m] = category[g]
                              /\ status[m] = "pending_window"
                              /\ open[m]}

Found(t, m) ==
    txn' = [txn EXCEPT ![t] = [pc |-> "attach", found |-> m, seen |-> count[m]]]

\* A variant of FindDuplicate below that counts the report at once, in a
\* transaction of its own.
CountAtOnce(t) ==
    LET found == Candidates(Of[t])
    IN  /\ txn[t].pc = "search"
        /\ \/ \E m \in found : /\ Found(t, m)
                              /\ count' = [count EXCEPT ![m] = @ + 1]
           \/ /\ found = {}
              /\ txn' = [txn EXCEPT ![t].pc = "enter"]
              /\ UNCHANGED count
        /\ UNCHANGED <<status, category, open, master, lock, rewrite, due,
                       calling>>

FindDuplicate(t) ==
    LET found == Candidates(Of[t])
    IN  /\ txn[t].pc = "search"
        /\ \/ \E m \in found : Found(t, m)
           \/ /\ found = {}
              /\ txn' = [txn EXCEPT ![t].pc = "enter"]
        /\ UNCHANGED <<status, category, open, master, count, lock, rewrite,
                       due, calling>>

NewCount(n) == n + 1

\* The master's row is updated as soon as nobody else holds its lock, whatever
\* it says by then.
AttachToMaster(t) ==
    LET m == txn[t].found
    IN  /\ txn[t].pc = "attach"
        /\ lock[m] = None
        /\ SetStatus(Of[t], "duplicate")
        /\ master' = [master EXCEPT ![Of[t]] = m]
        /\ count' = [count EXCEPT ![m] = NewCount(txn[t].seen)]
        /\ Release(t, "attached")
        /\ UNCHANGED <<category, open, rewrite, due, calling>>

EnterWindow(t) ==
    /\ txn[t].pc = "enter"
    /\ SetStatus(Of[t], "pending_window")
    /\ open' = [open EXCEPT ![Of[t]] = TRUE]
    /\ Release(t, "filed")
    /\ UNCHANGED <<category, master, count, rewrite, due, calling>>

\* The process dies, or PostgreSQL breaks a deadlock on two rows' locks.
Rollback(t) ==
    /\ txn[t].pc \in {"search", "attach", "enter"}
    /\ Release(t, "lost")
    /\ UNCHANGED <<status, category, open, master, count, rewrite, due, calling>>

-----------------------------------------------------------------------------
(***************************************************************************)
(* dispatch_grievance, called for what it was given and not for what the   *)
(* row says by then.                                                       *)
(***************************************************************************)

WindowExpires(g) ==
    /\ open[g]
    /\ open' = [open EXCEPT ![g] = FALSE]
    /\ UNCHANGED <<status, category, master, count, lock, txn, rewrite, due,
                   calling>>

\* sweep_expired_windows and sweep_stuck_dispatching fetch the complaint's id.
FetchDue(g) ==
    /\ \/ status[g] = "pending_window" /\ ~open[g]
       \/ status[g] = "dispatching"
    /\ due' = due \cup {g}
    /\ UNCHANGED <<status, category, open, master, count, lock, txn, rewrite,
                   calling>>

\* The route is not enabled.
RefuseDispatch(g) ==
    /\ g \in due
    /\ lock[g] = None
    /\ SetStatus(g, "registered")
    /\ due' = due \ {g}
    /\ UNCHANGED <<category, open, master, count, lock, txn, rewrite, calling>>

BeginDispatch(g) ==
    /\ g \in due
    /\ lock[g] = None
    /\ SetStatus(g, "dispatching")
    /\ due' = due \ {g}
    /\ calling' = calling \cup {g}
    /\ UNCHANGED <<category, open, master, count, lock, txn, rewrite>>

\* The department took the complaint, or refused it once too often; or the call
\* is lost, or refused and to be repeated, and the status not written.
EndDispatch(g) ==
    /\ g \in calling
    /\ calling' = calling \ {g}
    /\ \/ /\ lock[g] = None
          /\ \E s \in {"submitted", "dispatch_failed"} : SetStatus(g, s)
       \/ UNCHANGED status
    /\ UNCHANGED <<category, open, master, count, lock, txn, rewrite, due>>

-----------------------------------------------------------------------------
(***************************************************************************)
(* The other writers of the status and of the category.                    *)
(***************************************************************************)

\* recheck_image, for PATCH /photo or for the chat, or run_pipeline reads the
\* row, which may have been filed or be filed meanwhile.
BeginCheck(r) ==
    /\ rewrite[r].pc = "new"
    /\ rewrite' = [rewrite EXCEPT ![r] = [pc |-> "check", read |-> status[Of[r]]]]
    /\ UNCHANGED <<status, category, open, master, count, lock, txn, due, calling>>

\* Call r writes status s over whatever the row says by now.
Overwrite(r, s) ==
    LET g == Of[r]
    IN  /\ lock[g] = None
        /\ SetStatus(g, s)
        /\ rewrite' = [rewrite EXCEPT ![r].pc = IF status[g] \in Filed
                                                THEN "back" ELSE "over"]
        /\ UNCHANGED <<category, open, master, count, lock, txn, due, calling>>

\* A status set to the value that was read is not written.
EndCheck(r) ==
    /\ rewrite[r].pc = "check"
    /\ \/ \E s \in Checked \ {rewrite[r].read} : Overwrite(r, s)
       \/ /\ rewrite[r].read \in Checked
          /\ rewrite' = [rewrite EXCEPT ![r].pc = "over"]
          /\ UNCHANGED <<status, category, open, master, count, lock, txn, due,
                         calling>>

\* cancel_grievance: a No in the chat, which may follow a Yes on the web.
CancelGrievance(r) ==
    /\ rewrite[r].pc = "new"
    /\ Overwrite(r, "cancelled")

\* PATCH /review, before the complaint is filed or after.
UpdateReview(g) ==
    /\ lock[g] = None
    /\ \E c \in Categories : category' = [category EXCEPT ![g] = c]
    /\ UNCHANGED <<status, open, master, count, lock, txn, rewrite, due, calling>>

Next ==
    \/ \E t \in Confirms : \/ FileAtOnce(t) \/ Register(t) \/ FindDuplicate(t)
                           \/ AttachToMaster(t) \/ EnterWindow(t)
                           \/ Rollback(t)
    \/ \E g \in Complaints : \/ WindowExpires(g) \/ FetchDue(g)
                             \/ RefuseDispatch(g) \/ BeginDispatch(g)
                             \/ EndDispatch(g) \/ UpdateReview(g)
    \/ \E r \in Rewrites : BeginCheck(r) \/ EndCheck(r) \/ CancelGrievance(r)

Spec == Init /\ [][Next]_vars

-----------------------------------------------------------------------------
(***************************************************************************)
(* Properties.                                                             *)
(***************************************************************************)

TypeOK ==
    /\ status \in [Complaints -> Status]
    /\ category \in [Complaints -> Categories]
    /\ open \in [Complaints -> BOOLEAN]
    /\ master \in [Complaints -> Complaints \cup {None}]
    /\ count \in [Complaints -> Nat]
    /\ lock \in [Complaints -> Confirms \cup {None}]
    /\ txn \in [Confirms -> Txn]
    /\ rewrite \in [Rewrites -> Rewrite]
    /\ due \subseteq Complaints
    /\ calling \subseteq Complaints

\* A call of finalize_grievance that has committed.
Done(t) == txn[t].pc \in {"attached", "filed"}

TakenBack(g) == \E r \in Rewrites : Of[r] = g /\ rewrite[r].pc = "back"

ConfirmedAgain(g) ==
    \E t, u \in Confirms : t # u /\ Of[t] = g /\ Of[u] = g /\ Done(t) /\ Done(u)

Undisturbed(g) == ~TakenBack(g) /\ ~ConfirmedAgain(g)

\* A complaint is attached to one that stands for itself: waiting, sent or with
\* an official, never to another duplicate nor to one that was not filed,
\* unless that one was taken back after it was filed, or filed twice
\* (finalize_grievance and find_duplicate).
MasterStands ==
    \A g \in Complaints :
        status[g] = "duplicate" /\ Undisturbed(master[g])
            => status[master[g]] \in Standing

Duplicates(m) == {g \in Complaints : status[g] = "duplicate" /\ master[g] = m}

\* The confirmations that attached a complaint to m.
Attached(m) == {t \in Confirms : txn[t].pc = "attached" /\ txn[t].found = m}

\* The counter never tells of more reports than were attached, and each of them
\* is a duplicate still, unless it was taken back after it was filed, or filed
\* twice (finalize_grievance, which counts from the value its search read).
CountNotInflated ==
    \A m \in Complaints :
        /\ count[m] <= 1 + Cardinality(Attached(m))
        /\ \A t \in Attached(m) : Undisturbed(Of[t]) => Of[t] \in Duplicates(m)

\* The counter is the number of reports (README: "Attach to existing
\* (report_count++)").
ReportCountExact ==
    \A m \in Complaints : count[m] = 1 + Cardinality(Duplicates(m))
=============================================================================
