------------------------------ MODULE Grievance ------------------------------
(***************************************************************************)
(* The life of a complaint row: pipeline/core.py and its callers in        *)
(* web/api.py, officials.py, worker.py and whatsapp/processing.py.         *)
(*                                                                         *)
(* Every operation of the program runs in a session of its own: it reads   *)
(* the row, spends seconds or minutes in a model, a download or a          *)
(* municipal API, and only then writes and commits.  No write is guarded   *)
(* by the status that was read.  A task carries what it read of the row in *)
(* `seen'; a write goes through Net, because SQLAlchemy's UPDATE leaves    *)
(* out a column set to the value that was loaded.                          *)
(*                                                                         *)
(* Operations with no external call between read and write (review,        *)
(* official action, accept, finalize, cancel) are single steps.  Which     *)
(* complaint a duplicate is attached to is module Dedup's subject: here a  *)
(* duplicate is a choice of the environment.                               *)
(***************************************************************************)
EXTENDS Naturals

CONSTANTS
    Complaints,   \* grievance ids
    Web,          \* the complaints filed on the web; the others come by chat
    Owned,        \* the complaints with a user_id: those filed on the web, and
                  \* those of a chat whose citizen had a web account already
    Workers,      \* worker.py processes
    Requests,     \* API requests and BackgroundTasks in flight at once
    NoComplaint,  \* what an idle task is working on
    Decisions,    \* what classification and policy can decide about a text
    Verdicts,     \* review_status values an official's action can set
    Unreadable,   \* complaints whose receipt PDF may be gone from the disk
    SlowRuns,     \* TRUE if a pipeline run can outlive its lease or the 300 s
                  \* after which the sweep takes it for dead
    MaxAttempts,  \* MAX_DISPATCH_ATTEMPTS, and the 5 of fetch_stuck_dispatching
    MaxErrors,    \* bound: how often the municipal API refuses
    MaxRedo,      \* bound: "reextract" jobs of a complaint waiting at once
    MaxCrashes    \* bound: how many tasks die with their process or by an
                  \* exception

Sessions == Workers \cup Requests

Status == {"draft", "processing", "photo_mismatch", "awaiting_confirmation",
           "registered", "pending_window", "dispatching", "submitted",
           "duplicate", "cancelled", "dispatch_failed"}

\* The statuses that tell the citizen that the complaint was filed.
Filed == {"registered", "pending_window", "dispatching", "submitted",
          "duplicate", "dispatch_failed"}

AllVerdicts == {"approved", "redirected", "rejected", "awaiting_citizen"}

ReviewStatus == {"none", "citizen_review", "pending_official"} \cup AllVerdicts

Priority == {"normal", "priority"}

\* What the model, the taxonomy and the routing policy make of a text: it is
\* held for an official or not, its priority, and whether it may be dispatched.
Decision == [hold : BOOLEAN, prio : Priority, live : BOOLEAN]

ASSUME GrievanceAssumption ==
    /\ NoComplaint \notin Complaints
    /\ Web \subseteq Owned
    /\ Owned \subseteq Complaints
    /\ Unreadable \subseteq Complaints
    /\ Workers \cap Requests = {}
    /\ Decisions \subseteq Decision
    /\ Verdicts \subseteq AllVerdicts
    /\ SlowRuns \in BOOLEAN
    /\ MaxAttempts \in Nat \ {0}
    /\ MaxErrors \in Nat
    /\ MaxRedo \in Nat
    /\ MaxCrashes \in Nat

VARIABLES
    row,      \* the committed row of each complaint
    chat,     \* the state of the conversation the complaint was drafted in
    job,      \* the "intelligence" pipeline job of the complaint
    redo,     \* how many "reextract" jobs of the complaint wait for a worker
    task,     \* what each session is doing
    sent,     \* how often the department was handed the complaint: 0, 1, 2 = many
    errors,   \* refusals of the municipal API so far
    crashes   \* tasks lost so far

vars == <<row, chat, job, redo, task, sent, errors, crashes>>

(***************************************************************************)
(* The columns of a row the lifecycle reads.  hold: the disposition is one *)
(* of redirect, emergency_redirect, needs_human_review.  route: the        *)
(* routing snapshot is absent, or says dispatch_enabled or not.  located:  *)
(* jurisdiction_id and issue_text are set, which only run_pipeline does.   *)
(* window: window_expires_at is unset, in the future, or past.             *)
(***************************************************************************)
Row == [status : Status, review : ReviewStatus, hold : BOOLEAN,
        prio : Priority, route : {"none", "off", "on"}, located : BOOLEAN,
        confirmed : BOOLEAN, window : {"none", "open", "expired"},
        attempts : Nat]

Draft == [status |-> "draft", review |-> "none", hold |-> FALSE,
          prio |-> "normal", route |-> "none", located |-> FALSE,
          confirmed |-> FALSE, window |-> "none", attempts |-> 0]

ChatState == {"web", "processing", "photo_mismatch",
              "awaiting_confirmation", "done", "expired"}

Step == {"idle", "extract_turn", "swept", "extract", "extract_job",
         "complete_job", "reply", "recheck", "recheck_web", "accept",
         "finalize", "cancel", "dispatch", "call", "accepted", "refused",
         "reextract", "complete_redo"}

Task == [pc : Step, on : Complaints \cup {NoComplaint}, seen : Row,
         out : {"none", "photo_mismatch", "awaiting_confirmation"}]

NoTask == [pc |-> "idle", on |-> NoComplaint, seen |-> Draft, out |-> "none"]

Init ==
    /\ row = [g \in Complaints |-> Draft]
    /\ chat = [g \in Complaints |-> IF g \in Web THEN "web" ELSE "processing"]
    /\ job = [g \in Complaints |-> "none"]
    /\ redo = [g \in Complaints |-> 0]
    /\ task = [s \in Sessions |-> NoTask]
    /\ sent = [g \in Complaints |-> 0]
    /\ errors = 0
    /\ crashes = 0

-----------------------------------------------------------------------------
(***************************************************************************)
(* Sessions and rows.                                                      *)
(***************************************************************************)

Idle(s) == task[s].pc = "idle"

\* Session s begins step pc on complaint g, having read `seen' of the row.
Load(s, pc, g, seen) ==
    task' = [task EXCEPT ![s] = [pc |-> pc, on |-> g, seen |-> seen,
                                 out |-> "none"]]

\* Session s is about to begin step pc on complaint g and has not read the row.
Call(s, pc, g) == Load(s, pc, g, Draft)

Advance(s, pc) == Call(s, pc, task[s].on)

\* Session s has checked its complaint with result out.
Reply(s, pc, out) ==
    task' = [task EXCEPT ![s] = [pc |-> pc, on |-> task[s].on, seen |-> Draft,
                                 out |-> out]]

Finish(s) == task' = [task EXCEPT ![s] = NoTask]

\* The commit that leaves r as the row of complaint g.
Write(g, r) == row' = [row EXCEPT ![g] = r]

\* What a column holds after the commit of a session that loaded `seen' and
\* set `new': a column set to the value it was loaded with is not updated.
Net(now, seen, new) == IF new = seen THEN now ELSE new

\* The columns recheck_image and reextract_grievance both read and write.
StatusOf(r) == [Draft EXCEPT !.status = r.status]

DecisionOf(r) == [r EXCEPT !.status = Draft.status, !.attempts = 0,
                           !.confirmed = FALSE, !.window = "none"]

ReviewFor(hold) == IF hold THEN "pending_official" ELSE "citizen_review"

RouteFor(live) == IF live THEN "on" ELSE "off"

\* Row r after a session that loaded `seen' records decision d.
Classified(r, seen, d) ==
    [r EXCEPT !.hold   = Net(@, seen.hold, d.hold),
              !.review = Net(@, seen.review, ReviewFor(d.hold)),
              !.prio   = Net(@, seen.prio, d.prio),
              !.route  = Net(@, seen.route, RouteFor(d.live))]

\* Some session is at one of the steps pcs with complaint g.
Busy(g, pcs) == \E s \in Sessions : task[s].on = g /\ task[s].pc \in pcs

-----------------------------------------------------------------------------
(***************************************************************************)
(* First pass: run_pipeline, from the job queue, from the conversation     *)
(* turn that completed the draft, or from the sweep of stuck drafts.       *)
(***************************************************************************)

\* create_draft's second transaction: the uploads are on disk.  The draft is
\* listed to its owner before, and its status is not asked for; the request is
\* over long before the sweep takes its draft for a stuck one.
SubmitDraft(g) ==
    /\ g \in Web
    /\ job[g] = "none"
    /\ ~row[g].located /\ ~Busy(g, {"swept", "extract"})
    /\ Write(g, [row[g] EXCEPT !.status = "processing"])
    /\ job' = [job EXCEPT ![g] = "open"]
    /\ UNCHANGED <<chat, redo, task, sent, errors, crashes>>

\* The worker runs the complaint's job, for the first time or again.  Its lease
\* keeps the other workers from it.
RunJob(s, g) ==
    /\ s \in Workers /\ Idle(s)
    /\ job[g] = "open"
    /\ SlowRuns \/ ~Busy(g, {"extract_job", "complete_job"})
    /\ Load(s, "extract_job", g, row[g])
    /\ UNCHANGED <<row, chat, job, redo, sent, errors, crashes>>

\* A variant of Unrun below that forgets the chat drafts.
UnrunWebOnly == {"processing"}

Unrun == {"draft", "processing"}

\* run_pipeline_followup in the turn that completed the draft.
RunPipelineFollowup(s, g) ==
    /\ Idle(s)
    /\ g \notin Web
    /\ row[g].status = "draft"
    /\ ~Busy(g, {"extract_turn", "swept", "extract"})
    /\ Load(s, "extract_turn", g, row[g])
    /\ UNCHANGED <<row, chat, job, redo, sent, errors, crashes>>

\* sweep_stuck_processing fetches the complaint's id, 300 s after the last
\* write of the row: the turn that completed the draft is over by then.
SweepStuckProcessing(s, g) ==
    /\ s \in Workers /\ Idle(s)
    /\ row[g].status \in Unrun
    /\ SlowRuns \/ ~Busy(g, {"extract_turn"})
    /\ Call(s, "swept", g)
    /\ UNCHANGED <<row, chat, job, redo, sent, errors, crashes>>

\* When the sweep gets to that id it does not look at the status again.
RunSwept(s) ==
    LET g == task[s].on
    IN  /\ task[s].pc = "swept"
        /\ Load(s, "extract", g, row[g])
        /\ UNCHANGED <<row, chat, job, redo, sent, errors, crashes>>

\* The statuses a classification or a photo check can lead to.
Checked == {"photo_mismatch", "awaiting_confirmation"}

AfterRun(s) ==
    IF task[s].pc = "extract_job" THEN "complete_job" ELSE "reply"

\* run_pipeline's only write: everything the model found, and the next status.
RunPipeline(s) ==
    LET g == task[s].on
        seen == task[s].seen
    IN  /\ task[s].pc \in {"extract_turn", "extract", "extract_job"}
        /\ \E d \in Decisions, next \in Checked :
              /\ Write(g, [Classified(row[g], seen, d) EXCEPT
                              !.status = Net(@, seen.status, next),
                              !.located = TRUE])
              /\ Reply(s, AfterRun(s), next)
        /\ UNCHANGED <<chat, job, redo, sent, errors, crashes>>

\* A variant of CompleteJob below in which a failed run also completes its job.
CompleteFailedJob(s) ==
    LET g == task[s].on
    IN  /\ \/ /\ task[s].pc \in {"extract_job", "complete_job"}
              /\ job' = [job EXCEPT ![g] = "closed"]
           \/ /\ task[s].pc = "complete_redo"
              /\ UNCHANGED job
        /\ Finish(s)
        /\ UNCHANGED <<row, chat, redo, sent, errors, crashes>>

\* complete_pipeline_job, in a transaction after the run's own.
CompleteJob(s) ==
    LET g == task[s].on
    IN  /\ \/ /\ task[s].pc = "complete_job"
              /\ job' = [job EXCEPT ![g] = "closed"]
           \/ /\ task[s].pc = "complete_redo"
              /\ UNCHANGED job
        /\ Finish(s)
        /\ UNCHANGED <<row, chat, redo, sent, errors, crashes>>

\* The states in which the conversation is still active.
Active(g) == chat[g] \notin {"web", "done", "expired"}

\* Time passes expires_at of the conversation: the next look at it finds none.
ConversationExpires(g) ==
    /\ Active(g)
    /\ chat' = [chat EXCEPT ![g] = "expired"]
    /\ UNCHANGED <<row, job, redo, task, sent, errors, crashes>>

\* A variant of SendFollowup below that leaves the conversation where it was.
SendFollowupOnly(s) ==
    /\ task[s].pc = "reply"
    /\ Finish(s)
    /\ UNCHANGED <<row, chat, job, redo, sent, errors, crashes>>

\* _send_pipeline_followup_message: the conversation, if it is still active,
\* moves to the state the result asks for; if it is not, nobody is asked.
SendFollowup(s) ==
    LET g == task[s].on
    IN  /\ task[s].pc = "reply"
        /\ chat' = IF Active(g) THEN [chat EXCEPT ![g] = task[s].out] ELSE chat
        /\ Finish(s)
        /\ UNCHANGED <<row, job, redo, sent, errors, crashes>>

-----------------------------------------------------------------------------
(***************************************************************************)
(* The photo.                                                              *)
(***************************************************************************)

\* PATCH /photo.  It asks for the owner and for no status.
ReplacePhoto(s, g) ==
    /\ s \in Requests /\ Idle(s)
    /\ g \in Owned
    /\ Load(s, "recheck_web", g, StatusOf(row[g]))
    /\ UNCHANGED <<row, chat, job, redo, sent, errors, crashes>>

\* The turn that answers the mismatch prompt, by a new photo or "continue".
AnswerMismatch(s, g) ==
    /\ Idle(s)
    /\ chat[g] = "photo_mismatch"
    /\ chat' = [chat EXCEPT ![g] = "processing"]
    /\ Load(s, "recheck", g, StatusOf(row[g]))
    /\ UNCHANGED <<row, job, redo, sent, errors, crashes>>

\* Only the chat turn sends a follow-up.
RecheckImage(s) ==
    LET g == task[s].on
    IN  /\ task[s].pc \in {"recheck", "recheck_web"}
        /\ \E next \in Checked :
              /\ Write(g, [row[g] EXCEPT
                              !.status = Net(@, task[s].seen.status, next)])
              /\ IF task[s].pc = "recheck" THEN Reply(s, "reply", next)
                                          ELSE Finish(s)
        /\ UNCHANGED <<chat, job, redo, sent, errors, crashes>>

\* accept_photo_mismatch, called by confirm_draft before finalize_grievance.
AcceptPhotoMismatch(s) ==
    LET g == task[s].on
    IN  /\ task[s].pc = "accept"
        /\ Write(g, [row[g] EXCEPT !.status = IF @ = "photo_mismatch"
                                              THEN "awaiting_confirmation"
                                              ELSE @])
        /\ Advance(s, "finalize")
        /\ UNCHANGED <<chat, job, redo, sent, errors, crashes>>

-----------------------------------------------------------------------------
(***************************************************************************)
(* The citizen's answer, and finalize_grievance.                           *)
(***************************************************************************)

\* confirm_draft checks the owner and the status here; what it then calls
\* checks nothing.
ConfirmDraft(s, g) ==
    /\ s \in Requests /\ Idle(s)
    /\ g \in Owned
    /\ row[g].status \in Checked
    /\ Call(s, IF row[g].status = "photo_mismatch" THEN "accept"
                                                   ELSE "finalize", g)
    /\ UNCHANGED <<row, chat, job, redo, sent, errors, crashes>>

\* A variant of Answer below in which the conversation is not closed.
AnswerTwice(s, g, pc) ==
    /\ Idle(s)
    /\ chat[g] = "awaiting_confirmation"
    /\ Call(s, pc, g)
    /\ UNCHANGED <<row, chat, job, redo, sent, errors, crashes>>

\* The citizen taps a button of the confirmation card: the turn closes the
\* conversation and, after its commit, pc is called.
Answer(s, g, pc) ==
    /\ Idle(s)
    /\ chat[g] = "awaiting_confirmation"
    /\ chat' = [chat EXCEPT ![g] = "done"]
    /\ Call(s, pc, g)
    /\ UNCHANGED <<row, job, redo, sent, errors, crashes>>

CitizenConfirms(s, g) == Answer(s, g, "finalize")

CitizenCancels(s, g) == Answer(s, g, "cancel")

CancelGrievance(s) ==
    /\ task[s].pc = "cancel"
    /\ Write(task[s].on, [row[task[s].on] EXCEPT !.status = "cancelled"])
    /\ Finish(s)
    /\ UNCHANGED <<chat, job, redo, sent, errors, crashes>>

Held(r) == r.review = "pending_official" \/ r.hold

FinalizeForOfficial(s) ==
    LET g == task[s].on
    IN  /\ task[s].pc = "finalize"
        /\ Held(row[g])
        /\ Write(g, [row[g] EXCEPT !.status = "registered",
                                   !.confirmed = TRUE,
                                   !.review = "pending_official"])
        /\ Finish(s)
        /\ UNCHANGED <<chat, job, redo, sent, errors, crashes>>

\* Registered and committed; dispatch_grievance is called next.
FinalizePriority(s) ==
    LET g == task[s].on
    IN  /\ task[s].pc = "finalize"
        /\ ~Held(row[g])
        /\ row[g].prio = "priority"
        /\ Write(g, [row[g] EXCEPT !.status = "registered",
                                   !.confirmed = TRUE])
        /\ Advance(s, "dispatch")
        /\ UNCHANGED <<chat, job, redo, sent, errors, crashes>>

\* A variant of FinalizeNormal below that does not set confirmed_at.
FinalizeUnconfirmed(s) ==
    LET g == task[s].on
    IN  /\ task[s].pc = "finalize"
        /\ ~Held(row[g])
        /\ row[g].prio = "normal"
        /\ Write(g, [row[g] EXCEPT !.status = "pending_window",
                                   !.window = "open"])
        /\ Finish(s)
        /\ UNCHANGED <<chat, job, redo, sent, errors, crashes>>

\* Into the dedup window, or attached to a complaint already there.
FinalizeNormal(s) ==
    LET g == task[s].on
    IN  /\ task[s].pc = "finalize"
        /\ ~Held(row[g])
        /\ row[g].prio = "normal"
        /\ \/ Write(g, [row[g] EXCEPT !.status = "pending_window",
                                      !.confirmed = TRUE,
                                      !.window = "open"])
           \/ Write(g, [row[g] EXCEPT !.status = "duplicate",
                                      !.confirmed = TRUE])
        /\ Finish(s)
        /\ UNCHANGED <<chat, job, redo, sent, errors, crashes>>

-----------------------------------------------------------------------------
(***************************************************************************)
(* dispatch_grievance and the two sweeps that call it.                     *)
(***************************************************************************)

\* Time passes window_expires_at.
WindowExpires(g) ==
    /\ row[g].window = "open"
    /\ Write(g, [row[g] EXCEPT !.window = "expired"])
    /\ UNCHANGED <<chat, job, redo, task, sent, errors, crashes>>

WindowDue(r) == r.status = "pending_window" /\ r.window = "expired"

\* A variant of StuckDispatch below that also retries what was given up.
AlsoFailed(r) == r.status \in {"dispatching", "dispatch_failed"}

\* A variant of StuckDispatch below that forgets what was refused.
NeverRefused(r) == r.status = "dispatching" /\ r.attempts = 0

StuckDispatch(r) == r.status = "dispatching" /\ r.attempts < MaxAttempts

\* The worker fetches the complaint's id; it reads the row only when it gets
\* to that id.
Sweep(s, g, due) ==
    /\ s \in Workers /\ Idle(s)
    /\ due
    /\ Call(s, "dispatch", g)
    /\ UNCHANGED <<row, chat, job, redo, sent, errors, crashes>>

SweepExpiredWindows(s, g) == Sweep(s, g, WindowDue(row[g]))

SweepStuckDispatching(s, g) == Sweep(s, g, StuckDispatch(row[g]))

DispatchDisabled(s) ==
    LET g == task[s].on
    IN  /\ task[s].pc = "dispatch"
        /\ row[g].route = "off"
        /\ Write(g, [row[g] EXCEPT !.status = "registered",
                                   !.review = "pending_official"])
        /\ Finish(s)
        /\ UNCHANGED <<chat, job, redo, sent, errors, crashes>>

\* A variant of DispatchMark below that does not ask for the route.
DispatchAnyRoute(s) ==
    LET g == task[s].on
    IN  /\ task[s].pc = "dispatch"
        /\ Write(g, [row[g] EXCEPT !.status = "dispatching"])
        /\ Load(s, "call", g, [Draft EXCEPT !.attempts = row[g].attempts])
        /\ UNCHANGED <<chat, job, redo, sent, errors, crashes>>

\* "dispatching" is committed before the external call.
DispatchMark(s) ==
    LET g == task[s].on
    IN  /\ task[s].pc = "dispatch"
        /\ row[g].route # "off"
        /\ Write(g, [row[g] EXCEPT !.status = "dispatching"])
        /\ Load(s, "call", g, [Draft EXCEPT !.attempts = row[g].attempts])
        /\ UNCHANGED <<chat, job, redo, sent, errors, crashes>>

Count(n) == IF n < 2 THEN n + 1 ELSE n

DepartmentAccepts(s) ==
    /\ task[s].pc = "call"
    /\ sent' = [sent EXCEPT ![task[s].on] = Count(@)]
    /\ Advance(s, "accepted")
    /\ UNCHANGED <<row, chat, job, redo, errors, crashes>>

\* DispatchError: refused, unreachable, or accepted and the answer lost.
DepartmentFails(s) ==
    /\ task[s].pc = "call"
    /\ errors < MaxErrors
    /\ errors' = errors + 1
    /\ \/ UNCHANGED sent
       \/ sent' = [sent EXCEPT ![task[s].on] = Count(@)]
    /\ task' = [task EXCEPT ![s].pc = "refused"]
    /\ UNCHANGED <<row, chat, job, redo, crashes>>

\* read_bytes raises: no DispatchError, so no attempt is counted.
ArtifactUnreadable(s) ==
    /\ task[s].pc = "call"
    /\ task[s].on \in Unreadable
    /\ Finish(s)
    /\ UNCHANGED <<row, chat, job, redo, sent, errors, crashes>>

RecordSubmitted(s) ==
    /\ task[s].pc = "accepted"
    /\ Write(task[s].on, [row[task[s].on] EXCEPT !.status = "submitted"])
    /\ Finish(s)
    /\ UNCHANGED <<chat, job, redo, sent, errors, crashes>>

\* A variant of GiveUp below that allows one attempt more.
GiveUpLate(n) == n > MaxAttempts

GiveUp(n) == n >= MaxAttempts

\* Below the cap the status that was set is the one that was loaded, so only
\* the counter is written.
RecordRefused(s) ==
    LET g == task[s].on
        n == task[s].seen.attempts + 1
    IN  /\ task[s].pc = "refused"
        /\ Write(g, [row[g] EXCEPT
                        !.attempts = n,
                        !.status = IF GiveUp(n) THEN "dispatch_failed" ELSE @])
        /\ Finish(s)
        /\ UNCHANGED <<chat, job, redo, sent, errors, crashes>>

-----------------------------------------------------------------------------
(***************************************************************************)
(* Review by the citizen and by officials.                                 *)
(***************************************************************************)

\* PATCH /review.  It asks for the owner and no status; the bundled route it
\* consults never enables dispatch.  A correction queues a re-extraction.
UpdateReview(g) ==
    /\ g \in Owned
    /\ \E d \in Decisions :
          Write(g, Classified(row[g], row[g], [d EXCEPT !.live = FALSE]))
    /\ \/ UNCHANGED redo
       \/ /\ redo[g] < MaxRedo
          /\ redo' = [redo EXCEPT ![g] = @ + 1]
    /\ UNCHANGED <<chat, job, task, sent, errors, crashes>>

\* Each job is leased to one worker.
StartReextract(s, g) ==
    /\ s \in Workers /\ Idle(s)
    /\ redo[g] > 0
    /\ redo' = [redo EXCEPT ![g] = @ - 1]
    /\ Load(s, "reextract", g, DecisionOf(row[g]))
    /\ UNCHANGED <<row, chat, job, sent, errors, crashes>>

\* reextract_grievance: nothing is written without a text, or when every
\* provider failed; the status is left alone.
ReextractGrievance(s) ==
    LET g == task[s].on
        seen == task[s].seen
    IN  /\ task[s].pc = "reextract"
        /\ \/ /\ seen.located
              /\ \E d \in Decisions :
                    Write(g, Classified(row[g], seen, d))
           \/ UNCHANGED row
        /\ Advance(s, "complete_redo")
        /\ UNCHANGED <<chat, job, redo, sent, errors, crashes>>

\* POST /actions by an official in whose jurisdiction the complaint lies.
OfficialAction(g) ==
    /\ row[g].located
    /\ \E d \in Decisions, v \in Verdicts :
          Write(g, [row[g] EXCEPT !.review = v,
                                  !.hold = d.hold \/ v = "redirected",
                                  !.prio = d.prio,
                                  !.route = "off"])
    /\ UNCHANGED <<chat, job, redo, task, sent, errors, crashes>>

-----------------------------------------------------------------------------

\* The session's process dies, or its operation raises and is rolled back.  A
\* job it had is leased again, or retried.
Abort(s) ==
    /\ ~Idle(s)
    /\ crashes < MaxCrashes
    /\ crashes' = crashes + 1
    /\ redo' = IF task[s].pc \in {"reextract", "complete_redo"}
               THEN [redo EXCEPT ![task[s].on] = @ + 1]
               ELSE redo
    /\ Finish(s)
    /\ UNCHANGED <<row, chat, job, sent, errors>>

\* The steps a session takes once it has begun.
Continue(s) ==
    \/ RunSwept(s) \/ RunPipeline(s) \/ CompleteJob(s) \/ SendFollowup(s)
    \/ RecheckImage(s) \/ AcceptPhotoMismatch(s) \/ CancelGrievance(s)
    \/ FinalizeForOfficial(s) \/ FinalizePriority(s) \/ FinalizeNormal(s)
    \/ DispatchDisabled(s) \/ DispatchMark(s)
    \/ DepartmentAccepts(s) \/ DepartmentFails(s) \/ ArtifactUnreadable(s)
    \/ RecordSubmitted(s) \/ RecordRefused(s)
    \/ ReextractGrievance(s)

\* What begins a session's work on a complaint.
Begin(s, g) ==
    \/ RunJob(s, g) \/ RunPipelineFollowup(s, g)
    \/ SweepStuckProcessing(s, g)
    \/ ReplacePhoto(s, g) \/ AnswerMismatch(s, g)
    \/ ConfirmDraft(s, g) \/ CitizenConfirms(s, g) \/ CitizenCancels(s, g)
    \/ SweepExpiredWindows(s, g) \/ SweepStuckDispatching(s, g)
    \/ StartReextract(s, g)

Next ==
    \/ \E g \in Complaints : \/ SubmitDraft(g) \/ WindowExpires(g)
                             \/ ConversationExpires(g)
                             \/ UpdateReview(g) \/ OfficialAction(g)
    \/ \E s \in Sessions : Continue(s) \/ Abort(s)
    \/ \E s \in Sessions, g \in Complaints : Begin(s, g)

Spec == Init /\ [][Next]_vars

(***************************************************************************)
(* Sessions run on, time passes, and the worker's loop reaches each of its *)
(* sweeps and the job queue again and again.  Nothing makes a citizen or   *)
(* an official act.                                                        *)
(***************************************************************************)
Fairness ==
    /\ \A s \in Sessions : WF_vars(Continue(s))
    /\ \A g \in Complaints : WF_vars(WindowExpires(g))
    /\ \A g \in Complaints :
          /\ SF_vars(\E s \in Workers : RunJob(s, g))
          /\ SF_vars(\E s \in Workers : SweepStuckProcessing(s, g))
          /\ SF_vars(\E s \in Workers : SweepExpiredWindows(s, g))
          /\ SF_vars(\E s \in Workers : SweepStuckDispatching(s, g))

FairSpec == Spec /\ Fairness

-----------------------------------------------------------------------------
(***************************************************************************)
(* Properties.                                                             *)
(***************************************************************************)

TypeOK ==
    /\ row \in [Complaints -> Row]
    /\ chat \in [Complaints -> ChatState]
    /\ job \in [Complaints -> {"none", "open", "closed"}]
    /\ redo \in [Complaints -> Nat]
    /\ task \in [Sessions -> Task]
    /\ \A s \in Sessions :
          /\ task[s].pc # "idle" => task[s].on \in Complaints
          /\ task[s].pc = "reply" => task[s].out \in Checked
    /\ sent \in [Complaints -> 0..2]
    /\ errors \in 0..MaxErrors
    /\ crashes \in 0..MaxCrashes

\* No interleaving of runs, sweeps, retries and crashes files a complaint, or
\* hands it to a department, that the citizen has not confirmed
\* (finalize_grievance is the only writer of confirmed_at).
FiledOnlyIfConfirmed ==
    \A g \in Complaints :
        row[g].status \in Filed \/ sent[g] > 0 => row[g].confirmed

\* Once its intelligence job is completed, a web complaint has been
\* classified (worker.py completes a job only after the run committed).
CompletedJobHasRun ==
    \A g \in Complaints : job[g] = "closed" => row[g].located

\* A citizen without a web account reaches a complaint by chat only.
ChatOnly == Complaints \ Owned

\* The dispatch counter of a chat-only complaint never passes the cap (README:
\* "Dispatch attempts cap at MAX_DISPATCH_ATTEMPTS = 5").  An owner may have a
\* complaint dispatched anew after it was given up.
AttemptsCapped == \A g \in ChatOnly : row[g].attempts <= MaxAttempts

\* A chat-only complaint left in "dispatching" by a crash is one that
\* sweep_stuck_dispatching still selects: the row can never be both
\* dispatching and used up.
DispatchingIsSwept ==
    \A g \in ChatOnly :
        row[g].status = "dispatching" => row[g].attempts < MaxAttempts

(***************************************************************************)
(* What the citizen sees of a complaint.  A late commit may overwrite the  *)
(* status of a complaint whose owner can replace its photo on the web, and *)
(* of any complaint when two runs of it overlap: because one is slow, or   *)
(* because two workers have fetched its id.                                *)
(***************************************************************************)
AnswerOf(g) == IF row[g].confirmed THEN "yes"
               ELSE IF row[g].status = "cancelled" THEN "no" ELSE "none"

OneWorker == \A v, w \in Workers : v = w

RunsOverlap == SlowRuns \/ ~OneWorker

Promise == INSTANCE Consent WITH
    Reopened <- IF RunsOverlap THEN Complaints ELSE Owned,
    answer   <- [g \in Complaints |-> AnswerOf(g)],
    filed    <- [g \in Complaints |-> row[g].status \in Filed],
    handed   <- [g \in Complaints |-> sent[g] > 0]

\* Runs, checks, sweeps, retries, taps and crashes, in any order, keep the
\* promise to the citizen: one answer decides, a Yes is never taken back nor a
\* filed chat-only complaint unfiled, a No is never filed, and the department
\* gets what was agreed to and filed (finalize_grievance, cancel_grievance, the
\* turn that closes the conversation, and no later write of the status).
KeepsPromise == Promise!Spec

\* Somebody is in charge of the complaint: a task, a sweep, the citizen who
\* was asked, an official who has it in the queue, or nobody needs to be.
InCharge(g) ==
    \/ \E s \in Sessions : task[s].on = g
    \/ row[g].status \in Unrun
    \/ row[g].status = "pending_window"
    \/ StuckDispatch(row[g])
    \/ chat[g] \in Checked
    \/ row[g].status = "registered" /\ row[g].review # "citizen_review"
    \/ row[g].status \in {"submitted", "duplicate", "cancelled",
                          "dispatch_failed"}

\* The complaint waits for an answer its conversation can no longer take.
OutOfTime(g) == chat[g] = "expired" /\ row[g].status \in Checked

\* As long as no task dies, a chat-only complaint is left with nobody in charge
\* of it only if its conversation expired before the citizen answered, whatever
\* else fails and whichever sweeps and answers interleave (worker.py: the worker
\* is "the durability net for everything that path can miss").
StrandedOnlyByLoss ==
    crashes = 0 => \A g \in ChatOnly : InCharge(g) \/ OutOfTime(g)

\* A chat-only complaint that waits in the dedup window or for a department
\* leaves that state: sent, given up after MaxAttempts, or handed to an official.
WindowAndDispatchEnd ==
    \A g \in ChatOnly :
        row[g].status \in {"pending_window", "dispatching"}
            ~> row[g].status \notin {"pending_window", "dispatching"}

\* A chat-only complaint is classified in the end, by the turn that completed
\* its draft or by the stuck-processing sweep, though turns and runs may die and
\* the conversation may expire.
DraftIsClassified == \A g \in ChatOnly : <>row[g].located

\* A chat-only complaint is handed to a department only while the decision on
\* record enables its route and does not hold it for an official, whichever
\* re-runs, official actions and sweeps came between confirmation and dispatch
\* (finalize_grievance tests the hold, dispatch_grievance the route).
DispatchedAsDecided ==
    [][\A g \in ChatOnly :
          /\ row[g].status # "dispatching"
          /\ row'[g].status = "dispatching"
          => row[g].route = "on" /\ ~row[g].hold]_row
=============================================================================
