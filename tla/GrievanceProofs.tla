--------------------------- MODULE GrievanceProofs ---------------------------
(***************************************************************************)
(* Theorems about Grievance, for any number of complaints, workers and     *)
(* requests, slow or prompt runs, and any number of refusals and crashes.  *)
(***************************************************************************)
EXTENDS Grievance, TLAPS

-----------------------------------------------------------------------------
(***************************************************************************)
(* Type correctness.                                                       *)
(***************************************************************************)

RowOK == row \in [Complaints -> Row]

TaskOK == /\ task \in [Sessions -> Task]
          /\ \A s \in Sessions :
                /\ task[s].pc # "idle" => task[s].on \in Complaints
                /\ task[s].pc = "reply" => task[s].out \in Checked

\* What the operators on rows return.
LEMMA DraftIsRow == Draft \in Row
  BY DEF Draft, Row, Status, ReviewStatus, AllVerdicts, Priority

LEMMA ClassifiedIsRow ==
    ASSUME NEW r \in Row, NEW seen \in Row, NEW d \in Decision
    PROVE  Classified(r, seen, d) \in Row
<1>1. Net(r.hold, seen.hold, d.hold) \in BOOLEAN
  <2>1. r.hold \in BOOLEAN /\ d.hold \in BOOLEAN
    BY DEF Row, Decision
  <2> QED  BY <2>1, Zenon DEF Net
<1>2. Net(r.review, seen.review, ReviewFor(d.hold)) \in ReviewStatus
  BY DEF Net, ReviewFor, Row, ReviewStatus
<1>3. Net(r.prio, seen.prio, d.prio) \in Priority
  BY DEF Net, Row, Decision
<1>4. Net(r.route, seen.route, RouteFor(d.live)) \in {"none", "off", "on"}
  BY DEF Net, RouteFor, Row
<1> QED
  BY <1>1, <1>2, <1>3, <1>4 DEF Classified, Row

LEMMA ReadIsRow ==
    ASSUME NEW r \in Row
    PROVE  StatusOf(r) \in Row /\ DecisionOf(r) \in Row
  BY DEF StatusOf, DecisionOf, Draft, Row, Status, ReviewStatus, AllVerdicts,
         Priority

\* What the operators on tasks leave behind.
LEMMA LoadOK ==
    ASSUME TaskOK, NEW s \in Sessions, NEW g \in Complaints,
           NEW pc \in Step \ {"reply"}, NEW seen \in Row, Load(s, pc, g, seen)
    PROVE  TaskOK'
  BY DEF TaskOK, Load, Task

LEMMA CallOK ==
    ASSUME TaskOK, NEW s \in Sessions, NEW g \in Complaints,
           NEW pc \in Step \ {"reply"}, Call(s, pc, g)
    PROVE  TaskOK'
  BY LoadOK, DraftIsRow DEF Call

LEMMA AdvanceOK ==
    ASSUME TaskOK, NEW s \in Sessions, task[s].pc # "idle",
           NEW pc \in Step \ {"reply"}, Advance(s, pc)
    PROVE  TaskOK'
  BY CallOK DEF TaskOK, Advance

LEMMA ReplyOK ==
    ASSUME TaskOK, NEW s \in Sessions, task[s].pc # "idle",
           NEW pc \in Step, NEW out \in Checked, Reply(s, pc, out)
    PROVE  TaskOK'
  BY DraftIsRow DEF TaskOK, Reply, Task, Checked

LEMMA FinishOK ==
    ASSUME TaskOK, NEW s \in Sessions, Finish(s)
    PROVE  TaskOK'
  BY DraftIsRow DEF TaskOK, Finish, NoTask, Task, Step

\* The statuses a check can lead to, and the columns a session writes, are
\* within their types.
LEMMA NetStatus ==
    ASSUME NEW r \in Row, NEW seen \in Row, NEW next \in Checked
    PROVE  Net(r.status, seen.status, next) \in Status
  BY DEF Net, Checked, Status, Row

\* A session commits a row.
LEMMA WriteOK ==
    ASSUME RowOK, NEW g \in Complaints, NEW r \in Row, Write(g, r)
    PROVE  RowOK'
  BY DEF RowOK, Write

\* What a citizen, an official, the clock or a correction does to a row.
LEMMA EnvironmentRowOK ==
    ASSUME RowOK, NEW g \in Complaints,
           SubmitDraft(g) \/ WindowExpires(g) \/ UpdateReview(g)
               \/ OfficialAction(g)
    PROVE  RowOK'
<1>0. row[g] \in Row
  BY DEF RowOK
<1>1. CASE SubmitDraft(g)
  <2>1. [row[g] EXCEPT !.status = "processing"] \in Row
    BY <1>0 DEF Row, Status
  <2> QED  BY <1>1, <2>1, WriteOK DEF SubmitDraft
<1>2. CASE WindowExpires(g)
  <2>1. [row[g] EXCEPT !.window = "expired"] \in Row
    BY <1>0 DEF Row
  <2> QED  BY <1>2, <2>1, WriteOK DEF WindowExpires
<1>3. CASE UpdateReview(g)
  <2>1. PICK d \in Decisions :
           Write(g, Classified(row[g], row[g], [d EXCEPT !.live = FALSE]))
    BY <1>3 DEF UpdateReview
  <2>2. [d EXCEPT !.live = FALSE] \in Decision
    BY GrievanceAssumption DEF Decision
  <2> QED  BY <1>0, <2>1, <2>2, ClassifiedIsRow, WriteOK
<1>4. CASE OfficialAction(g)
  <2>1. PICK d \in Decisions, v \in Verdicts :
           Write(g, [row[g] EXCEPT !.review = v,
                                   !.hold = d.hold \/ v = "redirected",
                                   !.prio = d.prio,
                                   !.route = "off"])
    BY <1>4 DEF OfficialAction
  <2>2. d \in Decision /\ v \in AllVerdicts
    BY GrievanceAssumption
  <2>3. PICK h \in BOOLEAN : h = (d.hold \/ v = "redirected")
    OBVIOUS
  <2>4. d.prio \in Priority /\ v \in ReviewStatus
    BY <2>2 DEF ReviewStatus, Decision
  <2>5. [row[g] EXCEPT !.review = v, !.hold = h, !.prio = d.prio,
                       !.route = "off"] \in Row
    BY <1>0, <2>4 DEF Row
  <2> QED  BY <2>1, <2>3, <2>5, WriteOK
<1> QED  BY <1>1, <1>2, <1>3, <1>4

\* What a session commits.
LEMMA ContinueRowOK ==
    ASSUME RowOK, TaskOK, NEW s \in Sessions, Continue(s)
    PROVE  RowOK'
<1> DEFINE g == task[s].on
           seen == task[s].seen
<1>0. task[s].pc # "idle" => g \in Complaints /\ seen \in Row /\ row[g] \in Row
  BY DEF RowOK, TaskOK, Task
<1>1. CASE RunPipeline(s)
  <2>1. PICK d \in Decisions, next \in Checked :
           Write(g, [Classified(row[g], seen, d) EXCEPT
                       !.status = Net(@, seen.status, next),
                       !.located = TRUE])
    BY <1>1 DEF RunPipeline
  <2> DEFINE c == Classified(row[g], seen, d)
  <2>2. g \in Complaints /\ seen \in Row /\ row[g] \in Row
    BY <1>0, <1>1 DEF RunPipeline
  <2>3. c \in Row
    BY <2>2, ClassifiedIsRow, GrievanceAssumption
  <2>4. Net(c.status, seen.status, next) \in Status
    BY <2>2, <2>3, NetStatus
  <2> HIDE DEF c
  <2>5. [c EXCEPT !.status = Net(c.status, seen.status, next),
                  !.located = TRUE] \in Row
    BY <2>3, <2>4 DEF Row
  <2> QED  BY <2>1, <2>2, <2>5, WriteOK DEF c
<1>2. CASE RecheckImage(s)
  <2>1. PICK next \in Checked :
           Write(g, [row[g] EXCEPT !.status = Net(@, seen.status, next)])
    BY <1>2 DEF RecheckImage
  <2>2. g \in Complaints /\ seen \in Row /\ row[g] \in Row
    BY <1>0, <1>2 DEF RecheckImage
  <2>3. Net(row[g].status, seen.status, next) \in Status
    BY <2>2, NetStatus
  <2>4. [row[g] EXCEPT !.status = Net(row[g].status, seen.status, next)] \in Row
    BY <2>2, <2>3 DEF Row
  <2> QED  BY <2>1, <2>2, <2>4, WriteOK
<1>3. CASE ReextractGrievance(s)
  <2>1. g \in Complaints /\ seen \in Row /\ row[g] \in Row
    BY <1>0, <1>3 DEF ReextractGrievance
  <2>2. ASSUME NEW d \in Decisions, Write(g, Classified(row[g], seen, d))
        PROVE  RowOK'
    BY <2>1, <2>2, ClassifiedIsRow, GrievanceAssumption, WriteOK
  <2>3. CASE UNCHANGED row
    BY <2>3 DEF RowOK
  <2> QED  BY <1>3, <2>2, <2>3 DEF ReextractGrievance
<1>4. CASE AcceptPhotoMismatch(s)
  <2>1. g \in Complaints /\ row[g] \in Row
    BY <1>0, <1>4 DEF AcceptPhotoMismatch
  <2>2. [row[g] EXCEPT !.status = IF @ = "photo_mismatch"
                                  THEN "awaiting_confirmation" ELSE @] \in Row
    BY <2>1 DEF Row, Status
  <2> QED  BY <1>4, <2>1, <2>2, WriteOK DEF AcceptPhotoMismatch
<1>5. CASE CancelGrievance(s)
  <2>1. g \in Complaints /\ [row[g] EXCEPT !.status = "cancelled"] \in Row
    BY <1>0, <1>5 DEF CancelGrievance, Row, Status
  <2> QED  BY <1>5, <2>1, WriteOK DEF CancelGrievance
<1>6. CASE FinalizeForOfficial(s)
  <2>1. g \in Complaints
        /\ [row[g] EXCEPT !.status = "registered", !.confirmed = TRUE,
                          !.review = "pending_official"] \in Row
    BY <1>0, <1>6 DEF FinalizeForOfficial, Row, Status, ReviewStatus
  <2> QED  BY <1>6, <2>1, WriteOK DEF FinalizeForOfficial
<1>7. CASE FinalizePriority(s)
  <2>1. g \in Complaints
        /\ [row[g] EXCEPT !.status = "registered", !.confirmed = TRUE] \in Row
    BY <1>0, <1>7 DEF FinalizePriority, Row, Status
  <2> QED  BY <1>7, <2>1, WriteOK DEF FinalizePriority
<1>8. CASE FinalizeNormal(s)
  <2>1. g \in Complaints
        /\ [row[g] EXCEPT !.status = "pending_window", !.confirmed = TRUE,
                          !.window = "open"] \in Row
        /\ [row[g] EXCEPT !.status = "duplicate", !.confirmed = TRUE] \in Row
    BY <1>0, <1>8 DEF FinalizeNormal, Row, Status
  <2> QED  BY <1>8, <2>1, WriteOK DEF FinalizeNormal
<1>9. CASE DispatchDisabled(s)
  <2>1. g \in Complaints
        /\ [row[g] EXCEPT !.status = "registered",
                          !.review = "pending_official"] \in Row
    BY <1>0, <1>9 DEF DispatchDisabled, Row, Status, ReviewStatus
  <2> QED  BY <1>9, <2>1, WriteOK DEF DispatchDisabled
<1>10. CASE DispatchMark(s)
  <2>1. g \in Complaints /\ [row[g] EXCEPT !.status = "dispatching"] \in Row
    BY <1>0, <1>10 DEF DispatchMark, Row, Status
  <2> QED  BY <1>10, <2>1, WriteOK DEF DispatchMark
<1>11. CASE RecordSubmitted(s)
  <2>1. g \in Complaints /\ [row[g] EXCEPT !.status = "submitted"] \in Row
    BY <1>0, <1>11 DEF RecordSubmitted, Row, Status
  <2> QED  BY <1>11, <2>1, WriteOK DEF RecordSubmitted
<1>12. CASE RecordRefused(s)
  <2> DEFINE n == seen.attempts + 1
  <2>1. g \in Complaints /\ row[g] \in Row /\ n \in Nat
    BY <1>0, <1>12 DEF RecordRefused, Row
  <2>2. Write(g, [row[g] EXCEPT
                    !.attempts = n,
                    !.status = IF GiveUp(n) THEN "dispatch_failed" ELSE @])
    BY <1>12 DEF RecordRefused
  <2> HIDE DEF n
  <2>3. [row[g] EXCEPT
           !.attempts = n,
           !.status = IF GiveUp(n) THEN "dispatch_failed" ELSE @] \in Row
    BY <2>1 DEF Row, Status
  <2> QED  BY <2>1, <2>2, <2>3, WriteOK
<1>13. CASE UNCHANGED row
  BY <1>13 DEF RowOK
<1> QED
  BY <1>1, <1>2, <1>3, <1>4, <1>5, <1>6, <1>7, <1>8, <1>9, <1>10, <1>11, <1>12,
     <1>13
     DEF Continue, RunSwept, CompleteJob, SendFollowup, DepartmentAccepts,
         DepartmentFails, ArtifactUnreadable

\* Neither a lost task nor the beginning of one writes a row.
LEMMA OthersKeepRow ==
    ASSUME NEW s \in Sessions,
           Abort(s) \/ \E g \in Complaints : Begin(s, g)
    PROVE  UNCHANGED <<row, sent>>
  BY DEF Abort, Begin, RunJob, RunPipelineFollowup, SweepStuckProcessing,
         ReplacePhoto, AnswerMismatch, ConfirmDraft, CitizenConfirms,
         CitizenCancels, Answer, SweepExpiredWindows, SweepStuckDispatching,
         Sweep, StartReextract

\* Every step leaves tasks within their types.
LEMMA ContinueTaskOK ==
    ASSUME RowOK, TaskOK, NEW s \in Sessions, Continue(s)
    PROVE  TaskOK'
<1>1. CASE RunPipeline(s)
  <2>1. PICK next \in Checked : Reply(s, AfterRun(s), next)
    BY <1>1 DEF RunPipeline
  <2>2. task[s].pc # "idle" /\ AfterRun(s) \in Step
    BY <1>1 DEF RunPipeline, AfterRun, Step
  <2> QED  BY <2>1, <2>2, ReplyOK
<1>2. CASE RecheckImage(s)
  <2>1. CASE Finish(s)
    BY <2>1, FinishOK
  <2>2. ASSUME NEW next \in Checked, Reply(s, "reply", next)
        PROVE  TaskOK'
    <3>1. task[s].pc # "idle" /\ "reply" \in Step
      BY <1>2 DEF RecheckImage, Step
    <3> QED  BY <2>2, <3>1, ReplyOK
  <2> QED  BY <1>2, <2>1, <2>2 DEF RecheckImage
<1>3. CASE DispatchMark(s)
  <2>1. /\ task[s].on \in Complaints /\ row[task[s].on] \in Row
        /\ "call" \in Step \ {"reply"}
    BY <1>3 DEF DispatchMark, RowOK, TaskOK, Step
  <2>2. [Draft EXCEPT !.attempts = row[task[s].on].attempts] \in Row
    BY <2>1, DraftIsRow DEF Row
  <2> QED  BY <1>3, <2>1, <2>2, LoadOK DEF DispatchMark
<1>4. CASE DepartmentFails(s)
  <2>1. task[s].pc = "call" /\ task' = [task EXCEPT ![s].pc = "refused"]
    BY <1>4 DEF DepartmentFails
  <2> QED  BY <2>1 DEF TaskOK, Task, Step
<1>8. CASE RunSwept(s)
  <2>1. task[s].on \in Complaints /\ row[task[s].on] \in Row
        /\ "extract" \in Step \ {"reply"}
    BY <1>8 DEF RunSwept, RowOK, TaskOK, Step
  <2> QED  BY <1>8, <2>1, LoadOK DEF RunSwept
<1>5. CASE Finish(s)
  BY <1>5, FinishOK
<1>6. CASE \E pc \in Step \ {"reply"} : task[s].pc # "idle" /\ Advance(s, pc)
  BY <1>6, AdvanceOK
<1>7. AcceptPhotoMismatch(s) \/ FinalizePriority(s) \/ DepartmentAccepts(s)
          \/ ReextractGrievance(s)
      => \E pc \in Step \ {"reply"} : task[s].pc # "idle" /\ Advance(s, pc)
  BY DEF AcceptPhotoMismatch, FinalizePriority, DepartmentAccepts,
         ReextractGrievance, Step
<1> QED
  BY <1>1, <1>2, <1>3, <1>4, <1>5, <1>6, <1>7, <1>8
     DEF Continue, CompleteJob, SendFollowup, CancelGrievance,
         FinalizeForOfficial, FinalizeNormal, DispatchDisabled,
         ArtifactUnreadable, RecordSubmitted, RecordRefused

LEMMA BeginTaskOK ==
    ASSUME RowOK, TaskOK, NEW s \in Sessions, NEW g \in Complaints,
           Begin(s, g)
    PROVE  TaskOK'
<1>1. row[g] \in Row /\ StatusOf(row[g]) \in Row /\ DecisionOf(row[g]) \in Row
  BY ReadIsRow DEF RowOK
<1>2. CASE \E pc \in Step \ {"reply"}, seen \in Row : Load(s, pc, g, seen)
  BY <1>2, LoadOK
<1>3. CASE \E pc \in Step \ {"reply"} : Call(s, pc, g)
  BY <1>3, CallOK
<1>4. RunJob(s, g) \/ RunPipelineFollowup(s, g) \/ ReplacePhoto(s, g)
          \/ AnswerMismatch(s, g) \/ StartReextract(s, g)
      => \E pc \in Step \ {"reply"}, seen \in Row : Load(s, pc, g, seen)
  BY <1>1 DEF RunJob, RunPipelineFollowup, ReplacePhoto, AnswerMismatch,
              StartReextract, Step
<1>5. ConfirmDraft(s, g) \/ CitizenConfirms(s, g) \/ CitizenCancels(s, g)
          \/ SweepExpiredWindows(s, g) \/ SweepStuckDispatching(s, g)
          \/ SweepStuckProcessing(s, g)
      => \E pc \in Step \ {"reply"} : Call(s, pc, g)
  BY DEF SweepStuckProcessing, ConfirmDraft, CitizenConfirms, CitizenCancels,
         Answer,
         SweepExpiredWindows, SweepStuckDispatching, Sweep, Step
<1> QED  BY <1>2, <1>3, <1>4, <1>5 DEF Begin

LEMMA AbortTaskOK ==
    ASSUME TaskOK, NEW s \in Sessions, Abort(s)
    PROVE  TaskOK'
  BY FinishOK DEF Abort

\* The conversation, the jobs and the counters.
RestOK ==
    /\ chat \in [Complaints -> ChatState]
    /\ job \in [Complaints -> {"none", "open", "closed"}]
    /\ redo \in [Complaints -> Nat]
    /\ sent \in [Complaints -> 0..2]
    /\ errors \in 0..MaxErrors
    /\ crashes \in 0..MaxCrashes

LEMMA RestStep ==
    ASSUME RestOK, TaskOK, [Next]_vars
    PROVE  RestOK'
<1>1. ASSUME NEW g \in Complaints,
             SubmitDraft(g) \/ WindowExpires(g) \/ UpdateReview(g)
                 \/ OfficialAction(g)
      PROVE  RestOK'
  <2>1. CASE SubmitDraft(g)
    BY <2>1 DEF SubmitDraft, RestOK
  <2>2. CASE UpdateReview(g)
    <3>1. redo' \in [Complaints -> Nat]
      BY <2>2 DEF UpdateReview, RestOK
    <3>2. UNCHANGED <<chat, job, sent, errors, crashes>>
      BY <2>2 DEF UpdateReview
    <3> QED  BY <3>1, <3>2 DEF RestOK
  <2>3. CASE UNCHANGED <<chat, job, redo, sent, errors, crashes>>
    BY <2>3 DEF RestOK
  <2> QED  BY <1>1, <2>1, <2>2, <2>3 DEF WindowExpires, OfficialAction
<1>2. ASSUME NEW s \in Sessions, Continue(s)
      PROVE  RestOK'
  <2>1. CASE CompleteJob(s)
    BY <2>1 DEF CompleteJob, RestOK
  <2>2. CASE SendFollowup(s)
    <3>1. task[s].out \in ChatState
      BY <2>2 DEF SendFollowup, TaskOK, Checked, ChatState
    <3>2. chat' \in [Complaints -> ChatState]
      BY <2>2, <3>1 DEF SendFollowup, RestOK
    <3>3. UNCHANGED <<job, redo, sent, errors, crashes>>
      BY <2>2 DEF SendFollowup
    <3> QED  BY <3>2, <3>3 DEF RestOK
  <2>3. CASE DepartmentAccepts(s)
    <3>1. sent' \in [Complaints -> 0..2]
      <4>1. task[s].on \in Complaints
        BY <2>3 DEF DepartmentAccepts, TaskOK
      <4>2. Count(sent[task[s].on]) \in 0..2
        BY <4>1 DEF Count, RestOK
      <4> QED  BY <2>3, <4>1, <4>2 DEF DepartmentAccepts, RestOK
    <3>2. UNCHANGED <<chat, job, redo, errors, crashes>>
      BY <2>3 DEF DepartmentAccepts
    <3> QED  BY <3>1, <3>2 DEF RestOK
  <2>4. CASE DepartmentFails(s)
    BY <2>4, GrievanceAssumption DEF DepartmentFails, RestOK, Count
  <2>5. CASE UNCHANGED <<chat, job, redo, sent, errors, crashes>>
    BY <2>5 DEF RestOK
  <2> QED
    BY <1>2, <2>1, <2>2, <2>3, <2>4, <2>5
       DEF Continue, RunSwept, RunPipeline, RecheckImage, AcceptPhotoMismatch,
           CancelGrievance, FinalizeForOfficial, FinalizePriority,
           FinalizeNormal, DispatchDisabled, DispatchMark, ArtifactUnreadable,
           RecordSubmitted, RecordRefused, ReextractGrievance
<1>3. ASSUME NEW s \in Sessions, Abort(s)
      PROVE  RestOK'
  BY <1>3, GrievanceAssumption DEF Abort, RestOK, TaskOK, Idle
<1>4. ASSUME NEW s \in Sessions, NEW g \in Complaints, Begin(s, g)
      PROVE  RestOK'
  <2>1. CASE AnswerMismatch(s, g)
    BY <2>1 DEF AnswerMismatch, RestOK, ChatState
  <2>2. CASE CitizenConfirms(s, g) \/ CitizenCancels(s, g)
    BY <2>2 DEF CitizenConfirms, CitizenCancels, Answer, RestOK, ChatState
  <2>3. CASE StartReextract(s, g)
    BY <2>3 DEF StartReextract, RestOK
  <2>4. CASE UNCHANGED <<chat, job, redo, sent, errors, crashes>>
    BY <2>4 DEF RestOK
  <2> QED
    BY <1>4, <2>1, <2>2, <2>3, <2>4
       DEF Begin, RunJob, RunPipelineFollowup, SweepStuckProcessing,
           ReplacePhoto, ConfirmDraft,
           SweepExpiredWindows, SweepStuckDispatching, Sweep
<1>5. CASE UNCHANGED vars
  BY <1>5 DEF RestOK, vars
<1>6. ASSUME NEW g \in Complaints, ConversationExpires(g)
      PROVE  RestOK'
  BY <1>6 DEF ConversationExpires, RestOK, ChatState
<1> QED  BY <1>1, <1>2, <1>3, <1>4, <1>5, <1>6 DEF Next

LEMMA TypeParts == TypeOK <=> RowOK /\ TaskOK /\ RestOK
  BY DEF TypeOK, RowOK, TaskOK, RestOK

LEMMA TypeInit == Init => TypeOK
<1> SUFFICES ASSUME Init PROVE TypeOK
  OBVIOUS
<1>1. RowOK
  BY DraftIsRow DEF Init, RowOK
<1>2. TaskOK
  BY DraftIsRow DEF Init, TaskOK, NoTask, Task, Step
<1>3. RestOK
  BY GrievanceAssumption DEF Init, RestOK, ChatState
<1> QED  BY <1>1, <1>2, <1>3, TypeParts

LEMMA TypeStep == TypeOK /\ [Next]_vars => TypeOK'
<1> SUFFICES ASSUME TypeOK, [Next]_vars PROVE TypeOK'
  OBVIOUS
<1>0. RowOK /\ TaskOK /\ RestOK
  BY TypeParts
<1>1. ASSUME NEW g \in Complaints,
             SubmitDraft(g) \/ WindowExpires(g) \/ UpdateReview(g)
                 \/ OfficialAction(g)
      PROVE  RowOK' /\ TaskOK'
  <2>1. UNCHANGED task
    BY <1>1 DEF SubmitDraft, WindowExpires, UpdateReview, OfficialAction
  <2> QED  BY <1>0, <1>1, <2>1, EnvironmentRowOK DEF TaskOK
<1>2. ASSUME NEW s \in Sessions, Continue(s)
      PROVE  RowOK' /\ TaskOK'
  BY <1>0, <1>2, ContinueRowOK, ContinueTaskOK
<1>3. ASSUME NEW s \in Sessions, Abort(s)
      PROVE  RowOK' /\ TaskOK'
  BY <1>0, <1>3, OthersKeepRow, AbortTaskOK DEF RowOK
<1>4. ASSUME NEW s \in Sessions, NEW g \in Complaints, Begin(s, g)
      PROVE  RowOK' /\ TaskOK'
  BY <1>0, <1>4, OthersKeepRow, BeginTaskOK DEF RowOK
<1>5. ASSUME UNCHANGED vars
      PROVE  RowOK' /\ TaskOK'
  <2>1. UNCHANGED <<row, task>>
    BY <1>5 DEF vars
  <2> QED  BY <1>0, <2>1 DEF RowOK, TaskOK
<1>8. ASSUME NEW g \in Complaints, ConversationExpires(g)
      PROVE  RowOK' /\ TaskOK'
  BY <1>0, <1>8 DEF ConversationExpires, RowOK, TaskOK
<1>6. RowOK' /\ TaskOK'
  BY <1>1, <1>2, <1>3, <1>4, <1>5, <1>8 DEF Next
<1>7. RestOK'
  BY <1>0, RestStep
<1> QED  BY <1>6, <1>7 DEF TypeOK, RowOK, TaskOK, RestOK

\* Whatever the complaints, the sessions and the bounds, every variable stays
\* within its type; in particular a session at work is at work on a complaint.
THEOREM TypeCorrect == Spec => []TypeOK
  BY TypeInit, TypeStep, PTL DEF Spec

-----------------------------------------------------------------------------
(***************************************************************************)
(* Nothing is filed that was not confirmed.  A task between its decision   *)
(* to dispatch and the record of the department's answer will write a      *)
(* filed status, whatever the row says by then: the invariant has to say   *)
(* that the complaint of such a task is confirmed already.  That stays     *)
(* true because no operation, however stale its reads, resets confirmed.   *)
(***************************************************************************)

Dispatching == {"dispatch", "call", "accepted", "refused"}

SendersConfirmed ==
    \A s \in Sessions : task[s].pc \in Dispatching => row[task[s].on].confirmed

IInv == TypeOK /\ FiledOnlyIfConfirmed /\ SendersConfirmed

\* What every step does to the rows: the citizen's confirmation is kept, and
\* a row that is filed after the step is confirmed.
RowsStayConfirmed ==
    \A g \in Complaints :
        /\ row[g].confirmed => row'[g].confirmed
        /\ row'[g].status \in Filed => row'[g].confirmed

\* A commit that neither resets the confirmation nor files without it.
SafeWrite(g, r) ==
    /\ Write(g, r)
    /\ row[g].confirmed => r.confirmed
    /\ r.status \in Filed => r.confirmed

LEMMA SafeWriteConfirms ==
    ASSUME RowOK, FiledOnlyIfConfirmed, NEW g \in Complaints, NEW r,
           SafeWrite(g, r)
    PROVE  RowsStayConfirmed
  BY DEF RowOK, FiledOnlyIfConfirmed, SafeWrite, Write, RowsStayConfirmed

LEMMA KeptRowsConfirmed ==
    ASSUME FiledOnlyIfConfirmed, UNCHANGED row
    PROVE  RowsStayConfirmed
  BY DEF FiledOnlyIfConfirmed, RowsStayConfirmed

LEMMA ClassifiedKeeps ==
    ASSUME NEW r \in Row, NEW seen, NEW d
    PROVE  /\ Classified(r, seen, d).status = r.status
           /\ Classified(r, seen, d).confirmed = r.confirmed
  BY DEF Classified, Row

LEMMA EnvironmentConfirms ==
    ASSUME RowOK, FiledOnlyIfConfirmed, NEW g \in Complaints,
           SubmitDraft(g) \/ WindowExpires(g) \/ UpdateReview(g)
               \/ OfficialAction(g)
    PROVE  RowsStayConfirmed
<1>0. row[g] \in Row /\ (row[g].status \in Filed => row[g].confirmed)
  BY DEF RowOK, FiledOnlyIfConfirmed
<1>1. CASE SubmitDraft(g)
  <2>1. SafeWrite(g, [row[g] EXCEPT !.status = "processing"])
    BY <1>0, <1>1 DEF SubmitDraft, SafeWrite, Row, Filed
  <2> QED  BY <2>1, SafeWriteConfirms
<1>2. CASE WindowExpires(g)
  <2>1. SafeWrite(g, [row[g] EXCEPT !.window = "expired"])
    BY <1>0, <1>2 DEF WindowExpires, SafeWrite, Row
  <2> QED  BY <2>1, SafeWriteConfirms
<1>3. CASE UpdateReview(g)
  <2>1. PICK d \in Decisions :
           Write(g, Classified(row[g], row[g], [d EXCEPT !.live = FALSE]))
    BY <1>3 DEF UpdateReview
  <2>2. SafeWrite(g, Classified(row[g], row[g], [d EXCEPT !.live = FALSE]))
    BY <1>0, <2>1, ClassifiedKeeps DEF SafeWrite
  <2> QED  BY <2>2, SafeWriteConfirms
<1>4. CASE OfficialAction(g)
  <2>1. PICK d \in Decisions, v \in Verdicts :
           Write(g, [row[g] EXCEPT !.review = v,
                                   !.hold = d.hold \/ v = "redirected",
                                   !.prio = d.prio,
                                   !.route = "off"])
    BY <1>4 DEF OfficialAction
  <2> DEFINE r == [row[g] EXCEPT !.review = v,
                                 !.hold = d.hold \/ v = "redirected",
                                 !.prio = d.prio,
                                 !.route = "off"]
  <2>2. r.status = row[g].status /\ r.confirmed = row[g].confirmed
    BY <1>0 DEF Row
  <2> HIDE DEF r
  <2>3. SafeWrite(g, r)
    <3>1. Write(g, r)
      BY <2>1 DEF r
    <3> QED  BY <1>0, <2>2, <3>1 DEF SafeWrite
  <2> QED  BY <2>3, SafeWriteConfirms
<1> QED  BY <1>1, <1>2, <1>3, <1>4

\* The statuses a session may write to a complaint nobody has confirmed.
LEMMA CheckedIsNotFiled == Checked \cap Filed = {} /\ Unrun \cap Filed = {}
  BY DEF Checked, Filed, Unrun

LEMMA ContinueConfirms ==
    ASSUME RowOK, TaskOK, FiledOnlyIfConfirmed, SendersConfirmed,
           NEW s \in Sessions, Continue(s)
    PROVE  RowsStayConfirmed
<1> DEFINE g == task[s].on
           seen == task[s].seen
<1>0. task[s].pc # "idle" =>
          /\ g \in Complaints /\ row[g] \in Row
          /\ row[g].status \in Filed => row[g].confirmed
          /\ task[s].pc \in Dispatching => row[g].confirmed
  BY DEF RowOK, TaskOK, FiledOnlyIfConfirmed, SendersConfirmed
<1>1. CASE RunPipeline(s)
  <2>1. PICK d \in Decisions, next \in Checked :
           Write(g, [Classified(row[g], seen, d) EXCEPT
                       !.status = Net(@, seen.status, next),
                       !.located = TRUE])
    BY <1>1 DEF RunPipeline
  <2> DEFINE c == Classified(row[g], seen, d)
             r == [c EXCEPT !.status = Net(@, seen.status, next),
                            !.located = TRUE]
  <2>2. g \in Complaints /\ row[g] \in Row
        /\ (row[g].status \in Filed => row[g].confirmed)
    BY <1>0, <1>1 DEF RunPipeline
  <2>3. c.status = row[g].status /\ c.confirmed = row[g].confirmed
    BY <2>2, ClassifiedKeeps
  <2>4. r.status \in {c.status, next} /\ r.confirmed = c.confirmed
    <3>1. c = [row[g] EXCEPT !.hold   = Net(@, seen.hold, d.hold),
                !.review = Net(@, seen.review, ReviewFor(d.hold)),
                !.prio   = Net(@, seen.prio, d.prio),
                !.route  = Net(@, seen.route, RouteFor(d.live))]
      BY DEF Classified
    <3>2. DOMAIN c = DOMAIN row[g]
      BY <3>1
    <3> HIDE DEF c
    <3> QED  BY <2>2, <3>2 DEF Net, Row
  <2> HIDE DEF r, c
  <2>5. r.status \in Filed => r.confirmed
    BY <2>2, <2>3, <2>4, CheckedIsNotFiled
  <2>6. SafeWrite(g, r)
    BY <2>1, <2>3, <2>4, <2>5 DEF SafeWrite, r, c
  <2> QED  BY <2>2, <2>6, SafeWriteConfirms
<1>2. CASE RecheckImage(s)
  <2>1. PICK next \in Checked :
           Write(g, [row[g] EXCEPT !.status = Net(@, seen.status, next)])
    BY <1>2 DEF RecheckImage
  <2>2. g \in Complaints /\ row[g] \in Row
        /\ (row[g].status \in Filed => row[g].confirmed)
    BY <1>0, <1>2 DEF RecheckImage
  <2>3. SafeWrite(g, [row[g] EXCEPT !.status = Net(@, seen.status, next)])
    BY <2>1, <2>2, CheckedIsNotFiled DEF SafeWrite, Net, Row
  <2> QED  BY <2>2, <2>3, SafeWriteConfirms
<1>3. CASE ReextractGrievance(s)
  <2>1. g \in Complaints /\ row[g] \in Row
        /\ (row[g].status \in Filed => row[g].confirmed)
    BY <1>0, <1>3 DEF ReextractGrievance
  <2>2. ASSUME NEW d \in Decisions, Write(g, Classified(row[g], seen, d))
        PROVE  RowsStayConfirmed
    <3>1. SafeWrite(g, Classified(row[g], seen, d))
      BY <2>1, <2>2, ClassifiedKeeps DEF SafeWrite
    <3> QED  BY <2>1, <3>1, SafeWriteConfirms
  <2>3. CASE UNCHANGED row
    BY <2>3, KeptRowsConfirmed
  <2> QED  BY <1>3, <2>2, <2>3 DEF ReextractGrievance
<1>4. CASE AcceptPhotoMismatch(s)
  <2>1. g \in Complaints
        /\ SafeWrite(g, [row[g] EXCEPT
                           !.status = IF @ = "photo_mismatch"
                                      THEN "awaiting_confirmation" ELSE @])
    BY <1>0, <1>4 DEF AcceptPhotoMismatch, SafeWrite, Row, Filed
  <2> QED  BY <2>1, SafeWriteConfirms
<1>5. CASE CancelGrievance(s)
  <2>1. g \in Complaints
        /\ SafeWrite(g, [row[g] EXCEPT !.status = "cancelled"])
    BY <1>0, <1>5 DEF CancelGrievance, SafeWrite, Row, Filed
  <2> QED  BY <2>1, SafeWriteConfirms
<1>6. CASE FinalizeForOfficial(s)
  <2>1. g \in Complaints
        /\ SafeWrite(g, [row[g] EXCEPT !.status = "registered",
                                       !.confirmed = TRUE,
                                       !.review = "pending_official"])
    BY <1>0, <1>6 DEF FinalizeForOfficial, SafeWrite, Row
  <2> QED  BY <2>1, SafeWriteConfirms
<1>7. CASE FinalizePriority(s)
  <2>1. g \in Complaints
        /\ SafeWrite(g, [row[g] EXCEPT !.status = "registered",
                                       !.confirmed = TRUE])
    BY <1>0, <1>7 DEF FinalizePriority, SafeWrite, Row
  <2> QED  BY <2>1, SafeWriteConfirms
<1>8. CASE FinalizeNormal(s)
  <2>1. g \in Complaints
        /\ \/ SafeWrite(g, [row[g] EXCEPT !.status = "pending_window",
                                          !.confirmed = TRUE,
                                          !.window = "open"])
           \/ SafeWrite(g, [row[g] EXCEPT !.status = "duplicate",
                                          !.confirmed = TRUE])
    BY <1>0, <1>8 DEF FinalizeNormal, SafeWrite, Row
  <2> QED  BY <2>1, SafeWriteConfirms
<1>9. CASE DispatchDisabled(s)
  <2>1. g \in Complaints
        /\ SafeWrite(g, [row[g] EXCEPT !.status = "registered",
                                       !.review = "pending_official"])
    BY <1>0, <1>9 DEF DispatchDisabled, SafeWrite, Row, Dispatching
  <2> QED  BY <2>1, SafeWriteConfirms
<1>10. CASE DispatchMark(s)
  <2>1. g \in Complaints
        /\ SafeWrite(g, [row[g] EXCEPT !.status = "dispatching"])
    BY <1>0, <1>10 DEF DispatchMark, SafeWrite, Row, Dispatching
  <2> QED  BY <2>1, SafeWriteConfirms
<1>11. CASE RecordSubmitted(s)
  <2>1. g \in Complaints
        /\ SafeWrite(g, [row[g] EXCEPT !.status = "submitted"])
    BY <1>0, <1>11 DEF RecordSubmitted, SafeWrite, Row, Dispatching
  <2> QED  BY <2>1, SafeWriteConfirms
<1>12. CASE RecordRefused(s)
  <2> DEFINE n == seen.attempts + 1
             r == [row[g] EXCEPT
                     !.attempts = n,
                     !.status = IF GiveUp(n) THEN "dispatch_failed" ELSE @]
  <2>1. g \in Complaints /\ row[g] \in Row /\ row[g].confirmed
    BY <1>0, <1>12 DEF RecordRefused, Dispatching
  <2>2. Write(g, r)
    BY <1>12 DEF RecordRefused
  <2>3. r.confirmed = row[g].confirmed
    BY <2>1 DEF Row
  <2> QED  BY <2>1, <2>2, <2>3, SafeWriteConfirms DEF SafeWrite
<1>13. CASE UNCHANGED row
  BY <1>13, KeptRowsConfirmed
<1> QED
  BY <1>1, <1>2, <1>3, <1>4, <1>5, <1>6, <1>7, <1>8, <1>9, <1>10, <1>11, <1>12,
     <1>13
     DEF Continue, RunSwept, CompleteJob, SendFollowup, DepartmentAccepts,
         DepartmentFails, ArtifactUnreadable

\* A task that is dispatching after the step was dispatching before it, on the
\* same complaint, or works on a complaint confirmed by the step.
SendersAreOld ==
    \A s \in Sessions :
        task'[s].pc \in Dispatching =>
            \/ task[s].pc \in Dispatching /\ task'[s].on = task[s].on
            \/ row'[task'[s].on].confirmed

LEMMA OneTaskChanges ==
    ASSUME TaskOK, NEW s \in Sessions, NEW t, task' = [task EXCEPT ![s] = t],
           t.pc \in Dispatching =>
               \/ task[s].pc \in Dispatching /\ t.on = task[s].on
               \/ row'[t.on].confirmed
    PROVE  SendersAreOld
  BY DEF TaskOK, SendersAreOld

LEMMA ContinueSenders ==
    ASSUME RowOK, TaskOK, NEW s \in Sessions, Continue(s)
    PROVE  SendersAreOld
<1> DEFINE g == task[s].on
<1>1. CASE RunPipeline(s)
  <2>1. PICK next \in Checked : Reply(s, AfterRun(s), next)
    BY <1>1 DEF RunPipeline
  <2>2. AfterRun(s) \notin Dispatching
    BY DEF AfterRun, Dispatching
  <2> QED  BY <2>1, <2>2, OneTaskChanges DEF Reply
<1>2. CASE RecheckImage(s)
  <2>1. Finish(s) \/ \E next \in Checked : Reply(s, "reply", next)
    BY <1>2 DEF RecheckImage
  <2> QED  BY <2>1, OneTaskChanges DEF Reply, Finish, NoTask, Dispatching
<1>3. CASE FinalizePriority(s)
  <2>1. g \in Complaints
    BY <1>3 DEF FinalizePriority, TaskOK
  <2>2. row'[g].confirmed
    BY <1>3, <2>1 DEF FinalizePriority, Write, RowOK, Row
  <2> QED  BY <1>3, <2>2, OneTaskChanges DEF FinalizePriority, Advance, Call,
                                             Load
<1>4. CASE DispatchMark(s)
  BY <1>4, OneTaskChanges DEF DispatchMark, Load, Dispatching
<1>5. CASE DepartmentAccepts(s)
  BY <1>5, OneTaskChanges DEF DepartmentAccepts, Advance, Call, Load,
                              Dispatching
<1>6. CASE DepartmentFails(s)
  <2>1. task' = [task EXCEPT ![s] = [task[s] EXCEPT !.pc = "refused"]]
        /\ task[s].pc = "call" /\ task[s] \in Task
    BY <1>6 DEF DepartmentFails, TaskOK
  <2>2. [task[s] EXCEPT !.pc = "refused"].on = task[s].on
    BY <2>1 DEF Task
  <2> QED  BY <2>1, <2>2, OneTaskChanges DEF Dispatching
<1>7. CASE AcceptPhotoMismatch(s) \/ ReextractGrievance(s)
  BY <1>7, OneTaskChanges
     DEF AcceptPhotoMismatch, ReextractGrievance, Advance, Call, Load,
         Dispatching
<1>8. CASE Finish(s)
  BY <1>8, OneTaskChanges DEF Finish, NoTask, Dispatching
<1>9. CASE RunSwept(s)
  BY <1>9, OneTaskChanges DEF RunSwept, Load, Dispatching
<1> QED
  BY <1>1, <1>2, <1>3, <1>4, <1>5, <1>6, <1>7, <1>8, <1>9
     DEF Continue, CompleteJob, SendFollowup, CancelGrievance,
         FinalizeForOfficial, FinalizeNormal, DispatchDisabled,
         ArtifactUnreadable, RecordSubmitted, RecordRefused

LEMMA BeginSenders ==
    ASSUME RowOK, TaskOK, FiledOnlyIfConfirmed, NEW s \in Sessions,
           NEW g \in Complaints, Begin(s, g)
    PROVE  SendersAreOld
<1>1. CASE SweepExpiredWindows(s, g) \/ SweepStuckDispatching(s, g)
  <2>1. row[g].status \in Filed /\ UNCHANGED row
    BY <1>1 DEF SweepExpiredWindows, SweepStuckDispatching, Sweep, WindowDue,
                StuckDispatch, Filed
  <2>2. row'[g].confirmed
    BY <2>1 DEF FiledOnlyIfConfirmed
  <2> QED
    BY <1>1, <2>2, OneTaskChanges
       DEF SweepExpiredWindows, SweepStuckDispatching, Sweep, Call, Load
<1>2. CASE ConfirmDraft(s, g)
  BY <1>2, OneTaskChanges DEF ConfirmDraft, Call, Load, Dispatching
<1>3. CASE CitizenConfirms(s, g) \/ CitizenCancels(s, g)
  BY <1>3, OneTaskChanges
     DEF CitizenConfirms, CitizenCancels, Answer, Call, Load, Dispatching
<1>4. CASE RunJob(s, g) \/ RunPipelineFollowup(s, g) \/ ReplacePhoto(s, g)
              \/ AnswerMismatch(s, g) \/ StartReextract(s, g)
              \/ SweepStuckProcessing(s, g)
  BY <1>4, OneTaskChanges
     DEF RunJob, RunPipelineFollowup, ReplacePhoto, AnswerMismatch,
         StartReextract, SweepStuckProcessing, Call, Load, Dispatching
<1> QED  BY <1>1, <1>2, <1>3, <1>4 DEF Begin

\* The department is handed a complaint only by a dispatching task.
SentBySender ==
    \A g \in Complaints :
        sent'[g] > 0 =>
            \/ sent[g] > 0
            \/ \E s \in Sessions : task[s].on = g /\ task[s].pc \in Dispatching

LEMMA ContinueSent ==
    ASSUME TaskOK, RestOK, NEW s \in Sessions, Continue(s)
    PROVE  SentBySender
<1>1. CASE DepartmentAccepts(s) \/ DepartmentFails(s)
  <2>1. task[s].pc \in Dispatching
        /\ \A g \in Complaints : g # task[s].on => sent'[g] = sent[g]
    BY <1>1 DEF DepartmentAccepts, DepartmentFails, Dispatching, RestOK
  <2> QED  BY <2>1 DEF SentBySender
<1>2. CASE UNCHANGED sent
  BY <1>2 DEF SentBySender
<1> QED
  BY <1>1, <1>2
     DEF Continue, RunSwept, RunPipeline, CompleteJob, SendFollowup,
         RecheckImage,
         AcceptPhotoMismatch, CancelGrievance, FinalizeForOfficial,
         FinalizePriority, FinalizeNormal, DispatchDisabled, DispatchMark,
         ArtifactUnreadable, RecordSubmitted, RecordRefused, ReextractGrievance

\* The three facts about a step give the invariant.
LEMMA ConfirmedStep ==
    ASSUME IInv, RowsStayConfirmed, SendersAreOld, SentBySender, TypeOK'
    PROVE  IInv'
<1>1. FiledOnlyIfConfirmed'
  <2> SUFFICES ASSUME NEW g \in Complaints,
                      row'[g].status \in Filed \/ sent'[g] > 0
               PROVE  row'[g].confirmed
    BY DEF FiledOnlyIfConfirmed
  <2>1. CASE row'[g].status \in Filed
    BY <2>1 DEF RowsStayConfirmed
  <2>2. CASE sent'[g] > 0
    <3>1. row[g].confirmed
      BY <2>2 DEF SentBySender, IInv, FiledOnlyIfConfirmed, SendersConfirmed
    <3> QED  BY <3>1 DEF RowsStayConfirmed
  <2> QED  BY <2>1, <2>2
<1>2. SendersConfirmed'
  <2> SUFFICES ASSUME NEW s \in Sessions, task'[s].pc \in Dispatching
               PROVE  row'[task'[s].on].confirmed
    BY DEF SendersConfirmed
  <2>1. CASE task[s].pc \in Dispatching /\ task'[s].on = task[s].on
    <3>1. row[task[s].on].confirmed /\ task[s].on \in Complaints
      BY <2>1 DEF IInv, TypeOK, SendersConfirmed, Dispatching
    <3> QED  BY <2>1, <3>1 DEF RowsStayConfirmed
  <2> QED  BY <2>1 DEF SendersAreOld
<1> QED  BY <1>1, <1>2 DEF IInv

LEMMA ConfirmedInit == Init => IInv
<1> SUFFICES ASSUME Init PROVE IInv
  OBVIOUS
<1>1. FiledOnlyIfConfirmed
  BY DEF Init, FiledOnlyIfConfirmed, Draft, Filed
<1>2. SendersConfirmed
  BY DEF Init, SendersConfirmed, NoTask, Dispatching
<1> QED  BY <1>1, <1>2, TypeInit DEF IInv

LEMMA ConfirmedNext == IInv /\ [Next]_vars => IInv'
<1> SUFFICES ASSUME IInv, [Next]_vars PROVE IInv'
  OBVIOUS
<1>0. RowOK /\ TaskOK /\ RestOK /\ FiledOnlyIfConfirmed /\ SendersConfirmed
      /\ TypeOK'
  BY TypeParts, TypeStep DEF IInv
<1>1. ASSUME NEW g \in Complaints,
             SubmitDraft(g) \/ WindowExpires(g) \/ UpdateReview(g)
                 \/ OfficialAction(g)
      PROVE  IInv'
  <2>1. UNCHANGED <<task, sent>>
    BY <1>1 DEF SubmitDraft, WindowExpires, UpdateReview, OfficialAction
  <2>2. SendersAreOld /\ SentBySender
    BY <2>1 DEF SendersAreOld, SentBySender
  <2>3. RowsStayConfirmed
    BY <1>0, <1>1, EnvironmentConfirms
  <2> QED  BY <1>0, <2>2, <2>3, ConfirmedStep
<1>2. ASSUME NEW s \in Sessions, Continue(s)
      PROVE  IInv'
  BY <1>0, <1>2, ContinueConfirms, ContinueSenders, ContinueSent, ConfirmedStep
<1>3. ASSUME NEW s \in Sessions, Abort(s)
      PROVE  IInv'
  <2>1. UNCHANGED <<row, sent>> /\ Finish(s)
    BY <1>3, OthersKeepRow DEF Abort
  <2>2. SendersAreOld
    BY <1>0, <2>1, OneTaskChanges DEF Finish, NoTask, Dispatching
  <2>3. RowsStayConfirmed /\ SentBySender
    BY <1>0, <2>1, KeptRowsConfirmed DEF SentBySender
  <2> QED  BY <1>0, <2>2, <2>3, ConfirmedStep
<1>4. ASSUME NEW s \in Sessions, NEW g \in Complaints, Begin(s, g)
      PROVE  IInv'
  <2>1. UNCHANGED <<row, sent>>
    BY <1>4, OthersKeepRow
  <2>2. SendersAreOld
    BY <1>0, <1>4, BeginSenders
  <2>3. RowsStayConfirmed /\ SentBySender
    BY <1>0, <2>1, KeptRowsConfirmed DEF SentBySender
  <2> QED  BY <1>0, <2>2, <2>3, ConfirmedStep
<1>5. ASSUME UNCHANGED vars
      PROVE  IInv'
  <2>1. UNCHANGED <<row, task, sent>>
    BY <1>5 DEF vars
  <2>2. RowsStayConfirmed /\ SendersAreOld /\ SentBySender
    BY <1>0, <2>1, KeptRowsConfirmed DEF SendersAreOld, SentBySender
  <2> QED  BY <1>0, <2>2, ConfirmedStep
<1>6. ASSUME NEW g \in Complaints, ConversationExpires(g)
      PROVE  IInv'
  <2>1. UNCHANGED <<row, task, sent>>
    BY <1>6 DEF ConversationExpires
  <2>2. RowsStayConfirmed /\ SendersAreOld /\ SentBySender
    BY <1>0, <2>1, KeptRowsConfirmed DEF SendersAreOld, SentBySender
  <2> QED  BY <1>0, <2>2, ConfirmedStep
<1> QED  BY <1>1, <1>2, <1>3, <1>4, <1>5, <1>6 DEF Next

\* For any number of workers, requests, retries and crashes, and even if runs
\* outlive their leases: a complaint is filed, or handed to a department, only
\* after the citizen's confirmation was committed (finalize_grievance).
THEOREM ConfirmedBeforeFiled == Spec => []FiledOnlyIfConfirmed
<1>1. IInv => FiledOnlyIfConfirmed
  BY DEF IInv
<1> QED  BY <1>1, ConfirmedInit, ConfirmedNext, PTL DEF Spec

-----------------------------------------------------------------------------
(***************************************************************************)
(* A chat-only complaint, where runs do not overlap, is always in one of 5 *)
(* phases, and the tasks that work on it are those of the phase.  This is  *)
(* why no late commit overwrites the citizen's answer: nothing that writes *)
(* a status before confirmation is under way once the question was asked,  *)
(* and the turn that takes the answer closes the conversation.             *)
(***************************************************************************)

Crew(g) == {s \in Sessions : task[s].on = g}

AtMostOne(S) == \A s, t \in S : s = t

\* It waits for a run, a photo check or the follow-up of either; or for an
\* answer that its conversation can no longer take.
Waiting(g) ==
    /\ chat[g] \in {"processing", "expired"}
    /\ ~row[g].confirmed
    /\ row[g].status \in Unrun \cup Checked
    /\ AtMostOne(Crew(g))
    /\ \A s \in Crew(g) :
          \/ task[s].pc = "extract_turn" /\ task[s].seen.status \in Unrun
          \/ task[s].pc = "swept" /\ s \in Workers /\ row[g].status \in Unrun
          \/ /\ task[s].pc = "extract" /\ s \in Workers
             /\ task[s].seen.status \in Unrun
          \/ task[s].pc \in {"recheck", "reply"} /\ row[g].status \in Checked

\* The citizen has been asked, and nothing works on it.
Asked(g) ==
    /\ chat[g] \in Checked
    /\ ~row[g].confirmed
    /\ row[g].status \in Checked
    /\ Crew(g) = {}

\* The citizen has answered, and one task is about to record the answer.
Answered(g) ==
    /\ chat[g] = "done"
    /\ ~row[g].confirmed
    /\ row[g].status \in Checked
    /\ AtMostOne(Crew(g))
    /\ \A s \in Crew(g) : task[s].pc \in {"finalize", "cancel"}

\* A Yes is on record; only tasks that dispatch work on it.
Settled(g) ==
    /\ chat[g] = "done"
    /\ row[g].confirmed
    /\ row[g].status \in Filed
    /\ \A s \in Crew(g) : task[s].pc \in Dispatching

\* A No is on record, and nothing will work on it again.
Dropped(g) ==
    /\ chat[g] = "done"
    /\ ~row[g].confirmed
    /\ row[g].status = "cancelled"
    /\ Crew(g) = {}

Phase(g) == Waiting(g) \/ Asked(g) \/ Answered(g) \/ Settled(g) \/ Dropped(g)

\* What only web requests create.
NoJobs(g) == job[g] = "none" /\ redo[g] = 0

InPhase == \A g \in Complaints \ Owned : Phase(g) /\ NoJobs(g)

-----------------------------------------------------------------------------
(***************************************************************************)
(* A step of session s on complaint h: what it leaves alone.               *)
(***************************************************************************)

Touches(s, h) ==
    /\ task[s].on = h \/ Idle(s)
    /\ task'[s].on \in {h, NoComplaint}
    /\ \A t \in Sessions \ {s} : task'[t] = task[t]
    /\ \A g \in Complaints \ {h} :
          UNCHANGED <<row[g], chat[g], job[g], redo[g]>>

\* What the phase of a complaint is read from stays the same.
Kept(g) ==
    /\ row'[g].status = row[g].status
    /\ row'[g].confirmed = row[g].confirmed
    /\ UNCHANGED <<chat[g], job[g], redo[g]>>

\* No phase has an idle session in its crew.
LEMMA CrewAtWork ==
    ASSUME NEW g, Phase(g), NEW s \in Sessions, task[s].on = g
    PROVE  task[s].pc # "idle"
  BY DEF Phase, Waiting, Asked, Answered, Settled, Dropped, Crew, Dispatching

LEMMA KeptPhase ==
    ASSUME NEW g, Phase(g), NoJobs(g), Kept(g),
           \A s \in Sessions :
              task[s].on = g \/ task'[s].on = g => task'[s] = task[s]
    PROVE  Phase(g)' /\ NoJobs(g)'
<1>1. Crew(g)' = Crew(g) /\ \A s \in Crew(g) : task'[s] = task[s]
  BY DEF Crew
<1>2. NoJobs(g)'
  BY DEF NoJobs, Kept
<1>3. CASE Waiting(g)
  BY <1>1, <1>2, <1>3 DEF Waiting, Kept, Phase, AtMostOne
<1>4. CASE Asked(g)
  BY <1>1, <1>2, <1>4 DEF Asked, Kept, Phase
<1>5. CASE Answered(g)
  BY <1>1, <1>2, <1>5 DEF Answered, Kept, Phase, AtMostOne
<1>6. CASE Settled(g)
  BY <1>1, <1>2, <1>6 DEF Settled, Kept, Phase
<1>7. CASE Dropped(g)
  BY <1>1, <1>2, <1>7 DEF Dropped, Kept, Phase
<1> QED  BY <1>3, <1>4, <1>5, <1>6, <1>7 DEF Phase

\* The other complaints stay in their phase.
LEMMA OthersInPhase ==
    ASSUME InPhase, NEW s \in Sessions, NEW h \in Complaints, Touches(s, h),
           NEW g \in Complaints \ Owned, g # h
    PROVE  Phase(g)' /\ NoJobs(g)'
<1>1. Phase(g) /\ NoJobs(g)
  BY DEF InPhase
<1>2. Kept(g)
  BY DEF Touches, Kept
<1>3. ASSUME NEW t \in Sessions, task[t].on = g \/ task'[t].on = g
      PROVE  task'[t] = task[t]
  <2>1. CASE t = s
    <3>1. task[s].on = g
      BY <1>3, <2>1, GrievanceAssumption DEF Touches
    <3>2. Idle(s)
      BY <3>1 DEF Touches
    <3> QED  BY <1>1, <3>1, <3>2, CrewAtWork DEF Idle
  <2>2. CASE t # s
    BY <2>2 DEF Touches
  <2> QED  BY <2>1, <2>2
<1> QED  BY <1>1, <1>2, <1>3, KeptPhase

\* The session that works on a complaint alone.
LEMMA OnlyOne ==
    ASSUME NEW s \in Sessions, NEW h \in Complaints, Touches(s, h),
           Crew(h) \subseteq {s}
    PROVE  /\ task'[s].on = h => Crew(h)' = {s}
           /\ task'[s].on = NoComplaint => Crew(h)' = {}
<1>1. \A t \in Sessions \ {s} : task'[t].on # h
  BY DEF Touches, Crew
<1>2. NoComplaint # h
  BY GrievanceAssumption
<1> QED  BY <1>1, <1>2 DEF Crew

-----------------------------------------------------------------------------
(***************************************************************************)
(* What each step touches.                                                 *)
(***************************************************************************)

LEMMA WriteTouches ==
    ASSUME TypeOK, NEW h \in Complaints, NEW r, Write(h, r)
    PROVE  row'[h] = r /\ \A g \in Complaints \ {h} : row'[g] = row[g]
  BY DEF TypeOK, Write

LEMMA LoadTouches ==
    ASSUME TypeOK, NEW s \in Sessions, NEW pc, NEW h, NEW seen,
           Load(s, pc, h, seen)
    PROVE  /\ task'[s].on = h /\ task'[s].pc = pc /\ task'[s].seen = seen
           /\ \A t \in Sessions \ {s} : task'[t] = task[t]
  BY DEF TypeOK, Load

LEMMA ReplyTouches ==
    ASSUME TypeOK, NEW s \in Sessions, NEW pc, NEW out, Reply(s, pc, out)
    PROVE  /\ task'[s].on = task[s].on /\ task'[s].pc = pc
           /\ \A t \in Sessions \ {s} : task'[t] = task[t]
  BY DEF TypeOK, Reply

LEMMA FinishTouches ==
    ASSUME TypeOK, NEW s \in Sessions, Finish(s)
    PROVE  /\ task'[s].on = NoComplaint /\ task'[s].pc = "idle"
           /\ \A t \in Sessions \ {s} : task'[t] = task[t]
  BY DEF TypeOK, Finish, NoTask

\* A step that writes at most the row of h, and moves session s on.
Moves(s, h) ==
    /\ task'[s].on \in {h, NoComplaint}
    /\ \A t \in Sessions \ {s} : task'[t] = task[t]

LEMMA ContinueMoves ==
    ASSUME TypeOK, NEW s \in Sessions, Continue(s)
    PROVE  /\ task[s].on \in Complaints /\ task[s].pc # "idle"
           /\ Moves(s, task[s].on)
<1> DEFINE h == task[s].on
<1>1. task[s].pc # "idle"
  BY DEF Continue, RunSwept, RunPipeline, CompleteJob, SendFollowup,
         RecheckImage, AcceptPhotoMismatch, CancelGrievance,
         FinalizeForOfficial, FinalizePriority, FinalizeNormal,
         DispatchDisabled, DispatchMark, DepartmentAccepts, DepartmentFails,
         ArtifactUnreadable, RecordSubmitted, RecordRefused, ReextractGrievance
<1>2. h \in Complaints
  BY <1>1 DEF TypeOK
<1> SUFFICES Moves(s, h)
  BY <1>1, <1>2
<1>3. CASE Finish(s)
  BY <1>3, FinishTouches DEF Moves
<1>4. CASE DepartmentFails(s)
  BY <1>4 DEF DepartmentFails, Moves, TypeOK, Task
<1>5. CASE RunPipeline(s)
  <2>1. PICK next \in Checked : Reply(s, AfterRun(s), next)
    BY <1>5 DEF RunPipeline
  <2> QED  BY <2>1, ReplyTouches DEF Moves
<1>6. CASE RecheckImage(s)
  <2>1. Finish(s) \/ \E next \in Checked : Reply(s, "reply", next)
    BY <1>6 DEF RecheckImage
  <2> QED  BY <2>1, FinishTouches, ReplyTouches DEF Moves
<1>12. CASE RunSwept(s)
  BY <1>12, LoadTouches DEF RunSwept, Moves
<1>7. CASE AcceptPhotoMismatch(s)
  BY <1>7, LoadTouches DEF AcceptPhotoMismatch, Advance, Call, Moves
<1>8. CASE FinalizePriority(s)
  BY <1>8, LoadTouches DEF FinalizePriority, Advance, Call, Moves
<1>9. CASE DispatchMark(s)
  BY <1>9, LoadTouches DEF DispatchMark, Moves
<1>10. CASE DepartmentAccepts(s)
  BY <1>10, LoadTouches DEF DepartmentAccepts, Advance, Call, Moves
<1>11. CASE ReextractGrievance(s)
  BY <1>11, LoadTouches DEF ReextractGrievance, Advance, Call, Moves
<1> QED
  BY <1>1, <1>2, <1>3, <1>4, <1>5, <1>6, <1>7, <1>8, <1>9, <1>10, <1>11,
     <1>12
     DEF Continue, CompleteJob, SendFollowup, CancelGrievance,
         FinalizeForOfficial, FinalizeNormal, DispatchDisabled,
         ArtifactUnreadable, RecordSubmitted, RecordRefused

\* A session that goes on leaves every other complaint alone.
LEMMA ContinueTouches ==
    ASSUME TypeOK, NEW s \in Sessions, Continue(s)
    PROVE  Touches(s, task[s].on)
<1> DEFINE h == task[s].on
<1>1. h \in Complaints /\ Moves(s, h)
  BY ContinueMoves
<1>2. UNCHANGED row \/ \E r : Write(h, r)
  BY DEF Continue, RunSwept, RunPipeline, CompleteJob, SendFollowup,
         RecheckImage, AcceptPhotoMismatch, CancelGrievance,
         FinalizeForOfficial, FinalizePriority, FinalizeNormal,
         DispatchDisabled, DispatchMark, DepartmentAccepts, DepartmentFails,
         ArtifactUnreadable, RecordSubmitted, RecordRefused, ReextractGrievance
<1>3. \A g \in Complaints \ {h} : row'[g] = row[g]
  BY <1>1, <1>2, WriteTouches
<1>4. UNCHANGED redo
  BY DEF Continue, RunSwept, RunPipeline, CompleteJob, SendFollowup,
         RecheckImage, AcceptPhotoMismatch, CancelGrievance,
         FinalizeForOfficial, FinalizePriority, FinalizeNormal,
         DispatchDisabled, DispatchMark, DepartmentAccepts, DepartmentFails,
         ArtifactUnreadable, RecordSubmitted, RecordRefused, ReextractGrievance
<1>5. \A g \in Complaints \ {h} : UNCHANGED <<chat[g], job[g]>>
  <2>1. CASE CompleteJob(s)
    BY <2>1 DEF CompleteJob, TypeOK
  <2>2. CASE SendFollowup(s)
    BY <2>2 DEF SendFollowup, TypeOK
  <2>3. CASE UNCHANGED <<chat, job>>
    BY <2>3
  <2> QED
    BY <2>1, <2>2, <2>3
       DEF Continue, RunSwept, RunPipeline, RecheckImage,
           AcceptPhotoMismatch, CancelGrievance, FinalizeForOfficial,
           FinalizePriority, FinalizeNormal, DispatchDisabled, DispatchMark,
           DepartmentAccepts, DepartmentFails, ArtifactUnreadable,
           RecordSubmitted, RecordRefused, ReextractGrievance
<1> QED  BY <1>1, <1>3, <1>4, <1>5 DEF Touches, Moves

-----------------------------------------------------------------------------
(***************************************************************************)
(* A step on a chat-only complaint leaves it in a phase.                   *)
(***************************************************************************)

\* What a task is doing tells the phase of its complaint.
LEMMA CrewPhase ==
    ASSUME InPhase, NEW h \in Complaints \ Owned, NEW s \in Sessions,
           task[s].on = h
    PROVE  /\ NoJobs(h)
           /\ \/ Waiting(h) /\ Crew(h) \subseteq {s}
                 /\ task[s].pc \in {"extract_turn", "swept", "extract",
                                   "recheck", "reply"}
              \/ Answered(h) /\ Crew(h) \subseteq {s}
                 /\ task[s].pc \in {"finalize", "cancel"}
              \/ Settled(h) /\ task[s].pc \in Dispatching
<1>1. Phase(h) /\ NoJobs(h) /\ s \in Crew(h)
  BY DEF InPhase, Crew
<1>2. AtMostOne(Crew(h)) => Crew(h) \subseteq {s}
  BY <1>1 DEF AtMostOne
<1> QED
  BY <1>1, <1>2 DEF Phase, Waiting, Asked, Answered, Settled, Dropped

\* A run or a photo check ends.
LEMMA CheckedInPhase ==
    ASSUME TypeOK, InPhase, NEW s \in Sessions, NEW h \in Complaints \ Owned,
           task[s].on = h, RunPipeline(s) \/ RecheckImage(s)
    PROVE  Phase(h)' /\ NoJobs(h)'
<1> DEFINE seen == task[s].seen
<1>0. Continue(s) /\ task[s].pc \in {"extract_turn", "extract", "extract_job",
                                     "recheck", "recheck_web"}
  BY DEF Continue, RunSwept, RunPipeline, RecheckImage
<1>1. h \in Complaints \ Owned /\ Touches(s, h) /\ row[h] \in Row
  BY <1>0, ContinueMoves, ContinueTouches DEF TypeOK
<1>2. Waiting(h) /\ Crew(h) \subseteq {s} /\ NoJobs(h) /\ s \in Crew(h)
      /\ task[s].pc \notin {"extract_job", "recheck_web"}
  BY <1>0, <1>1, CrewPhase DEF Dispatching, Crew
<1>3. task'[s].on = h /\ task'[s].pc = "reply"
  <2>1. CASE RunPipeline(s)
    <3>1. PICK next \in Checked : Reply(s, AfterRun(s), next)
      BY <2>1 DEF RunPipeline
    <3> QED  BY <1>2, <3>1, ReplyTouches DEF AfterRun
  <2>2. CASE RecheckImage(s)
    <3>1. PICK next \in Checked : Reply(s, "reply", next)
      BY <1>2, <2>2 DEF RecheckImage
    <3> QED  BY <3>1, ReplyTouches
  <2> QED  BY <2>1, <2>2
<1>4. row'[h].status \in Checked /\ row'[h].confirmed = row[h].confirmed
  <2>1. CASE RunPipeline(s)
    <3>1. PICK d \in Decisions, next \in Checked :
             Write(h, [Classified(row[h], seen, d) EXCEPT
                         !.status = Net(@, seen.status, next),
                         !.located = TRUE])
      BY <2>1 DEF RunPipeline
    <3> DEFINE c == Classified(row[h], seen, d)
    <3>2. c.confirmed = row[h].confirmed /\ c \in Row
      <4>1. seen \in Row /\ d \in Decision
        BY GrievanceAssumption DEF TypeOK, Task
      <4>2. c.confirmed = row[h].confirmed
        BY <1>1, ClassifiedKeeps
      <4>3. c \in Row
        BY <1>1, <4>1, ClassifiedIsRow
      <4> QED  BY <4>2, <4>3
    <3>3. seen.status \in Unrun
      BY <1>2, <2>1 DEF Waiting, RunPipeline
    <3>4. Net(c.status, seen.status, next) = next
      BY <3>3 DEF Net, Unrun, Checked
    <3> HIDE DEF c
    <3>5. row'[h] = [c EXCEPT !.status = next, !.located = TRUE]
      BY <1>1, <3>1, <3>4, WriteTouches DEF c
    <3> QED  BY <3>2, <3>5 DEF Row
  <2>2. CASE RecheckImage(s)
    <3>1. PICK next \in Checked :
             Write(h, [row[h] EXCEPT !.status = Net(@, seen.status, next)])
      BY <2>2 DEF RecheckImage
    <3>2. row'[h] = [row[h] EXCEPT
                       !.status = Net(row[h].status, seen.status, next)]
      BY <1>1, <3>1, WriteTouches
    <3>3. row[h].status \in Checked
      BY <1>2, <2>2 DEF Waiting, RecheckImage
    <3> QED  BY <1>1, <3>2, <3>3 DEF Net, Row
  <2> QED  BY <2>1, <2>2
<1>5. UNCHANGED <<chat, job, redo>>
  BY DEF RunPipeline, RecheckImage
<1>6. Crew(h)' = {s}
  BY <1>1, <1>2, <1>3, OnlyOne
<1>7. Waiting(h)'
  BY <1>2, <1>3, <1>4, <1>5, <1>6 DEF Waiting, AtMostOne
<1> QED  BY <1>2, <1>5, <1>7 DEF Phase, NoJobs

\* The follow-up asks the citizen, if the conversation is still there.
LEMMA FollowupInPhase ==
    ASSUME TypeOK, InPhase, NEW s \in Sessions, NEW h \in Complaints \ Owned,
           task[s].on = h, SendFollowup(s)
    PROVE  Phase(h)' /\ NoJobs(h)'
<1>0. Continue(s) /\ task[s].pc = "reply"
  BY DEF Continue, SendFollowup
<1>1. h \in Complaints \ Owned /\ Touches(s, h) /\ task[s].out \in Checked
  BY <1>0, ContinueMoves, ContinueTouches DEF TypeOK
<1>2. Waiting(h) /\ Crew(h) \subseteq {s} /\ NoJobs(h) /\ s \in Crew(h)
  BY <1>0, <1>1, CrewPhase DEF Dispatching, Crew
<1>3. chat'[h] = IF chat[h] = "expired" THEN chat[h] ELSE task[s].out
  BY <1>1, <1>2 DEF SendFollowup, Active, Waiting, TypeOK
<1>4. Crew(h)' = {}
  BY <1>1, <1>2, OnlyOne, FinishTouches DEF SendFollowup
<1>5. row[h].status \in Checked /\ ~row[h].confirmed
  BY <1>0, <1>2 DEF Waiting
<1>6. CASE chat[h] = "expired"
  <2>1. Waiting(h)'
    BY <1>3, <1>4, <1>5, <1>6 DEF Waiting, SendFollowup, AtMostOne
  <2> QED  BY <1>2, <2>1 DEF Phase, NoJobs, SendFollowup
<1>7. CASE chat[h] # "expired"
  <2>1. Asked(h)'
    BY <1>1, <1>3, <1>4, <1>5, <1>7 DEF Asked, SendFollowup
  <2> QED  BY <1>2, <2>1 DEF Phase, NoJobs, SendFollowup
<1> QED  BY <1>6, <1>7

\* The sweep gets to an id it has fetched.
LEMMA SweptInPhase ==
    ASSUME TypeOK, InPhase, NEW s \in Sessions, NEW h \in Complaints \ Owned,
           task[s].on = h, RunSwept(s)
    PROVE  Phase(h)' /\ NoJobs(h)'
<1>0. Continue(s) /\ task[s].pc = "swept"
  BY DEF Continue, RunSwept
<1>1. Touches(s, h) /\ UNCHANGED <<row, chat, job, redo>>
  BY <1>0, ContinueTouches DEF RunSwept
<1>2. Waiting(h) /\ Crew(h) \subseteq {s} /\ NoJobs(h) /\ s \in Crew(h)
  BY <1>0, CrewPhase DEF Dispatching, Crew
<1>3. s \in Workers /\ row[h].status \in Unrun
  BY <1>0, <1>2 DEF Waiting
<1>4. task'[s].on = h /\ task'[s].pc = "extract" /\ task'[s].seen = row[h]
  BY LoadTouches DEF RunSwept
<1>5. Crew(h)' = {s}
  BY <1>1, <1>2, <1>4, OnlyOne
<1>6. Waiting(h)'
  BY <1>1, <1>2, <1>3, <1>4, <1>5 DEF Waiting, AtMostOne
<1> QED  BY <1>1, <1>2, <1>6 DEF Phase, NoJobs

\* The citizen's answer is recorded.
LEMMA AnswerInPhase ==
    ASSUME TypeOK, InPhase, NEW s \in Sessions, NEW h \in Complaints \ Owned,
           task[s].on = h,
           \/ CancelGrievance(s)
           \/ FinalizeForOfficial(s) \/ FinalizePriority(s)
           \/ FinalizeNormal(s)
    PROVE  Phase(h)' /\ NoJobs(h)'
<1>0. Continue(s) /\ task[s].pc \in {"cancel", "finalize"}
  BY DEF Continue, CancelGrievance, FinalizeForOfficial, FinalizePriority,
         FinalizeNormal
<1>1. Touches(s, h) /\ row[h] \in Row
  BY <1>0, ContinueTouches DEF TypeOK
<1>2. Answered(h) /\ Crew(h) \subseteq {s} /\ NoJobs(h)
  BY <1>0, CrewPhase DEF Dispatching
<1>3. UNCHANGED <<chat, job, redo>>
  BY DEF CancelGrievance, FinalizeForOfficial, FinalizePriority, FinalizeNormal
<1>4. NoJobs(h)' /\ chat'[h] = "done"
  BY <1>2, <1>3 DEF NoJobs, Answered
<1>5. CASE CancelGrievance(s)
  <2>1. row'[h] = [row[h] EXCEPT !.status = "cancelled"]
    BY <1>5, WriteTouches DEF CancelGrievance
  <2>2. Crew(h)' = {}
    BY <1>1, <1>2, <1>5, OnlyOne, FinishTouches DEF CancelGrievance
  <2>3. Dropped(h)'
    BY <1>1, <1>2, <1>4, <2>1, <2>2 DEF Dropped, Answered, Row
  <2> QED  BY <1>4, <2>3 DEF Phase
<1>6. CASE FinalizePriority(s)
  <2>1. row'[h] = [row[h] EXCEPT !.status = "registered", !.confirmed = TRUE]
    BY <1>6, WriteTouches DEF FinalizePriority
  <2>2. task'[s].on = h /\ task'[s].pc = "dispatch"
    BY <1>6, LoadTouches DEF FinalizePriority, Advance, Call
  <2>3. Crew(h)' = {s}
    BY <1>1, <1>2, <2>2, OnlyOne
  <2>4. Settled(h)'
    BY <1>1, <1>4, <2>1, <2>2, <2>3 DEF Settled, Row, Filed, Dispatching
  <2> QED  BY <1>4, <2>4 DEF Phase
<1>7. CASE FinalizeForOfficial(s) \/ FinalizeNormal(s)
  <2>1. row'[h].confirmed /\ row'[h].status \in Filed
    <3>1. CASE FinalizeForOfficial(s)
      <4>1. row'[h] = [row[h] EXCEPT !.status = "registered",
                                     !.confirmed = TRUE,
                                     !.review = "pending_official"]
        BY <3>1, WriteTouches DEF FinalizeForOfficial
      <4> QED  BY <1>1, <4>1 DEF Row, Filed
    <3>2. CASE FinalizeNormal(s)
      <4>1. \/ row'[h] = [row[h] EXCEPT !.status = "pending_window",
                                        !.confirmed = TRUE,
                                        !.window = "open"]
            \/ row'[h] = [row[h] EXCEPT !.status = "duplicate",
                                        !.confirmed = TRUE]
        BY <3>2, WriteTouches DEF FinalizeNormal
      <4> QED  BY <1>1, <4>1 DEF Row, Filed
    <3> QED  BY <1>7, <3>1, <3>2
  <2>2. Crew(h)' = {}
    BY <1>1, <1>2, <1>7, OnlyOne, FinishTouches
       DEF FinalizeForOfficial, FinalizeNormal
  <2>3. Settled(h)'
    BY <1>4, <2>1, <2>2 DEF Settled
  <2> QED  BY <1>4, <2>3 DEF Phase
<1> QED  BY <1>5, <1>6, <1>7

\* The crew of a settled complaint dispatches it, or is done with it.
LEMMA SettledStays ==
    ASSUME NEW s \in Sessions, NEW h \in Complaints \ Owned, Touches(s, h),
           Settled(h), NoJobs(h), UNCHANGED <<chat, job, redo>>,
           row'[h].status \in Filed, row'[h].confirmed,
           task'[s].on = h => task'[s].pc \in Dispatching
    PROVE  Phase(h)' /\ NoJobs(h)'
<1>1. \A t \in Sessions : task'[t].on = h => task'[t].pc \in Dispatching
  BY DEF Touches, Settled, Crew
<1>2. Settled(h)'
  BY <1>1 DEF Settled, Crew
<1> QED  BY <1>2 DEF Phase, NoJobs

LEMMA DispatchInPhase ==
    ASSUME TypeOK, InPhase, NEW s \in Sessions, NEW h \in Complaints \ Owned,
           task[s].on = h,
           \/ DispatchDisabled(s) \/ DispatchMark(s)
           \/ DepartmentAccepts(s) \/ DepartmentFails(s)
           \/ ArtifactUnreadable(s) \/ RecordSubmitted(s)
           \/ RecordRefused(s)
    PROVE  Phase(h)' /\ NoJobs(h)'
<1>0. Continue(s) /\ task[s].pc \in Dispatching
  BY DEF Continue, DispatchDisabled, DispatchMark, DepartmentAccepts,
         DepartmentFails, ArtifactUnreadable, RecordSubmitted, RecordRefused,
         Dispatching
<1>1. Touches(s, h) /\ row[h] \in Row /\ task[s] \in Task
  BY <1>0, ContinueTouches DEF TypeOK
<1>2. Settled(h) /\ NoJobs(h)
  BY <1>0, CrewPhase DEF Dispatching
<1>3. UNCHANGED <<chat, job, redo>>
  BY DEF DispatchDisabled, DispatchMark, DepartmentAccepts,
         DepartmentFails, ArtifactUnreadable, RecordSubmitted, RecordRefused
<1>4. row[h].status \in Filed /\ row[h].confirmed /\ NoComplaint # h
  BY <1>2, GrievanceAssumption DEF Settled
<1>5. CASE DispatchDisabled(s)
  <2>1. row'[h] = [row[h] EXCEPT !.status = "registered",
                                 !.review = "pending_official"]
    BY <1>5, WriteTouches DEF DispatchDisabled
  <2>2. row'[h].status \in Filed /\ row'[h].confirmed
    BY <1>1, <1>4, <2>1 DEF Row, Filed
  <2>3. task'[s].on = NoComplaint
    BY <1>5, FinishTouches DEF DispatchDisabled
  <2> QED  BY <1>1, <1>2, <1>3, <1>4, <2>2, <2>3, SettledStays
<1>6. CASE DispatchMark(s)
  <2>1. row'[h] = [row[h] EXCEPT !.status = "dispatching"]
    BY <1>6, WriteTouches DEF DispatchMark
  <2>2. task'[s].pc = "call"
    BY <1>6, LoadTouches DEF DispatchMark
  <2>3. row'[h].status \in Filed /\ row'[h].confirmed
    BY <1>1, <1>4, <2>1 DEF Row, Filed
  <2> QED  BY <1>1, <1>2, <1>3, <2>2, <2>3, SettledStays DEF Dispatching
<1>7. CASE DepartmentAccepts(s)
  <2>1. task'[s].pc = "accepted" /\ UNCHANGED row
    BY <1>7, LoadTouches DEF DepartmentAccepts, Advance, Call
  <2> QED  BY <1>1, <1>2, <1>3, <1>4, <2>1, SettledStays DEF Dispatching
<1>8. CASE DepartmentFails(s)
  <2>1. task'[s].pc = "refused" /\ UNCHANGED row
    BY <1>1, <1>8 DEF DepartmentFails, Task, TypeOK
  <2> QED  BY <1>1, <1>2, <1>3, <1>4, <2>1, SettledStays DEF Dispatching
<1>9. CASE ArtifactUnreadable(s)
  <2>1. task'[s].on = NoComplaint /\ UNCHANGED row
    BY <1>9, FinishTouches DEF ArtifactUnreadable
  <2> QED  BY <1>1, <1>2, <1>3, <1>4, <2>1, SettledStays
<1>10. CASE RecordSubmitted(s)
  <2>1. row'[h] = [row[h] EXCEPT !.status = "submitted"]
    BY <1>10, WriteTouches DEF RecordSubmitted
  <2>2. row'[h].status \in Filed /\ row'[h].confirmed
    BY <1>1, <1>4, <2>1 DEF Row, Filed
  <2>3. task'[s].on = NoComplaint
    BY <1>10, FinishTouches DEF RecordSubmitted
  <2> QED  BY <1>1, <1>2, <1>3, <1>4, <2>2, <2>3, SettledStays
<1>11. CASE RecordRefused(s)
  <2> DEFINE n == task[s].seen.attempts + 1
  <2>1. row'[h] = [row[h] EXCEPT
                     !.attempts = n,
                     !.status = IF GiveUp(n) THEN "dispatch_failed" ELSE @]
    BY <1>11, WriteTouches DEF RecordRefused
  <2> HIDE DEF n
  <2>2. row'[h].status \in Filed /\ row'[h].confirmed
    BY <1>1, <1>4, <2>1 DEF Row, Filed
  <2>3. task'[s].on = NoComplaint
    BY <1>11, FinishTouches DEF RecordRefused
  <2> QED  BY <1>1, <1>2, <1>3, <1>4, <2>2, <2>3, SettledStays
<1> QED  BY <1>5, <1>6, <1>7, <1>8, <1>9, <1>10, <1>11

LEMMA ContinueInPhase ==
    ASSUME TypeOK, InPhase, NEW s \in Sessions, Continue(s)
    PROVE  InPhase'
<1> SUFFICES ASSUME NEW g \in Complaints \ Owned
             PROVE  Phase(g)' /\ NoJobs(g)'
  BY DEF InPhase
<1>1. CASE task[s].on # g
  BY <1>1, ContinueMoves, ContinueTouches, OthersInPhase
<1>2. CASE task[s].on = g
  <2>1. ~CompleteJob(s) /\ ~AcceptPhotoMismatch(s) /\ ~ReextractGrievance(s)
    BY <1>2, CrewPhase
       DEF CompleteJob, AcceptPhotoMismatch, ReextractGrievance, Dispatching
  <2> QED
    BY <1>2, <2>1, SweptInPhase, CheckedInPhase, FollowupInPhase,
       AnswerInPhase, DispatchInPhase DEF Continue
<1> QED  BY <1>1, <1>2

\* What begins a session's work.
LEMMA BeginTouches ==
    ASSUME TypeOK, NEW s \in Sessions, NEW h \in Complaints, Begin(s, h)
    PROVE  Touches(s, h) /\ Idle(s) /\ task'[s].on = h /\ UNCHANGED row
<1>1. Idle(s) /\ UNCHANGED row
  BY DEF Begin, RunJob, RunPipelineFollowup, SweepStuckProcessing,
         ReplacePhoto, AnswerMismatch, ConfirmDraft, CitizenConfirms,
         CitizenCancels, Answer, SweepExpiredWindows, SweepStuckDispatching,
         Sweep, StartReextract
<1>2. \E pc, seen : Load(s, pc, h, seen)
  BY DEF Begin, RunJob, RunPipelineFollowup, SweepStuckProcessing,
         ReplacePhoto, AnswerMismatch, ConfirmDraft, CitizenConfirms,
         CitizenCancels, Answer, SweepExpiredWindows, SweepStuckDispatching,
         Sweep, StartReextract, Call
<1>3. \A g \in Complaints \ {h} : UNCHANGED <<chat[g], job[g], redo[g]>>
  BY DEF Begin, RunJob, RunPipelineFollowup, SweepStuckProcessing,
         ReplacePhoto, AnswerMismatch, ConfirmDraft, CitizenConfirms,
         CitizenCancels, Answer, SweepExpiredWindows, SweepStuckDispatching,
         Sweep, StartReextract, TypeOK
<1>4. task'[s].on = h /\ \A t \in Sessions \ {s} : task'[t] = task[t]
  BY <1>2, LoadTouches
<1> QED  BY <1>1, <1>3, <1>4 DEF Touches

LEMMA BeginInPhase ==
    ASSUME TypeOK, InPhase, ~RunsOverlap, NEW s \in Sessions,
           NEW h \in Complaints \ Owned, Begin(s, h)
    PROVE  Phase(h)' /\ NoJobs(h)'
<1>0. Touches(s, h) /\ Idle(s) /\ task'[s].on = h /\ row'[h] = row[h]
  BY BeginTouches
<1>1. Phase(h) /\ NoJobs(h) /\ s \notin Crew(h)
  BY <1>0, CrewAtWork DEF InPhase, Crew, Idle
<1>2. Crew(h) = {} => Crew(h)' = {s}
  BY <1>0, OnlyOne
<1>3. CASE RunPipelineFollowup(s, h)
  <2>1. row[h].status \in Unrun /\ ~Busy(h, {"extract_turn", "swept", "extract"})
    BY <1>3 DEF RunPipelineFollowup, Unrun
  <2>2. Waiting(h)
    BY <1>1, <2>1
       DEF Phase, Asked, Answered, Settled, Dropped, Unrun, Checked, Filed
  <2>3. Crew(h) = {}
    BY <2>1, <2>2 DEF Waiting, Crew, Busy, Unrun, Checked
  <2>4. task'[s].pc = "extract_turn" /\ task'[s].seen.status \in Unrun
    BY <1>3, <2>1, LoadTouches DEF RunPipelineFollowup
  <2>5. Waiting(h)'
    BY <1>0, <1>2, <1>3, <2>2, <2>3, <2>4
       DEF Waiting, RunPipelineFollowup, AtMostOne
  <2> QED  BY <1>1, <1>3, <2>5 DEF Phase, NoJobs, RunPipelineFollowup
<1>8. CASE SweepStuckProcessing(s, h)
  <2>1. row[h].status \in Unrun /\ ~Busy(h, {"extract_turn"}) /\ s \in Workers
    BY <1>8 DEF SweepStuckProcessing, RunsOverlap
  <2>2. Waiting(h)
    BY <1>1, <2>1
       DEF Phase, Asked, Answered, Settled, Dropped, Unrun, Checked, Filed
  <2>3. Crew(h) = {}
    <3>1. \A t \in Crew(h) : t \in Workers
      BY <2>1, <2>2 DEF Waiting, Crew, Busy, Unrun, Checked
    <3> QED  BY <1>1, <2>1, <3>1 DEF RunsOverlap, OneWorker, Crew
  <2>4. task'[s].pc = "swept"
    BY <1>8, LoadTouches DEF SweepStuckProcessing, Call
  <2>5. Waiting(h)'
    BY <1>0, <1>2, <1>8, <2>1, <2>2, <2>3, <2>4
       DEF Waiting, SweepStuckProcessing, AtMostOne
  <2> QED  BY <1>1, <1>8, <2>5 DEF Phase, NoJobs, SweepStuckProcessing
<1>4. CASE AnswerMismatch(s, h)
  <2>1. Asked(h) /\ chat'[h] = "processing" /\ UNCHANGED <<job, redo>>
    BY <1>1, <1>4
       DEF AnswerMismatch, Phase, Waiting, Answered, Settled, Dropped, TypeOK
  <2>2. task'[s].pc = "recheck"
    BY <1>4, LoadTouches DEF AnswerMismatch
  <2>3. Waiting(h)'
    BY <1>0, <1>2, <2>1, <2>2 DEF Waiting, Asked, AtMostOne
  <2> QED  BY <1>1, <2>1, <2>3 DEF Phase, NoJobs
<1>5. CASE CitizenConfirms(s, h) \/ CitizenCancels(s, h)
  <2>1. PICK pc \in {"finalize", "cancel"} : Answer(s, h, pc)
    BY <1>5 DEF CitizenConfirms, CitizenCancels
  <2>2. Asked(h) /\ chat'[h] = "done" /\ UNCHANGED <<job, redo>>
    BY <1>1, <2>1
       DEF Answer, Phase, Waiting, Answered, Settled, Dropped, TypeOK
  <2>3. task'[s].pc = pc
    BY <2>1, LoadTouches DEF Answer, Call
  <2>4. Answered(h)'
    BY <1>0, <1>2, <2>2, <2>3 DEF Answered, Asked, AtMostOne
  <2> QED  BY <1>1, <2>2, <2>4 DEF Phase, NoJobs
<1>6. CASE SweepExpiredWindows(s, h) \/ SweepStuckDispatching(s, h)
  <2>1. Settled(h)
    BY <1>1, <1>6
       DEF SweepExpiredWindows, SweepStuckDispatching, Sweep, WindowDue,
           StuckDispatch, Phase, Waiting, Asked, Answered, Dropped, Unrun,
           Checked
  <2>2. task'[s].pc = "dispatch" /\ UNCHANGED <<chat, job, redo>>
    BY <1>6, LoadTouches
       DEF SweepExpiredWindows, SweepStuckDispatching, Sweep, Call
  <2>3. row'[h].status \in Filed /\ row'[h].confirmed
    BY <1>0, <2>1 DEF Settled
  <2> QED  BY <1>0, <1>1, <2>1, <2>2, <2>3, SettledStays DEF Dispatching
<1>7. ~RunJob(s, h) /\ ~ReplacePhoto(s, h) /\ ~ConfirmDraft(s, h)
      /\ ~StartReextract(s, h)
  BY <1>1 DEF NoJobs, RunJob, ReplacePhoto, ConfirmDraft, StartReextract
<1> QED  BY <1>3, <1>4, <1>5, <1>6, <1>7, <1>8 DEF Begin

LEMMA AbortInPhase ==
    ASSUME TypeOK, InPhase, NEW s \in Sessions, Abort(s)
    PROVE  InPhase'
<1> DEFINE at == task[s].on
<1>1. at \in Complaints /\ UNCHANGED <<row, chat, job>>
      /\ task'[s].on = NoComplaint
      /\ \A t \in Sessions \ {s} : task'[t] = task[t]
  BY FinishTouches DEF Abort, Idle, TypeOK
<1>2. \A g \in Complaints \ {at} : redo'[g] = redo[g]
  BY DEF Abort, TypeOK
<1>3. Touches(s, at)
  BY <1>1, <1>2 DEF Touches
<1> SUFFICES ASSUME NEW g \in Complaints \ Owned
             PROVE  Phase(g)' /\ NoJobs(g)'
  BY DEF InPhase
<1>4. CASE at # g
  BY <1>1, <1>3, <1>4, OthersInPhase
<1>5. CASE at = g
  <2>1. task[s].pc \notin {"reextract", "complete_redo"} /\ NoJobs(g)
    BY <1>5, CrewPhase DEF Dispatching
  <2>2. NoJobs(g)'
    BY <1>1, <2>1 DEF Abort, NoJobs
  <2>3. CASE Settled(g)
    <3>1. Settled(g)'
      BY <1>1, <2>3, GrievanceAssumption DEF Settled, Crew
    <3> QED  BY <2>2, <3>1 DEF Phase
  <2>4. CASE Waiting(g) /\ Crew(g) \subseteq {s}
    <3>1. Crew(g)' = {}
      BY <1>1, <1>3, <1>5, <2>4, OnlyOne
    <3>2. Waiting(g)'
      BY <1>1, <2>4, <3>1 DEF Waiting, AtMostOne
    <3> QED  BY <2>2, <3>2 DEF Phase
  <2>5. CASE Answered(g) /\ Crew(g) \subseteq {s}
    <3>1. Crew(g)' = {}
      BY <1>1, <1>3, <1>5, <2>5, OnlyOne
    <3>2. Answered(g)'
      BY <1>1, <2>5, <3>1 DEF Answered, AtMostOne
    <3> QED  BY <2>2, <3>2 DEF Phase
  <2> QED  BY <1>5, <2>3, <2>4, <2>5, CrewPhase
<1> QED  BY <1>4, <1>5

\* What a citizen, an official, the clock or a correction does to a
\* chat-only complaint: nothing a phase is read from.
Outside(g) ==
    SubmitDraft(g) \/ WindowExpires(g) \/ UpdateReview(g) \/ OfficialAction(g)

LEMMA OutsideKeeps ==
    ASSUME TypeOK, InPhase, NEW h \in Complaints, Outside(h),
           NEW g \in Complaints \ Owned
    PROVE  Kept(g) /\ UNCHANGED task
<1>1. row[h] \in Row /\ UNCHANGED <<chat, task>> /\ NoJobs(g)
  BY DEF Outside, SubmitDraft, WindowExpires, UpdateReview, OfficialAction,
         TypeOK, InPhase
<1>2. CASE SubmitDraft(h) \/ UpdateReview(h)
  <2>1. g # h
    BY <1>2, GrievanceAssumption DEF SubmitDraft, UpdateReview
  <2>2. \E r : Write(h, r)
    BY <1>2 DEF SubmitDraft, UpdateReview
  <2>3. row'[g] = row[g]
    BY <2>1, <2>2, WriteTouches
  <2>4. job'[g] = job[g] /\ redo'[g] = redo[g]
    BY <1>2, <2>1 DEF SubmitDraft, UpdateReview, TypeOK
  <2> QED  BY <1>1, <2>3, <2>4 DEF Kept
<1>3. CASE WindowExpires(h)
  <2>1. row'[h] = [row[h] EXCEPT !.window = "expired"]
        /\ \A k \in Complaints \ {h} : row'[k] = row[k]
    BY <1>3, WriteTouches DEF WindowExpires
  <2>2. row'[g].status = row[g].status /\ row'[g].confirmed = row[g].confirmed
    BY <1>1, <2>1 DEF Row
  <2> QED  BY <1>1, <1>3, <2>2 DEF WindowExpires, Kept
<1>4. CASE OfficialAction(h)
  <2>1. PICK d \in Decisions, v \in Verdicts :
           Write(h, [row[h] EXCEPT !.review = v,
                                   !.hold = d.hold \/ v = "redirected",
                                   !.prio = d.prio,
                                   !.route = "off"])
    BY <1>4 DEF OfficialAction
  <2>2. PICK held : held = (d.hold \/ v = "redirected")
    OBVIOUS
  <2>3. row'[h] = [row[h] EXCEPT !.review = v, !.hold = held,
                                 !.prio = d.prio, !.route = "off"]
        /\ \A k \in Complaints \ {h} : row'[k] = row[k]
    BY <2>1, <2>2, WriteTouches
  <2>4. row'[g].status = row[g].status /\ row'[g].confirmed = row[g].confirmed
    <3>1. CASE g = h
      <4> DEFINE new == [row[h] EXCEPT !.review = v, !.hold = held,
                                       !.prio = d.prio, !.route = "off"]
      <4>1. new.status = row[h].status /\ new.confirmed = row[h].confirmed
        BY <1>1 DEF Row
      <4> HIDE DEF new
      <4> QED  BY <2>3, <3>1, <4>1 DEF new
    <3> QED  BY <2>3, <3>1
  <2>5. UNCHANGED <<chat, job, redo>>
    BY <1>4 DEF OfficialAction
  <2> QED  BY <1>1, <2>4, <2>5 DEF Kept
<1> QED  BY <1>2, <1>3, <1>4 DEF Outside

\* A conversation that expires leaves the complaint waiting, if it was active.
LEMMA ExpiresInPhase ==
    ASSUME TypeOK, InPhase, NEW h \in Complaints, ConversationExpires(h)
    PROVE  InPhase'
<1> SUFFICES ASSUME NEW g \in Complaints \ Owned
             PROVE  Phase(g)' /\ NoJobs(g)'
  BY DEF InPhase
<1>1. Phase(g) /\ NoJobs(g) /\ UNCHANGED <<row, job, redo, task>>
      /\ Crew(g)' = Crew(g)
  BY DEF ConversationExpires, InPhase, Crew
<1>2. CASE g # h
  BY <1>1, <1>2, KeptPhase DEF ConversationExpires, Kept, TypeOK
<1>3. CASE g = h
  <2>1. chat'[g] = "expired" /\ chat[g] # "done"
    BY <1>3 DEF ConversationExpires, Active, TypeOK
  <2>2. Waiting(g)'
    <3>1. CASE Waiting(g)
      BY <1>1, <2>1, <3>1 DEF Waiting
    <3>2. CASE Asked(g)
      BY <1>1, <2>1, <3>2 DEF Asked, Waiting, AtMostOne
    <3> QED  BY <1>1, <2>1, <3>1, <3>2 DEF Phase, Answered, Settled, Dropped
  <2> QED  BY <1>1, <2>2 DEF Phase, NoJobs
<1> QED  BY <1>2, <1>3

LEMMA PhaseInit == Init => InPhase
<1> SUFFICES ASSUME Init, NEW g \in Complaints \ Owned
             PROVE  Phase(g) /\ NoJobs(g)
  BY DEF InPhase
<1>1. Crew(g) = {}
  BY GrievanceAssumption DEF Init, Crew, NoTask
<1>2. Waiting(g) /\ NoJobs(g)
  BY <1>1, GrievanceAssumption
     DEF Init, Draft, Waiting, NoJobs, Unrun, AtMostOne
<1> QED  BY <1>2 DEF Phase

LEMMA PhaseNext == TypeOK /\ InPhase /\ ~RunsOverlap /\ [Next]_vars => InPhase'
<1> SUFFICES ASSUME TypeOK, InPhase, ~RunsOverlap, [Next]_vars PROVE InPhase'
  OBVIOUS
<1>1. ASSUME NEW h \in Complaints, Outside(h)
      PROVE  InPhase'
  BY <1>1, OutsideKeeps, KeptPhase DEF InPhase
<1>2. ASSUME NEW s \in Sessions, NEW h \in Complaints, Begin(s, h)
      PROVE  InPhase'
  BY <1>2, BeginTouches, BeginInPhase, OthersInPhase DEF InPhase
<1>3. CASE UNCHANGED vars
  BY <1>3, KeptPhase DEF vars, InPhase, Kept
<1> QED
  BY <1>1, <1>2, <1>3, ExpiresInPhase, ContinueInPhase, AbortInPhase
     DEF Next, Outside

-----------------------------------------------------------------------------
(***************************************************************************)
(* The abstract step a step implements.                                    *)
(***************************************************************************)

\* A commit on the row of h: if it is the one that confirms, it files.
RowStep(h) ==
    /\ UNCHANGED sent
    /\ \A g \in Complaints \ {h} : row'[g] = row[g]
    /\ row'[h].confirmed /\ ~row[h].confirmed => row'[h].status \in Filed

\* A commit that is not one of finalize_grievance leaves confirmed_at alone.
LEMMA OtherWrite ==
    ASSUME TypeOK, UNCHANGED sent, NEW h \in Complaints, NEW r, Write(h, r),
           r.confirmed = row[h].confirmed \/ r.status \in Filed
    PROVE  RowStep(h)
  BY WriteTouches DEF RowStep

LEMMA OutsideRowStep ==
    ASSUME TypeOK, NEW h \in Complaints, Outside(h)
    PROVE  RowStep(h)
<1>1. row[h] \in Row /\ UNCHANGED sent
  BY DEF TypeOK, Outside, SubmitDraft, WindowExpires, UpdateReview,
         OfficialAction
<1>2. CASE SubmitDraft(h)
  <2>1. [row[h] EXCEPT !.status = "processing"].confirmed = row[h].confirmed
    BY <1>1 DEF Row
  <2> QED  BY <1>1, <1>2, <2>1, OtherWrite DEF SubmitDraft
<1>3. CASE WindowExpires(h)
  <2>1. [row[h] EXCEPT !.window = "expired"].confirmed = row[h].confirmed
    BY <1>1 DEF Row
  <2> QED  BY <1>1, <1>3, <2>1, OtherWrite DEF WindowExpires
<1>4. CASE UpdateReview(h)
  <2>1. PICK d \in Decisions :
           Write(h, Classified(row[h], row[h], [d EXCEPT !.live = FALSE]))
    BY <1>4 DEF UpdateReview
  <2> QED  BY <1>1, <2>1, ClassifiedKeeps, OtherWrite
<1>5. CASE OfficialAction(h)
  <2>1. PICK d \in Decisions, v \in Verdicts :
           Write(h, [row[h] EXCEPT !.review = v,
                                   !.hold = d.hold \/ v = "redirected",
                                   !.prio = d.prio,
                                   !.route = "off"])
    BY <1>5 DEF OfficialAction
  <2> DEFINE r == [row[h] EXCEPT !.review = v,
                                 !.hold = d.hold \/ v = "redirected",
                                 !.prio = d.prio,
                                 !.route = "off"]
  <2>2. r.confirmed = row[h].confirmed
    BY <1>1 DEF Row
  <2> QED  BY <1>1, <2>1, <2>2, OtherWrite
<1> QED  BY <1>2, <1>3, <1>4, <1>5 DEF Outside

Calls(s) == DepartmentAccepts(s) \/ DepartmentFails(s)

LEMMA ContinueRowStep ==
    ASSUME TypeOK, NEW s \in Sessions, Continue(s), ~Calls(s)
    PROVE  RowStep(task[s].on)
<1> DEFINE h == task[s].on
           seen == task[s].seen
<1>1. h \in Complaints /\ row[h] \in Row /\ seen \in Row
  BY ContinueMoves DEF TypeOK, Task
<1>2. UNCHANGED sent
  BY DEF Calls, Continue, RunSwept, RunPipeline, CompleteJob, SendFollowup,
         RecheckImage, AcceptPhotoMismatch, CancelGrievance,
         FinalizeForOfficial, FinalizePriority, FinalizeNormal,
         DispatchDisabled, DispatchMark, ArtifactUnreadable, RecordSubmitted,
         RecordRefused, ReextractGrievance
<1>3. CASE RunPipeline(s)
  <2>1. PICK d \in Decisions, next \in Checked :
           Write(h, [Classified(row[h], seen, d) EXCEPT
                       !.status = Net(@, seen.status, next),
                       !.located = TRUE])
    BY <1>3 DEF RunPipeline
  <2> DEFINE c == Classified(row[h], seen, d)
  <2>2. c.confirmed = row[h].confirmed
    BY <1>1, ClassifiedKeeps
  <2>3. c \in Row
    BY <1>1, ClassifiedIsRow, GrievanceAssumption
  <2> HIDE DEF c
  <2> DEFINE r == [c EXCEPT !.status = Net(c.status, seen.status, next),
                            !.located = TRUE]
  <2>4. r.confirmed = row[h].confirmed
    BY <2>2, <2>3 DEF Row
  <2>5. Write(h, r)
    BY <2>1 DEF c
  <2> QED  BY <1>1, <1>2, <2>4, <2>5, OtherWrite
<1>4. CASE RecheckImage(s)
  <2>1. PICK next \in Checked :
           Write(h, [row[h] EXCEPT !.status = Net(@, seen.status, next)])
    BY <1>4 DEF RecheckImage
  <2>2. [row[h] EXCEPT !.status = Net(@, seen.status, next)].confirmed
            = row[h].confirmed
    BY <1>1 DEF Row
  <2> QED  BY <1>1, <1>2, <2>1, <2>2, OtherWrite
<1>5. CASE ReextractGrievance(s)
  <2>1. ASSUME NEW d \in Decisions, Write(h, Classified(row[h], seen, d))
        PROVE  RowStep(h)
    BY <1>1, <1>2, <2>1, ClassifiedKeeps, OtherWrite
  <2> QED  BY <1>2, <1>5, <2>1 DEF ReextractGrievance, RowStep
<1>6. CASE AcceptPhotoMismatch(s)
  <2>1. [row[h] EXCEPT !.status = IF @ = "photo_mismatch"
                                  THEN "awaiting_confirmation"
                                  ELSE @].confirmed = row[h].confirmed
    BY <1>1 DEF Row
  <2> QED  BY <1>1, <1>2, <1>6, <2>1, OtherWrite DEF AcceptPhotoMismatch
<1>7. CASE CancelGrievance(s)
  <2>1. [row[h] EXCEPT !.status = "cancelled"].confirmed = row[h].confirmed
    BY <1>1 DEF Row
  <2> QED  BY <1>1, <1>2, <1>7, <2>1, OtherWrite DEF CancelGrievance
<1>8. CASE FinalizeForOfficial(s)
  <2>1. [row[h] EXCEPT !.status = "registered", !.confirmed = TRUE,
                       !.review = "pending_official"].status \in Filed
    BY <1>1 DEF Row, Filed
  <2> QED  BY <1>1, <1>2, <1>8, <2>1, OtherWrite DEF FinalizeForOfficial
<1>9. CASE FinalizePriority(s)
  <2>1. [row[h] EXCEPT !.status = "registered",
                       !.confirmed = TRUE].status \in Filed
    BY <1>1 DEF Row, Filed
  <2> QED  BY <1>1, <1>2, <1>9, <2>1, OtherWrite DEF FinalizePriority
<1>10. CASE FinalizeNormal(s)
  <2>1. [row[h] EXCEPT !.status = "pending_window", !.confirmed = TRUE,
                       !.window = "open"].status \in Filed
        /\ [row[h] EXCEPT !.status = "duplicate",
                          !.confirmed = TRUE].status \in Filed
    BY <1>1 DEF Row, Filed
  <2> QED  BY <1>1, <1>2, <1>10, <2>1, OtherWrite DEF FinalizeNormal
<1>11. CASE DispatchDisabled(s)
  <2>1. [row[h] EXCEPT !.status = "registered",
                       !.review = "pending_official"].status \in Filed
    BY <1>1 DEF Row, Filed
  <2> QED  BY <1>1, <1>2, <1>11, <2>1, OtherWrite DEF DispatchDisabled
<1>12. CASE DispatchMark(s)
  <2>1. [row[h] EXCEPT !.status = "dispatching"].status \in Filed
    BY <1>1 DEF Row, Filed
  <2> QED  BY <1>1, <1>2, <1>12, <2>1, OtherWrite DEF DispatchMark
<1>13. CASE RecordSubmitted(s)
  <2>1. [row[h] EXCEPT !.status = "submitted"].status \in Filed
    BY <1>1 DEF Row, Filed
  <2> QED  BY <1>1, <1>2, <1>13, <2>1, OtherWrite DEF RecordSubmitted
<1>14. CASE RecordRefused(s)
  <2> DEFINE n == seen.attempts + 1
             r == [row[h] EXCEPT
                     !.attempts = n,
                     !.status = IF GiveUp(n) THEN "dispatch_failed" ELSE @]
  <2>1. Write(h, r)
    BY <1>14 DEF RecordRefused
  <2>2. r.confirmed = row[h].confirmed
    BY <1>1 DEF Row
  <2> QED  BY <1>1, <1>2, <2>1, <2>2, OtherWrite
<1>15. CASE UNCHANGED row
  BY <1>2, <1>15 DEF RowStep
<1> QED
  BY <1>3, <1>4, <1>5, <1>6, <1>7, <1>8, <1>9, <1>10, <1>11, <1>12, <1>13,
     <1>14, <1>15
     DEF Calls, Continue, RunSwept, CompleteJob, SendFollowup,
         ArtifactUnreadable

\* A No stays: no task works on a dropped chat-only complaint.
LEMMA DroppedStays ==
    ASSUME TypeOK, InPhase, [Next]_vars, NEW g \in Complaints \ Owned, Dropped(g)
    PROVE  row'[g].status = "cancelled"
<1>1. ASSUME NEW h \in Complaints, Outside(h)
      PROVE  row'[g].status = "cancelled"
  BY <1>1, OutsideKeeps DEF Kept, Dropped
<1>2. ASSUME NEW s \in Sessions, Continue(s)
      PROVE  row'[g].status = "cancelled"
  <2>1. task[s].on # g
    BY DEF Dropped, Crew
  <2> QED  BY <1>2, <2>1, ContinueTouches DEF Touches, Dropped
<1>3. CASE UNCHANGED row
  BY <1>3 DEF Dropped
<1> QED
  BY <1>1, <1>2, <1>3, BeginTouches
     DEF Next, Outside, ConversationExpires, Abort, vars

\* Where runs do not overlap the phases hold; where they do every complaint may
\* be reopened and they are not needed.
PInv == IInv /\ (RunsOverlap \/ InPhase)

Reopened == IF RunsOverlap THEN Complaints ELSE Owned

\* The variables of Consent, as Grievance implements them.
Answers == [g \in Complaints |-> AnswerOf(g)]

IsFiled == [g \in Complaints |-> row[g].status \in Filed]

IsHanded == [g \in Complaints |-> sent[g] > 0]

PromiseStep == [Promise!Next]_(Promise!vars)

\* What one commit does to the citizen's view of a complaint that is not
\* reopened: nothing, the one Yes, or the one No.
LEMMA OneAnswer ==
    ASSUME TypeOK, InPhase, InPhase', RowsStayConfirmed, [Next]_vars,
           NEW h \in Complaints \ Owned
    PROVE  /\ row[h].confirmed =>
                 /\ row[h].status \in Filed /\ row'[h].status \in Filed
                 /\ row'[h].confirmed
           /\ AnswerOf(h) = "no" => AnswerOf(h)' = "no"
<1>1. Phase(h) /\ Phase(h)'
  BY DEF InPhase
<1>2. row[h].confirmed => Settled(h)
  BY <1>1 DEF Phase, Waiting, Asked, Answered, Dropped
<1>3. row'[h].confirmed => Settled(h)'
  BY <1>1 DEF Phase, Waiting, Asked, Answered, Dropped
<1>4. AnswerOf(h) = "no" => Dropped(h)
  BY <1>1 DEF AnswerOf, Phase, Waiting, Asked, Answered, Settled, Unrun,
              Checked, Filed
<1>5. Dropped(h) => AnswerOf(h)' = "no"
  <2> SUFFICES ASSUME Dropped(h) PROVE AnswerOf(h)' = "no"
    OBVIOUS
  <2>1. row'[h].status = "cancelled"
    BY DroppedStays
  <2>2. ~row'[h].confirmed
    BY <1>3, <2>1 DEF Settled, Filed
  <2> QED  BY <2>1, <2>2 DEF AnswerOf
<1> QED  BY <1>2, <1>3, <1>4, <1>5 DEF Settled, RowsStayConfirmed

LEMMA RowStepImplements ==
    ASSUME PInv, PInv', RowsStayConfirmed, [Next]_vars,
           NEW h \in Complaints, RowStep(h)
    PROVE  PromiseStep
<1>1. \A g \in Complaints \ {h} :
         /\ AnswerOf(g)' = AnswerOf(g)
         /\ (row'[g].status \in Filed) = (row[g].status \in Filed)
  BY DEF RowStep, AnswerOf
<1>2. Answers' = [Answers EXCEPT ![h] = AnswerOf(h)']
  BY <1>1 DEF Answers
<1>3. IsFiled' = [IsFiled EXCEPT ![h] = row'[h].status \in Filed]
  BY <1>1, Zenon DEF IsFiled
<1>4. IsHanded' = IsHanded
  BY DEF RowStep, IsHanded
<1>5. /\ row[h].status \in Filed => row[h].confirmed
      /\ row'[h].status \in Filed => row'[h].confirmed
      /\ row[h].confirmed => row'[h].confirmed
      /\ row'[h].confirmed /\ ~row[h].confirmed => row'[h].status \in Filed
  BY DEF PInv, IInv, FiledOnlyIfConfirmed, RowsStayConfirmed, RowStep
<1>6. /\ Answers[h] = AnswerOf(h)
      /\ AnswerOf(h) \in {"none", "yes", "no"}
      /\ AnswerOf(h)' \in {"none", "yes", "no"}
      /\ AnswerOf(h) = "yes" <=> row[h].confirmed
      /\ AnswerOf(h)' = "yes" <=> row'[h].confirmed
  BY DEF Answers, AnswerOf
<1> DEFINE was == row[h].status \in Filed
           f == row'[h].status \in Filed
<1>7. IsFiled[h] = was /\ was \in BOOLEAN /\ f \in BOOLEAN
  <2>1. IsFiled[h] = was
    BY Zenon DEF IsFiled
  <2>2. was \in BOOLEAN /\ f \in BOOLEAN
    OBVIOUS
  <2> QED  BY <2>1, <2>2
<1>8. Promise!Agree(h) <=>
        /\ Answers[h] = "none" \/ h \in Reopened
        /\ Answers' = [Answers EXCEPT ![h] = "yes"]
        /\ IsFiled' = [IsFiled EXCEPT ![h] = TRUE]
        /\ UNCHANGED IsHanded
  BY DEF Promise!Agree, Answers, IsFiled, IsHanded, Reopened
<1>9. Promise!Refuse(h) <=>
        /\ Answers[h] = "none"
        /\ Answers' = [Answers EXCEPT ![h] = "no"]
        /\ UNCHANGED <<IsFiled, IsHanded>>
  BY DEF Promise!Refuse, Answers, IsFiled, IsHanded
<1>10. Promise!Reopen(h) <=>
         /\ h \in Reopened
         /\ \/ /\ Answers[h] = "yes"
               /\ \E b \in BOOLEAN : IsFiled' = [IsFiled EXCEPT ![h] = b]
               /\ UNCHANGED Answers
            \/ /\ Answers[h] # "yes"
               /\ \E b \in {"none", "no"} :
                     Answers' = [Answers EXCEPT ![h] = b]
               /\ UNCHANGED IsFiled
         /\ UNCHANGED IsHanded
  BY DEF Promise!Reopen, Answers, IsFiled, IsHanded, Reopened
<1>11. UNCHANGED <<Answers, IsFiled, IsHanded>> => PromiseStep
  BY DEF PromiseStep, Promise!vars, Answers, IsFiled, IsHanded
<1>12. /\ Answers = [g \in Complaints |-> Answers[g]]
       /\ IsFiled = [g \in Complaints |-> IsFiled[g]]
  BY DEF Answers, IsFiled
<1>13. h \notin Reopened =>
         /\ row[h].confirmed => was /\ f /\ row'[h].confirmed
         /\ AnswerOf(h) = "no" => AnswerOf(h)' = "no"
  <2> SUFFICES ASSUME h \notin Reopened
               PROVE  /\ row[h].confirmed => was /\ f /\ row'[h].confirmed
                      /\ AnswerOf(h) = "no" => AnswerOf(h)' = "no"
    OBVIOUS
  <2>1. h \in Complaints \ Owned /\ TypeOK /\ InPhase /\ InPhase'
    BY GrievanceAssumption DEF Reopened, PInv, IInv
  <2> QED  BY <2>1, OneAnswer
<1>14. CASE row[h].confirmed /\ h \in Reopened
  <2>1. UNCHANGED Answers
    BY <1>2, <1>5, <1>6, <1>12, <1>14
  <2>2. Promise!Reopen(h)
    BY <1>3, <1>4, <1>6, <1>7, <1>10, <1>14, <2>1
  <2> QED  BY <2>2 DEF PromiseStep, Promise!Next
<1>15. CASE ~row[h].confirmed /\ row'[h].confirmed
            /\ (Answers[h] = "none" \/ h \in Reopened)
  <2>1. IsFiled' = [IsFiled EXCEPT ![h] = TRUE]
    BY <1>3, <1>5, <1>7, <1>15
  <2>2. Promise!Agree(h)
    BY <1>2, <1>4, <1>6, <1>8, <1>15, <2>1
  <2> QED  BY <2>2 DEF PromiseStep, Promise!Next
<1>16. CASE ~row[h].confirmed /\ ~row'[h].confirmed
  <2>1. UNCHANGED IsFiled
    BY <1>3, <1>5, <1>7, <1>12, <1>16
  <2>2. CASE h \in Reopened
    <3>1. Promise!Reopen(h)
      BY <1>2, <1>4, <1>6, <1>10, <1>16, <2>1, <2>2
    <3> QED  BY <3>1 DEF PromiseStep, Promise!Next
  <2>3. CASE AnswerOf(h)' = AnswerOf(h)
    BY <1>2, <1>4, <1>6, <1>11, <1>12, <2>1, <2>3
  <2>4. CASE h \notin Reopened /\ AnswerOf(h)' # AnswerOf(h)
    <3>1. AnswerOf(h) = "none" /\ AnswerOf(h)' = "no"
      BY <1>6, <1>16, <1>13, <2>4
    <3>2. Promise!Refuse(h)
      BY <1>2, <1>4, <1>6, <1>9, <2>1, <3>1
    <3> QED  BY <3>2 DEF PromiseStep, Promise!Next
  <2> QED  BY <2>2, <2>3, <2>4
<1>17. CASE row[h].confirmed /\ h \notin Reopened
  <2>1. UNCHANGED <<Answers, IsFiled>>
    BY <1>2, <1>3, <1>5, <1>6, <1>7, <1>12, <1>13, <1>17
  <2> QED  BY <1>4, <1>11, <2>1
<1>18. CASE ~row[h].confirmed /\ row'[h].confirmed /\ h \notin Reopened
            /\ Answers[h] # "none"
  <2>1. AnswerOf(h) = "no"
    BY <1>6, <1>18
  <2> QED  BY <1>6, <1>13, <1>18, <2>1
<1> QED  BY <1>14, <1>15, <1>16, <1>17, <1>18

\* The department is handed what was agreed to, and filed unless reopened.
LEMMA CallImplements ==
    ASSUME PInv, NEW s \in Sessions, Calls(s)
    PROVE  PromiseStep
<1>0. task[s].pc = "call" /\ task[s].on \in Complaints
      /\ row[task[s].on].confirmed
  BY DEF Calls, DepartmentAccepts, DepartmentFails, PInv, IInv, TypeOK,
         SendersConfirmed, Dispatching
<1> PICK h \in Complaints : h = task[s].on
  BY <1>0
<1>1. task[s].pc = "call" /\ task[s].on = h /\ row[h].confirmed
  BY <1>0
<1>2. row[h].status \in Filed \/ h \in Reopened
  <2> SUFFICES ASSUME h \notin Reopened PROVE row[h].status \in Filed
    OBVIOUS
  <2>1. h \in Complaints \ Owned /\ InPhase
    BY <1>1 DEF Reopened, PInv
  <2>2. Settled(h)
    BY <1>1, <2>1, CrewPhase
  <2> QED  BY <2>2 DEF Settled
<1>3. UNCHANGED row /\ (sent' = sent \/ sent' = [sent EXCEPT ![h] = Count(@)])
  BY DEF Calls, DepartmentAccepts, DepartmentFails
<1>4. UNCHANGED <<Answers, IsFiled>>
  BY <1>3 DEF Answers, AnswerOf, IsFiled
<1>5. CASE sent' = sent
  BY <1>3, <1>5
     DEF PromiseStep, Promise!vars, AnswerOf
<1>6. CASE sent' = [sent EXCEPT ![h] = Count(@)]
  <2>1. \A g \in Complaints : sent'[g] = IF g = h THEN Count(sent[g]) ELSE sent[g]
    BY <1>6 DEF PInv, IInv, TypeOK
  <2>2. sent[h] \in 0..2 /\ Count(sent[h]) > 0
    BY <1>1 DEF PInv, IInv, TypeOK, Count
  <2>3. IsHanded' = [IsHanded EXCEPT ![h] = TRUE]
    <3>1. sent'[h] > 0 /\ \A g \in Complaints \ {h} : sent'[g] = sent[g]
      BY <1>1, <2>1, <2>2
    <3>2. (sent'[h] > 0) = TRUE
      BY <3>1
    <3>3. \A g \in Complaints \ {h} : (sent'[g] > 0) = (sent[g] > 0)
      BY <3>1
    <3> QED  BY <3>2, <3>3, Zenon DEF IsHanded
  <2>4. Answers[h] = "yes" /\ (IsFiled[h] \/ h \in Reopened)
    BY <1>1, <1>2 DEF Answers, AnswerOf, IsFiled
  <2>5. Promise!HandOver(h) <=>
          /\ Answers[h] = "yes"
          /\ IsFiled[h] \/ h \in Reopened
          /\ IsHanded' = [IsHanded EXCEPT ![h] = TRUE]
          /\ UNCHANGED <<Answers, IsFiled>>
    BY DEF Promise!HandOver, Answers, IsFiled, IsHanded, Reopened
  <2>6. Promise!HandOver(h)
    BY <1>4, <2>3, <2>4, <2>5
  <2> QED  BY <1>1, <2>6 DEF PromiseStep, Promise!Next
<1> QED  BY <1>3, <1>5, <1>6

LEMMA PromiseInit == Init => Promise!Init
<1> SUFFICES ASSUME Init PROVE Promise!Init
  OBVIOUS
<1>0. \A g \in Complaints : row[g] = Draft /\ sent[g] = 0
  BY DEF Init
<1>1. Draft.status = "draft" /\ ~Draft.confirmed /\ "draft" \notin Filed
  BY DEF Draft, Filed
<1>2. [g \in Complaints |-> AnswerOf(g)] = [g \in Complaints |-> "none"]
  BY <1>0, <1>1 DEF AnswerOf
<1>3. [g \in Complaints |-> row[g].status \in Filed]
        = [g \in Complaints |-> FALSE]
  <2>1. ASSUME NEW g \in Complaints
        PROVE  (row[g].status \in Filed) = FALSE
    <3>1. ~(row[g].status \in Filed)
      BY <1>0, <1>1
    <3>2. (row[g].status \in Filed) \in BOOLEAN
      OBVIOUS
    <3> QED  BY <3>1, <3>2
  <2> QED  BY <2>1, Zenon
<1>4. [g \in Complaints |-> sent[g] > 0] = [g \in Complaints |-> FALSE]
  <2>1. ASSUME NEW g \in Complaints
        PROVE  (sent[g] > 0) = FALSE
    <3>1. sent[g] = 0
      BY <1>0
    <3>2. ~(sent[g] > 0)
      BY <3>1
    <3>3. (sent[g] > 0) \in BOOLEAN
      OBVIOUS
    <3> QED  BY <3>2, <3>3
  <2> QED  BY <2>1, Zenon
<1> QED  BY <1>2, <1>3, <1>4 DEF Promise!Init

LEMMA PInvInit == Init => PInv
  BY ConfirmedInit, PhaseInit DEF PInv

LEMMA PInvNext == PInv /\ [Next]_vars => PInv'
<1> SUFFICES ASSUME PInv, [Next]_vars PROVE PInv'
  OBVIOUS
<1>1. IInv'
  BY ConfirmedNext DEF PInv
<1>2. RunsOverlap \/ InPhase'
  BY PhaseNext DEF PInv, IInv
<1> QED  BY <1>1, <1>2 DEF PInv

LEMMA StepImplements == PInv /\ PInv' /\ [Next]_vars => PromiseStep
<1> SUFFICES ASSUME PInv, PInv', [Next]_vars PROVE PromiseStep
  OBVIOUS
<1>0. TypeOK /\ RowOK /\ TaskOK /\ FiledOnlyIfConfirmed /\ SendersConfirmed
  BY TypeParts DEF PInv, IInv
<1>1. ASSUME NEW h \in Complaints, Outside(h)
      PROVE  PromiseStep
  BY <1>0, <1>1, OutsideRowStep, EnvironmentConfirms, RowStepImplements
     DEF Outside
<1>2. ASSUME NEW s \in Sessions, Continue(s), ~Calls(s)
      PROVE  PromiseStep
  BY <1>0, <1>2, ContinueRowStep, ContinueConfirms, ContinueMoves,
     RowStepImplements
<1>3. ASSUME UNCHANGED <<row, sent>>
      PROVE  PromiseStep
  BY <1>3 DEF PromiseStep, Promise!vars, AnswerOf
<1> QED
  BY <1>1, <1>2, <1>3, CallImplements, OthersKeepRow
     DEF Next, Outside, ConversationExpires, vars

\* Grievance implements Consent.  If runs may overlap, because they outlive
\* their leases or because two workers sweep, the status of any complaint may be
\* reopened; otherwise only that of a complaint its owner can reach on the web
\* (PATCH /photo): the answer of a citizen without an account is given once and
\* stands, though conversations expire and tasks die.
THEOREM PromiseKept == Spec => KeepsPromise
<1>1. [Promise!Next]_(Promise!vars) <=> PromiseStep
  BY DEF PromiseStep
<1> QED
  BY <1>1, PInvInit, PInvNext, PromiseInit, StepImplements, PTL
     DEF Spec, KeepsPromise, Promise!Spec

-----------------------------------------------------------------------------
(***************************************************************************)
(* A completed job has run.  The worker completes a job in a transaction   *)
(* of its own, after the run's: between the two the invariant has to say   *)
(* that the run of a task about to complete its job is on record, and that *)
(* nothing takes it off the record again.                                  *)
(***************************************************************************)

JobInv ==
    /\ CompletedJobHasRun
    /\ \A s \in Sessions :
          task[s].pc = "complete_job" => row[task[s].on].located

\* What a run found is never lost.
StayLocated == \A g \in Complaints : row[g].located => row'[g].located

LEMMA LocatedWrite ==
    ASSUME TypeOK, NEW h \in Complaints, NEW r, Write(h, r),
           row[h].located => r.located
    PROVE  StayLocated
  BY WriteTouches DEF StayLocated

\* What a classification leaves alone, and the route it records.
LEMMA ClassifiedRest ==
    ASSUME NEW r \in Row, NEW seen, NEW d
    PROVE  /\ Classified(r, seen, d).located = r.located
           /\ Classified(r, seen, d).window = r.window
           /\ Classified(r, seen, d).attempts = r.attempts
           /\ Classified(r, seen, d).route
                 = Net(r.route, seen.route, RouteFor(d.live))
  BY DEF Classified, Row

\* What run_pipeline's commit leaves in the row.
LEMMA RunEffect ==
    ASSUME TypeOK, NEW s \in Sessions, NEW h \in Complaints,
           task[s].on = h, RunPipeline(s)
    PROVE  /\ \E next \in Checked :
                 row'[h].status = Net(row[h].status, task[s].seen.status, next)
           /\ \E live \in BOOLEAN :
                 row'[h].route
                    = Net(row[h].route, task[s].seen.route, RouteFor(live))
           /\ row'[h].located
           /\ row'[h].confirmed = row[h].confirmed
           /\ row'[h].attempts = row[h].attempts
           /\ task'[s].on = h /\ task'[s].pc = AfterRun(s)
<1> DEFINE seen == task[s].seen
<1>1. PICK d \in Decisions, next \in Checked :
         /\ Write(h, [Classified(row[h], seen, d) EXCEPT
                        !.status = Net(@, seen.status, next),
                        !.located = TRUE])
         /\ Reply(s, AfterRun(s), next)
  BY DEF RunPipeline
<1>2. row[h] \in Row /\ seen \in Row /\ d \in Decision
  BY GrievanceAssumption DEF TypeOK, Task
<1> DEFINE c == Classified(row[h], seen, d)
           st == Net(c.status, seen.status, next)
<1>3. c \in Row /\ c.status = row[h].status /\ c.confirmed = row[h].confirmed
  <2>1. c \in Row
    BY <1>2, ClassifiedIsRow
  <2>2. c.status = row[h].status /\ c.confirmed = row[h].confirmed
    BY <1>2, ClassifiedKeeps
  <2> QED  BY <2>1, <2>2
<1>4. /\ c.attempts = row[h].attempts
      /\ c.route = Net(row[h].route, seen.route, RouteFor(d.live))
  BY <1>2, ClassifiedRest
<1>5. row'[h] = [c EXCEPT !.status = st, !.located = TRUE]
  BY <1>1, WriteTouches
<1>6. st = Net(row[h].status, seen.status, next)
  BY <1>3
<1> HIDE DEF c, st
<1>7. /\ row'[h].status = st /\ row'[h].route = c.route /\ row'[h].located
      /\ row'[h].confirmed = c.confirmed /\ row'[h].attempts = c.attempts
  BY <1>3, <1>5 DEF Row
<1>8. d.live \in BOOLEAN
  BY <1>2 DEF Decision
<1>9. task'[s].on = h /\ task'[s].pc = AfterRun(s)
  BY <1>1, ReplyTouches
<1> QED  BY <1>3, <1>4, <1>6, <1>7, <1>8, <1>9

LEMMA OutsideStayLocated ==
    ASSUME TypeOK, NEW h \in Complaints, Outside(h)
    PROVE  StayLocated
<1>1. row[h] \in Row
  BY DEF TypeOK
<1>2. CASE SubmitDraft(h)
  <2>1. [row[h] EXCEPT !.status = "processing"].located = row[h].located
    BY <1>1 DEF Row
  <2> QED  BY <1>2, <2>1, LocatedWrite DEF SubmitDraft
<1>3. CASE WindowExpires(h)
  <2>1. [row[h] EXCEPT !.window = "expired"].located = row[h].located
    BY <1>1 DEF Row
  <2> QED  BY <1>3, <2>1, LocatedWrite DEF WindowExpires
<1>4. CASE UpdateReview(h)
  <2>1. PICK d \in Decisions :
           Write(h, Classified(row[h], row[h], [d EXCEPT !.live = FALSE]))
    BY <1>4 DEF UpdateReview
  <2> QED  BY <1>1, <2>1, ClassifiedRest, LocatedWrite
<1>5. CASE OfficialAction(h)
  <2>1. PICK d \in Decisions, v \in Verdicts :
           Write(h, [row[h] EXCEPT !.review = v,
                                   !.hold = d.hold \/ v = "redirected",
                                   !.prio = d.prio,
                                   !.route = "off"])
    BY <1>5 DEF OfficialAction
  <2> DEFINE r == [row[h] EXCEPT !.review = v,
                                 !.hold = d.hold \/ v = "redirected",
                                 !.prio = d.prio,
                                 !.route = "off"]
  <2>2. r.located = row[h].located
    BY <1>1 DEF Row
  <2> QED  BY <2>1, <2>2, LocatedWrite
<1> QED  BY <1>2, <1>3, <1>4, <1>5 DEF Outside

LEMMA ContinueStayLocated ==
    ASSUME TypeOK, NEW s \in Sessions, Continue(s)
    PROVE  StayLocated
<1> DEFINE h == task[s].on
           seen == task[s].seen
<1>1. h \in Complaints /\ row[h] \in Row
  BY ContinueMoves DEF TypeOK
<1>2. CASE RunPipeline(s)
  <2>1. row'[h].located /\ \A g \in Complaints \ {h} : row'[g] = row[g]
    BY <1>1, <1>2, RunEffect, ContinueTouches DEF Touches
  <2> QED  BY <2>1 DEF StayLocated
<1>3. CASE RecheckImage(s)
  <2>1. PICK next \in Checked :
           Write(h, [row[h] EXCEPT !.status = Net(@, seen.status, next)])
    BY <1>3 DEF RecheckImage
  <2>2. [row[h] EXCEPT !.status = Net(@, seen.status, next)].located
          = row[h].located
    BY <1>1 DEF Row
  <2> QED  BY <1>1, <2>1, <2>2, LocatedWrite
<1>4. CASE ReextractGrievance(s)
  <2>1. CASE UNCHANGED row
    BY <2>1 DEF StayLocated
  <2>2. ASSUME NEW d \in Decisions, Write(h, Classified(row[h], seen, d))
        PROVE  StayLocated
    BY <1>1, <2>2, ClassifiedRest, LocatedWrite
  <2> QED  BY <1>4, <2>1, <2>2 DEF ReextractGrievance
<1>5. CASE AcceptPhotoMismatch(s)
  <2>1. [row[h] EXCEPT !.status = IF @ = "photo_mismatch"
                                  THEN "awaiting_confirmation"
                                  ELSE @].located = row[h].located
    BY <1>1 DEF Row
  <2> QED  BY <1>1, <1>5, <2>1, LocatedWrite DEF AcceptPhotoMismatch
<1>6. CASE CancelGrievance(s)
  <2>1. [row[h] EXCEPT !.status = "cancelled"].located = row[h].located
    BY <1>1 DEF Row
  <2> QED  BY <1>1, <1>6, <2>1, LocatedWrite DEF CancelGrievance
<1>7. CASE FinalizeForOfficial(s)
  <2>1. [row[h] EXCEPT !.status = "registered", !.confirmed = TRUE,
                       !.review = "pending_official"].located
          = row[h].located
    BY <1>1 DEF Row
  <2> QED  BY <1>1, <1>7, <2>1, LocatedWrite DEF FinalizeForOfficial
<1>8. CASE FinalizePriority(s)
  <2>1. [row[h] EXCEPT !.status = "registered", !.confirmed = TRUE].located
          = row[h].located
    BY <1>1 DEF Row
  <2> QED  BY <1>1, <1>8, <2>1, LocatedWrite DEF FinalizePriority
<1>9. CASE FinalizeNormal(s)
  <2>1. /\ [row[h] EXCEPT !.status = "pending_window", !.confirmed = TRUE,
                          !.window = "open"].located = row[h].located
        /\ [row[h] EXCEPT !.status = "duplicate", !.confirmed = TRUE].located
             = row[h].located
    BY <1>1 DEF Row
  <2> QED  BY <1>1, <1>9, <2>1, LocatedWrite DEF FinalizeNormal
<1>10. CASE DispatchDisabled(s)
  <2>1. [row[h] EXCEPT !.status = "registered",
                       !.review = "pending_official"].located = row[h].located
    BY <1>1 DEF Row
  <2> QED  BY <1>1, <1>10, <2>1, LocatedWrite DEF DispatchDisabled
<1>11. CASE DispatchMark(s)
  <2>1. [row[h] EXCEPT !.status = "dispatching"].located = row[h].located
    BY <1>1 DEF Row
  <2> QED  BY <1>1, <1>11, <2>1, LocatedWrite DEF DispatchMark
<1>12. CASE RecordSubmitted(s)
  <2>1. [row[h] EXCEPT !.status = "submitted"].located = row[h].located
    BY <1>1 DEF Row
  <2> QED  BY <1>1, <1>12, <2>1, LocatedWrite DEF RecordSubmitted
<1>13. CASE RecordRefused(s)
  <2> DEFINE n == seen.attempts + 1
             r == [row[h] EXCEPT
                     !.attempts = n,
                     !.status = IF GiveUp(n) THEN "dispatch_failed" ELSE @]
  <2>1. Write(h, r)
    BY <1>13 DEF RecordRefused
  <2>2. r.located = row[h].located
    BY <1>1 DEF Row
  <2> QED  BY <1>1, <2>1, <2>2, LocatedWrite
<1>14. CASE UNCHANGED row
  BY <1>14 DEF StayLocated
<1> QED
  BY <1>2, <1>3, <1>4, <1>5, <1>6, <1>7, <1>8, <1>9, <1>10, <1>11, <1>12,
     <1>13, <1>14
     DEF Continue, RunSwept, CompleteJob, SendFollowup, DepartmentAccepts,
         DepartmentFails, ArtifactUnreadable

\* Whatever steps, nothing that was located is not located after it.
LEMMA StayLocatedStep == TypeOK /\ [Next]_vars => StayLocated
<1> SUFFICES ASSUME TypeOK, [Next]_vars PROVE StayLocated
  OBVIOUS
<1>1. CASE UNCHANGED row
  BY <1>1 DEF StayLocated
<1> QED
  BY <1>1, OutsideStayLocated, ContinueStayLocated, OthersKeepRow
     DEF Next, Outside, ConversationExpires, vars

\* Who is about to complete a job after a step was so before it, on the same
\* complaint, or has just run the pipeline.
LEMMA CompletersStep ==
    ASSUME TypeOK, [Next]_vars, NEW s \in Sessions,
           task'[s].pc = "complete_job"
    PROVE  \/ task[s].pc = "complete_job" /\ task'[s].on = task[s].on
           \/ RunPipeline(s)
<1>1. CASE UNCHANGED task
  BY <1>1
<1>2. ASSUME NEW h \in Complaints, Outside(h)
      PROVE  UNCHANGED task
  BY <1>2 DEF Outside, SubmitDraft, WindowExpires, UpdateReview,
              OfficialAction
<1>3. ASSUME NEW t \in Sessions, NEW h \in Complaints, Begin(t, h)
      PROVE  task'[s] = task[s]
  <2>1. CASE t # s
    BY <1>3, <2>1, BeginTouches DEF Touches
  <2>2. CASE t = s
    <3>1. \E pc \in Step \ {"complete_job"} :
              \E seen : Load(s, pc, h, seen)
      BY <1>3, <2>2
         DEF Begin, RunJob, RunPipelineFollowup, SweepStuckProcessing,
             ReplacePhoto,
             AnswerMismatch, ConfirmDraft, CitizenConfirms, CitizenCancels,
             Answer, SweepExpiredWindows, SweepStuckDispatching, Sweep,
             StartReextract, Call, Step
    <3> QED  BY <3>1, LoadTouches
  <2> QED  BY <2>1, <2>2
<1>4. ASSUME NEW t \in Sessions, Abort(t)
      PROVE  task'[s] = task[s]
  BY <1>4, FinishTouches DEF Abort
<1>5. ASSUME NEW t \in Sessions, Continue(t), ~RunPipeline(s)
      PROVE  task'[s] = task[s]
  <2>1. CASE t # s
    BY <1>5, <2>1, ContinueMoves DEF Moves
  <2>2. CASE t = s
    <3>1. CASE Finish(s)
      BY <3>1, FinishTouches
    <3>2. CASE \E pc \in Step \ {"complete_job"} :
                   \E h, seen : Load(s, pc, h, seen)
      BY <3>2, LoadTouches
    <3>3. CASE RecheckImage(s)
      <4>1. Finish(s) \/ \E next \in Checked : Reply(s, "reply", next)
        BY <3>3 DEF RecheckImage
      <4> QED  BY <4>1, FinishTouches, ReplyTouches
    <3>4. CASE DepartmentFails(s)
      BY <3>4 DEF DepartmentFails, TypeOK, Task
    <3> QED
      BY <1>5, <2>2, <3>1, <3>2, <3>3, <3>4
         DEF Continue, RunSwept, CompleteJob, SendFollowup, AcceptPhotoMismatch,
             CancelGrievance, FinalizeForOfficial, FinalizePriority,
             FinalizeNormal, DispatchDisabled, DispatchMark,
             DepartmentAccepts, ArtifactUnreadable, RecordSubmitted,
             RecordRefused, ReextractGrievance, Advance, Call, Step
  <2> QED  BY <2>1, <2>2
<1> QED
  BY <1>1, <1>2, <1>3, <1>4, <1>5 DEF Next, Outside, ConversationExpires, vars

\* A job that is closed after a step was closed before it, or a task was about
\* to complete it.
LEMMA ClosersStep ==
    ASSUME TypeOK, [Next]_vars, NEW g \in Complaints, job'[g] = "closed"
    PROVE  \/ job[g] = "closed"
           \/ \E s \in Sessions :
                 task[s].on = g /\ task[s].pc = "complete_job"
<1>1. CASE UNCHANGED job
  BY <1>1
<1>2. ASSUME NEW h \in Complaints, SubmitDraft(h)
      PROVE  job[g] = "closed"
  BY <1>2 DEF SubmitDraft, TypeOK
<1>3. ASSUME NEW s \in Sessions, CompleteJob(s)
      PROVE  \/ job[g] = "closed"
             \/ task[s].on = g /\ task[s].pc = "complete_job"
             \/ UNCHANGED job
  BY <1>3 DEF CompleteJob, TypeOK
<1>4. ASSUME NEW s \in Sessions, Continue(s), ~CompleteJob(s)
      PROVE  UNCHANGED job
  BY <1>4
     DEF Continue, RunSwept, RunPipeline, SendFollowup, RecheckImage,
         AcceptPhotoMismatch, CancelGrievance, FinalizeForOfficial,
         FinalizePriority, FinalizeNormal, DispatchDisabled, DispatchMark,
         DepartmentAccepts, DepartmentFails, ArtifactUnreadable,
         RecordSubmitted, RecordRefused, ReextractGrievance
<1>5. ASSUME NEW s \in Sessions, NEW h \in Complaints, Begin(s, h)
      PROVE  UNCHANGED job
  BY <1>5 DEF Begin, RunJob, RunPipelineFollowup, SweepStuckProcessing,
              ReplacePhoto, AnswerMismatch, ConfirmDraft, CitizenConfirms,
              CitizenCancels, Answer, SweepExpiredWindows,
              SweepStuckDispatching, Sweep, StartReextract
<1> QED
  BY <1>1, <1>2, <1>3, <1>4, <1>5
     DEF Next, WindowExpires, UpdateReview, OfficialAction,
         ConversationExpires, Abort, vars

LEMMA JobInit == Init => JobInv
  BY DEF Init, JobInv, CompletedJobHasRun, NoTask

LEMMA JobNext == TypeOK /\ JobInv /\ [Next]_vars => JobInv'
<1> SUFFICES ASSUME TypeOK, JobInv, [Next]_vars PROVE JobInv'
  OBVIOUS
<1>1. StayLocated
  BY StayLocatedStep
<1>2. CompletedJobHasRun'
  <2> SUFFICES ASSUME NEW g \in Complaints, job'[g] = "closed"
               PROVE  row'[g].located
    BY DEF CompletedJobHasRun
  <2>1. row[g].located
    BY ClosersStep DEF JobInv, CompletedJobHasRun
  <2> QED  BY <1>1, <2>1 DEF StayLocated
<1>3. ASSUME NEW s \in Sessions, task'[s].pc = "complete_job"
      PROVE  row'[task'[s].on].located
  <2>1. CASE task[s].pc = "complete_job" /\ task'[s].on = task[s].on
    <3>1. row[task[s].on].located /\ task[s].on \in Complaints
      BY <2>1 DEF JobInv, TypeOK
    <3> QED  BY <1>1, <2>1, <3>1 DEF StayLocated
  <2>2. CASE RunPipeline(s)
    <3>1. task[s].on \in Complaints
      BY <2>2, ContinueMoves DEF Continue
    <3>2. PICK h \in Complaints : h = task[s].on
      BY <3>1
    <3>3. row'[h].located /\ task'[s].on = h
      BY <2>2, <3>2, RunEffect
    <3> QED  BY <3>3
  <2> QED  BY <1>3, <2>1, <2>2, CompletersStep
<1> QED  BY <1>2, <1>3 DEF JobInv

\* For any workers, slow or prompt runs, retries, re-extractions and crashes:
\* a complaint whose intelligence job is completed has been classified
\* (worker.py completes the job in the transaction after the run's).
THEOREM CompletedJobIsRun == Spec => []CompletedJobHasRun
<1>1. JobInv => CompletedJobHasRun
  BY DEF JobInv
<1> QED  BY <1>1, TypeInit, TypeStep, JobInit, JobNext, PTL DEF Spec

-----------------------------------------------------------------------------
(***************************************************************************)
(* What each step does to the columns the dispatch of a chat-only          *)
(* complaint is decided by, and to the tasks that work on it.              *)
(***************************************************************************)

\* The decision on record.
KeepsPlan(h) ==
    /\ row'[h].hold = row[h].hold
    /\ row'[h].route = row[h].route
    /\ row'[h].located = row[h].located

\* The citizen's answer and the attempts made.
KeepsCount(h) ==
    /\ row'[h].confirmed = row[h].confirmed
    /\ row'[h].attempts = row[h].attempts

\* A step on another complaint leaves row, conversation and crew of g alone.
KeepsAll(g) ==
    /\ row'[g] = row[g] /\ chat'[g] = chat[g]
    /\ Crew(g)' = Crew(g)
    /\ \A t \in Crew(g) : task'[t] = task[t]

LEMMA OthersKept ==
    ASSUME TypeOK, InPhase, NEW s \in Sessions, NEW h \in Complaints,
           Touches(s, h), NEW g \in Complaints \ Owned, g # h
    PROVE  KeepsAll(g)
<1>1. Phase(g) /\ row'[g] = row[g] /\ chat'[g] = chat[g]
  BY DEF InPhase, Touches
<1>2. ASSUME NEW t \in Sessions, task[t].on = g \/ task'[t].on = g
      PROVE  task'[t] = task[t]
  <2>1. CASE t = s
    <3>1. task[s].on = g
      BY <1>2, <2>1, GrievanceAssumption DEF Touches
    <3>2. Idle(s)
      BY <3>1 DEF Touches
    <3> QED  BY <1>1, <3>1, <3>2, CrewAtWork DEF Idle
  <2>2. CASE t # s
    BY <2>2 DEF Touches
  <2> QED  BY <2>1, <2>2
<1>3. Crew(g)' = Crew(g) /\ \A t \in Crew(g) : task'[t] = task[t]
  BY <1>2 DEF Crew
<1> QED  BY <1>1, <1>3 DEF KeepsAll

\* The crew after session s of it has moved on or has left.
LEMMA CrewMoves ==
    ASSUME NEW s \in Sessions, NEW h \in Complaints, task[s].on = h,
           Moves(s, h)
    PROVE  /\ task'[s].on = h => Crew(h)' = Crew(h)
           /\ task'[s].on # h => Crew(h)' = Crew(h) \ {s}
           /\ s \in Crew(h)
           /\ \A t \in Crew(h) \ {s} : task'[t] = task[t]
  BY DEF Crew, Moves

LEMMA RecheckEffect ==
    ASSUME TypeOK, NEW s \in Sessions, NEW h \in Complaints,
           task[s].on = h, task[s].pc = "recheck", RecheckImage(s)
    PROVE  /\ \E next \in Checked :
                 row'[h].status = Net(row[h].status, task[s].seen.status, next)
           /\ row'[h].review = row[h].review
           /\ KeepsPlan(h) /\ KeepsCount(h)
           /\ task'[s].on = h /\ task'[s].pc = "reply"
<1> DEFINE seen == task[s].seen
<1>1. PICK next \in Checked :
         /\ Write(h, [row[h] EXCEPT !.status = Net(@, seen.status, next)])
         /\ Reply(s, "reply", next)
  BY DEF RecheckImage
<1>2. row[h] \in Row
  BY DEF TypeOK
<1> DEFINE st == Net(row[h].status, seen.status, next)
<1>3. row'[h] = [row[h] EXCEPT !.status = st]
  BY <1>1, WriteTouches
<1> HIDE DEF st
<1>4. row'[h].status = st /\ row'[h].review = row[h].review
      /\ KeepsPlan(h) /\ KeepsCount(h)
  BY <1>2, <1>3 DEF Row, KeepsPlan, KeepsCount
<1>5. task'[s].on = h /\ task'[s].pc = "reply"
  BY <1>1, ReplyTouches
<1> QED  BY <1>4, <1>5 DEF st

\* What the citizen's answer leaves in the row, by the action that records it.
LEMMA AnswerEffects ==
    ASSUME TypeOK, NEW s \in Sessions, NEW h \in Complaints, task[s].on = h
    PROVE  /\ CancelGrievance(s) =>
                 /\ row'[h].status = "cancelled" /\ KeepsPlan(h) /\ KeepsCount(h)
                 /\ task'[s].on = NoComplaint
           /\ FinalizeForOfficial(s) =>
                 /\ row'[h].status = "registered"
                 /\ row'[h].review = "pending_official"
                 /\ row'[h].attempts = row[h].attempts /\ KeepsPlan(h)
                 /\ task'[s].on = NoComplaint
           /\ FinalizePriority(s) =>
                 /\ ~row[h].hold
                 /\ row'[h].status = "registered"
                 /\ row'[h].attempts = row[h].attempts /\ KeepsPlan(h)
                 /\ task'[s].on = h /\ task'[s].pc = "dispatch"
           /\ FinalizeNormal(s) =>
                 /\ ~row[h].hold
                 /\ row'[h].status \in {"pending_window", "duplicate"}
                 /\ row'[h].attempts = row[h].attempts /\ KeepsPlan(h)
                 /\ task'[s].on = NoComplaint
<1>0. row[h] \in Row
  BY DEF TypeOK
<1>1. ASSUME CancelGrievance(s)
      PROVE  /\ row'[h].status = "cancelled" /\ KeepsPlan(h) /\ KeepsCount(h)
             /\ task'[s].on = NoComplaint
  <2>1. row'[h] = [row[h] EXCEPT !.status = "cancelled"]
    BY <1>1, WriteTouches DEF CancelGrievance
  <2>2. task'[s].on = NoComplaint
    BY <1>1, FinishTouches DEF CancelGrievance
  <2> QED  BY <1>0, <2>1, <2>2 DEF Row, KeepsPlan, KeepsCount
<1>2. ASSUME FinalizeForOfficial(s)
      PROVE  /\ row'[h].status = "registered"
             /\ row'[h].review = "pending_official"
             /\ row'[h].attempts = row[h].attempts /\ KeepsPlan(h)
             /\ task'[s].on = NoComplaint
  <2>1. row'[h] = [row[h] EXCEPT !.status = "registered", !.confirmed = TRUE,
                                 !.review = "pending_official"]
    BY <1>2, WriteTouches DEF FinalizeForOfficial
  <2>2. task'[s].on = NoComplaint
    BY <1>2, FinishTouches DEF FinalizeForOfficial
  <2> QED  BY <1>0, <2>1, <2>2 DEF Row, KeepsPlan
<1>3. ASSUME FinalizePriority(s)
      PROVE  /\ ~row[h].hold
             /\ row'[h].status = "registered"
             /\ row'[h].attempts = row[h].attempts /\ KeepsPlan(h)
             /\ task'[s].on = h /\ task'[s].pc = "dispatch"
  <2>1. row'[h] = [row[h] EXCEPT !.status = "registered", !.confirmed = TRUE]
    BY <1>3, WriteTouches DEF FinalizePriority
  <2>2. task'[s].on = h /\ task'[s].pc = "dispatch"
    BY <1>3, LoadTouches DEF FinalizePriority, Advance, Call
  <2>3. ~row[h].hold
    BY <1>3 DEF FinalizePriority, Held
  <2> QED  BY <1>0, <2>1, <2>2, <2>3 DEF Row, KeepsPlan
<1>4. ASSUME FinalizeNormal(s)
      PROVE  /\ ~row[h].hold
             /\ row'[h].status \in {"pending_window", "duplicate"}
             /\ row'[h].attempts = row[h].attempts /\ KeepsPlan(h)
             /\ task'[s].on = NoComplaint
  <2>1. \/ row'[h] = [row[h] EXCEPT !.status = "pending_window",
                                    !.confirmed = TRUE, !.window = "open"]
        \/ row'[h] = [row[h] EXCEPT !.status = "duplicate",
                                    !.confirmed = TRUE]
    BY <1>4, WriteTouches DEF FinalizeNormal
  <2>2. task'[s].on = NoComplaint
    BY <1>4, FinishTouches DEF FinalizeNormal
  <2>3. ~row[h].hold
    BY <1>4 DEF FinalizeNormal, Held
  <2> QED  BY <1>0, <2>1, <2>2, <2>3 DEF Row, KeepsPlan
<1> QED  BY <1>1, <1>2, <1>3, <1>4

\* What the steps of dispatch_grievance leave in the row and in the task.
LEMMA DispatchEffects ==
    ASSUME TypeOK, NEW s \in Sessions, NEW h \in Complaints, task[s].on = h
    PROVE  /\ DispatchDisabled(s) =>
                 /\ row'[h].status = "registered"
                 /\ row'[h].review = "pending_official"
                 /\ KeepsPlan(h) /\ KeepsCount(h)
                 /\ task'[s].on = NoComplaint
           /\ DispatchMark(s) =>
                 /\ row'[h].status = "dispatching"
                 /\ row'[h].review = row[h].review
                 /\ KeepsPlan(h) /\ KeepsCount(h)
                 /\ task'[s].on = h /\ task'[s].pc = "call"
                 /\ task'[s].seen.attempts = row[h].attempts
           /\ RecordSubmitted(s) =>
                 /\ row'[h].status = "submitted"
                 /\ KeepsPlan(h) /\ KeepsCount(h)
                 /\ task'[s].on = NoComplaint
           /\ RecordRefused(s) =>
                 /\ row'[h].attempts = task[s].seen.attempts + 1
                 /\ row'[h].confirmed = row[h].confirmed
                 /\ row'[h].review = row[h].review
                 /\ row'[h].status = IF GiveUp(task[s].seen.attempts + 1)
                                     THEN "dispatch_failed"
                                     ELSE row[h].status
                 /\ KeepsPlan(h)
                 /\ task'[s].on = NoComplaint
<1>0. row[h] \in Row
  BY DEF TypeOK
<1>1. ASSUME DispatchDisabled(s)
      PROVE  /\ row'[h].status = "registered"
             /\ row'[h].review = "pending_official"
             /\ KeepsPlan(h) /\ KeepsCount(h)
             /\ task'[s].on = NoComplaint
  <2>1. row'[h] = [row[h] EXCEPT !.status = "registered",
                                 !.review = "pending_official"]
    BY <1>1, WriteTouches DEF DispatchDisabled
  <2>2. task'[s].on = NoComplaint
    BY <1>1, FinishTouches DEF DispatchDisabled
  <2> QED  BY <1>0, <2>1, <2>2 DEF Row, KeepsPlan, KeepsCount
<1>2. ASSUME DispatchMark(s)
      PROVE  /\ row'[h].status = "dispatching"
             /\ row'[h].review = row[h].review
             /\ KeepsPlan(h) /\ KeepsCount(h)
             /\ task'[s].on = h /\ task'[s].pc = "call"
             /\ task'[s].seen.attempts = row[h].attempts
  <2>1. row'[h] = [row[h] EXCEPT !.status = "dispatching"]
    BY <1>2, WriteTouches DEF DispatchMark
  <2>2. task'[s].on = h /\ task'[s].pc = "call"
        /\ task'[s].seen = [Draft EXCEPT !.attempts = row[h].attempts]
    BY <1>2, LoadTouches DEF DispatchMark
  <2>3. task'[s].seen.attempts = row[h].attempts
    BY <2>2 DEF Draft
  <2> QED  BY <1>0, <2>1, <2>2, <2>3 DEF Row, KeepsPlan, KeepsCount
<1>3. ASSUME RecordSubmitted(s)
      PROVE  /\ row'[h].status = "submitted"
             /\ KeepsPlan(h) /\ KeepsCount(h)
             /\ task'[s].on = NoComplaint
  <2>1. row'[h] = [row[h] EXCEPT !.status = "submitted"]
    BY <1>3, WriteTouches DEF RecordSubmitted
  <2>2. task'[s].on = NoComplaint
    BY <1>3, FinishTouches DEF RecordSubmitted
  <2> QED  BY <1>0, <2>1, <2>2 DEF Row, KeepsPlan, KeepsCount
<1>4. ASSUME RecordRefused(s)
      PROVE  /\ row'[h].attempts = task[s].seen.attempts + 1
             /\ row'[h].confirmed = row[h].confirmed
             /\ row'[h].review = row[h].review
             /\ row'[h].status = IF GiveUp(task[s].seen.attempts + 1)
                                 THEN "dispatch_failed" ELSE row[h].status
             /\ KeepsPlan(h)
             /\ task'[s].on = NoComplaint
  <2> DEFINE n == task[s].seen.attempts + 1
             st == IF GiveUp(n) THEN "dispatch_failed" ELSE row[h].status
  <2>1. row'[h] = [row[h] EXCEPT !.attempts = n, !.status = st]
    BY <1>4, WriteTouches DEF RecordRefused
  <2>2. task'[s].on = NoComplaint
    BY <1>4, FinishTouches DEF RecordRefused
  <2> HIDE DEF n, st
  <2>3. /\ row'[h].attempts = n /\ row'[h].confirmed = row[h].confirmed
        /\ row'[h].review = row[h].review /\ row'[h].status = st
        /\ KeepsPlan(h)
    BY <1>0, <2>1 DEF Row, KeepsPlan
  <2> QED  BY <2>2, <2>3 DEF n, st
<1> QED  BY <1>1, <1>2, <1>3, <1>4

\* The steps of the call to the department keep the row; so does a follow-up.
LEMMA CallEffects ==
    ASSUME TypeOK, NEW s \in Sessions, NEW h \in Complaints, task[s].on = h
    PROVE  /\ DepartmentAccepts(s) =>
                 UNCHANGED row /\ task'[s].on = h /\ task'[s].pc = "accepted"
           /\ DepartmentFails(s) =>
                 /\ UNCHANGED row
                 /\ task'[s].on = h /\ task'[s].pc = "refused"
                 /\ task'[s].seen = task[s].seen
           /\ ArtifactUnreadable(s) =>
                 UNCHANGED row /\ task'[s].on = NoComplaint
           /\ SendFollowup(s) =>
                 UNCHANGED row /\ task'[s].on = NoComplaint
<1>1. ASSUME DepartmentAccepts(s)
      PROVE  UNCHANGED row /\ task'[s].on = h /\ task'[s].pc = "accepted"
  BY <1>1, LoadTouches DEF DepartmentAccepts, Advance, Call
<1>2. ASSUME DepartmentFails(s)
      PROVE  /\ UNCHANGED row
             /\ task'[s].on = h /\ task'[s].pc = "refused"
             /\ task'[s].seen = task[s].seen
  <2>1. task[s] \in Task
    BY DEF TypeOK
  <2> QED  BY <1>2, <2>1 DEF DepartmentFails, Task, TypeOK
<1>3. ArtifactUnreadable(s) \/ SendFollowup(s) =>
        UNCHANGED row /\ task'[s].on = NoComplaint
  BY FinishTouches DEF ArtifactUnreadable, SendFollowup
<1> QED  BY <1>1, <1>2, <1>3

\* The clock and an official change a chat-only complaint's row, nothing else.
OfficialDecides(g) ==
    /\ row[g].located /\ row'[g].located
    /\ row'[g].review \in AllVerdicts
    /\ row'[g].route = "off"

LEMMA OutsideEffect ==
    ASSUME TypeOK, InPhase, NEW h \in Complaints, Outside(h),
           NEW g \in Complaints \ Owned
    PROVE  /\ Kept(g) /\ UNCHANGED task
           /\ row'[g].attempts = row[g].attempts
           /\ \/ KeepsPlan(g) /\ row'[g].review = row[g].review
              \/ OfficialDecides(g)
<1>1. row[h] \in Row /\ NoJobs(g)
  BY DEF TypeOK, InPhase
<1>2. Kept(g) /\ UNCHANGED task
  BY OutsideKeeps
<1>3. CASE row'[g] = row[g]
  BY <1>2, <1>3 DEF KeepsPlan
<1>4. CASE SubmitDraft(h) \/ UpdateReview(h)
  <2>1. g # h
    BY <1>4, GrievanceAssumption DEF SubmitDraft, UpdateReview
  <2>2. \E r : Write(h, r)
    BY <1>4 DEF SubmitDraft, UpdateReview
  <2> QED  BY <1>3, <2>1, <2>2, WriteTouches
<1>5. CASE WindowExpires(h)
  <2>1. row'[h] = [row[h] EXCEPT !.window = "expired"]
        /\ \A k \in Complaints \ {h} : row'[k] = row[k]
    BY <1>5, WriteTouches DEF WindowExpires
  <2>2. /\ row'[h].attempts = row[h].attempts /\ KeepsPlan(h)
        /\ row'[h].review = row[h].review
    BY <1>1, <2>1 DEF Row, KeepsPlan
  <2>3. CASE g = h
    BY <1>2, <2>2, <2>3
  <2> QED  BY <1>3, <2>1, <2>3
<1>6. CASE OfficialAction(h)
  <2>1. PICK d \in Decisions, v \in Verdicts :
           Write(h, [row[h] EXCEPT !.review = v,
                                   !.hold = d.hold \/ v = "redirected",
                                   !.prio = d.prio,
                                   !.route = "off"])
    BY <1>6 DEF OfficialAction
  <2>2. PICK held : held = (d.hold \/ v = "redirected")
    OBVIOUS
  <2>3. row'[h] = [row[h] EXCEPT !.review = v, !.hold = held,
                                 !.prio = d.prio, !.route = "off"]
        /\ \A k \in Complaints \ {h} : row'[k] = row[k]
    BY <2>1, <2>2, WriteTouches
  <2> DEFINE new == [row[h] EXCEPT !.review = v, !.hold = held,
                                   !.prio = d.prio, !.route = "off"]
  <2>4. /\ new.review = v /\ new.route = "off"
        /\ new.located = row[h].located /\ new.attempts = row[h].attempts
    BY <1>1 DEF Row
  <2>5. row'[h] = new
    BY <2>3
  <2> HIDE DEF new
  <2>6. v \in AllVerdicts /\ row[h].located
    BY <1>6, GrievanceAssumption DEF OfficialAction
  <2>7. CASE g = h
    BY <1>2, <2>4, <2>5, <2>6, <2>7 DEF OfficialDecides
  <2> QED  BY <1>3, <2>3, <2>7
<1> QED  BY <1>4, <1>5, <1>6 DEF Outside

\* What a session that begins work on a chat-only complaint is about to do.
LEMMA BeginEffect ==
    ASSUME TypeOK, InPhase, NEW s \in Sessions, NEW h \in Complaints \ Owned,
           Begin(s, h)
    PROVE  /\ UNCHANGED row
           /\ Crew(h)' = Crew(h) \cup {s} /\ s \notin Crew(h)
           /\ \A t \in Crew(h) : task'[t] = task[t]
           /\ \/ /\ row[h].status \in Unrun /\ UNCHANGED chat
                 /\ task'[s].pc = "extract_turn" /\ task'[s].seen = row[h]
              \/ /\ row[h].status \in Unrun /\ UNCHANGED chat
                 /\ s \in Workers /\ task'[s].pc = "swept"
              \/ chat[h] \in Checked /\ task'[s].pc = "recheck"
              \/ chat[h] \in Checked /\ task'[s].pc \in {"finalize", "cancel"}
              \/ /\ s \in Workers /\ UNCHANGED chat
                 /\ WindowDue(row[h]) \/ StuckDispatch(row[h])
                 /\ task'[s].pc = "dispatch"
<1>1. Touches(s, h) /\ Idle(s) /\ task'[s].on = h /\ UNCHANGED row
  BY BeginTouches
<1>2. Phase(h) /\ NoJobs(h) /\ s \notin Crew(h)
  BY <1>1, CrewAtWork DEF InPhase, Crew, Idle
<1>3. Crew(h)' = Crew(h) \cup {s} /\ \A t \in Crew(h) : task'[t] = task[t]
  BY <1>1, <1>2 DEF Touches, Crew
<1>4. CASE RunPipelineFollowup(s, h)
  BY <1>1, <1>2, <1>3, <1>4, LoadTouches DEF RunPipelineFollowup, Unrun
<1>9. CASE SweepStuckProcessing(s, h)
  BY <1>1, <1>2, <1>3, <1>9, LoadTouches DEF SweepStuckProcessing, Call
<1>5. CASE AnswerMismatch(s, h)
  BY <1>1, <1>2, <1>3, <1>5, LoadTouches DEF AnswerMismatch, Checked
<1>6. CASE CitizenConfirms(s, h) \/ CitizenCancels(s, h)
  BY <1>1, <1>2, <1>3, <1>6, LoadTouches
     DEF CitizenConfirms, CitizenCancels, Answer, Call, Checked
<1>7. CASE SweepExpiredWindows(s, h) \/ SweepStuckDispatching(s, h)
  BY <1>1, <1>2, <1>3, <1>7, LoadTouches
     DEF SweepExpiredWindows, SweepStuckDispatching, Sweep, Call
<1>8. ~RunJob(s, h) /\ ~ReplacePhoto(s, h) /\ ~ConfirmDraft(s, h)
      /\ ~StartReextract(s, h)
  BY <1>2 DEF NoJobs, RunJob, ReplacePhoto, ConfirmDraft,
              StartReextract
<1> QED  BY <1>4, <1>5, <1>6, <1>7, <1>8, <1>9 DEF Begin

\* A task that dies leaves its crew.
LEMMA AbortEffect ==
    ASSUME TypeOK, NEW s \in Sessions, Abort(s)
    PROVE  /\ task[s].on \in Complaints /\ Touches(s, task[s].on)
           /\ UNCHANGED <<row, chat>> /\ crashes' > 0
           /\ \A g \in Complaints :
                 /\ Crew(g)' = Crew(g) \ {s}
                 /\ \A t \in Crew(g) \ {s} : task'[t] = task[t]
<1> DEFINE at == task[s].on
<1>1. at \in Complaints /\ UNCHANGED <<row, chat, job>>
      /\ task'[s].on = NoComplaint
      /\ \A t \in Sessions \ {s} : task'[t] = task[t]
  BY FinishTouches DEF Abort, Idle, TypeOK
<1>2. \A g \in Complaints \ {at} : redo'[g] = redo[g]
  BY DEF Abort, TypeOK
<1>3. Touches(s, at)
  BY <1>1, <1>2 DEF Touches
<1>4. crashes' > 0
  BY GrievanceAssumption DEF Abort, TypeOK
<1>5. NoComplaint \notin Complaints
  BY GrievanceAssumption
<1>6. \A g \in Complaints :
         /\ Crew(g)' = Crew(g) \ {s}
         /\ \A t \in Crew(g) \ {s} : task'[t] = task[t]
  BY <1>1, <1>5 DEF Crew
<1> QED  BY <1>1, <1>3, <1>4, <1>6

-----------------------------------------------------------------------------
(***************************************************************************)
(* A chat-only complaint is dispatched as decided.  finalize_grievance     *)
(* reads the hold long before dispatch_grievance reads the route, so the   *)
(* invariant says what lies between: whatever waits to be dispatched is    *)
(* not held, or an official has since decided, which disables the route.   *)
(***************************************************************************)

\* Before its first run a complaint has neither a route nor a jurisdiction,
\* so no official can act on it, and the run that is under way has seen none.
Extracting == {"extract_turn", "extract"}

NotRun(g) ==
    /\ row[g].status \in Unrun => row[g].route = "none" /\ ~row[g].located
    /\ \A s \in Crew(g) :
          task[s].pc \in Extracting => task[s].seen.route = "none"

HasRoute(g) == row[g].status \notin Unrun => row[g].route # "none"

AwaitsDispatch(g) ==
    \/ row[g].status \in {"pending_window", "dispatching"}
    \/ \E s \in Crew(g) : task[s].pc = "dispatch"

NotHeld(g) == AwaitsDispatch(g) => row[g].route = "off" \/ ~row[g].hold

Routed(g) == NotRun(g) /\ HasRoute(g) /\ NotHeld(g)

AllRouted == \A g \in Complaints \ Owned : Routed(g)

\* What DispatchedAsDecided says of a step on one complaint.
AsDecided(g) ==
    row[g].status # "dispatching" /\ row'[g].status = "dispatching"
        => row[g].route = "on" /\ ~row[g].hold

LEMMA RoutedKept ==
    ASSUME NEW g, Routed(g), KeepsAll(g)
    PROVE  Routed(g)' /\ AsDecided(g)
<1>1. NotRun(g)' /\ HasRoute(g)' /\ NotHeld(g)'
  BY DEF Routed, NotRun, HasRoute, NotHeld, AwaitsDispatch, KeepsAll
<1>2. AsDecided(g)
  BY DEF AsDecided, KeepsAll
<1> QED  BY <1>1, <1>2 DEF Routed

\* The run and the photo check.
LEMMA CheckRouted ==
    ASSUME TypeOK, InPhase, AllRouted, NEW s \in Sessions,
           NEW h \in Complaints \ Owned, task[s].on = h,
           RunPipeline(s) \/ RecheckImage(s)
    PROVE  Routed(h)' /\ AsDecided(h)
<1>1. Continue(s) /\ Moves(s, h) /\ Routed(h) /\ row[h] \in Row
  BY ContinueMoves DEF Continue, AllRouted, TypeOK
<1>2. task[s].pc \in {"extract_turn", "extract", "extract_job", "recheck",
                      "recheck_web"}
  BY DEF RunPipeline, RecheckImage
<1>3. Waiting(h) /\ Crew(h) \subseteq {s}
      /\ task[s].pc \notin {"extract_job", "recheck_web"}
  BY <1>2, CrewPhase DEF Dispatching
<1>4. s \in Crew(h)
  BY DEF Crew
<1>5. CASE RunPipeline(s)
  <2>1. task[s].pc \in Extracting /\ task[s].seen.status \in Unrun
        /\ task[s].seen.route = "none"
    BY <1>1, <1>3, <1>4, <1>5
       DEF Waiting, RunPipeline, Routed, NotRun, Extracting
  <2>2. row'[h].status \in Checked
    BY <1>5, <2>1, RunEffect DEF Net, Unrun, Checked
  <2>3. row'[h].route # "none"
    BY <1>5, <2>1, RunEffect DEF Net, RouteFor
  <2>4. task'[s].on = h /\ task'[s].pc = "reply"
    BY <1>5, <2>1, RunEffect DEF AfterRun, Extracting
  <2>5. Crew(h)' = {s}
    BY <1>1, <1>3, <1>4, <2>4, CrewMoves
  <2> QED
    BY <2>2, <2>3, <2>4, <2>5
       DEF Routed, NotRun, HasRoute, NotHeld, AwaitsDispatch, AsDecided,
           Checked, Unrun, Extracting
<1>6. CASE RecheckImage(s)
  <2>1. row[h].status \in Checked /\ task[s].pc = "recheck"
    BY <1>3, <1>4, <1>6 DEF Waiting, RecheckImage
  <2>2. row'[h].status \in Checked /\ KeepsPlan(h)
    BY <1>6, <2>1, RecheckEffect DEF Net
  <2>3. task'[s].on = h /\ task'[s].pc = "reply"
    BY <1>6, <2>1, RecheckEffect
  <2>4. Crew(h)' = {s}
    BY <1>1, <1>3, <1>4, <2>3, CrewMoves
  <2> QED
    BY <1>1, <2>1, <2>2, <2>3, <2>4
       DEF Routed, NotRun, HasRoute, NotHeld, AwaitsDispatch, AsDecided,
           Checked, Unrun, KeepsPlan, Extracting
<1> QED  BY <1>5, <1>6

\* A crew none of which runs the pipeline, before a step and after it.
LEMMA SettledRouted ==
    ASSUME NEW h, NEW s \in Sessions, Routed(h),
           row[h].status \notin Unrun, row'[h].status \notin Unrun,
           KeepsPlan(h),
           Crew(h)' \subseteq Crew(h) \cup {s},
           \A t \in Crew(h) \ {s} : task'[t] = task[t],
           s \in Crew(h)' => task'[s].pc \notin Extracting,
           AwaitsDispatch(h)' => AwaitsDispatch(h) \/ ~row[h].hold
    PROVE  Routed(h)'
<1>1. \A t \in Crew(h)' :
         task'[t].pc \in Extracting => task'[t].seen.route = "none"
  BY DEF Routed, NotRun
<1>2. NotRun(h)' /\ HasRoute(h)'
  BY <1>1 DEF Routed, NotRun, HasRoute, KeepsPlan
<1>3. NotHeld(h)'
  BY DEF Routed, NotHeld, KeepsPlan
<1> QED  BY <1>2, <1>3 DEF Routed

\* The answer and its record, the dispatch and the follow-up.
LEMMA LaterRouted ==
    ASSUME TypeOK, InPhase, AllRouted, NEW s \in Sessions,
           NEW h \in Complaints \ Owned, task[s].on = h, Continue(s),
           ~RunPipeline(s), ~RecheckImage(s)
    PROVE  Routed(h)' /\ AsDecided(h)
<1>1. Moves(s, h) /\ Routed(h) /\ row[h] \in Row
  BY ContinueMoves DEF AllRouted, TypeOK
<1>2. ~CompleteJob(s) /\ ~AcceptPhotoMismatch(s) /\ ~ReextractGrievance(s)
  BY CrewPhase
     DEF CompleteJob, AcceptPhotoMismatch, ReextractGrievance, Dispatching
<1>3. s \in Crew(h) /\ Crew(h)' \subseteq Crew(h) \cup {s}
      /\ (\A t \in Crew(h) \ {s} : task'[t] = task[t])
  BY <1>1, CrewMoves
<1>4. NoComplaint # h
  BY GrievanceAssumption
<1>5. s \in Crew(h)' <=> task'[s].on = h
  BY <1>3 DEF Crew
<1>6. AwaitsDispatch(h)' =>
         \/ row'[h].status \in {"pending_window", "dispatching"}
         \/ s \in Crew(h)' /\ task'[s].pc = "dispatch"
         \/ AwaitsDispatch(h)
  BY <1>3 DEF AwaitsDispatch
<1>7. CASE SendFollowup(s)
  <2>1. Waiting(h) /\ task[s].pc = "reply"
    BY <1>7, CrewPhase DEF SendFollowup, Dispatching
  <2>2. row[h].status \in Checked
    BY <1>3, <2>1 DEF Waiting
  <2>3. UNCHANGED row /\ s \notin Crew(h)'
    BY <1>4, <1>5, <1>7, CallEffects
  <2>4. Routed(h)'
    <3>1. AwaitsDispatch(h)' => AwaitsDispatch(h)
      BY <1>6, <2>2, <2>3 DEF Checked
    <3> QED
      BY <1>1, <1>3, <2>2, <2>3, <3>1, SettledRouted
         DEF KeepsPlan, Unrun, Checked
  <2> QED  BY <2>3, <2>4 DEF AsDecided
<1>8. CASE CancelGrievance(s) \/ FinalizeForOfficial(s) \/ FinalizePriority(s)
             \/ FinalizeNormal(s)
  <2>1. Answered(h)
    BY <1>8, CrewPhase
       DEF CancelGrievance, FinalizeForOfficial, FinalizePriority,
           FinalizeNormal, Dispatching
  <2>2. KeepsPlan(h) /\ row[h].status \in Checked
    BY <1>8, <2>1, AnswerEffects DEF Answered
  <2>3. row'[h].status \in {"cancelled", "registered", "pending_window",
                            "duplicate"}
    BY <1>8, AnswerEffects
  <2>4. s \in Crew(h)' => task'[s].pc \notin Extracting
    BY <1>4, <1>5, <1>8, AnswerEffects DEF Extracting
  <2>5. AwaitsDispatch(h)' => AwaitsDispatch(h) \/ ~row[h].hold
    BY <1>4, <1>5, <1>6, <1>8, AnswerEffects
  <2>6. Routed(h)'
    BY <1>1, <1>3, <2>2, <2>3, <2>4, <2>5, SettledRouted DEF Unrun, Checked
  <2> QED  BY <2>3, <2>6 DEF AsDecided
<1>9. CASE DispatchDisabled(s) \/ DispatchMark(s) \/ RecordSubmitted(s)
             \/ RecordRefused(s) \/ DepartmentAccepts(s)
             \/ DepartmentFails(s) \/ ArtifactUnreadable(s)
  <2>1. Settled(h)
    BY <1>9, CrewPhase
       DEF DispatchDisabled, DispatchMark, RecordSubmitted, RecordRefused,
           DepartmentAccepts, DepartmentFails, ArtifactUnreadable, Dispatching
  <2>2. KeepsPlan(h) /\ row[h].status \notin Unrun
    BY <1>9, <2>1, DispatchEffects, CallEffects
       DEF Settled, Filed, Unrun, KeepsPlan
  <2>3. row'[h].status \notin Unrun
    BY <1>9, <2>2, DispatchEffects, CallEffects DEF Unrun
  <2>4. s \in Crew(h)' => task'[s].pc \notin Extracting \cup {"dispatch"}
    BY <1>4, <1>5, <1>9, DispatchEffects, CallEffects DEF Extracting
  <2>5. DispatchMark(s) => AwaitsDispatch(h)
    BY <1>3 DEF DispatchMark, AwaitsDispatch
  <2>6. \/ row'[h].status = row[h].status
        \/ row'[h].status \notin {"pending_window", "dispatching"}
        \/ DispatchMark(s)
    BY <1>9, DispatchEffects, CallEffects
  <2>7. AwaitsDispatch(h)' => AwaitsDispatch(h)
    BY <1>6, <2>4, <2>5, <2>6 DEF AwaitsDispatch
  <2>8. Routed(h)'
    BY <1>1, <1>3, <2>2, <2>3, <2>4, <2>7, SettledRouted
  <2>9. AsDecided(h)
    <3>1. CASE DispatchMark(s)
      <4>1. row[h].route \in {"none", "off", "on"} /\ row[h].route # "off"
        BY <1>1, <3>1 DEF DispatchMark, Row
      <4> QED
        BY <1>1, <2>2, <2>5, <3>1, <4>1
           DEF Routed, HasRoute, NotHeld, AsDecided
    <3>2. CASE ~DispatchMark(s)
      BY <2>6, <3>2 DEF AsDecided
    <3> QED  BY <3>1, <3>2
  <2> QED  BY <2>8, <2>9
<1>10. CASE RunSwept(s)
  <2>1. Waiting(h) /\ row[h].status \in Unrun
    BY <1>3, <1>10, CrewPhase DEF RunSwept, Waiting, Dispatching
  <2>2. UNCHANGED row /\ s \in Crew(h)' /\ task'[s].pc = "extract"
        /\ task'[s].seen = row[h]
    BY <1>5, <1>10, LoadTouches DEF RunSwept
  <2>3. NotRun(h)' /\ HasRoute(h)'
    BY <1>1, <1>3, <2>1, <2>2 DEF Routed, NotRun, HasRoute
  <2>4. AwaitsDispatch(h)' => AwaitsDispatch(h)
    BY <1>6, <2>2 DEF AwaitsDispatch
  <2> QED  BY <1>1, <2>2, <2>3, <2>4 DEF Routed, NotHeld, AsDecided
<1> QED  BY <1>2, <1>7, <1>8, <1>9, <1>10 DEF Continue

LEMMA BeginRouted ==
    ASSUME TypeOK, InPhase, AllRouted, NEW s \in Sessions,
           NEW h \in Complaints \ Owned, Begin(s, h)
    PROVE  Routed(h)' /\ AsDecided(h)
<1>1. Routed(h) /\ UNCHANGED row
  BY BeginEffect DEF AllRouted
<1>2. Crew(h)' = Crew(h) \cup {s} /\ \A t \in Crew(h) : task'[t] = task[t]
  BY BeginEffect
<1>3. task'[s].pc \in Extracting =>
         row[h].status \in Unrun /\ task'[s].seen = row[h]
  BY BeginEffect DEF Extracting
<1>4. task'[s].pc = "dispatch" => AwaitsDispatch(h)
  BY BeginEffect DEF WindowDue, StuckDispatch, AwaitsDispatch
<1>5. NotRun(h)' /\ HasRoute(h)'
  BY <1>1, <1>2, <1>3 DEF Routed, NotRun, HasRoute
<1>6. AwaitsDispatch(h)' => AwaitsDispatch(h)
  BY <1>1, <1>2, <1>4 DEF AwaitsDispatch
<1> QED  BY <1>1, <1>5, <1>6 DEF Routed, NotHeld, AsDecided

LEMMA OutsideRouted ==
    ASSUME TypeOK, InPhase, AllRouted, NEW h \in Complaints, Outside(h),
           NEW g \in Complaints \ Owned
    PROVE  Routed(g)' /\ AsDecided(g)
<1>1. Routed(g) /\ row'[g].status = row[g].status /\ UNCHANGED task
  BY OutsideEffect DEF AllRouted, Kept
<1>2. Crew(g)' = Crew(g) /\ (AwaitsDispatch(g)' <=> AwaitsDispatch(g))
  BY <1>1 DEF Crew, AwaitsDispatch
<1>3. \A s \in Crew(g) :
          task'[s].pc \in Extracting => task'[s].seen.route = "none"
  BY <1>1 DEF Routed, NotRun
<1>4. CASE KeepsPlan(g)
  BY <1>1, <1>2, <1>3, <1>4
     DEF Routed, NotRun, HasRoute, NotHeld, KeepsPlan, AsDecided
<1>5. CASE OfficialDecides(g)
  <2>1. row[g].status \notin Unrun
    BY <1>1, <1>5 DEF Routed, NotRun, OfficialDecides
  <2> QED
    BY <1>1, <1>2, <1>3, <1>5, <2>1
       DEF Routed, NotRun, HasRoute, NotHeld, OfficialDecides, AsDecided
<1> QED  BY <1>4, <1>5, OutsideEffect

LEMMA AbortRouted ==
    ASSUME TypeOK, InPhase, AllRouted, NEW s \in Sessions, Abort(s),
           NEW g \in Complaints \ Owned
    PROVE  Routed(g)' /\ AsDecided(g)
<1>1. Routed(g) /\ UNCHANGED row /\ Crew(g)' = Crew(g) \ {s}
      /\ \A t \in Crew(g) \ {s} : task'[t] = task[t]
  BY AbortEffect DEF AllRouted
<1>2. NotRun(g)' /\ HasRoute(g)'
  BY <1>1 DEF Routed, NotRun, HasRoute
<1>3. AwaitsDispatch(g)' => AwaitsDispatch(g)
  BY <1>1 DEF AwaitsDispatch
<1> QED  BY <1>1, <1>2, <1>3 DEF Routed, NotHeld, AsDecided

LEMMA RoutedInit == Init => AllRouted
<1> SUFFICES ASSUME Init, NEW g \in Complaints \ Owned
             PROVE  Routed(g)
  BY DEF AllRouted
<1>1. Crew(g) = {}
  BY GrievanceAssumption DEF Init, Crew, NoTask
<1> QED
  BY <1>1 DEF Init, Draft, Routed, NotRun, HasRoute, NotHeld, AwaitsDispatch,
              Unrun

LEMMA RoutedNext ==
    ASSUME TypeOK, InPhase, AllRouted, [Next]_vars
    PROVE  AllRouted' /\ \A g \in Complaints \ Owned : AsDecided(g)
<1> SUFFICES ASSUME NEW g \in Complaints \ Owned
             PROVE  Routed(g)' /\ AsDecided(g)
  BY DEF AllRouted
<1>0. Routed(g)
  BY DEF AllRouted
<1>1. ASSUME NEW h \in Complaints, Outside(h)
      PROVE  Routed(g)' /\ AsDecided(g)
  BY <1>1, OutsideRouted
<1>2. ASSUME NEW s \in Sessions, Continue(s)
      PROVE  Routed(g)' /\ AsDecided(g)
  <2>1. CASE task[s].on = g
    BY <1>2, <2>1, CheckRouted, LaterRouted
  <2>2. CASE task[s].on # g
    <3>1. task[s].on \in Complaints /\ Touches(s, task[s].on)
      BY <1>2, ContinueMoves, ContinueTouches
    <3> QED  BY <1>0, <2>2, <3>1, OthersKept, RoutedKept
  <2> QED  BY <2>1, <2>2
<1>3. ASSUME NEW s \in Sessions, Abort(s)
      PROVE  Routed(g)' /\ AsDecided(g)
  BY <1>3, AbortRouted
<1>4. ASSUME NEW s \in Sessions, NEW h \in Complaints, Begin(s, h)
      PROVE  Routed(g)' /\ AsDecided(g)
  <2>1. CASE h = g
    BY <1>4, <2>1, BeginRouted
  <2>2. CASE h # g
    <3>1. Touches(s, h)
      BY <1>4, BeginTouches
    <3> QED  BY <1>0, <2>2, <3>1, OthersKept, RoutedKept
  <2> QED  BY <2>1, <2>2
<1>5. ASSUME UNCHANGED vars
      PROVE  Routed(g)' /\ AsDecided(g)
  <2>1. KeepsAll(g)
    BY <1>5 DEF vars, KeepsAll, Crew
  <2> QED  BY <1>0, <2>1, RoutedKept
<1>6. ASSUME NEW h \in Complaints, ConversationExpires(h)
      PROVE  Routed(g)' /\ AsDecided(g)
  <2>1. UNCHANGED <<row, task>>
    BY <1>6 DEF ConversationExpires
  <2> QED
    BY <1>0, <2>1 DEF Routed, NotRun, HasRoute, NotHeld, AwaitsDispatch,
                      Crew, AsDecided
<1> QED  BY <1>1, <1>2, <1>3, <1>4, <1>5, <1>6 DEF Next, Outside

\* Where runs do not overlap, for any number of complaints and requests,
\* refusals, official actions and crashes: a chat-only complaint goes to a
\* department only on a route the decision on record enables, and not while
\* that decision holds it for an official.
THEOREM DispatchAsDecided ==
    ASSUME ~RunsOverlap
    PROVE  Spec => DispatchedAsDecided
<1> DEFINE RInv == PInv /\ AllRouted
<1>1. Init => RInv
  BY PInvInit, RoutedInit
<1>2. RInv /\ [Next]_vars => RInv'
  <2> SUFFICES ASSUME RInv, [Next]_vars PROVE RInv'
    OBVIOUS
  <2>1. TypeOK /\ InPhase
    BY DEF PInv, IInv
  <2> QED  BY <2>1, PInvNext, RoutedNext
<1>3. RInv /\ [Next]_vars =>
         [\A g \in Complaints \ Owned :
             /\ row[g].status # "dispatching"
             /\ row'[g].status = "dispatching"
             => row[g].route = "on" /\ ~row[g].hold]_row
  <2> SUFFICES ASSUME RInv, [Next]_vars,
                      NEW g \in Complaints \ Owned
               PROVE  AsDecided(g)
    BY DEF AsDecided
  <2>1. TypeOK /\ InPhase
    BY DEF PInv, IInv
  <2> QED  BY <2>1, RoutedNext
<1> QED  BY <1>1, <1>2, <1>3, PTL DEF Spec, DispatchedAsDecided, ChatOnly

-----------------------------------------------------------------------------
(***************************************************************************)
(* A chat-only complaint is never stranded but by a crash or because its   *)
(* conversation expires.  The phases say who is in charge, except where    *)
(* only a task is: while a check, an answer, a first dispatch or a last    *)
(* attempt is under way.                                                   *)
(***************************************************************************)

\* Session s will record what the department answered for good.
RecordsForGood(s) ==
    \/ task[s].pc = "accepted"
    \/ /\ task[s].pc \in {"call", "refused"}
       /\ task[s].seen.attempts >= MaxAttempts

CheckIsManned(g) ==
    /\ row[g].status \in Checked
    /\ chat[g] \notin Checked \cup {"expired"}
    => Crew(g) # {}

RegisteredIsManned(g) ==
    row[g].status = "registered" /\ row[g].review = "citizen_review"
        => \E s \in Crew(g) : task[s].pc = "dispatch"

LastAttemptIsManned(g) ==
    row[g].status = "dispatching" /\ row[g].attempts >= MaxAttempts
        => \E s \in Crew(g) : RecordsForGood(s)

Manned(g) ==
    CheckIsManned(g) /\ RegisteredIsManned(g) /\ LastAttemptIsManned(g)

AllManned == crashes = 0 => \A g \in Complaints \ Owned : Manned(g)

LEMMA MannedKept ==
    ASSUME NEW g, Manned(g), KeepsAll(g)
    PROVE  Manned(g)'
<1>1. \A s \in Crew(g) : RecordsForGood(s)' <=> RecordsForGood(s)
  BY DEF RecordsForGood, KeepsAll
<1> QED
  BY <1>1 DEF Manned, CheckIsManned, RegisteredIsManned, LastAttemptIsManned,
              KeepsAll

\* The run, the photo check and their follow-up.
LEMMA CheckManned ==
    ASSUME TypeOK, InPhase, NEW s \in Sessions,
           NEW h \in Complaints \ Owned, task[s].on = h,
           RunPipeline(s) \/ RecheckImage(s) \/ SendFollowup(s)
    PROVE  Manned(h)'
<1>1. Continue(s) /\ Moves(s, h) /\ s \in Crew(h)
  BY ContinueMoves DEF Continue, Crew
<1>2. Waiting(h) /\ task[s].pc \notin {"extract_job", "recheck_web"}
      /\ Crew(h) \subseteq {s}
  <2>1. task[s].pc \in {"extract_turn", "extract", "extract_job", "recheck",
                        "recheck_web", "reply"}
    BY DEF RunPipeline, RecheckImage, SendFollowup
  <2>2. task[s].pc \notin {"finalize", "cancel"} \cup Dispatching
    BY <2>1 DEF Dispatching
  <2> QED  BY <2>2, CrewPhase
<1>3. CASE RunPipeline(s) \/ RecheckImage(s)
  <2>1. row'[h].status \in Checked
    <3>1. CASE RunPipeline(s)
      <4>1. task[s].seen.status \in Unrun
        BY <1>1, <1>2, <3>1 DEF Waiting, RunPipeline
      <4> QED  BY <3>1, <4>1, RunEffect DEF Net, Unrun, Checked
    <3>2. CASE RecheckImage(s)
      <4>1. row[h].status \in Checked /\ task[s].pc = "recheck"
        BY <1>1, <1>2, <3>2 DEF Waiting, RecheckImage
      <4> QED  BY <3>2, <4>1, RecheckEffect DEF Net
    <3> QED  BY <1>3, <3>1, <3>2
  <2>2. task'[s].on = h
    <3>1. RecheckImage(s) => task[s].pc = "recheck"
      BY <1>2 DEF RecheckImage
    <3> QED  BY <1>3, <3>1, RunEffect, RecheckEffect
  <2>3. Crew(h)' # {}
    BY <1>1, <2>2, CrewMoves
  <2> QED
    BY <2>1, <2>3
       DEF Manned, CheckIsManned, RegisteredIsManned, LastAttemptIsManned,
           Checked
<1>4. CASE SendFollowup(s)
  <2>1. row[h].status \in Checked /\ UNCHANGED row
    BY <1>1, <1>2, <1>4, CallEffects DEF Waiting, SendFollowup
  <2>2. task[s].out \in Checked
    BY <1>4 DEF SendFollowup, TypeOK
  <2>3. chat'[h] \in Checked \cup {"expired"}
    BY <1>2, <1>4, <2>2 DEF SendFollowup, Active, Waiting, TypeOK
  <2> QED
    BY <2>1, <2>3
       DEF Manned, CheckIsManned, RegisteredIsManned, LastAttemptIsManned,
           Checked
<1> QED  BY <1>3, <1>4

\* The record of the citizen's answer.
LEMMA AnswerManned ==
    ASSUME TypeOK, InPhase, NEW s \in Sessions,
           NEW h \in Complaints \ Owned, task[s].on = h,
           \/ CancelGrievance(s)
           \/ FinalizeForOfficial(s) \/ FinalizePriority(s)
           \/ FinalizeNormal(s)
    PROVE  Manned(h)'
<1>1. Continue(s) /\ Moves(s, h)
  BY ContinueMoves DEF Continue
<1>2. CASE FinalizePriority(s)
  <2>1. /\ row'[h].status = "registered"
        /\ task'[s].on = h /\ task'[s].pc = "dispatch"
    BY <1>2, AnswerEffects
  <2>2. s \in Crew(h)'
    BY <2>1 DEF Crew
  <2> QED
    BY <2>1, <2>2
       DEF Manned, CheckIsManned, RegisteredIsManned, LastAttemptIsManned,
           Checked
<1>3. CASE CancelGrievance(s) \/ FinalizeForOfficial(s) \/ FinalizeNormal(s)
  <2>1. \/ row'[h].status \in {"cancelled", "pending_window", "duplicate"}
        \/ row'[h].status = "registered" /\ row'[h].review = "pending_official"
    BY <1>3, AnswerEffects
  <2> QED
    BY <2>1
       DEF Manned, CheckIsManned, RegisteredIsManned, LastAttemptIsManned,
           Checked
<1> QED  BY <1>2, <1>3

\* The dispatch.  A refusal counts against the cap, so the last of several
\* attempts gives up; an attempt that dies with an unreadable receipt does not.
LEMMA DispatchManned ==
    ASSUME TypeOK, InPhase, Unreadable \subseteq Owned, NEW s \in Sessions,
           NEW h \in Complaints \ Owned, task[s].on = h, Manned(h),
           \/ DispatchDisabled(s) \/ DispatchMark(s)
           \/ DepartmentAccepts(s) \/ DepartmentFails(s)
           \/ ArtifactUnreadable(s) \/ RecordSubmitted(s)
           \/ RecordRefused(s)
    PROVE  Manned(h)'
<1>1. Continue(s) /\ Moves(s, h) /\ row[h] \in Row /\ task[s] \in Task
  BY ContinueMoves DEF Continue, TypeOK
<1>2. Settled(h)
  BY CrewPhase
     DEF DispatchDisabled, DispatchMark, RecordSubmitted, RecordRefused,
         DepartmentAccepts, DepartmentFails, ArtifactUnreadable, Dispatching
<1>3. s \in Crew(h) /\ \A t \in Crew(h) \ {s} : task'[t] = task[t]
  BY <1>1, CrewMoves
<1>4. Crew(h) \ {s} \subseteq Crew(h)'
      /\ (task'[s].on = h => s \in Crew(h)')
  BY <1>1, <1>3, CrewMoves
<1>5. \A t \in Crew(h) \ {s} : RecordsForGood(t)' <=> RecordsForGood(t)
  BY <1>3 DEF RecordsForGood
<1>6. CASE DispatchDisabled(s) \/ RecordSubmitted(s)
  <2>1. \/ row'[h].status = "submitted"
        \/ row'[h].status = "registered" /\ row'[h].review = "pending_official"
    BY <1>6, DispatchEffects
  <2> QED
    BY <2>1
       DEF Manned, CheckIsManned, RegisteredIsManned, LastAttemptIsManned,
           Checked
<1>7. CASE DispatchMark(s)
  <2>1. /\ row'[h].status = "dispatching"
        /\ row'[h].attempts = row[h].attempts
        /\ task'[s].on = h /\ task'[s].pc = "call"
        /\ task'[s].seen.attempts = row[h].attempts
    BY <1>7, DispatchEffects DEF KeepsCount
  <2>2. row'[h].attempts >= MaxAttempts => RecordsForGood(s)'
    BY <2>1 DEF RecordsForGood
  <2> QED
    BY <1>4, <2>1, <2>2
       DEF Manned, CheckIsManned, RegisteredIsManned, LastAttemptIsManned,
           Checked
<1>8. CASE DepartmentAccepts(s) \/ DepartmentFails(s)
  <2>1. UNCHANGED row /\ task'[s].on = h
    BY <1>8, CallEffects
  <2>2. task[s].pc = "call"
    BY <1>8 DEF DepartmentAccepts, DepartmentFails
  <2>3. RecordsForGood(s) => RecordsForGood(s)'
    BY <1>8, <2>2, CallEffects DEF RecordsForGood
  <2>4. CheckIsManned(h)'
    BY <1>2, <2>1 DEF CheckIsManned, Settled, Filed, Checked
  <2>5. RegisteredIsManned(h)'
    BY <1>3, <1>4, <2>1, <2>2 DEF Manned, RegisteredIsManned
  <2>6. LastAttemptIsManned(h)'
    BY <1>3, <1>4, <1>5, <2>1, <2>3 DEF Manned, LastAttemptIsManned
  <2> QED  BY <2>4, <2>5, <2>6 DEF Manned
<1>9. CASE ArtifactUnreadable(s)
  BY <1>9 DEF ArtifactUnreadable
<1>10. CASE RecordRefused(s)
  <2> DEFINE n == task[s].seen.attempts + 1
  <2>1. /\ row'[h].attempts = n
        /\ row'[h].review = row[h].review
        /\ row'[h].status = IF GiveUp(n) THEN "dispatch_failed"
                            ELSE row[h].status
    BY <1>10, DispatchEffects
  <2>2. task[s].pc = "refused"
    BY <1>10 DEF RecordRefused
  <2>3. CheckIsManned(h)'
    BY <1>2, <2>1 DEF CheckIsManned, Settled, Filed, Checked
  <2>4. RegisteredIsManned(h)'
    BY <1>3, <1>4, <2>1, <2>2 DEF Manned, RegisteredIsManned
  <2>5. LastAttemptIsManned(h)'
    <3>1. n >= MaxAttempts => row'[h].status = "dispatch_failed"
      BY <2>1 DEF GiveUp
    <3> QED  BY <2>1, <3>1 DEF LastAttemptIsManned
  <2> QED  BY <2>3, <2>4, <2>5 DEF Manned
<1> QED  BY <1>6, <1>7, <1>8, <1>9, <1>10

LEMMA ContinueManned ==
    ASSUME TypeOK, InPhase, Unreadable \subseteq Owned, NEW s \in Sessions,
           NEW h \in Complaints \ Owned, task[s].on = h, Manned(h), Continue(s)
    PROVE  Manned(h)'
<1>1. ~CompleteJob(s) /\ ~AcceptPhotoMismatch(s) /\ ~ReextractGrievance(s)
  BY CrewPhase
     DEF CompleteJob, AcceptPhotoMismatch, ReextractGrievance, Dispatching
<1>2. CASE RunSwept(s)
  <2>1. row[h].status \in Unrun
    <3>1. s \in Crew(h)
      BY DEF Crew
    <3> QED  BY <1>2, <3>1, CrewPhase DEF RunSwept, Waiting, Dispatching
  <2>2. UNCHANGED row
    BY <1>2 DEF RunSwept
  <2> QED
    BY <2>1, <2>2
       DEF Manned, CheckIsManned, RegisteredIsManned, LastAttemptIsManned,
           Checked, Unrun
<1> QED
  BY <1>1, <1>2, CheckManned, AnswerManned, DispatchManned DEF Continue

LEMMA BeginManned ==
    ASSUME TypeOK, InPhase, NEW s \in Sessions,
           NEW h \in Complaints \ Owned, Begin(s, h), Manned(h)
    PROVE  Manned(h)'
<1>1. UNCHANGED row /\ Crew(h)' = Crew(h) \cup {s} /\ s \notin Crew(h)
      /\ \A t \in Crew(h) : task'[t] = task[t]
  BY BeginEffect
<1>2. \A t \in Crew(h) : RecordsForGood(t)' <=> RecordsForGood(t)
  BY <1>1 DEF RecordsForGood
<1> QED
  BY <1>1, <1>2
     DEF Manned, CheckIsManned, RegisteredIsManned, LastAttemptIsManned

LEMMA OutsideManned ==
    ASSUME TypeOK, InPhase, NEW h \in Complaints, Outside(h),
           NEW g \in Complaints \ Owned, Manned(g)
    PROVE  Manned(g)'
<1>1. /\ row'[g].status = row[g].status /\ chat'[g] = chat[g]
      /\ row'[g].attempts = row[g].attempts /\ UNCHANGED task
      /\ row'[g].review = row[g].review \/ row'[g].review \in AllVerdicts
  <2>1. Kept(g) /\ UNCHANGED task /\ row'[g].attempts = row[g].attempts
    BY OutsideEffect
  <2>2. row'[g].review = row[g].review \/ row'[g].review \in AllVerdicts
    BY OutsideEffect DEF OfficialDecides
  <2> QED  BY <2>1, <2>2 DEF Kept
<1>2. Crew(g)' = Crew(g)
  BY <1>1 DEF Crew
<1>3. \A t \in Crew(g) : RecordsForGood(t)' <=> RecordsForGood(t)
  BY <1>1 DEF RecordsForGood
<1>4. CheckIsManned(g)'
  BY <1>1, <1>2 DEF Manned, CheckIsManned
<1>5. RegisteredIsManned(g)'
  <2>1. row'[g].review = "citizen_review" => row[g].review = "citizen_review"
    BY <1>1 DEF AllVerdicts
  <2>2. ASSUME row'[g].status = "registered",
               row'[g].review = "citizen_review"
        PROVE  \E s \in Crew(g)' : task'[s].pc = "dispatch"
    <3>1. \E s \in Crew(g) : task[s].pc = "dispatch"
      BY <1>1, <2>1, <2>2 DEF Manned, RegisteredIsManned
    <3> QED  BY <1>1, <1>2, <3>1
  <2> QED  BY <2>2 DEF RegisteredIsManned
<1>6. LastAttemptIsManned(g)'
  BY <1>1, <1>2, <1>3 DEF Manned, LastAttemptIsManned
<1> QED  BY <1>4, <1>5, <1>6 DEF Manned

LEMMA MannedInit == Init => AllManned
<1> SUFFICES ASSUME Init, NEW g \in Complaints
             PROVE  Manned(g)
  BY DEF AllManned
<1>1. row[g].status = "draft"
  BY DEF Init, Draft
<1> QED
  BY <1>1 DEF Manned, CheckIsManned, RegisteredIsManned, LastAttemptIsManned,
              Checked

\* Only a crash is counted as one.
LEMMA CrashesOnlyGrow ==
    ASSUME TypeOK, [Next]_vars, crashes' = 0
    PROVE  crashes = 0
<1>1. ASSUME NEW s \in Sessions, Abort(s)
      PROVE  FALSE
  BY <1>1, AbortEffect
<1>2. ASSUME NEW h \in Complaints, Outside(h)
      PROVE  UNCHANGED crashes
  BY <1>2
     DEF Outside, SubmitDraft, WindowExpires, UpdateReview, OfficialAction
<1>3. ASSUME NEW s \in Sessions, Continue(s)
      PROVE  UNCHANGED crashes
  BY <1>3
     DEF Continue, RunSwept, RunPipeline, CompleteJob, SendFollowup,
         RecheckImage,
         AcceptPhotoMismatch, CancelGrievance, FinalizeForOfficial,
         FinalizePriority, FinalizeNormal, DispatchDisabled, DispatchMark,
         DepartmentAccepts, DepartmentFails, ArtifactUnreadable,
         RecordSubmitted, RecordRefused, ReextractGrievance
<1>4. ASSUME NEW s \in Sessions, NEW h \in Complaints, Begin(s, h)
      PROVE  UNCHANGED crashes
  BY <1>4
     DEF Begin, RunJob, RunPipelineFollowup, SweepStuckProcessing,
         ReplacePhoto, AnswerMismatch, ConfirmDraft, CitizenConfirms,
         CitizenCancels, Answer, SweepExpiredWindows, SweepStuckDispatching,
         Sweep, StartReextract
<1>5. ASSUME NEW h \in Complaints, ConversationExpires(h)
      PROVE  UNCHANGED crashes
  BY <1>5 DEF ConversationExpires
<1> QED  BY <1>1, <1>2, <1>3, <1>4, <1>5 DEF Next, Outside, vars

LEMMA MannedNext ==
    ASSUME TypeOK, InPhase, AllManned, Unreadable \subseteq Owned, [Next]_vars
    PROVE  AllManned'
<1> SUFFICES ASSUME crashes' = 0, NEW g \in Complaints \ Owned
             PROVE  Manned(g)'
  BY DEF AllManned
<1>0. Manned(g)
  BY CrashesOnlyGrow DEF AllManned
<1>1. ASSUME NEW h \in Complaints, Outside(h)
      PROVE  Manned(g)'
  BY <1>0, <1>1, OutsideManned
<1>2. ASSUME NEW s \in Sessions, Continue(s)
      PROVE  Manned(g)'
  <2>1. CASE task[s].on = g
    BY <1>0, <1>2, <2>1, ContinueManned
  <2>2. CASE task[s].on # g
    <3>1. task[s].on \in Complaints /\ Touches(s, task[s].on)
      BY <1>2, ContinueMoves, ContinueTouches
    <3> QED  BY <1>0, <2>2, <3>1, OthersKept, MannedKept
  <2> QED  BY <2>1, <2>2
<1>3. ASSUME NEW s \in Sessions, Abort(s)
      PROVE  Manned(g)'
  BY <1>3, AbortEffect
<1>4. ASSUME NEW s \in Sessions, NEW h \in Complaints, Begin(s, h)
      PROVE  Manned(g)'
  <2>1. CASE h = g
    BY <1>0, <1>4, <2>1, BeginManned
  <2>2. CASE h # g
    <3>1. Touches(s, h)
      BY <1>4, BeginTouches
    <3> QED  BY <1>0, <2>2, <3>1, OthersKept, MannedKept
  <2> QED  BY <2>1, <2>2
<1>5. ASSUME UNCHANGED vars
      PROVE  Manned(g)'
  <2>1. KeepsAll(g)
    BY <1>5 DEF vars, KeepsAll, Crew
  <2> QED  BY <1>0, <2>1, MannedKept
<1>6. ASSUME NEW h \in Complaints, ConversationExpires(h)
      PROVE  Manned(g)'
  <2>1. UNCHANGED <<row, task>> /\ chat'[g] \in {chat[g], "expired"}
    BY <1>6 DEF ConversationExpires, TypeOK
  <2> QED
    BY <1>0, <2>1 DEF Manned, CheckIsManned, RegisteredIsManned,
                      LastAttemptIsManned, RecordsForGood, Crew
<1> QED  BY <1>1, <1>2, <1>3, <1>4, <1>5, <1>6 DEF Next, Outside

\* The phases and the manned gaps between them.
LEMMA MannedIsInCharge ==
    ASSUME TypeOK, NEW g \in Complaints, Phase(g), Manned(g)
    PROVE  InCharge(g) \/ OutOfTime(g)
<1>1. CASE Crew(g) # {}
  BY <1>1 DEF Crew, InCharge
<1>2. CASE Crew(g) = {} /\ row[g].status \in Checked
  BY <1>2 DEF Manned, CheckIsManned, InCharge, OutOfTime
<1>3. CASE Crew(g) = {} /\ row[g].status \in Filed
  <2>1. row[g].status = "registered" => row[g].review # "citizen_review"
    BY <1>3 DEF Manned, RegisteredIsManned
  <2>2. row[g].status = "dispatching" => StuckDispatch(row[g])
    <3>1. row[g].status = "dispatching" => ~(row[g].attempts >= MaxAttempts)
      BY <1>3 DEF Manned, LastAttemptIsManned
    <3>2. row[g].attempts \in Nat /\ MaxAttempts \in Nat
      BY GrievanceAssumption DEF TypeOK, Row
    <3> QED  BY <3>1, <3>2 DEF StuckDispatch
  <2> QED  BY <1>3, <2>1, <2>2 DEF Filed, InCharge
<1>4. row[g].status \in Unrun \cup Checked \cup Filed \cup {"cancelled"}
  BY DEF Phase, Waiting, Asked, Answered, Settled, Dropped
<1> QED  BY <1>1, <1>2, <1>3, <1>4 DEF InCharge

\* Where runs do not overlap and no chat-only complaint's receipt is lost, for
\* any number of complaints and requests and whatever departments refuse: as
\* long as no task dies, every chat-only complaint is in somebody's charge, or
\* its conversation expired before the citizen answered.
THEOREM StrandedByLossOnly ==
    ASSUME ~RunsOverlap, Unreadable \subseteq Owned
    PROVE  Spec => []StrandedOnlyByLoss
<1> DEFINE MInv == PInv /\ AllManned
<1>1. Init => MInv
  BY PInvInit, MannedInit
<1>2. MInv /\ [Next]_vars => MInv'
  <2> SUFFICES ASSUME MInv, [Next]_vars PROVE MInv'
    OBVIOUS
  <2>1. TypeOK /\ InPhase
    BY DEF PInv, IInv
  <2> QED  BY <2>1, PInvNext, MannedNext
<1>3. MInv => StrandedOnlyByLoss
  BY MannedIsInCharge
     DEF PInv, IInv, InPhase, AllManned, StrandedOnlyByLoss, ChatOnly
<1> QED  BY <1>1, <1>2, <1>3, PTL DEF Spec

-----------------------------------------------------------------------------
(***************************************************************************)
(* The cap on dispatch attempts.  The counter is written from a copy the   *)
(* dispatching task read before its call, so two tasks may overwrite each  *)
(* other's count.  With one worker there are at most two: the sweep's, and *)
(* the request that confirmed, which counts from zero.                     *)
(***************************************************************************)

\* Nothing is attempted before the citizen's Yes, nor in the dedup window.
NoneYet(g) ==
    /\ ~row[g].confirmed => row[g].attempts = 0
    /\ row[g].status = "pending_window" =>
          /\ row[g].attempts = 0
          /\ \A s \in Crew(g) : task[s].pc = "dispatch"

InCap(g) ==
    /\ row[g].attempts <= MaxAttempts
    /\ row[g].status = "dispatching" => row[g].attempts < MaxAttempts

\* The request that confirmed dispatches first, and only once.
RequestCounts(g) ==
    /\ AtMostOne(Crew(g) \cap Requests)
    /\ \A s \in Crew(g) \cap Requests :
          /\ task[s].pc = "dispatch" =>
                /\ row[g].status = "registered" /\ row[g].attempts = 0
                /\ Crew(g) = {s}
          /\ task[s].pc \in {"call", "refused"} => task[s].seen.attempts = 0

WorkerCounts(g) ==
    \A s \in Crew(g) \cap Workers :
       /\ task[s].pc = "dispatch" => row[g].attempts < MaxAttempts
       /\ task[s].pc \in {"call", "refused"} =>
             task[s].seen.attempts < MaxAttempts

Counted(g) == NoneYet(g) /\ InCap(g) /\ RequestCounts(g) /\ WorkerCounts(g)

AllCounted == \A g \in Complaints \ Owned : Counted(g)

LEMMA CountedKept ==
    ASSUME NEW g, Counted(g), KeepsAll(g)
    PROVE  Counted(g)'
<1>1. NoneYet(g)' /\ InCap(g)'
  BY DEF Counted, NoneYet, InCap, KeepsAll
<1>2. RequestCounts(g)' /\ WorkerCounts(g)'
  BY DEF Counted, RequestCounts, WorkerCounts, AtMostOne, KeepsAll
<1> QED  BY <1>1, <1>2 DEF Counted

\* The sessions are workers and requests, and none is both.
LEMMA SessionKinds ==
    ASSUME NEW s \in Sessions
    PROVE  s \in Workers <=> s \notin Requests
  BY GrievanceAssumption DEF Sessions

\* After a step: a complaint nobody has dispatched yet.
LEMMA UndispatchedCounted ==
    ASSUME NEW g, row'[g].attempts = 0,
           row'[g].status \notin {"pending_window", "dispatching"},
           AtMostOne(Crew(g)'),
           \A s \in Crew(g)' : task'[s].pc \notin {"call", "refused"},
           \A s \in Crew(g)' : task'[s].pc = "dispatch" =>
              row'[g].status = "registered"
    PROVE  Counted(g)'
<1>1. NoneYet(g)' /\ InCap(g)'
  BY GrievanceAssumption DEF NoneYet, InCap
<1>2. \A s \in Crew(g)' : Crew(g)' = {s}
  BY DEF AtMostOne
<1>3. RequestCounts(g)'
  BY <1>2 DEF RequestCounts, AtMostOne
<1>4. WorkerCounts(g)'
  BY GrievanceAssumption DEF WorkerCounts
<1> QED  BY <1>1, <1>3, <1>4 DEF Counted

\* After a step: until the answer is on record there is nothing to count.
LEMMA EarlyCounted ==
    ASSUME InPhase', NEW g \in Complaints \ Owned, ~row'[g].confirmed,
           row'[g].attempts = 0
    PROVE  Counted(g)'
<1>1. Waiting(g)' \/ Asked(g)' \/ Answered(g)' \/ Dropped(g)'
  BY DEF InPhase, Phase, Settled
<1>2. /\ row'[g].status \notin {"pending_window", "dispatching"}
      /\ AtMostOne(Crew(g)')
      /\ \A s \in Crew(g)' :
            task'[s].pc \in {"extract_turn", "swept", "extract", "recheck",
                             "reply", "finalize", "cancel"}
  BY <1>1 DEF Waiting, Asked, Answered, Dropped, AtMostOne, Unrun, Checked
<1>3. \A s \in Crew(g)' : task'[s].pc \notin {"call", "refused", "dispatch"}
  BY <1>2
<1> QED  BY <1>2, <1>3, UndispatchedCounted

\* The run, the photo check, their follow-up and the citizen's No.
LEMMA CheckCounted ==
    ASSUME TypeOK, InPhase, InPhase', NEW s \in Sessions,
           NEW h \in Complaints \ Owned, task[s].on = h, Counted(h),
           RunPipeline(s) \/ RecheckImage(s) \/ SendFollowup(s)
               \/ CancelGrievance(s)
    PROVE  Counted(h)'
<1>1. ~row[h].confirmed
  BY CrewPhase
     DEF RunPipeline, RecheckImage, SendFollowup, CancelGrievance, Waiting,
         Answered, Dispatching
<1>2. row[h].attempts = 0
  BY <1>1 DEF Counted, NoneYet
<1>3. KeepsCount(h)
  <2>1. RunPipeline(s) => KeepsCount(h)
    BY RunEffect DEF KeepsCount
  <2>2. RecheckImage(s) \/ CancelGrievance(s) => KeepsCount(h)
    <3>1. RecheckImage(s) => task[s].pc = "recheck"
      BY CrewPhase DEF RecheckImage, Dispatching
    <3> QED  BY <3>1, RecheckEffect, AnswerEffects
  <2>3. SendFollowup(s) => KeepsCount(h)
    BY CallEffects DEF KeepsCount
  <2> QED  BY <2>1, <2>2, <2>3
<1> QED  BY <1>1, <1>2, <1>3, EarlyCounted DEF KeepsCount

\* The citizen's Yes.
LEMMA FinalizeCounted ==
    ASSUME TypeOK, InPhase, NEW s \in Sessions,
           NEW h \in Complaints \ Owned, task[s].on = h, Counted(h),
           FinalizeForOfficial(s) \/ FinalizePriority(s) \/ FinalizeNormal(s)
    PROVE  Counted(h)'
<1>1. Continue(s) /\ Moves(s, h)
  BY ContinueMoves DEF Continue
<1>2. Answered(h) /\ Crew(h) \subseteq {s}
  BY CrewPhase
     DEF FinalizeForOfficial, FinalizePriority, FinalizeNormal, Dispatching
<1>3. row[h].attempts = 0
  BY <1>2 DEF Counted, NoneYet, Answered
<1>4. row'[h].attempts = 0
  BY <1>3, AnswerEffects
<1>5. CASE FinalizePriority(s)
  <2>1. /\ row'[h].status = "registered"
        /\ task'[s].on = h /\ task'[s].pc = "dispatch"
    BY <1>5, AnswerEffects
  <2>2. Crew(h)' \subseteq {s}
    BY <1>1, <1>2, <2>1, CrewMoves
  <2>3. /\ row'[h].status \notin {"pending_window", "dispatching"}
        /\ AtMostOne(Crew(h)')
        /\ \A t \in Crew(h)' : task'[t].pc \notin {"call", "refused"}
    BY <2>1, <2>2 DEF AtMostOne
  <2> QED  BY <1>4, <2>1, <2>3, UndispatchedCounted
<1>6. CASE FinalizeForOfficial(s) \/ FinalizeNormal(s)
  <2>1. /\ row'[h].status \in {"registered", "pending_window", "duplicate"}
        /\ task'[s].on = NoComplaint
    BY <1>6, AnswerEffects
  <2>2. Crew(h)' = {}
    BY <1>1, <1>2, <2>1, CrewMoves, GrievanceAssumption
  <2>3. NoneYet(h)' /\ InCap(h)'
    BY <1>4, <2>1, <2>2, GrievanceAssumption DEF NoneYet, InCap
  <2>4. RequestCounts(h)' /\ WorkerCounts(h)'
    BY <2>2 DEF RequestCounts, WorkerCounts, AtMostOne
  <2> QED  BY <2>3, <2>4 DEF Counted
<1> QED  BY <1>5, <1>6

\* A task leaves the crew of a confirmed complaint whose row it may have
\* written, without spoiling the count of the others.
LEMMA LeaverCounted ==
    ASSUME NEW h, NEW s \in Sessions, Counted(h),
           Crew(h)' = Crew(h) \ {s},
           \A t \in Crew(h) \ {s} : task'[t] = task[t],
           row'[h].confirmed = row[h].confirmed,
           row'[h].attempts = row[h].attempts,
           row'[h].status # row[h].status =>
              /\ row'[h].status \notin {"pending_window", "dispatching"}
              /\ \A t \in (Crew(h) \ {s}) \cap Requests :
                    task[t].pc # "dispatch"
    PROVE  Counted(h)'
<1>1. NoneYet(h)' /\ InCap(h)'
  BY DEF Counted, NoneYet, InCap
<1>2. RequestCounts(h)'
  BY DEF Counted, RequestCounts, AtMostOne
<1>3. WorkerCounts(h)'
  BY DEF Counted, WorkerCounts
<1> QED  BY <1>1, <1>2, <1>3 DEF Counted

\* While a request is about to dispatch, no other task works on its complaint.
LEMMA RequestAlone ==
    ASSUME NEW h, Counted(h), NEW s \in Crew(h)
    PROVE  \A t \in (Crew(h) \ {s}) \cap Requests : task[t].pc # "dispatch"
  BY DEF Counted, RequestCounts

\* The dispatch.
LEMMA DispatchCounted ==
    ASSUME TypeOK, InPhase, OneWorker, MaxAttempts > 1, NEW s \in Sessions,
           NEW h \in Complaints \ Owned, task[s].on = h, Counted(h),
           \/ DispatchDisabled(s) \/ DispatchMark(s)
           \/ DepartmentAccepts(s) \/ DepartmentFails(s)
           \/ ArtifactUnreadable(s) \/ RecordSubmitted(s)
           \/ RecordRefused(s)
    PROVE  Counted(h)'
<1>1. Continue(s) /\ Moves(s, h) /\ row[h] \in Row /\ task[s] \in Task
  BY ContinueMoves DEF Continue, TypeOK
<1>2. Settled(h) /\ MaxAttempts \in Nat
  BY CrewPhase, GrievanceAssumption
     DEF DispatchDisabled, DispatchMark, RecordSubmitted, RecordRefused,
         DepartmentAccepts, DepartmentFails, ArtifactUnreadable, Dispatching
<1>3. s \in Crew(h) /\ \A t \in Crew(h) \ {s} : task'[t] = task[t]
  BY <1>1, CrewMoves
<1>4. /\ task'[s].on = h => Crew(h)' = Crew(h)
      /\ task'[s].on = NoComplaint => Crew(h)' = Crew(h) \ {s}
  BY <1>1, CrewMoves, GrievanceAssumption
<1>5. \A t \in (Crew(h) \ {s}) \cap Requests : task[t].pc # "dispatch"
  BY <1>3, RequestAlone
<1>6. CASE DispatchDisabled(s) \/ RecordSubmitted(s) \/ ArtifactUnreadable(s)
  <2>1. /\ row'[h].confirmed = row[h].confirmed
        /\ row'[h].attempts = row[h].attempts
        /\ task'[s].on = NoComplaint
    BY <1>6, DispatchEffects, CallEffects DEF KeepsCount
  <2>2. row'[h].status = row[h].status
          \/ row'[h].status \in {"registered", "submitted"}
    BY <1>6, DispatchEffects, CallEffects
  <2> QED  BY <1>3, <1>4, <1>5, <2>1, <2>2, LeaverCounted
<1>7. CASE DispatchMark(s)
  <2>1. /\ row'[h].status = "dispatching"
        /\ row'[h].confirmed = row[h].confirmed
        /\ row'[h].attempts = row[h].attempts
        /\ task'[s].on = h /\ task'[s].pc = "call"
        /\ task'[s].seen.attempts = row[h].attempts
    BY <1>7, DispatchEffects DEF KeepsCount
  <2>2. task[s].pc = "dispatch" /\ Crew(h)' = Crew(h)
    BY <1>4, <1>7, <2>1 DEF DispatchMark
  <2>3. s \in Requests => row[h].attempts = 0
    BY <1>3, <2>2 DEF Counted, RequestCounts
  <2>4. row[h].attempts < MaxAttempts
    <3>1. s \in Workers => row[h].attempts < MaxAttempts
      BY <1>3, <2>2 DEF Counted, WorkerCounts
    <3> QED  BY <1>2, <2>3, <3>1, SessionKinds
  <2>5. NoneYet(h)' /\ InCap(h)'
    BY <1>2, <2>1, <2>4 DEF Counted, NoneYet, InCap, Settled
  <2>6. RequestCounts(h)'
    BY <1>3, <1>5, <2>1, <2>2, <2>3 DEF Counted, RequestCounts, AtMostOne
  <2>7. WorkerCounts(h)'
    BY <1>3, <2>1, <2>2, <2>4 DEF Counted, WorkerCounts
  <2> QED  BY <2>5, <2>6, <2>7 DEF Counted
<1>8. CASE DepartmentAccepts(s) \/ DepartmentFails(s)
  <2>1. /\ UNCHANGED row /\ task'[s].on = h
        /\ \/ task'[s].pc = "accepted"
           \/ task'[s].pc = "refused" /\ task'[s].seen = task[s].seen
    BY <1>8, CallEffects
  <2>2. task[s].pc = "call" /\ Crew(h)' = Crew(h)
    BY <1>4, <1>8, <2>1 DEF DepartmentAccepts, DepartmentFails
  <2>3. row[h].status # "pending_window"
    BY <1>3, <2>2 DEF Counted, NoneYet
  <2>4. NoneYet(h)' /\ InCap(h)'
    BY <1>2, <2>1, <2>3 DEF Counted, NoneYet, InCap, Settled
  <2>5. RequestCounts(h)'
    BY <1>3, <1>5, <2>1, <2>2 DEF Counted, RequestCounts, AtMostOne
  <2>6. WorkerCounts(h)'
    BY <1>3, <2>1, <2>2 DEF Counted, WorkerCounts
  <2> QED  BY <2>4, <2>5, <2>6 DEF Counted
<1>9. CASE RecordRefused(s)
  <2> DEFINE n == task[s].seen.attempts + 1
  <2>1. /\ row'[h].attempts = n
        /\ row'[h].confirmed = row[h].confirmed
        /\ row'[h].status = IF GiveUp(n) THEN "dispatch_failed"
                            ELSE row[h].status
        /\ task'[s].on = NoComplaint
    BY <1>9, DispatchEffects
  <2>2. task[s].pc = "refused" /\ Crew(h)' = Crew(h) \ {s}
    BY <1>4, <1>9, <2>1 DEF RecordRefused
  <2>3. /\ s \in Requests => task[s].seen.attempts = 0
        /\ s \in Workers => task[s].seen.attempts < MaxAttempts
    BY <1>3, <2>2 DEF Counted, RequestCounts, WorkerCounts
  <2>4. task[s].seen.attempts \in Nat
    BY <1>1 DEF Task, Row
  <2>5. n \in Nat /\ n <= MaxAttempts /\ (s \in Requests => n < MaxAttempts)
    BY <1>2, <2>3, <2>4, SessionKinds
  <2>6. n >= MaxAttempts => row'[h].status = "dispatch_failed"
    BY <2>1 DEF GiveUp
  <2>7. row'[h].status \in {row[h].status, "dispatch_failed"}
    BY <2>1
  <2>8. row[h].status # "pending_window"
    BY <1>3, <2>2 DEF Counted, NoneYet
  <2> HIDE DEF n
  <2>9. NoneYet(h)' /\ InCap(h)'
    BY <1>2, <2>1, <2>5, <2>6, <2>7, <2>8
       DEF Counted, NoneYet, InCap, Settled
  <2>10. RequestCounts(h)'
    BY <1>3, <1>5, <2>2 DEF Counted, RequestCounts, AtMostOne
  <2>11. WorkerCounts(h)'
    <3>1. ASSUME s \in Workers
          PROVE  Crew(h)' \cap Workers = {}
      BY <2>2, <3>1 DEF OneWorker
    <3>2. ASSUME s \in Requests
          PROVE  WorkerCounts(h)'
      BY <1>3, <2>1, <2>2, <2>5, <3>2 DEF Counted, WorkerCounts
    <3> QED  BY <3>1, <3>2, SessionKinds DEF WorkerCounts
  <2> QED  BY <2>9, <2>10, <2>11 DEF Counted
<1> QED  BY <1>6, <1>7, <1>8, <1>9

LEMMA ContinueCounted ==
    ASSUME TypeOK, InPhase, InPhase', OneWorker, MaxAttempts > 1,
           NEW s \in Sessions, NEW h \in Complaints \ Owned, task[s].on = h,
           Counted(h), Continue(s)
    PROVE  Counted(h)'
<1>1. ~CompleteJob(s) /\ ~AcceptPhotoMismatch(s) /\ ~ReextractGrievance(s)
  BY CrewPhase
     DEF CompleteJob, AcceptPhotoMismatch, ReextractGrievance, Dispatching
<1>2. CASE RunSwept(s)
  <2>1. ~row[h].confirmed
    BY <1>2, CrewPhase DEF RunSwept, Waiting, Dispatching
  <2>2. row[h].attempts = 0 /\ UNCHANGED row
    BY <1>2, <2>1 DEF Counted, NoneYet, RunSwept
  <2> QED  BY <2>1, <2>2, EarlyCounted
<1> QED
  BY <1>1, <1>2, CheckCounted, FinalizeCounted, DispatchCounted DEF Continue

\* A task that begins is the first to work on a complaint, or a sweep's.
LEMMA BeginCounted ==
    ASSUME TypeOK, InPhase, InPhase', OneWorker, NEW s \in Sessions,
           NEW h \in Complaints \ Owned, Begin(s, h), Counted(h)
    PROVE  Counted(h)'
<1>1. UNCHANGED row /\ Crew(h)' = Crew(h) \cup {s} /\ s \notin Crew(h)
      /\ \A t \in Crew(h) : task'[t] = task[t]
  BY BeginEffect
<1>2. CASE ~row[h].confirmed
  BY <1>1, <1>2, EarlyCounted DEF Counted, NoneYet
<1>3. CASE row[h].confirmed
  <2>1. Settled(h)
    BY <1>3 DEF InPhase, Phase, Waiting, Asked, Answered, Dropped
  <2>2. /\ s \in Workers /\ task'[s].pc = "dispatch"
        /\ WindowDue(row[h]) \/ StuckDispatch(row[h])
    BY <2>1, BeginEffect DEF Settled, Filed, Unrun, Checked
  <2>3. row[h].attempts < MaxAttempts
    BY <2>2, GrievanceAssumption
       DEF WindowDue, StuckDispatch, Counted, NoneYet
  <2>4. row[h].status # "registered" /\ s \notin Requests
    BY <2>2, SessionKinds DEF WindowDue, StuckDispatch
  <2>5. NoneYet(h)' /\ InCap(h)'
    BY <1>1, <2>2 DEF Counted, NoneYet, InCap
  <2>6. RequestCounts(h)'
    BY <1>1, <2>4 DEF Counted, RequestCounts, AtMostOne
  <2>7. WorkerCounts(h)'
    BY <1>1, <2>2, <2>3 DEF Counted, WorkerCounts
  <2> QED  BY <2>5, <2>6, <2>7 DEF Counted
<1> QED  BY <1>2, <1>3

LEMMA OutsideCounted ==
    ASSUME TypeOK, InPhase, NEW h \in Complaints, Outside(h),
           NEW g \in Complaints \ Owned, Counted(g)
    PROVE  Counted(g)'
<1>1. Kept(g) /\ UNCHANGED task /\ row'[g].attempts = row[g].attempts
  BY OutsideEffect
<1>2. Crew(g)' = Crew(g)
  BY <1>1 DEF Crew
<1>3. NoneYet(g)' /\ InCap(g)'
  BY <1>1, <1>2 DEF Counted, NoneYet, InCap, Kept
<1>4. RequestCounts(g)' /\ WorkerCounts(g)'
  BY <1>1, <1>2 DEF Counted, RequestCounts, WorkerCounts, AtMostOne, Kept
<1> QED  BY <1>3, <1>4 DEF Counted

LEMMA AbortCounted ==
    ASSUME TypeOK, NEW s \in Sessions, Abort(s),
           NEW g \in Complaints \ Owned, Counted(g)
    PROVE  Counted(g)'
<1>1. UNCHANGED row /\ Crew(g)' = Crew(g) \ {s}
      /\ \A t \in Crew(g) \ {s} : task'[t] = task[t]
  BY AbortEffect
<1> QED  BY <1>1, LeaverCounted

LEMMA CountedInit == Init => AllCounted
<1> SUFFICES ASSUME Init, NEW g \in Complaints
             PROVE  Counted(g)
  BY DEF AllCounted
<1>1. row[g].status = "draft" /\ row[g].attempts = 0 /\ Crew(g) = {}
  BY GrievanceAssumption DEF Init, Draft, Crew, NoTask
<1> QED
  BY <1>1, GrievanceAssumption
     DEF Counted, NoneYet, InCap, RequestCounts, WorkerCounts, AtMostOne

LEMMA CountedNext ==
    ASSUME TypeOK, InPhase, InPhase', AllCounted, OneWorker, MaxAttempts > 1,
           [Next]_vars
    PROVE  AllCounted'
<1> SUFFICES ASSUME NEW g \in Complaints \ Owned
             PROVE  Counted(g)'
  BY DEF AllCounted
<1>0. Counted(g)
  BY DEF AllCounted
<1>1. ASSUME NEW h \in Complaints, Outside(h)
      PROVE  Counted(g)'
  BY <1>0, <1>1, OutsideCounted
<1>2. ASSUME NEW s \in Sessions, Continue(s)
      PROVE  Counted(g)'
  <2>1. CASE task[s].on = g
    BY <1>0, <1>2, <2>1, ContinueCounted
  <2>2. CASE task[s].on # g
    <3>1. task[s].on \in Complaints /\ Touches(s, task[s].on)
      BY <1>2, ContinueMoves, ContinueTouches
    <3> QED  BY <1>0, <2>2, <3>1, OthersKept, CountedKept
  <2> QED  BY <2>1, <2>2
<1>3. ASSUME NEW s \in Sessions, Abort(s)
      PROVE  Counted(g)'
  BY <1>0, <1>3, AbortCounted
<1>4. ASSUME NEW s \in Sessions, NEW h \in Complaints, Begin(s, h)
      PROVE  Counted(g)'
  <2>1. CASE h = g
    BY <1>0, <1>4, <2>1, BeginCounted
  <2>2. CASE h # g
    <3>1. Touches(s, h)
      BY <1>4, BeginTouches
    <3> QED  BY <1>0, <2>2, <3>1, OthersKept, CountedKept
  <2> QED  BY <2>1, <2>2
<1>5. ASSUME UNCHANGED vars
      PROVE  Counted(g)'
  <2>1. KeepsAll(g)
    BY <1>5 DEF vars, KeepsAll, Crew
  <2> QED  BY <1>0, <2>1, CountedKept
<1>6. ASSUME NEW h \in Complaints, ConversationExpires(h)
      PROVE  Counted(g)'
  <2>1. UNCHANGED <<row, task>> /\ Crew(g)' = Crew(g)
    BY <1>6 DEF ConversationExpires, Crew
  <2>2. NoneYet(g)' /\ InCap(g)'
    BY <1>0, <2>1 DEF Counted, NoneYet, InCap
  <2>3. RequestCounts(g)' /\ WorkerCounts(g)'
    BY <1>0, <2>1 DEF Counted, RequestCounts, WorkerCounts, AtMostOne
  <2> QED  BY <2>2, <2>3 DEF Counted
<1> QED  BY <1>1, <1>2, <1>3, <1>4, <1>5, <1>6 DEF Next, Outside

\* The inductive invariant of the counter.
CInv == PInv /\ AllCounted

LEMMA CountedHolds ==
    ASSUME ~RunsOverlap, MaxAttempts > 1
    PROVE  Spec => []CInv
<1>1. Init => CInv
  BY PInvInit, CountedInit DEF CInv
<1>2. CInv /\ [Next]_vars => CInv'
  <2> SUFFICES ASSUME CInv, [Next]_vars PROVE CInv'
    OBVIOUS
  <2>1. PInv' /\ TypeOK /\ InPhase /\ InPhase'
    <3>1. PInv'
      BY PInvNext DEF CInv
    <3> QED  BY <3>1 DEF CInv, PInv, IInv
  <2> QED  BY <2>1, CountedNext DEF CInv, RunsOverlap
<1> QED  BY <1>1, <1>2, PTL DEF Spec

\* Where runs do not overlap and the cap is two or more, whatever the requests,
\* the owned complaints beside it, refusals, lost answers and crashes: the
\* counter of a chat-only complaint never passes MAX_DISPATCH_ATTEMPTS
\* (dispatch_grievance).
THEOREM AttemptsStayCapped ==
    ASSUME ~RunsOverlap, MaxAttempts > 1
    PROVE  Spec => []AttemptsCapped
<1>1. CInv => AttemptsCapped
  BY DEF CInv, AllCounted, Counted, InCap, AttemptsCapped, ChatOnly
<1> QED  BY <1>1, CountedHolds, PTL

\* And as long as a chat-only complaint is "dispatching" it is one that
\* sweep_stuck_dispatching selects, after any crash.
THEOREM DispatchingStaysSwept ==
    ASSUME ~RunsOverlap, MaxAttempts > 1
    PROVE  Spec => []DispatchingIsSwept
<1>1. CInv => DispatchingIsSwept
  BY DEF CInv, AllCounted, Counted, InCap, DispatchingIsSwept, ChatOnly
<1> QED  BY <1>1, CountedHolds, PTL
=============================================================================
