------------------------------- MODULE Review -------------------------------
(***************************************************************************)
(* The routing decision on one web complaint, and everybody who rewrites   *)
(* it: the pipeline's first pass (run_pipeline), the citizen's correction  *)
(* (PATCH /review), the re-extraction a correction queues                  *)
(* (reextract_grievance) and an official's action (POST /actions).  The    *)
(* confirmation (finalize_grievance) and the dispatch it leads to          *)
(* (dispatch_grievance) may send the complaint to an official, whatever    *)
(* the policy said: they write review_status alone.                        *)
(*                                                                         *)
(* Each of them loads the row, computes what it writes from what it loaded *)
(* and from its input, and commits.  No row is locked and state_version,   *)
(* although every correction increments it, is compared by nobody.         *)
(* SQLAlchemy's UPDATE names only the columns whose value differs from the *)
(* one loaded; the JSON of routing_snapshot is one column.                 *)
(* Module Grievance has the status of the row and what follows from it.    *)
(***************************************************************************)
EXTENDS RoutingPolicy, Naturals

CONSTANTS
    Workers,     \* worker.py processes
    Patches,     \* PATCH /review requests, each made once
    Officials,   \* POST /actions requests, each made once
    Answers,     \* confirmations of the complaint, each made once
    Null,        \* SQL's NULL
    Scopes,      \* the asset scopes that occur
    Safeties,    \* the safety levels that occur
    Verbs,       \* the actions officials take
    MaxVersion,  \* bound: PATCH /review is not called on a later version
    MaxCrashes   \* bound: workers killed in a job, or jobs that raise

\* The review_status each action of an official sets.
VerdictOf == [approve |-> "approved", correct |-> "approved",
              redirect |-> "redirected", reject |-> "rejected",
              request_clarification |-> "awaiting_citizen"]

Sessions == Workers \cup Patches \cup Officials \cup Answers

\* The JSON of routing_snapshot.
Snapshot == [category_id : Canonical, dispatch_enabled : BOOLEAN,
             disposition : Disposition]

ASSUME ReviewAssumption ==
    /\ Workers \cap Patches = {}
    /\ Workers \cap Officials = {}
    /\ Patches \cap Officials = {}
    /\ Answers \cap (Workers \cup Patches \cup Officials) = {}
    /\ Scopes \subseteq Scope
    /\ Safeties \subseteq Safety
    /\ Verbs \subseteq DOMAIN VerdictOf
    /\ Null \notin Keys \cup Scope \cup Safety \cup Disposition \cup Snapshot
    /\ MaxVersion \in Nat
    /\ MaxCrashes \in Nat

VARIABLES
    row,      \* the decision columns of the committed row
    jobs,     \* pipeline jobs: 0 is "intelligence", k is "reextract:k"
    task,     \* what each session is doing
    torn,     \* ghost: a commit has met a row other than the one it loaded
    crashes

vars == <<row, jobs, task, torn, crashes>>

ReviewStatus == {"pending_official", "citizen_review", "approved",
                 "redirected", "rejected", "awaiting_citizen"}

\* known: location_address is set.  located: jurisdiction_id and issue_text
\* are, which only run_pipeline does.
Row == [category_id : Canonical \cup {Null},
        asset_scope : Scope \cup {Null},
        safety_level : Safety \cup {Null},
        known : BOOLEAN,
        located : BOOLEAN,
        disposition : Disposition \cup {Null},
        priority : {"normal", "priority", Null},
        review_status : ReviewStatus \cup {Null},
        routing_snapshot : Snapshot \cup {Null},
        state_version : Nat]

NewRow(known) ==
    [category_id |-> Null, asset_scope |-> Null, safety_level |-> Null,
     known |-> known, located |-> FALSE, disposition |-> Null,
     priority |-> Null, review_status |-> Null, routing_snapshot |-> Null,
     state_version |-> 0]

JobKeys == 0..(MaxVersion + 1)

JobStatus == {"none", "pending", "processing", "done"}

Step == {"idle", "extract", "reextract", "complete", "patch", "act",
         "finalize", "due", "dispatch", "over"}

Task == [pc : Step, seen : Row, job : JobKeys]

NoTask == [pc |-> "idle", seen |-> NewRow(FALSE), job |-> 0]

\* create_draft has submitted the complaint.
Init ==
    /\ \E known \in BOOLEAN : row = NewRow(known)
    /\ jobs = [k \in JobKeys |-> IF k = 0 THEN "pending" ELSE "none"]
    /\ task = [s \in Sessions |-> NoTask]
    /\ torn = FALSE
    /\ crashes = 0

-----------------------------------------------------------------------------
(***************************************************************************)
(* What a session writes.                                                  *)
(***************************************************************************)

Or(value, default) == IF value = Null THEN default ELSE value

\* A variant of Net below: an UPDATE that names every column it was given.
NetAll(now, seen, new) == new

\* The value of a column after the commit of a session that loaded `seen' and
\* set `new': a column set to the value it was loaded with is not updated.
Net(now, seen, new) == IF new = seen THEN now ELSE new

\* The UPDATE of session s.  The ghost notes whether it met the row it loaded.
Commit(s, new) ==
    LET seen == task[s].seen
    IN  /\ row' = [c \in DOMAIN row |-> Net(row[c], seen[c], new[c])]
        /\ torn' = (torn \/ row # seen)

SnapshotOf(category, live, disposition) ==
    [category_id |-> category, dispatch_enabled |-> live,
     disposition |-> disposition]

ReviewFor(policy) ==
    IF policy.needs_official_review THEN "pending_official"
                                    ELSE "citizen_review"

\* A variant of Decided below that forgets the snapshot.
DecidedOldSnapshot(r, category, live, policy, disposition, review) ==
    [r EXCEPT !.category_id = category,
              !.priority = policy.priority,
              !.disposition = disposition,
              !.review_status = review]

\* Row r with the columns a policy decides.
Decided(r, category, live, policy, disposition, review) ==
    [r EXCEPT !.category_id = category,
              !.priority = policy.priority,
              !.disposition = disposition,
              !.review_status = review,
              !.routing_snapshot = SnapshotOf(category, live, disposition)]

\* What extract_issue returns: parse_extraction lets only canonical
\* categories through, and the degraded result is "insufficient_information".
Extraction == [category_id : Canonical, asset_scope : Scopes,
               safety : Safeties]

\* Session s is past its commit and needs nothing of what it loaded.
Goto(s, pc) ==
    task' = [task EXCEPT ![s].pc = pc, ![s].seen = NoTask.seen]

-----------------------------------------------------------------------------
(***************************************************************************)
(* The worker.                                                             *)
(***************************************************************************)

StartJob(s, k) ==
    /\ s \in Workers /\ task[s].pc = "idle"
    /\ jobs[k] = "pending"
    /\ jobs' = [jobs EXCEPT ![k] = "processing"]
    /\ task' = [task EXCEPT ![s] =
                   [pc |-> IF k = 0 THEN "extract" ELSE "reextract",
                    seen |-> row, job |-> k]]
    /\ UNCHANGED <<row, torn, crashes>>

\* The geocoder may find an address.
RunPipeline(s) ==
    LET seen == task[s].seen
    IN  /\ task[s].pc = "extract"
        /\ \E e \in Extraction, found \in BOOLEAN :
              LET known == seen.known \/ found
                  policy == EvaluateRoutingPolicy(e.category_id, e.safety,
                                                  e.asset_scope, known)
              IN  Commit(s, [Decided(seen, e.category_id,
                                     ResolveRouteLive(e.category_id), policy,
                                     policy.disposition, ReviewFor(policy))
                             EXCEPT !.asset_scope = e.asset_scope,
                                    !.safety_level = e.safety,
                                    !.known = known,
                                    !.located = TRUE])
        /\ Goto(s, "complete")
        /\ UNCHANGED <<jobs, crashes>>

\* REVIEW_FALLBACK_CATEGORIES is the taxonomy's set of unclear ones.
Concrete(category) == category \notin Unclear \cup {Null}

\* The category is kept when it is concrete, the asset scope when it is known.
ReextractGrievance(s) ==
    LET seen == task[s].seen
    IN  /\ task[s].pc = "reextract"
        /\ seen.located
        /\ \E e \in Extraction :
              LET category == IF Concrete(seen.category_id)
                              THEN seen.category_id ELSE e.category_id
                  scope == IF seen.asset_scope \in {"public", "private"}
                           THEN seen.asset_scope ELSE e.asset_scope
                  policy == EvaluateRoutingPolicy(category, e.safety, scope,
                                                  seen.known)
              IN  Commit(s, [Decided(seen, category,
                                     ResolveRouteLive(category), policy,
                                     policy.disposition, ReviewFor(policy))
                             EXCEPT !.asset_scope = scope,
                                    !.safety_level = e.safety,
                                    !.state_version = @ + 1])
        /\ Goto(s, "complete")
        /\ UNCHANGED <<jobs, crashes>>

\* No text to extract from, or every provider failed: nothing is written.
ReextractNothing(s) ==
    /\ task[s].pc = "reextract"
    /\ Goto(s, "complete")
    /\ UNCHANGED <<row, jobs, torn, crashes>>

\* complete_pipeline_job, in a transaction of its own.
CompleteJob(s) ==
    /\ task[s].pc = "complete"
    /\ jobs' = [jobs EXCEPT ![task[s].job] = "done"]
    /\ task' = [task EXCEPT ![s] = NoTask]
    /\ UNCHANGED <<row, torn, crashes>>

\* The worker dies, or the job raises: it will be leased again.
Abort(s) ==
    /\ task[s].pc \in {"extract", "reextract", "complete"}
    /\ crashes < MaxCrashes
    /\ crashes' = crashes + 1
    /\ jobs' = [jobs EXCEPT ![task[s].job] = "pending"]
    /\ task' = [task EXCEPT ![s] = NoTask]
    /\ UNCHANGED <<row, torn>>

-----------------------------------------------------------------------------
(***************************************************************************)
(* The citizen.                                                            *)
(***************************************************************************)

\* The handler loads the complaint.
BeginPatch(s) ==
    /\ s \in Patches /\ task[s].pc = "idle"
    /\ row.state_version < MaxVersion
    /\ task' = [task EXCEPT ![s] = [pc |-> "patch", seen |-> row, job |-> 0]]
    /\ UNCHANGED <<row, jobs, torn, crashes>>

\* enqueue_pipeline_job: the key is unique, a second insert does nothing.
Enqueue(k) ==
    jobs' = [jobs EXCEPT ![k] = IF @ = "none" THEN "pending" ELSE @]

\* What the client asks for: a category, a scope, or neither, and whether it
\* answers the clarification question.  An invalid scope is refused.
Patch == [category_id : Keys, asset_scope : Scopes \cup {Null},
          clarified : BOOLEAN]

\* The category key the review is about; without one the answer is a 422.
PatchedCategory(s, body) ==
    CanonicalCategoryKey(IF body.category_id # NoCategory
                         THEN body.category_id
                         ELSE task[s].seen.category_id)

\* A variant of RecheckKey below: a suffix without the version.
RecheckKeyFixed(version) == 1

\* The key of the re-extraction that a correction of a row with this version
\* queues: one more than the version the object has by then.
RecheckKey(version) == version + 2

UpdateReview(s, body) ==
    LET seen == task[s].seen
        category == PatchedCategory(s, body)
        scope == Or(body.asset_scope, Or(seen.asset_scope, "unknown"))
        policy == EvaluateRoutingPolicy(category, Or(seen.safety_level, "none"),
                                        scope, seen.known)
    IN  /\ task[s].pc = "patch"
        /\ category # NoCategory
        /\ Commit(s, [Decided(seen, category, BundledLive, policy,
                              policy.disposition, ReviewFor(policy))
                      EXCEPT !.asset_scope = scope,
                             !.state_version = @ + 1])
        /\ IF body.category_id # NoCategory \/ body.clarified
           THEN Enqueue(RecheckKey(seen.state_version))
           ELSE UNCHANGED jobs
        /\ Goto(s, "over")
        /\ UNCHANGED crashes

RejectReview(s, body) ==
    /\ task[s].pc = "patch"
    /\ PatchedCategory(s, body) = NoCategory
    /\ Goto(s, "over")
    /\ UNCHANGED <<row, jobs, torn, crashes>>

-----------------------------------------------------------------------------
(***************************************************************************)
(* Officials.                                                              *)
(***************************************************************************)

\* official_can_access: jurisdiction_id is set only once the pipeline has run.
BeginAction(s) ==
    /\ s \in Officials /\ task[s].pc = "idle"
    /\ row.located
    /\ task' = [task EXCEPT ![s] = [pc |-> "act", seen |-> row, job |-> 0]]
    /\ UNCHANGED <<row, jobs, torn, crashes>>

Action == [action : Verbs, category_id : Keys,
           asset_scope : Scopes \cup {Null}, safety_level : Safeties \cup {Null}]

OfficialAction(s, body) ==
    LET seen == task[s].seen
        category == PatchedCategory(s, body)
        scope == Or(body.asset_scope, Or(seen.asset_scope, "unknown"))
        safety == Or(body.safety_level, Or(seen.safety_level, "none"))
        policy == EvaluateRoutingPolicy(category, safety, scope, seen.known)
        disposition == IF body.action = "redirect" THEN "redirect"
                                                   ELSE policy.disposition
    IN  /\ task[s].pc = "act"
        /\ category # NoCategory
        /\ Commit(s, [Decided(seen, category, BundledLive, policy,
                              disposition, VerdictOf[body.action])
                      EXCEPT !.asset_scope = scope,
                             !.safety_level = safety,
                             !.state_version = @ + 1])
        /\ Goto(s, "over")
        /\ UNCHANGED <<jobs, crashes>>

RejectAction(s, body) ==
    /\ task[s].pc = "act"
    /\ PatchedCategory(s, body) = NoCategory
    /\ Goto(s, "over")
    /\ UNCHANGED <<row, jobs, torn, crashes>>

-----------------------------------------------------------------------------
(***************************************************************************)
(* Confirmation and dispatch.                                              *)
(***************************************************************************)

\* The complaint is confirmed.  A photo check makes it confirmable whether or
\* not the first pass has run.
BeginFinalize(s) ==
    /\ s \in Answers /\ task[s].pc = "idle"
    /\ task' = [task EXCEPT ![s] = [pc |-> "finalize", seen |-> row, job |-> 0]]
    /\ UNCHANGED <<row, jobs, torn, crashes>>

\* Session s sends the complaint to the officials' queue.
SendToOfficial(s) ==
    /\ Commit(s, [task[s].seen EXCEPT !.review_status = "pending_official"])
    /\ Goto(s, "over")
    /\ UNCHANGED <<jobs, crashes>>

\* Held by its review status, which is left as it is, or by its disposition.
HoldGrievance(s) ==
    /\ task[s].pc = "finalize"
    /\ \/ task[s].seen.review_status = "pending_official"
       \/ task[s].seen.disposition \in HeldDispositions
    /\ SendToOfficial(s)

\* Attached to another complaint, or to be dispatched: at once, or by a sweep.
FinalizeGrievance(s) ==
    /\ task[s].pc = "finalize"
    /\ task[s].seen.review_status # "pending_official"
    /\ task[s].seen.disposition \notin HeldDispositions
    /\ \E pc \in {"due", "over"} : Goto(s, pc)
    /\ UNCHANGED <<row, jobs, torn, crashes>>

\* dispatch_grievance loads the complaint anew.
BeginDispatch(s) ==
    /\ task[s].pc = "due"
    /\ task' = [task EXCEPT ![s] = [pc |-> "dispatch", seen |-> row, job |-> 0]]
    /\ UNCHANGED <<row, jobs, torn, crashes>>

\* A snapshot that is absent refuses nothing.
Refused(r) ==
    r.routing_snapshot # Null /\ ~r.routing_snapshot.dispatch_enabled

RefuseDispatch(s) ==
    /\ task[s].pc = "dispatch"
    /\ Refused(task[s].seen)
    /\ SendToOfficial(s)

\* Handed over, or to be tried again by a sweep.
Dispatch(s) ==
    /\ task[s].pc = "dispatch"
    /\ ~Refused(task[s].seen)
    /\ \E pc \in {"due", "over"} : Goto(s, pc)
    /\ UNCHANGED <<row, jobs, torn, crashes>>

-----------------------------------------------------------------------------

Work(s) == \/ RunPipeline(s) \/ ReextractGrievance(s) \/ ReextractNothing(s)
           \/ CompleteJob(s)

Serve(s) ==
    \/ \E body \in Patch : UpdateReview(s, body) \/ RejectReview(s, body)
    \/ \E body \in Action : OfficialAction(s, body) \/ RejectAction(s, body)

Settle(s) ==
    \/ BeginFinalize(s) \/ HoldGrievance(s) \/ FinalizeGrievance(s)
    \/ BeginDispatch(s) \/ RefuseDispatch(s) \/ Dispatch(s)

Next ==
    \/ \E s \in Workers, k \in JobKeys : StartJob(s, k)
    \/ \E s \in Workers : Work(s) \/ Abort(s)
    \/ \E s \in Patches : BeginPatch(s)
    \/ \E s \in Officials : BeginAction(s)
    \/ \E s \in Patches \cup Officials : Serve(s)
    \/ \E s \in Answers : Settle(s)

Spec == Init /\ [][Next]_vars

-----------------------------------------------------------------------------
(***************************************************************************)
(* Properties.                                                             *)
(***************************************************************************)

TypeOK ==
    /\ row \in Row
    /\ jobs \in [JobKeys -> JobStatus]
    /\ task \in [Sessions -> Task]
    /\ torn \in BOOLEAN
    /\ crashes \in 0..MaxCrashes

\* The columns of r are one decision: what the policy says of r's own
\* category, scope and safety, up to an official's redirection.  A complaint
\* the citizen reviews needs no official; one that waits for an official does,
\* or is held by its disposition, or its snapshot enables no dispatch.
Coherent(r) ==
    LET policy == EvaluateRoutingPolicy(r.category_id,
                                        Or(r.safety_level, "none"),
                                        Or(r.asset_scope, "unknown"), r.known)
    IN  /\ r.priority = policy.priority
        /\ \/ r.disposition = policy.disposition
           \/ /\ r.review_status \in {"redirected", "pending_official"}
              /\ r.disposition = "redirect"
        /\ r.review_status = "citizen_review" => ~policy.needs_official_review
        /\ r.review_status = "pending_official" =>
              \/ policy.needs_official_review
              \/ r.disposition \in HeldDispositions
              \/ ~r.routing_snapshot.dispatch_enabled
        /\ r.routing_snapshot # Null
        /\ r.routing_snapshot.category_id = r.category_id
        /\ r.routing_snapshot.disposition = r.disposition

\* Whoever wrote last - the first pass, its retry, a correction, a
\* re-extraction that kept or replaced category and scope, an official, a
\* confirmation or a refused dispatch - the row holds one decision, with a
\* reason for whoever has it under review, as long as no two of them overlapped
\* (core.py, web/api.py and officials.py rewrite all decision columns, except
\* finalize_grievance and dispatch_grievance, which only queue the complaint).
CoherentUnlessStale ==
    ~torn /\ row.category_id # Null => Coherent(row)

\* As long as no two writers overlapped, the re-extraction the next correction
\* asks for is a job nobody queued before, whoever else has moved the version
\* on (update_review's key_suffix; enqueue_pipeline_job drops a known key).
NextKeyFree ==
    ~torn /\ row.state_version < MaxVersion =>
        jobs[RecheckKey(row.state_version)] = "none"

\* However the writers overlap, the snapshot a dispatch reads enables it only
\* with the category of a reviewed route (routing_snapshot is one column).
SnapshotWhole ==
    row.routing_snapshot # Null =>
        (row.routing_snapshot.dispatch_enabled
            => row.routing_snapshot.category_id \in Enabled)

\* Session s commits a re-extraction.
Reextracted(s) == task[s].pc = "reextract" /\ task'[s].pc = "complete"

\* A re-extraction that loaded a concrete category leaves the category alone,
\* even one that was chosen since (core.py: "the citizen's choice is final").
SeenChoiceKept ==
    [][\A s \in Workers :
          Reextracted(s) /\ Concrete(task[s].seen.category_id)
              => row'.category_id = row.category_id]_vars

\* What finalize_grievance and dispatch_grievance ask of the row.
Dispatchable(r) ==
    /\ r.routing_snapshot # Null
    /\ r.routing_snapshot.dispatch_enabled
    /\ r.disposition \in Automatic
    /\ r.review_status # "pending_official"

\* A complaint that would be dispatched is about a category whose route was
\* reviewed (routing.py: "a jurisdiction only dispatches once someone has
\* written a row saying it may").
LiveRouteIsReviewed == Dispatchable(row) => row.category_id \in Enabled

\* A re-extraction never changes a concrete category (core.py: "a concrete
\* citizen-chosen category is never overridden").
ChoiceKept ==
    [][\A s \in Workers :
          Reextracted(s) /\ Concrete(row.category_id)
              => row'.category_id = row.category_id]_vars
=============================================================================
