---------------------------- MODULE ReviewProofs ----------------------------
(***************************************************************************)
(* What holds of the routing policy for every taxonomy, and of the         *)
(* decision columns of a complaint for any number of workers, corrections, *)
(* officials and confirmations.                                            *)
(***************************************************************************)
EXTENDS Review, TLAPS

-----------------------------------------------------------------------------
(***************************************************************************)
(* The policy.                                                             *)
(***************************************************************************)

\* Every key, whoever sends it, is taken for a canonical one or for none
\* (canonical_category_key returns None for what it does not know).
LEMMA CanonicalType ==
    ASSUME NEW key
    PROVE  CanonicalCategoryKey(key) \in Canonical \cup {NoCategory}
BY TaxonomyAssumption DEF CanonicalCategoryKey

\* A canonical key stands for itself.
LEMMA CanonicalStays ==
    ASSUME NEW key \in Canonical
    PROVE  CanonicalCategoryKey(key) = key
BY TaxonomyAssumption DEF CanonicalCategoryKey

\* A policy decision is a disposition, a priority and two flags.
LEMMA PolicyType ==
    ASSUME NEW key, NEW safety, NEW scope, NEW known
    PROVE  /\ EvaluateRoutingPolicy(key, safety, scope, known).disposition
                  \in Disposition
           /\ EvaluateRoutingPolicy(key, safety, scope, known).priority
                  \in {"normal", "priority"}
           /\ EvaluateRoutingPolicy(key, safety, scope, known)
                  .needs_official_review \in BOOLEAN
BY DEF EvaluateRoutingPolicy, RoutingDecision, Hold, Ticket, Disposition,
       Automatic, HeldDispositions, DefaultPriority

\* The policy asks for an official exactly where finalize_grievance holds the
\* complaint by its disposition: nothing a reviewer was asked about goes out
\* by itself, and nothing waits for a reviewer nobody asked.
THEOREM HeldIffReviewed ==
    ASSUME NEW key, NEW safety, NEW scope, NEW known
    PROVE  EvaluateRoutingPolicy(key, safety, scope, known)
               .needs_official_review
           <=> EvaluateRoutingPolicy(key, safety, scope, known).disposition
                   \in HeldDispositions
BY DEF EvaluateRoutingPolicy, RoutingDecision, Hold, Ticket, HeldDispositions

\* An immediate danger, told by the safety level or by the category, is never
\* left to the automatic path, wherever it is and whoever owns the asset.
THEOREM EmergencyIsHeld ==
    ASSUME NEW key, NEW safety, NEW scope, NEW known,
           safety = "immediate" \/ CanonicalCategoryKey(key) \in Immediate
    PROVE  /\ EvaluateRoutingPolicy(key, safety, scope, known).disposition
                  = "emergency_redirect"
           /\ EvaluateRoutingPolicy(key, safety, scope, known).priority
                  = "priority"
BY DEF EvaluateRoutingPolicy, RoutingDecision, Hold, Emergency

\* Only a located complaint about a service of the taxonomy, not private and
\* not another authority's, takes the automatic path.
THEOREM AutomaticIsMunicipal ==
    ASSUME NEW key, NEW safety, NEW scope, NEW known \in BOOLEAN,
           EvaluateRoutingPolicy(key, safety, scope, known).disposition
               \in Automatic
    PROVE  /\ known /\ scope # "private" /\ safety # "immediate"
           /\ CanonicalCategoryKey(key)
                  \in Canonical \ (Unclear \cup External \cup Immediate)
BY CanonicalType
   DEF EvaluateRoutingPolicy, RoutingDecision, Hold, Ticket, Emergency,
       Automatic

\* dedup_eligible says no more than disposition and priority do, which is why
\* finalize_grievance can do without it.
THEOREM DedupEligible ==
    ASSUME NEW key, NEW safety, NEW scope, NEW known
    PROVE  EvaluateRoutingPolicy(key, safety, scope, known).dedup_eligible
           <=> /\ EvaluateRoutingPolicy(key, safety, scope, known).disposition
                      \in Automatic
               /\ EvaluateRoutingPolicy(key, safety, scope, known).priority
                      = "normal"
BY DEF EvaluateRoutingPolicy, RoutingDecision, Hold, Ticket, Automatic,
       DefaultPriority

\* The branch for a category without a route is never taken with the bundled
\* profile, which has one route per category.
THEOREM EveryCategoryRouted ==
    ASSUME NEW key, CanonicalCategoryKey(key) # NoCategory
    PROVE  RouteForCategory(CanonicalCategoryKey(key))
<1>1. CanonicalCategoryKey(key) \in Canonical
  BY CanonicalType
<1> QED
  BY <1>1, CanonicalStays DEF RouteForCategory, Bundled

-----------------------------------------------------------------------------
(***************************************************************************)
(* What a commit leaves behind.                                            *)
(***************************************************************************)

\* The row a session computes.
LEMMA DecidedType ==
    ASSUME NEW r \in Row, NEW category \in Canonical, NEW live \in BOOLEAN,
           NEW key, NEW safety, NEW scope, NEW known,
           NEW policy,
           policy = EvaluateRoutingPolicy(key, safety, scope, known),
           NEW disposition \in Disposition, NEW review \in ReviewStatus
    PROVE  Decided(r, category, live, policy, disposition, review) \in Row
<1>1. policy.priority \in {"normal", "priority"}
  BY PolicyType
<1>2. SnapshotOf(category, live, disposition) \in Snapshot
  BY DEF SnapshotOf, Snapshot
<1> QED
  BY <1>1, <1>2 DEF Decided, Row

\* A merge of columns of rows is a row.
LEMMA MergeType ==
    ASSUME NEW now \in Row, NEW seen \in Row, NEW new \in Row
    PROVE  [c \in DOMAIN now |-> Net(now[c], seen[c], new[c])] \in Row
<1> DEFINE m == [c \in DOMAIN now |-> Net(now[c], seen[c], new[c])]
<1>1. DOMAIN now = {"category_id", "asset_scope", "safety_level", "known",
                    "located", "disposition", "priority", "review_status",
                    "routing_snapshot", "state_version"}
  BY DEF Row
<1>2. \A c \in DOMAIN now : m[c] = now[c] \/ m[c] = new[c]
  BY Zenon DEF Net
<1>3. m.category_id \in Canonical \cup {Null}
  BY <1>1, <1>2 DEF Row
<1>4. m.asset_scope \in Scope \cup {Null}
  BY <1>1, <1>2 DEF Row
<1>5. m.safety_level \in Safety \cup {Null}
  BY <1>1, <1>2 DEF Row
<1>6. m.known \in BOOLEAN /\ m.located \in BOOLEAN
  <2>1. /\ now.known \in BOOLEAN /\ now.located \in BOOLEAN
        /\ new.known \in BOOLEAN /\ new.located \in BOOLEAN
    BY DEF Row
  <2> QED  BY <1>1, <1>2, <2>1
<1>7. m.disposition \in Disposition \cup {Null}
  BY <1>1, <1>2 DEF Row
<1>8. m.priority \in {"normal", "priority", Null}
  BY <1>1, <1>2 DEF Row
<1>9. m.review_status \in ReviewStatus \cup {Null}
  BY <1>1, <1>2 DEF Row
<1>10. m.routing_snapshot \in Snapshot \cup {Null}
  BY <1>1, <1>2 DEF Row
<1>11. m.state_version \in Nat
  BY <1>1, <1>2 DEF Row
<1> HIDE DEF m
<1>12. m = [category_id |-> m.category_id, asset_scope |-> m.asset_scope,
            safety_level |-> m.safety_level, known |-> m.known,
            located |-> m.located, disposition |-> m.disposition,
            priority |-> m.priority, review_status |-> m.review_status,
            routing_snapshot |-> m.routing_snapshot,
            state_version |-> m.state_version]
  BY <1>1 DEF m
<1> QED
  BY <1>3, <1>4, <1>5, <1>6, <1>7, <1>8, <1>9, <1>10, <1>11, <1>12 DEF Row, m

\* A session that loaded the row as it is leaves the row it computed.
LEMMA MergeWhole ==
    ASSUME NEW now \in Row, NEW new \in Row
    PROVE  [c \in DOMAIN now |-> Net(now[c], now[c], new[c])] = new
BY DEF Net, Row

\* The snapshot is one of the two.
LEMMA MergeSnapshot ==
    ASSUME NEW now \in Row, NEW seen \in Row, NEW new \in Row
    PROVE  [c \in DOMAIN now |-> Net(now[c], seen[c], new[c])].routing_snapshot
               \in {now.routing_snapshot, new.routing_snapshot}
<1>1. "routing_snapshot" \in DOMAIN now
  BY DEF Row
<1> QED
  BY <1>1, Zenon DEF Net

-----------------------------------------------------------------------------
(***************************************************************************)
(* The invariant.  What a session has loaded may be stale, so nothing is   *)
(* asked of it but its type: coherence comes from each writer computing    *)
(* all its columns from one decision, or queueing the row for an official  *)
(* for a reason it loaded, and from a commit that meets the row it loaded  *)
(* changing all of them.                                                   *)
(***************************************************************************)

RowInv == row \in Row /\ torn \in BOOLEAN /\ CoherentUnlessStale /\ SnapshotWhole

RestInv == /\ jobs \in [JobKeys -> JobStatus]
           /\ task \in [Sessions -> Task]
           /\ crashes \in 0..MaxCrashes

Inv == RowInv /\ RestInv

\* A row computed from one decision.
Written(new) ==
    /\ new \in Row
    /\ Coherent(new)
    /\ new.routing_snapshot.dispatch_enabled
           => new.routing_snapshot.category_id \in Enabled

LEMMA OneDecision ==
    ASSUME NEW new \in Row, NEW category \in Canonical, NEW live \in BOOLEAN,
           live => category \in Enabled,
           NEW safety \in Safety, NEW scope \in Scope,
           NEW disposition, NEW review, NEW policy,
           policy = EvaluateRoutingPolicy(category, safety, scope, new.known),
           \/ disposition = policy.disposition
           \/ review = "redirected" /\ disposition = "redirect",
           review \in {"citizen_review", "pending_official"}
               => review = ReviewFor(policy),
           new.category_id = category, new.priority = policy.priority,
           new.disposition = disposition, new.review_status = review,
           new.routing_snapshot = SnapshotOf(category, live, disposition),
           Or(new.safety_level, "none") = safety,
           new.asset_scope = scope
    PROVE  Written(new)
<1>1. Or(new.asset_scope, "unknown") = scope
  BY ReviewAssumption DEF Or
<1>2. policy = EvaluateRoutingPolicy(new.category_id,
                   Or(new.safety_level, "none"),
                   Or(new.asset_scope, "unknown"), new.known)
  BY <1>1
<1>3. /\ new.routing_snapshot.category_id = category
      /\ new.routing_snapshot.disposition = disposition
      /\ new.routing_snapshot.dispatch_enabled = live
  BY DEF SnapshotOf
<1>4. disposition \in Disposition
  BY PolicyType DEF Disposition, HeldDispositions
<1>5. new.routing_snapshot \in Snapshot
  BY <1>4 DEF SnapshotOf, Snapshot
<1>6. Coherent(new)
  <2>1. new.routing_snapshot # Null
    BY <1>5, ReviewAssumption
  <2>2. /\ review = "citizen_review" => ~policy.needs_official_review
        /\ review = "pending_official" => policy.needs_official_review
    BY DEF ReviewFor
  <2> QED
    BY <1>2, <1>3, <2>1, <2>2 DEF Coherent
<1> QED
  BY <1>3, <1>6 DEF Written

LEMMA CommitOK ==
    ASSUME Inv, NEW s \in Sessions, NEW new, Written(new), Commit(s, new)
    PROVE  RowInv'
<1> DEFINE seen == task[s].seen
<1>1. row \in Row /\ seen \in Row /\ new \in Row
  BY DEF Inv, RowInv, RestInv, Task, Written
<1>2. row' = [c \in DOMAIN row |-> Net(row[c], seen[c], new[c])]
  BY DEF Commit
<1>3. torn' = (torn \/ row # seen)
  BY DEF Commit
<1>4. row' \in Row
  BY <1>1, <1>2, MergeType
<1>5. torn' \in BOOLEAN
  BY <1>3
<1>6. CoherentUnlessStale'
  <2> SUFFICES ASSUME ~torn' PROVE Coherent(row')
    BY DEF CoherentUnlessStale, Coherent
  <2>1. row = seen
    BY <1>3
  <2>2. row' = new
    BY <1>1, <1>2, <2>1, MergeWhole
  <2> QED
    BY <2>2 DEF Written
<1>7. SnapshotWhole'
  <2>1. row'.routing_snapshot \in {row.routing_snapshot, new.routing_snapshot}
    BY <1>1, <1>2, MergeSnapshot
  <2> QED
    BY <2>1 DEF SnapshotWhole, Written, Inv, RowInv
<1> QED
  BY <1>4, <1>5, <1>6, <1>7 DEF RowInv

LEMMA InitOK == Init => Inv
<1> SUFFICES ASSUME Init PROVE Inv
  OBVIOUS
<1>1. \A known \in BOOLEAN : NewRow(known) \in Row
  BY DEF NewRow, Row
<1>2. PICK known \in BOOLEAN : row = NewRow(known)
  BY DEF Init
<1>3. RowInv
  BY <1>1, <1>2
     DEF RowInv, Init, CoherentUnlessStale, SnapshotWhole, NewRow
<1>4. 0 \in JobKeys
  BY ReviewAssumption DEF JobKeys
<1>5. RestInv
  <2>1. jobs \in [JobKeys -> JobStatus]
    BY DEF Init, JobStatus
  <2>2. NoTask \in Task
    BY <1>1, <1>4 DEF NoTask, Task, Step
  <2>3. crashes \in 0..MaxCrashes
    BY ReviewAssumption DEF Init
  <2> QED
    BY <2>1, <2>2, <2>3 DEF RestInv, Init
<1> QED
  BY <1>3, <1>5 DEF Inv

\* The part of the state that is not the row.
LEMMA GotoOK ==
    ASSUME Inv, NEW s \in Sessions, NEW pc \in Step, Goto(s, pc)
    PROVE  task' \in [Sessions -> Task]
<1>1. NoTask.seen \in Row
  BY DEF NoTask, NewRow, Row
<1> QED
  BY <1>1 DEF Inv, RestInv, Goto, Task

LEMMA LoadOK ==
    ASSUME Inv, NEW s \in Sessions, NEW pc \in Step, NEW k \in JobKeys,
           task' = [task EXCEPT ![s] = [pc |-> pc, seen |-> row, job |-> k]]
    PROVE  task' \in [Sessions -> Task]
BY DEF Inv, RowInv, RestInv, Task

LEMMA FreeOK ==
    ASSUME Inv, NEW s \in Sessions, task' = [task EXCEPT ![s] = NoTask]
    PROVE  task' \in [Sessions -> Task]
<1>1. NoTask \in Task
  BY ReviewAssumption DEF NoTask, NewRow, Row, Task, Step, JobKeys
<1> QED
  BY <1>1 DEF Inv, RestInv

LEMMA SameRowOK ==
    ASSUME Inv, UNCHANGED <<row, torn>>
    PROVE  RowInv'
BY DEF Inv, RowInv, CoherentUnlessStale, Coherent, SnapshotWhole

-----------------------------------------------------------------------------
(***************************************************************************)
(* The four writers of a decision, and what queues it.                     *)
(***************************************************************************)

LEMMA OrType ==
    ASSUME NEW S, NEW value \in S \cup {Null}, NEW default \in S
    PROVE  Or(value, default) \in S
BY DEF Or

LEMMA SeenIsRow ==
    ASSUME Inv, NEW s \in Sessions
    PROVE  task[s].seen \in Row
BY DEF Inv, RestInv, Task

LEMMA RunPipelineOK ==
    ASSUME Inv, NEW s \in Sessions, RunPipeline(s)
    PROVE  RowInv'
<1> DEFINE seen == task[s].seen
<1>1. PICK e \in Extraction, found \in BOOLEAN :
         LET known == seen.known \/ found
             policy == EvaluateRoutingPolicy(e.category_id, e.safety,
                                             e.asset_scope, known)
         IN  Commit(s, [Decided(seen, e.category_id,
                                ResolveRouteLive(e.category_id), policy,
                                policy.disposition, ReviewFor(policy))
                        EXCEPT !.asset_scope = e.asset_scope,
                               !.safety_level = e.safety,
                               !.known = known,
                               !.located = TRUE])
  BY DEF RunPipeline
<1> DEFINE known == seen.known \/ found
           policy == EvaluateRoutingPolicy(e.category_id, e.safety,
                                           e.asset_scope, known)
           live == ResolveRouteLive(e.category_id)
           decided == Decided(seen, e.category_id, live, policy,
                              policy.disposition, ReviewFor(policy))
           new == [decided EXCEPT !.asset_scope = e.asset_scope,
                                  !.safety_level = e.safety,
                                  !.known = known,
                                  !.located = TRUE]
<1>2. /\ e.category_id \in Canonical
      /\ e.asset_scope \in Scope
      /\ e.safety \in Safety
  BY ReviewAssumption DEF Extraction
<1>3. live \in BOOLEAN /\ (live => e.category_id \in Enabled)
  BY <1>2, CanonicalStays DEF ResolveRouteLive
<1>4. policy.disposition \in Disposition
  BY PolicyType
<1>5. ReviewFor(policy) \in ReviewStatus
  BY DEF ReviewFor, ReviewStatus
<1>6. seen \in Row
  BY SeenIsRow
<1>7. decided \in Row
  <2> HIDE DEF live
  <2> QED  BY <1>2, <1>3, <1>4, <1>5, <1>6, DecidedType
<1>8. known \in BOOLEAN
  BY <1>6 DEF Row
<1>9. new \in Row
  <2> HIDE DEF decided, known
  <2> QED  BY <1>2, <1>7, <1>8 DEF Row
<1>10. /\ new.category_id = e.category_id
       /\ new.priority = policy.priority
       /\ new.disposition = policy.disposition
       /\ new.review_status = ReviewFor(policy)
       /\ new.routing_snapshot
             = SnapshotOf(e.category_id, live, policy.disposition)
       /\ new.asset_scope = e.asset_scope
       /\ new.safety_level = e.safety
       /\ new.known = known
  <2> HIDE DEF policy, live, known
  <2> QED  BY <1>6 DEF Decided, Row
<1>11. Or(new.safety_level, "none") = e.safety
  BY <1>2, <1>10, ReviewAssumption DEF Or
<1>12. Written(new)
  <2> HIDE DEF new, live, known
  <2> QED  BY <1>2, <1>3, <1>9, <1>10, <1>11, OneDecision
<1> QED
  BY <1>1, <1>12, CommitOK

\* A row whose scope, safety level and version are written.
LEMMA BumpType ==
    ASSUME NEW r \in Row, NEW scope \in Scope, NEW level \in Safety \cup {Null}
    PROVE  [r EXCEPT !.asset_scope = scope, !.safety_level = level,
                     !.state_version = @ + 1] \in Row
<1>1. r.state_version + 1 \in Nat
  BY DEF Row
<1>2. [r EXCEPT !.asset_scope = scope, !.safety_level = level,
                !.state_version = @ + 1]
         = [r EXCEPT !.asset_scope = scope, !.safety_level = level,
                     !.state_version = r.state_version + 1]
  OBVIOUS
<1> QED
  BY <1>1, <1>2 DEF Row

LEMMA ReextractOK ==
    ASSUME Inv, NEW s \in Sessions, ReextractGrievance(s)
    PROVE  RowInv'
<1> DEFINE seen == task[s].seen
           categoryOf(e) == IF Concrete(seen.category_id)
                            THEN seen.category_id ELSE e.category_id
           scopeOf(e) == IF seen.asset_scope \in {"public", "private"}
                         THEN seen.asset_scope ELSE e.asset_scope
           policyOf(e) == EvaluateRoutingPolicy(categoryOf(e), e.safety,
                                                scopeOf(e), seen.known)
           liveOf(e) == ResolveRouteLive(categoryOf(e))
           decidedOf(e) == Decided(seen, categoryOf(e), liveOf(e), policyOf(e),
                                   policyOf(e).disposition,
                                   ReviewFor(policyOf(e)))
           newOf(e) == [decidedOf(e) EXCEPT !.asset_scope = scopeOf(e),
                                            !.safety_level = e.safety,
                                            !.state_version = @ + 1]
<1>1. PICK e \in Extraction : Commit(s, newOf(e))
  BY DEF ReextractGrievance
<1> DEFINE category == categoryOf(e)
           scope == scopeOf(e)
           policy == policyOf(e)
           live == liveOf(e)
           decided == decidedOf(e)
           new == newOf(e)
<1>2. seen \in Row
  BY SeenIsRow
<1>3. category \in Canonical /\ scope \in Scope /\ e.safety \in Safety
  BY <1>2, ReviewAssumption DEF Extraction, Concrete, Row, Scope
<1>4. live \in BOOLEAN /\ (live => category \in Enabled)
  <2> HIDE DEF category
  <2> QED  BY <1>3, CanonicalStays DEF ResolveRouteLive, category
<1>5. policy.disposition \in Disposition
  BY PolicyType
<1>6. ReviewFor(policy) \in ReviewStatus
  BY DEF ReviewFor, ReviewStatus
<1>7. decided \in Row
  BY <1>2, <1>3, <1>4, <1>5, <1>6, DecidedType
<1>8. new \in Row
  <2> HIDE DEF decidedOf, scopeOf
  <2> QED  BY <1>3, <1>7, BumpType
<1>9. /\ new.category_id = category
      /\ new.priority = policy.priority
      /\ new.disposition = policy.disposition
      /\ new.review_status = ReviewFor(policy)
      /\ new.routing_snapshot = SnapshotOf(category, live, policy.disposition)
      /\ new.asset_scope = scope
      /\ new.safety_level = e.safety
      /\ new.known = seen.known
  <2> HIDE DEF policyOf, liveOf, categoryOf, scopeOf
  <2> QED  BY <1>2 DEF Decided, Row
<1>10. Or(new.safety_level, "none") = e.safety
  BY <1>3, <1>9, ReviewAssumption DEF Or
<1>11. policy = EvaluateRoutingPolicy(category, e.safety, scope, new.known)
  BY <1>9
<1>12. Written(new)
  <2> HIDE DEF new, liveOf, categoryOf, scopeOf, policyOf
  <2> QED  BY <1>3, <1>4, <1>8, <1>9, <1>10, <1>11, OneDecision
<1> QED
  BY <1>1, <1>12, CommitOK

\* `new' is what a correction or an official's action makes of `seen'.
Rewrites(new, seen, category, policy, disposition, review, scope, column) ==
    new = [Decided(seen, category, BundledLive, policy, disposition, review)
              EXCEPT !.asset_scope = scope,
                     !.safety_level = column,
                     !.state_version = @ + 1]

LEMMA RewriteOK ==
    ASSUME Inv, NEW s \in Sessions, NEW seen, seen = task[s].seen,
           NEW category \in Canonical, NEW safety \in Safety,
           NEW scope \in Scope, NEW column \in Safety \cup {Null},
           Or(column, "none") = safety,
           NEW policy,
           policy = EvaluateRoutingPolicy(category, safety, scope, seen.known),
           NEW disposition, NEW review \in ReviewStatus,
           \/ disposition = policy.disposition
           \/ review = "redirected" /\ disposition = "redirect",
           review \in {"citizen_review", "pending_official"}
               => review = ReviewFor(policy),
           NEW new,
           Rewrites(new, seen, category, policy, disposition, review, scope,
                    column),
           Commit(s, new)
    PROVE  RowInv'
<1> DEFINE decided == Decided(seen, category, BundledLive, policy,
                              disposition, review)
<1>1. seen \in Row
  BY SeenIsRow
<1>2. disposition \in Disposition
  BY PolicyType DEF Disposition, HeldDispositions
<1>3. BundledLive \in BOOLEAN /\ (BundledLive => category \in Enabled)
  BY DEF BundledLive
<1>4. decided \in Row
  BY <1>1, <1>2, <1>3, DecidedType
<1>5. new \in Row
  BY <1>4, BumpType DEF Rewrites
<1>6. /\ new.category_id = category
      /\ new.priority = policy.priority
      /\ new.disposition = disposition
      /\ new.review_status = review
      /\ new.routing_snapshot = SnapshotOf(category, BundledLive, disposition)
      /\ new.asset_scope = scope
      /\ new.safety_level = column
      /\ new.known = seen.known
  BY <1>1 DEF Rewrites, Decided, Row
<1>7. policy = EvaluateRoutingPolicy(category, safety, scope, new.known)
  BY <1>6
<1>8. Or(new.safety_level, "none") = safety
  BY <1>6
<1>9. Written(new)
  BY <1>3, <1>5, <1>6, <1>7, <1>8, OneDecision
<1> QED
  BY <1>9, CommitOK

LEMMA PatchedCategoryType ==
    ASSUME NEW s, NEW body, PatchedCategory(s, body) # NoCategory
    PROVE  PatchedCategory(s, body) \in Canonical
BY CanonicalType DEF PatchedCategory

LEMMA UpdateReviewOK ==
    ASSUME Inv, NEW s \in Sessions, NEW body \in Patch, UpdateReview(s, body)
    PROVE  RowInv'
<1> DEFINE seen == task[s].seen
           category == PatchedCategory(s, body)
           scope == Or(body.asset_scope, Or(seen.asset_scope, "unknown"))
           safety == Or(seen.safety_level, "none")
           policy == EvaluateRoutingPolicy(category, safety, scope, seen.known)
           decided == Decided(seen, category, BundledLive, policy,
                              policy.disposition, ReviewFor(policy))
           new == [decided EXCEPT !.asset_scope = scope,
                                  !.state_version = @ + 1]
<1>1. seen \in Row
  BY SeenIsRow
<1>2. category \in Canonical
  BY PatchedCategoryType DEF UpdateReview
<1>3. scope \in Scope
  <2>1. "unknown" \in Scope /\ seen.asset_scope \in Scope \cup {Null}
    BY <1>1 DEF Scope, Row
  <2>2. body.asset_scope \in Scope \cup {Null}
    BY ReviewAssumption DEF Patch
  <2> QED  BY <2>1, <2>2, OrType
<1>4. "none" \in Safety /\ seen.safety_level \in Safety \cup {Null}
  BY <1>1 DEF Safety, Row
<1>5. safety \in Safety
  BY <1>4, OrType
<1>6. ReviewFor(policy) \in ReviewStatus
  BY DEF ReviewFor, ReviewStatus
<1>7. decided.safety_level = seen.safety_level /\ decided \in Row
  <2>1. decided \in Row
    BY <1>1, <1>2, <1>6, PolicyType, DecidedType DEF BundledLive
  <2> HIDE DEF policy
  <2> QED  BY <1>1, <2>1 DEF Decided, Row
<1>8. Commit(s, new)
  BY DEF UpdateReview
<1>9. new = [decided EXCEPT !.asset_scope = scope,
                           !.safety_level = seen.safety_level,
                           !.state_version = @ + 1]
  <2> HIDE DEF decided, scope
  <2> QED  BY <1>7 DEF Row
<1> QED
  <2>1. Rewrites(new, seen, category, policy, policy.disposition,
                 ReviewFor(policy), scope, seen.safety_level)
    BY <1>9 DEF Rewrites
  <2> HIDE DEF scope, category, new, policy
  <2>2. policy = EvaluateRoutingPolicy(category, safety, scope, seen.known)
    BY DEF policy
  <2> QED
    BY <1>2, <1>3, <1>4, <1>5, <1>6, <1>8, <2>1, <2>2, RewriteOK

LEMMA OfficialActionOK ==
    ASSUME Inv, NEW s \in Sessions, NEW body \in Action, OfficialAction(s, body)
    PROVE  RowInv'
<1> DEFINE seen == task[s].seen
           category == PatchedCategory(s, body)
           scope == Or(body.asset_scope, Or(seen.asset_scope, "unknown"))
           safety == Or(body.safety_level, Or(seen.safety_level, "none"))
           policy == EvaluateRoutingPolicy(category, safety, scope, seen.known)
           disposition == IF body.action = "redirect" THEN "redirect"
                                                      ELSE policy.disposition
           review == VerdictOf[body.action]
           decided == Decided(seen, category, BundledLive, policy,
                              disposition, review)
           new == [decided EXCEPT !.asset_scope = scope,
                                  !.safety_level = safety,
                                  !.state_version = @ + 1]
<1>1. seen \in Row
  BY SeenIsRow
<1>2. category \in Canonical
  BY PatchedCategoryType DEF OfficialAction
<1>3. scope \in Scope
  <2>1. "unknown" \in Scope /\ seen.asset_scope \in Scope \cup {Null}
    BY <1>1 DEF Scope, Row
  <2>2. body.asset_scope \in Scope \cup {Null}
    BY ReviewAssumption DEF Action
  <2> QED  BY <2>1, <2>2, OrType
<1>4. safety \in Safety
  <2>1. "none" \in Safety /\ seen.safety_level \in Safety \cup {Null}
    BY <1>1 DEF Safety, Row
  <2>2. body.safety_level \in Safety \cup {Null}
    BY ReviewAssumption DEF Action
  <2> QED  BY <2>1, <2>2, OrType
<1>5. Or(safety, "none") = safety
  <2> HIDE DEF safety
  <2> QED  BY <1>4, ReviewAssumption DEF Or
<1>6. body.action \in DOMAIN VerdictOf
  BY ReviewAssumption DEF Action
<1>7. /\ review \in {"approved", "redirected", "rejected", "awaiting_citizen"}
      /\ body.action = "redirect" => review = "redirected"
  BY <1>6 DEF VerdictOf
<1>8. Commit(s, new)
  BY DEF OfficialAction
<1> QED
  <2>1. \/ disposition = policy.disposition
        \/ review = "redirected" /\ disposition = "redirect"
    BY <1>7
  <2>2. review \in ReviewStatus
    BY <1>7 DEF ReviewStatus
  <2>3. Rewrites(new, seen, category, policy, disposition, review, scope,
                 safety)
    BY DEF Rewrites
  <2> HIDE DEF scope, category, safety, disposition, review, new, policy
  <2>4. policy = EvaluateRoutingPolicy(category, safety, scope, seen.known)
    BY DEF policy
  <2> QED
    BY <1>2, <1>3, <1>4, <1>5, <1>7, <1>8, <2>1, <2>2, <2>3, <2>4,
       RewriteOK

\* A complaint held at its confirmation, or whose dispatch is refused, goes to
\* the officials: nothing else of it is written.
LEMMA QueueEffect ==
    ASSUME Inv, NEW s \in Sessions, SendToOfficial(s)
    PROVE  /\ row' = [row EXCEPT !.review_status = row'.review_status]
           /\ row' \in Row
           /\ torn' \in BOOLEAN
           /\ ~torn' => /\ ~torn /\ task[s].seen = row
                        /\ row'.review_status = "pending_official"
<1> DEFINE seen == task[s].seen
           new == [seen EXCEPT !.review_status = "pending_official"]
           m == [c \in DOMAIN row |-> Net(row[c], seen[c], new[c])]
<1>1. row \in Row /\ seen \in Row
  BY SeenIsRow DEF Inv, RowInv
<1>2. new \in Row /\ new.review_status = "pending_official"
  BY <1>1 DEF Row, ReviewStatus
<1>3. row' = m /\ torn' = (torn \/ row # seen)
  BY DEF SendToOfficial, Commit
<1>4. \A c \in DOMAIN row \ {"review_status"} : new[c] = seen[c]
  BY <1>1 DEF Row
<1>5. row' = [row EXCEPT !.review_status = row'.review_status]
  <2>1. \A c \in DOMAIN row \ {"review_status"} : m[c] = row[c]
    BY <1>4 DEF Net
  <2>2. DOMAIN m = DOMAIN row
    OBVIOUS
  <2> HIDE DEF m
  <2>3. row' = [c \in DOMAIN row |-> row'[c]]
    BY <1>3, <2>2 DEF m
  <2> QED  BY <1>1, <1>3, <2>1, <2>3 DEF Row
<1>6. row' \in Row
  <2> HIDE DEF new
  <2> QED  BY <1>1, <1>2, <1>3, MergeType
<1>7. ASSUME ~torn' PROVE row'.review_status = "pending_official"
  <2>1. row = seen
    BY <1>3, <1>7
  <2> HIDE DEF new
  <2>2. row' = new
    BY <1>1, <1>2, <1>3, <2>1, MergeWhole
  <2> QED  BY <1>2, <2>2
<1>8. torn' \in BOOLEAN
  BY <1>3
<1> QED
  BY <1>3, <1>5, <1>6, <1>7, <1>8

\* There is a reason for it in the row that was loaded.
Reason(r) ==
    \/ r.review_status = "pending_official"
    \/ r.disposition \in HeldDispositions
    \/ Refused(r)

LEMMA QueueOK ==
    ASSUME Inv, NEW s \in Sessions, Reason(task[s].seen), SendToOfficial(s)
    PROVE  RowInv'
<1>1. row' = [row EXCEPT !.review_status = row'.review_status]
      /\ row \in Row /\ row' \in Row
  BY QueueEffect DEF Inv, RowInv
<1>2. /\ row'.category_id = row.category_id
      /\ row'.asset_scope = row.asset_scope
      /\ row'.safety_level = row.safety_level
      /\ row'.known = row.known
      /\ row'.disposition = row.disposition
      /\ row'.priority = row.priority
      /\ row'.routing_snapshot = row.routing_snapshot
  <2> DEFINE r == row'.review_status
  <2>1. row' = [row EXCEPT !.review_status = r]
    BY <1>1
  <2> HIDE DEF r
  <2> QED  BY <1>1, <2>1 DEF Row
<1>3. SnapshotWhole'
  BY <1>2 DEF SnapshotWhole, Inv, RowInv
<1>4. CoherentUnlessStale'
  <2> SUFFICES ASSUME ~torn', row'.category_id # Null
               PROVE  Coherent(row)'
    BY DEF CoherentUnlessStale, Coherent
  <2>1. ~torn /\ Reason(row) /\ row'.review_status = "pending_official"
    BY QueueEffect
  <2>2. Coherent(row)
    BY <1>2, <2>1 DEF Inv, RowInv, CoherentUnlessStale
  <2> DEFINE policy == EvaluateRoutingPolicy(row.category_id,
                           Or(row.safety_level, "none"),
                           Or(row.asset_scope, "unknown"), row.known)
  <2>3. /\ row.priority = policy.priority
        /\ \/ row.disposition = policy.disposition
           \/ row.disposition = "redirect"
        /\ row.routing_snapshot # Null
        /\ row.routing_snapshot.category_id = row.category_id
        /\ row.routing_snapshot.disposition = row.disposition
    BY <2>2 DEF Coherent
  <2>4. \/ policy.needs_official_review
        \/ row.disposition \in HeldDispositions
        \/ ~row.routing_snapshot.dispatch_enabled
    BY <2>1, <2>2 DEF Reason, Refused, Coherent
  <2>5. policy = EvaluateRoutingPolicy(row'.category_id,
                     Or(row'.safety_level, "none"),
                     Or(row'.asset_scope, "unknown"), row'.known)
    BY <1>2
  <2> HIDE DEF policy
  <2> QED  BY <1>2, <2>1, <2>3, <2>4, <2>5 DEF Coherent
<1> QED
  BY <1>1, <1>3, <1>4, QueueEffect DEF RowInv

-----------------------------------------------------------------------------
(***************************************************************************)
(* The step, one case per action.                                          *)
(***************************************************************************)

LEMMA EnqueueOK ==
    ASSUME Inv, NEW k, Enqueue(k)
    PROVE  jobs' \in [JobKeys -> JobStatus]
BY DEF Inv, RestInv, Enqueue, JobStatus

LEMMA StepOK == Inv /\ [Next]_vars => Inv'
<1> SUFFICES ASSUME Inv, [Next]_vars PROVE Inv'
  OBVIOUS
<1> USE DEF Inv
<1>1. ASSUME NEW s \in Workers, NEW k \in JobKeys, StartJob(s, k) PROVE Inv'
  <2>1. task' \in [Sessions -> Task]
    <3> DEFINE pc == IF k = 0 THEN "extract" ELSE "reextract"
    <3>1. pc \in Step /\ s \in Sessions
      BY DEF Step, Sessions
    <3> HIDE DEF pc
    <3> QED  BY <1>1, <3>1, LoadOK DEF StartJob, pc
  <2> QED
    BY <1>1, <2>1, SameRowOK DEF StartJob, RestInv, JobStatus
<1>2. ASSUME NEW s \in Workers, RunPipeline(s) PROVE Inv'
  <2>1. s \in Sessions /\ "complete" \in Step
    BY DEF Sessions, Step
  <2> QED
    BY <1>2, <2>1, RunPipelineOK, GotoOK DEF RunPipeline, RestInv
<1>3. ASSUME NEW s \in Workers, ReextractGrievance(s) PROVE Inv'
  <2>1. s \in Sessions /\ "complete" \in Step
    BY DEF Sessions, Step
  <2> QED
    BY <1>3, <2>1, ReextractOK, GotoOK DEF ReextractGrievance, RestInv
<1>4. ASSUME NEW s \in Workers, ReextractNothing(s) PROVE Inv'
  <2>1. s \in Sessions /\ "complete" \in Step
    BY DEF Sessions, Step
  <2> QED
    BY <1>4, <2>1, SameRowOK, GotoOK DEF ReextractNothing, RestInv
<1>5. ASSUME NEW s \in Workers, CompleteJob(s) PROVE Inv'
  <2>1. s \in Sessions
    BY DEF Sessions
  <2>2. jobs' \in [JobKeys -> JobStatus]
    BY <1>5 DEF CompleteJob, RestInv, JobStatus
  <2> QED
    BY <1>5, <2>1, <2>2, SameRowOK, FreeOK DEF CompleteJob, RestInv
<1>6. ASSUME NEW s \in Workers, Abort(s) PROVE Inv'
  <2>1. s \in Sessions
    BY DEF Sessions
  <2>2. jobs' \in [JobKeys -> JobStatus]
    BY <1>6 DEF Abort, RestInv, JobStatus
  <2>3. crashes' \in 0..MaxCrashes
    BY <1>6, ReviewAssumption DEF Abort, RestInv
  <2> QED
    BY <1>6, <2>1, <2>2, <2>3, SameRowOK, FreeOK DEF Abort, RestInv
<1>7. ASSUME NEW s \in Patches, BeginPatch(s) PROVE Inv'
  <2>1. s \in Sessions /\ "patch" \in Step /\ 0 \in JobKeys
    BY ReviewAssumption DEF Sessions, Step, JobKeys
  <2> QED
    BY <1>7, <2>1, SameRowOK, LoadOK DEF BeginPatch, RestInv
<1>8. ASSUME NEW s \in Officials, BeginAction(s) PROVE Inv'
  <2>1. s \in Sessions /\ "act" \in Step /\ 0 \in JobKeys
    BY ReviewAssumption DEF Sessions, Step, JobKeys
  <2> QED
    BY <1>8, <2>1, SameRowOK, LoadOK DEF BeginAction, RestInv
<1>9. ASSUME NEW s \in Patches \cup Officials, Serve(s) PROVE Inv'
  <2>1. s \in Sessions /\ "over" \in Step
    BY DEF Sessions, Step
  <2>2. ASSUME NEW body \in Patch, UpdateReview(s, body) PROVE Inv'
    <3>1. RowInv'
      BY <2>1, <2>2, UpdateReviewOK
    <3>2. task' \in [Sessions -> Task]
      BY <2>1, <2>2, GotoOK DEF UpdateReview
    <3>3. jobs' \in [JobKeys -> JobStatus]
      <4> DEFINE k == RecheckKey(task[s].seen.state_version)
      <4>1. Enqueue(k) \/ UNCHANGED jobs
        BY <2>2 DEF UpdateReview
      <4> HIDE DEF k
      <4> QED  BY <4>1, EnqueueOK DEF RestInv
    <3> QED
      BY <2>2, <3>1, <3>2, <3>3 DEF UpdateReview, RestInv
  <2>3. ASSUME NEW body \in Patch, RejectReview(s, body) PROVE Inv'
    BY <2>1, <2>3, SameRowOK, GotoOK DEF RejectReview, RestInv
  <2>4. ASSUME NEW body \in Action, OfficialAction(s, body) PROVE Inv'
    <3>1. RowInv'
      BY <2>1, <2>4, OfficialActionOK
    <3>2. task' \in [Sessions -> Task]
      BY <2>1, <2>4, GotoOK DEF OfficialAction
    <3> QED
      BY <2>4, <3>1, <3>2 DEF OfficialAction, RestInv
  <2>5. ASSUME NEW body \in Action, RejectAction(s, body) PROVE Inv'
    BY <2>1, <2>5, SameRowOK, GotoOK DEF RejectAction, RestInv
  <2> QED
    BY <1>9, <2>2, <2>3, <2>4, <2>5 DEF Serve
<1>10. CASE UNCHANGED vars
  BY <1>10, SameRowOK DEF vars, RestInv
<1>11. ASSUME NEW s \in Answers, Settle(s) PROVE Inv'
  <2>1. /\ s \in Sessions /\ 0 \in JobKeys
        /\ {"finalize", "due", "dispatch", "over"} \subseteq Step
    BY ReviewAssumption DEF Sessions, Step, JobKeys
  <2>2. CASE BeginFinalize(s) \/ BeginDispatch(s)
    <3>1. task' \in [Sessions -> Task]
      BY <2>1, <2>2, LoadOK DEF BeginFinalize, BeginDispatch
    <3> QED
      BY <2>2, <3>1, SameRowOK DEF BeginFinalize, BeginDispatch, RestInv
  <2>3. CASE HoldGrievance(s) \/ RefuseDispatch(s)
    <3>1. SendToOfficial(s) /\ Reason(task[s].seen)
      BY <2>3 DEF HoldGrievance, RefuseDispatch, Reason
    <3>2. task' \in [Sessions -> Task]
      BY <2>1, <3>1, GotoOK DEF SendToOfficial
    <3> QED
      BY <2>1, <3>1, <3>2, QueueOK DEF SendToOfficial, RestInv
  <2>4. CASE FinalizeGrievance(s) \/ Dispatch(s)
    <3>1. task' \in [Sessions -> Task]
      BY <2>1, <2>4, GotoOK DEF FinalizeGrievance, Dispatch
    <3> QED
      BY <2>4, <3>1, SameRowOK DEF FinalizeGrievance, Dispatch, RestInv
  <2> QED
    BY <1>11, <2>2, <2>3, <2>4 DEF Settle
<1> QED
  BY <1>1, <1>2, <1>3, <1>4, <1>5, <1>6, <1>7, <1>8, <1>9, <1>10, <1>11
     DEF Next, Work

\* Whatever overlaps, every column and every task has its type.
THEOREM TypeCorrect == Spec => []TypeOK
<1>1. Inv => TypeOK
  BY DEF Inv, RowInv, RestInv, TypeOK
<1> QED
  BY <1>1, InitOK, StepOK, PTL DEF Spec

\* As long as no two writers have overlapped, the row is one decision, and a
\* complaint in the officials' queue is there for a reason the row shows (four
\* writers rewrite all decision columns; finalize_grievance and
\* dispatch_grievance queue what is held or not enabled).
THEOREM OneDecisionOnRow == Spec => []CoherentUnlessStale
<1>1. Inv => CoherentUnlessStale
  BY DEF Inv, RowInv
<1> QED
  BY <1>1, InitOK, StepOK, PTL DEF Spec

\* Overlapping or not, a snapshot that enables dispatch has the category of a
\* reviewed route (resolve_route; the bundled profile never enables it).
THEOREM SnapshotsAreWhole == Spec => []SnapshotWhole
<1>1. Inv => SnapshotWhole
  BY DEF Inv, RowInv
<1> QED
  BY <1>1, InitOK, StepOK, PTL DEF Spec

\* A commit leaves a column alone that is computed as it was loaded.
LEMMA MergeCategory ==
    ASSUME Inv, NEW s \in Sessions, NEW new, Commit(s, new),
           new.category_id = task[s].seen.category_id
    PROVE  row'.category_id = row.category_id
<1>1. "category_id" \in DOMAIN row
  BY DEF Inv, RowInv, Row
<1> QED
  BY <1>1, Zenon DEF Commit, Net

\* A re-extraction that loaded a concrete category changes no category: its
\* UPDATE does not name the column.
THEOREM ReextractionKeeps == Spec => SeenChoiceKept
<1> DEFINE Keeps == \A s \in Workers :
                       Reextracted(s) /\ Concrete(task[s].seen.category_id)
                           => row'.category_id = row.category_id
<1>1. Inv /\ [Next]_vars => Keeps
  <2> SUFFICES ASSUME Inv, [Next]_vars, NEW s \in Workers, Reextracted(s),
                      Concrete(task[s].seen.category_id)
               PROVE  row'.category_id = row.category_id
    OBVIOUS
  <2>1. s \in Sessions /\ task[s] \in Task
    BY DEF Sessions, Inv, RestInv
  <2>2. task[s].pc = "reextract" /\ task'[s].pc = "complete"
    BY DEF Reextracted
  <2>3. \A t \in Sessions : t # s => \A pc : ~Goto(t, pc)
    BY <2>1, <2>2 DEF Goto, Inv, RestInv
  <2>4. CASE ReextractGrievance(s)
    <3> DEFINE seen == task[s].seen
               scopeOf(e) == IF seen.asset_scope \in {"public", "private"}
                             THEN seen.asset_scope ELSE e.asset_scope
               policyOf(e) == EvaluateRoutingPolicy(seen.category_id, e.safety,
                                                    scopeOf(e), seen.known)
               decidedOf(e) == Decided(seen, seen.category_id,
                                       ResolveRouteLive(seen.category_id),
                                       policyOf(e), policyOf(e).disposition,
                                       ReviewFor(policyOf(e)))
               newOf(e) == [decidedOf(e) EXCEPT !.asset_scope = scopeOf(e),
                                                !.safety_level = e.safety,
                                                !.state_version = @ + 1]
    <3>1. PICK e \in Extraction : Commit(s, newOf(e))
      BY <2>4 DEF ReextractGrievance
    <3>2. newOf(e).category_id = seen.category_id
      <4>1. seen \in Row
        BY <2>1 DEF Task
      <4> HIDE DEF policyOf, scopeOf
      <4> QED
        BY <4>1 DEF Decided, Row
    <3> DEFINE new == newOf(e)
    <3>3. Commit(s, new) /\ new.category_id = task[s].seen.category_id
      BY <3>1, <3>2
    <3> HIDE DEF new
    <3> QED
      BY <2>1, <3>3, MergeCategory
  <2>5. CASE UNCHANGED row
    BY <2>5
  <2>6. CASE \E t \in Workers : RunPipeline(t) \/ ReextractGrievance(t)
    <3>1. PICK t \in Workers : RunPipeline(t) \/ ReextractGrievance(t)
      BY <2>6
    <3>2. t = s
      BY <2>3, <3>1 DEF RunPipeline, ReextractGrievance, Sessions
    <3> QED
      BY <2>2, <2>4, <3>1, <3>2 DEF RunPipeline
  <2>7. CASE \E t \in Patches \cup Officials : Serve(t)
    <3>1. PICK t \in Patches \cup Officials : Serve(t)
      BY <2>7
    <3>2. \E pc : Goto(t, pc)
      BY <3>1 DEF Serve, UpdateReview, RejectReview, OfficialAction,
                  RejectAction
    <3> QED
      BY <2>3, <3>1, <3>2, ReviewAssumption DEF Sessions
  <2>8. CASE \E t \in Answers : Settle(t)
    <3>1. PICK t \in Answers : Settle(t)
      BY <2>8
    <3>2. CASE \E pc : Goto(t, pc)
      BY <2>3, <3>2, ReviewAssumption DEF Sessions
    <3>3. CASE BeginFinalize(t) \/ BeginDispatch(t)
      BY <2>5, <3>3 DEF BeginFinalize, BeginDispatch
    <3> QED
      BY <3>1, <3>2, <3>3
         DEF Settle, HoldGrievance, FinalizeGrievance, RefuseDispatch,
             Dispatch, SendToOfficial
  <2> QED
    BY <2>4, <2>5, <2>6, <2>7, <2>8
       DEF Next, vars, Work, StartJob, ReextractNothing, CompleteJob, Abort,
           BeginPatch, BeginAction
<1> QED
  BY <1>1, InitOK, StepOK, PTL DEF Spec, SeenChoiceKept

-----------------------------------------------------------------------------
(***************************************************************************)
(* The keys of re-extractions.  They stay at or below the version that     *)
(* follows the row's, as long as every commit meets the row it loaded: the *)
(* key a correction takes is one above, and its commit moves the version.  *)
(***************************************************************************)

Taken == \A s \in Workers : task[s].pc \in {"extract", "reextract", "complete"}
                                => jobs[task[s].job] # "none"

Behind == ~torn => \A k \in JobKeys :
                       jobs[k] # "none" => k <= row.state_version + 1

KeyInv == Taken /\ Behind

\* A commit that meets the row it loaded leaves the version it set.
LEMMA VersionSet ==
    ASSUME Inv, NEW s \in Sessions, NEW new, Commit(s, new), ~torn'
    PROVE  /\ ~torn
           /\ task[s].seen = row
           /\ row'.state_version = new.state_version
<1>1. "state_version" \in DOMAIN row
  BY DEF Inv, RowInv, Row
<1> QED
  BY <1>1, Zenon DEF Commit, Net

\* The first pass keeps the version.
LEMMA RunPipelineVersion ==
    ASSUME Inv, NEW s \in Sessions, RunPipeline(s), ~torn'
    PROVE  ~torn /\ row'.state_version = row.state_version
<1> DEFINE seen == task[s].seen
<1>1. PICK e \in Extraction, found \in BOOLEAN :
         LET known == seen.known \/ found
             policy == EvaluateRoutingPolicy(e.category_id, e.safety,
                                             e.asset_scope, known)
         IN  Commit(s, [Decided(seen, e.category_id,
                                ResolveRouteLive(e.category_id), policy,
                                policy.disposition, ReviewFor(policy))
                        EXCEPT !.asset_scope = e.asset_scope,
                               !.safety_level = e.safety,
                               !.known = known,
                               !.located = TRUE])
  BY DEF RunPipeline
<1> DEFINE known == seen.known \/ found
           policy == EvaluateRoutingPolicy(e.category_id, e.safety,
                                           e.asset_scope, known)
           new == [Decided(seen, e.category_id,
                           ResolveRouteLive(e.category_id), policy,
                           policy.disposition, ReviewFor(policy))
                   EXCEPT !.asset_scope = e.asset_scope,
                          !.safety_level = e.safety,
                          !.known = known,
                          !.located = TRUE]
<1>2. new.state_version = seen.state_version
  BY SeenIsRow DEF Decided, Row
<1>3. Commit(s, new)
  BY <1>1
<1> HIDE DEF new
<1> QED
  BY <1>2, <1>3, VersionSet

\* What a writer commits: some decision, with the next version.
LEMMA NextVersion ==
    ASSUME Inv, NEW s \in Sessions, NEW category, NEW live, NEW policy,
           NEW disposition, NEW review, NEW scope, NEW level,
           Commit(s, [Decided(task[s].seen, category, live, policy,
                              disposition, review)
                      EXCEPT !.asset_scope = scope,
                             !.safety_level = level,
                             !.state_version = @ + 1]),
           ~torn'
    PROVE  /\ ~torn
           /\ task[s].seen = row
           /\ row'.state_version = row.state_version + 1
<1> DEFINE new == [Decided(task[s].seen, category, live, policy,
                           disposition, review)
                   EXCEPT !.asset_scope = scope,
                          !.safety_level = level,
                          !.state_version = @ + 1]
<1>1. new.state_version = task[s].seen.state_version + 1
  BY SeenIsRow DEF Decided, Row
<1>2. Commit(s, new)
  OBVIOUS
<1> HIDE DEF new
<1> QED
  BY <1>1, <1>2, VersionSet

LEMMA ReextractVersion ==
    ASSUME Inv, NEW s \in Sessions, ReextractGrievance(s), ~torn'
    PROVE  ~torn /\ row'.state_version = row.state_version + 1
<1> DEFINE seen == task[s].seen
           categoryOf(e) == IF Concrete(seen.category_id)
                            THEN seen.category_id ELSE e.category_id
           scopeOf(e) == IF seen.asset_scope \in {"public", "private"}
                         THEN seen.asset_scope ELSE e.asset_scope
           policyOf(e) == EvaluateRoutingPolicy(categoryOf(e), e.safety,
                                                scopeOf(e), seen.known)
           newOf(e) == [Decided(seen, categoryOf(e),
                                ResolveRouteLive(categoryOf(e)), policyOf(e),
                                policyOf(e).disposition,
                                ReviewFor(policyOf(e)))
                        EXCEPT !.asset_scope = scopeOf(e),
                               !.safety_level = e.safety,
                               !.state_version = @ + 1]
<1>1. PICK e \in Extraction : Commit(s, newOf(e))
  BY DEF ReextractGrievance
<1> HIDE DEF categoryOf, scopeOf, policyOf
<1>2. newOf(e).state_version = seen.state_version + 1
  BY SeenIsRow DEF Decided, Row
<1> HIDE DEF newOf
<1> QED
  BY <1>1, <1>2, VersionSet

\* The correction does not write the safety level.
LEMMA UpdateReviewVersion ==
    ASSUME Inv, NEW s \in Sessions, NEW body \in Patch, UpdateReview(s, body),
           ~torn'
    PROVE  /\ ~torn
           /\ task[s].seen = row
           /\ row'.state_version = row.state_version + 1
<1> DEFINE seen == task[s].seen
<1>1. PICK category, policy, review, scope :
         Commit(s, [Decided(seen, category, BundledLive, policy,
                            policy.disposition, review)
                    EXCEPT !.asset_scope = scope, !.state_version = @ + 1])
  BY DEF UpdateReview
<1> DEFINE new == [Decided(seen, category, BundledLive, policy,
                           policy.disposition, review)
                   EXCEPT !.asset_scope = scope, !.state_version = @ + 1]
<1>2. new.state_version = seen.state_version + 1
  BY SeenIsRow DEF Decided, Row
<1>3. Commit(s, new)
  BY <1>1
<1> HIDE DEF new
<1> QED
  BY <1>2, <1>3, VersionSet

\* A step that queues nothing and does not lower the version.
LEMMA BehindKept ==
    ASSUME Inv, Behind,
           \A k \in JobKeys : jobs'[k] # "none" => jobs[k] # "none",
           ~torn' => /\ ~torn
                     /\ row'.state_version \in {row.state_version,
                                                row.state_version + 1}
    PROVE  Behind'
<1>1. row.state_version \in Nat
  BY DEF Inv, RowInv, Row
<1> QED
  BY <1>1 DEF Behind, JobKeys

LEMMA KeyInit == Init => KeyInv
<1> SUFFICES ASSUME Init PROVE KeyInv
  OBVIOUS
<1>1. \E known \in BOOLEAN : row = NewRow(known)
  BY DEF Init
<1>2. row.state_version = 0
  BY <1>1 DEF NewRow
<1>3. Taken
  BY DEF Init, Taken, Sessions, NoTask
<1>4. Behind
  BY <1>2 DEF Init, Behind, JobKeys
<1> QED
  BY <1>3, <1>4 DEF KeyInv

\* Jobs are never forgotten, so a session that only moves on holds its job.
LEMMA TakenKept ==
    ASSUME Inv, Taken, NEW s \in Sessions, NEW pc, Goto(s, pc),
           \A k \in JobKeys : jobs[k] # "none" => jobs'[k] # "none",
           pc \in {"extract", "reextract", "complete"}
               => task[s].pc \in {"extract", "reextract"}
    PROVE  Taken'
<1> SUFFICES ASSUME NEW t \in Workers,
                    task'[t].pc \in {"extract", "reextract", "complete"}
             PROVE  jobs'[task'[t].job] # "none"
  BY DEF Taken
<1>1. /\ t \in Sessions /\ task[t] \in Task
      /\ task \in [Sessions -> Task]
      /\ DOMAIN task[t] = {"pc", "seen", "job"}
  BY DEF Sessions, Inv, RestInv, Task
<1>2. task'[t].job = task[t].job
      /\ task[t].pc \in {"extract", "reextract", "complete"}
  <2>1. CASE t # s
    BY <1>1, <2>1 DEF Goto
  <2>2. CASE t = s
    <3>1. task'[t] = [task[t] EXCEPT !.pc = pc, !.seen = NoTask.seen]
      BY <1>1, <2>2 DEF Goto
    <3>2. task'[t].pc = pc /\ task'[t].job = task[t].job
      BY <1>1, <3>1
    <3> QED
      BY <2>2, <3>2
  <2> QED
    BY <2>1, <2>2
<1> QED
  BY <1>1, <1>2 DEF Taken, Task

LEMMA TakenFreed ==
    ASSUME Inv, Taken, NEW s \in Sessions,
           task' = [task EXCEPT ![s] = NoTask],
           \A k \in JobKeys : jobs[k] # "none" => jobs'[k] # "none"
    PROVE  Taken'
<1>1. /\ task \in [Sessions -> Task] /\ Workers \subseteq Sessions
      /\ \A t \in Workers : task[t].job \in JobKeys
  BY DEF Inv, RestInv, Sessions, Task
<1>2. \A t \in Workers : task'[t] = IF t = s THEN NoTask ELSE task[t]
  BY <1>1
<1>3. NoTask.pc = "idle"
  BY DEF NoTask
<1> QED
  BY <1>1, <1>2, <1>3 DEF Taken

LEMMA KeyStep == Inv /\ KeyInv /\ [Next]_vars => KeyInv'
<1> SUFFICES ASSUME Inv, Taken, Behind, [Next]_vars PROVE Taken' /\ Behind'
  BY DEF KeyInv
<1>1. jobs \in [JobKeys -> JobStatus] /\ task \in [Sessions -> Task]
  BY DEF Inv, RestInv
<1>2. Workers \subseteq Sessions /\ Patches \subseteq Sessions
      /\ Officials \subseteq Sessions
  BY DEF Sessions
<1>3. ASSUME NEW s \in Workers, NEW k \in JobKeys, StartJob(s, k)
      PROVE  Taken' /\ Behind'
  <2>1. \A t \in Workers : task'[t] = IF t = s
                             THEN [pc |-> IF k = 0 THEN "extract"
                                                   ELSE "reextract",
                                   seen |-> row, job |-> k]
                             ELSE task[t]
    BY <1>1, <1>2, <1>3 DEF StartJob
  <2>2. \A j \in JobKeys : jobs'[j] # "none" <=> jobs[j] # "none"
    BY <1>1, <1>3 DEF StartJob
  <2>3. \A t \in Workers : task[t].job \in JobKeys
    BY <1>1, <1>2 DEF Task
  <2>4. Taken'
    BY <1>3, <2>1, <2>2, <2>3 DEF Taken, StartJob
  <2> QED
    BY <1>3, <2>2, <2>4, BehindKept DEF StartJob
<1>4. ASSUME NEW s \in Workers, RunPipeline(s) PROVE Taken' /\ Behind'
  <2>1. Taken'
    BY <1>2, <1>4, TakenKept DEF RunPipeline
  <2> QED
    BY <1>2, <1>4, <2>1, RunPipelineVersion, BehindKept DEF RunPipeline
<1>5. ASSUME NEW s \in Workers, ReextractGrievance(s) PROVE Taken' /\ Behind'
  <2>1. Taken'
    BY <1>2, <1>5, TakenKept DEF ReextractGrievance
  <2>3. ~torn' => ~torn /\ row'.state_version = row.state_version + 1
    BY <1>2, <1>5, ReextractVersion
  <2> QED
    BY <1>5, <2>1, <2>3, BehindKept DEF ReextractGrievance
<1>6. ASSUME NEW s \in Workers, ReextractNothing(s) PROVE Taken' /\ Behind'
  <2>1. Taken'
    BY <1>2, <1>6, TakenKept DEF ReextractNothing
  <2> QED
    BY <1>6, <2>1, BehindKept DEF ReextractNothing
<1>7. ASSUME NEW s \in Workers, CompleteJob(s) \/ Abort(s)
      PROVE  Taken' /\ Behind'
  <2>1. task[s].job \in JobKeys /\ jobs[task[s].job] # "none"
    BY <1>1, <1>2, <1>7 DEF CompleteJob, Abort, Taken, Task
  <2>2. \A k \in JobKeys : jobs'[k] # "none" <=> jobs[k] # "none"
    BY <1>1, <1>7, <2>1 DEF CompleteJob, Abort
  <2>3. Taken'
    BY <1>2, <1>7, <2>2, TakenFreed DEF CompleteJob, Abort
  <2> QED
    BY <1>7, <2>2, <2>3, BehindKept DEF CompleteJob, Abort
<1>8. ASSUME NEW s \in Patches \cup Officials,
             BeginPatch(s) \/ BeginAction(s)
      PROVE  Taken' /\ Behind'
  <2>1. \A t \in Workers : task'[t] = task[t]
    BY <1>1, <1>2, <1>8, ReviewAssumption DEF BeginPatch, BeginAction
  <2> QED
    BY <1>8, <2>1, BehindKept DEF BeginPatch, BeginAction, Taken
<1>9. ASSUME NEW s \in Patches \cup Officials, NEW body \in Patch,
             UpdateReview(s, body)
      PROVE  Taken' /\ Behind'
  <2> DEFINE k == RecheckKey(task[s].seen.state_version)
  <2>1. s \in Sessions
    BY <1>2
  <2>2. \/ UNCHANGED jobs
        \/ jobs' = [jobs EXCEPT ![k] = IF @ = "none" THEN "pending" ELSE @]
    BY <1>9 DEF UpdateReview, Enqueue
  <2>3. \A j \in JobKeys : /\ jobs[j] # "none" => jobs'[j] # "none"
                           /\ jobs'[j] # "none" => jobs[j] # "none" \/ j = k
    <3> HIDE DEF k
    <3> QED  BY <1>1, <2>2
  <2>4. Taken'
    <3>1. Goto(s, "over")
      BY <1>9 DEF UpdateReview
    <3> QED  BY <2>1, <2>3, <3>1, TakenKept
  <2>5. Behind'
    <3> SUFFICES ASSUME ~torn', NEW j \in JobKeys, jobs'[j] # "none"
                 PROVE  j <= row'.state_version + 1
      BY DEF Behind
    <3>1. /\ ~torn
          /\ task[s].seen = row
          /\ row'.state_version = row.state_version + 1
      BY <1>9, <2>1, UpdateReviewVersion
    <3>2. row.state_version \in Nat
      BY DEF Inv, RowInv, Row
    <3>3. k = row.state_version + 2
      BY <3>1 DEF RecheckKey
    <3> HIDE DEF k
    <3> QED  BY <2>3, <3>1, <3>2, <3>3 DEF Behind, JobKeys
  <2> QED
    BY <2>4, <2>5
<1>10. ASSUME NEW s \in Patches \cup Officials, NEW body \in Action,
              OfficialAction(s, body)
       PROVE  Taken' /\ Behind'
  <2>1. s \in Sessions
    BY <1>2
  <2>2. Taken'
    <3>1. Goto(s, "over") /\ UNCHANGED jobs
      BY <1>10 DEF OfficialAction
    <3> QED  BY <2>1, <3>1, TakenKept
  <2>3. ~torn' => ~torn /\ row'.state_version = row.state_version + 1
    BY <1>10, <2>1, NextVersion DEF OfficialAction
  <2> QED
    BY <1>10, <2>2, <2>3, BehindKept DEF OfficialAction
<1>11. ASSUME NEW s \in Patches \cup Officials, NEW body,
              RejectReview(s, body) \/ RejectAction(s, body)
       PROVE  Taken' /\ Behind'
  <2>1. s \in Sessions /\ Goto(s, "over") /\ UNCHANGED <<row, jobs, torn>>
    BY <1>2, <1>11 DEF RejectReview, RejectAction
  <2>2. Taken'
    BY <2>1, TakenKept
  <2> QED
    BY <2>1, <2>2, BehindKept
<1>12. CASE UNCHANGED vars
  BY <1>12, BehindKept DEF vars, Taken
<1>13. ASSUME NEW s \in Answers, Settle(s) PROVE Taken' /\ Behind'
  <2>1. s \in Sessions /\ s \notin Workers /\ UNCHANGED jobs
    BY <1>13, ReviewAssumption
       DEF Sessions, Settle, BeginFinalize, HoldGrievance, FinalizeGrievance,
           BeginDispatch, RefuseDispatch, Dispatch, SendToOfficial
  <2>2. \A t \in Workers : task'[t] = task[t]
    BY <1>1, <1>2, <1>13, <2>1
       DEF Settle, BeginFinalize, HoldGrievance, FinalizeGrievance,
           BeginDispatch, RefuseDispatch, Dispatch, SendToOfficial, Goto
  <2>3. CASE SendToOfficial(s)
    <3>1. ~torn' => ~torn
      BY <2>1, <2>3, QueueEffect
    <3>2. row'.state_version = row.state_version
      <4> DEFINE r == row'.review_status
      <4>1. row' = [row EXCEPT !.review_status = r] /\ row \in Row
        BY <2>1, <2>3, QueueEffect DEF Inv, RowInv
      <4> HIDE DEF r
      <4> QED  BY <4>1 DEF Row
    <3> QED  BY <2>1, <2>2, <3>1, <3>2, BehindKept DEF Taken
  <2>4. CASE UNCHANGED <<row, torn>>
    BY <2>1, <2>2, <2>4, BehindKept DEF Taken
  <2> QED
    BY <1>13, <2>3, <2>4
       DEF Settle, BeginFinalize, HoldGrievance, FinalizeGrievance,
           BeginDispatch, RefuseDispatch, Dispatch
<1> QED
  BY <1>3, <1>4, <1>5, <1>6, <1>7, <1>8, <1>9, <1>10, <1>11, <1>12, <1>13
     DEF Next, Work, Serve

\* As long as no two writers have overlapped, the job the next correction asks
\* for is a new one (update_review's key, enqueue_pipeline_job).
THEOREM RechecksAreFresh == Spec => []NextKeyFree
<1>1. Inv /\ KeyInv => NextKeyFree
  BY ReviewAssumption
     DEF Inv, RowInv, Row, KeyInv, Behind, NextKeyFree, RecheckKey, JobKeys
<1> QED
  BY <1>1, InitOK, StepOK, KeyInit, KeyStep, PTL DEF Spec
=============================================================================
