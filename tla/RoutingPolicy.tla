---------------------------- MODULE RoutingPolicy ----------------------------
(***************************************************************************)
(* pipeline/taxonomy.py and pipeline/routing.py: which service a category  *)
(* key names, what the municipality does with a complaint about it, and    *)
(* whose routes may dispatch.  Pure functions; the tables of the taxonomy  *)
(* are constants, so what is proved holds for every taxonomy that passes   *)
(* validate_taxonomy.                                                      *)
(***************************************************************************)

CONSTANTS
    Canonical,   \* keys of CANONICAL_CATEGORIES
    Legacy,      \* keys of the two tables of legacy names
    LegacyOf,    \* what each legacy key stands for
    Foreign,     \* any other string a client may send
    NoCategory,  \* None
    Urgent,      \* categories whose default_priority is "priority"
    Immediate,   \* IMMEDIATE_SAFETY_CATEGORIES
    External,    \* EXTERNAL_REFERRAL_CATEGORIES
    Unclear,     \* the four keys that name no service
    Unmapped,    \* "unmapped_service"
    Enabled      \* categories with a row in jurisdiction_routes, in force for
                 \* this taxonomy version, that enables dispatch

\* validate_taxonomy, and the shape of the tables.
ASSUME TaxonomyAssumption ==
    /\ Legacy \cap Canonical = {}
    /\ LegacyOf \in [Legacy -> Canonical]
    /\ Foreign \cap (Canonical \cup Legacy) = {}
    /\ NoCategory \notin Canonical \cup Legacy \cup Foreign
    /\ Urgent \subseteq Canonical
    /\ Immediate \subseteq Canonical
    /\ External \subseteq Canonical
    /\ Unclear \subseteq Canonical
    /\ Unmapped \in Unclear
    /\ Enabled \subseteq Canonical

Keys == Canonical \cup Legacy \cup Foreign \cup {NoCategory}

Safety == {"none", "possible", "immediate"}

Scope == {"public", "private", "unknown"}

Automatic == {"municipal_ticket", "municipal_ticket_and_escalate"}

\* The dispositions finalize_grievance holds for an official.
HeldDispositions == {"redirect", "emergency_redirect", "needs_human_review"}

Disposition == Automatic \cup HeldDispositions

CanonicalCategoryKey(key) ==
    CASE key \in Canonical -> key
      [] key \in Legacy    -> LegacyOf[key]
      [] OTHER             -> NoCategory

CategoryOrDefault(key) ==
    IF CanonicalCategoryKey(key) = NoCategory THEN Unmapped
                                              ELSE CanonicalCategoryKey(key)

DefaultPriority(key) ==
    IF CategoryOrDefault(key) \in Urgent THEN "priority" ELSE "normal"

\* DEMO_PROFILE has one route per category of the taxonomy.
Bundled == Canonical

RouteForCategory(key) == CanonicalCategoryKey(key) \in Bundled

RoutingDecision(disposition, priority, dedup, review) ==
    [disposition |-> disposition, priority |-> priority,
     dedup_eligible |-> dedup, needs_official_review |-> review]

Hold(disposition, priority) ==
    RoutingDecision(disposition, priority, FALSE, TRUE)

Emergency(canonical, safety) ==
    safety = "immediate" \/ canonical \in Immediate

Ticket(disposition, priority, dedup) ==
    RoutingDecision(disposition, priority, dedup, FALSE)

\* The first condition that holds decides.
EvaluateRoutingPolicy(key, safety, scope, known) ==
    LET canonical == CanonicalCategoryKey(key)
        prio == DefaultPriority(canonical)
    IN  IF Emergency(canonical, safety) THEN
            Hold("emergency_redirect", "priority")
        ELSE IF ~known THEN
            Hold("redirect", "normal")
        ELSE IF canonical \in Unclear \cup {NoCategory} THEN
            Hold("needs_human_review", "normal")
        ELSE IF scope = "private" THEN
            Hold("redirect", "normal")
        ELSE IF canonical \in External THEN
            Hold("redirect",
                 IF safety = "possible" THEN "priority" ELSE "normal")
        ELSE IF ~RouteForCategory(canonical) THEN
            Hold("needs_human_review", prio)
        ELSE IF safety = "possible" THEN
            Ticket("municipal_ticket_and_escalate", "priority", FALSE)
        ELSE
            Ticket("municipal_ticket", prio, prio # "priority")

\* dispatch_enabled of resolve_route: a row in force wins, the bundled route
\* never enables dispatch.
ResolveRouteLive(key) == CanonicalCategoryKey(key) \in Enabled

\* dispatch_enabled of route_for_category.
BundledLive == FALSE
=============================================================================
