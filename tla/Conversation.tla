---------------------------- MODULE Conversation ----------------------------
(***************************************************************************)
(* The guided dialog of one citizen (whatsapp/conversation.py,             *)
(* repositories/conversations.py) and the pipeline's follow-ups that move  *)
(* it from outside (whatsapp/processing.py).                               *)
(*                                                                         *)
(* A turn takes one inbound message and commits under the contact's lock:  *)
(* it is one step.  What it starts (a run, a new check of the photo, the   *)
(* final answer) happens after its commit, in the same session, and ends   *)
(* with a follow-up in a transaction of its own.  The follow-up moves the  *)
(* conversation that is active then, whichever complaint it is about.      *)
(*                                                                         *)
(* Messages of a state that do not change it are left out: they bring back *)
(* the prompt.  Buttons keep working after their prompt is answered, so a  *)
(* tap is on any card that was sent.  A second delivery of a message is    *)
(* module WebhookInbox's subject, the later life of a complaint module     *)
(* Grievance's, and so is a run that outlives the sweep's 300 s.           *)
(***************************************************************************)
EXTENDS Naturals

CONSTANTS
    Conversations, \* conversations; the complaint of one has the same name
    Web,           \* complaints the citizen files on the web
    Locations,     \* ids of the messages that share a location
    Sessions,      \* requests, BackgroundTasks and workers
    None,          \* no location, no complaint
    MaxLosses      \* bound: follow-up work that raises or dies

Complaints == Conversations \cup Web

ASSUME ConversationAssumption ==
    /\ Conversations \cap Web = {}
    /\ None \notin Complaints \cup Locations
    /\ MaxLosses \in Nat

VARIABLES
    conv,      \* the rows of the citizen's conversations
    shared,    \* the location messages so far; each got a Yes/No card
    cards,     \* the follow-ups stored, by their idempotency key
    complaint, \* the status of each complaint
    task,      \* the work that each session does outside a turn
    answers,   \* how often a complaint was confirmed or cancelled by chat
    lost,      \* complaints whose check or follow-up was lost
    losses     \* losses so far

vars == <<conv, shared, cards, complaint, task, answers, lost, losses>>

Asking == {"photo_mismatch", "awaiting_confirmation"}

State == {"none", "awaiting_location", "confirming_location",
          "awaiting_issue", "awaiting_photo", "processing", "done"} \cup Asking

(***************************************************************************)
(* due: expires_at has passed.  staged: the id of the location message in  *)
(* the context; agreed: the one whose "Yes" set confirmed_at.  told: there *)
(* is an issue message.  draft: the draft's grievance_id.                  *)
(***************************************************************************)
Row == [state : State, active : BOOLEAN, due : BOOLEAN,
        staged : Locations \cup {None}, agreed : Locations \cup {None},
        told : BOOLEAN, draft : Conversations \cup {None}]

Unborn == [state |-> "none", active |-> FALSE, due |-> FALSE,
           staged |-> None, agreed |-> None, told |-> FALSE, draft |-> None]

Card == Conversations \X Asking \X Complaints

Task == [pc : {"idle", "run", "recheck", "follow_up", "finalize", "cancel"},
         on : Complaints \cup {None}, out : Asking \cup {"none"}]

NoTask == [pc |-> "idle", on |-> None, out |-> "none"]

Init ==
    /\ conv = [c \in Conversations |-> Unborn]
    /\ shared = {}
    /\ cards = {}
    /\ complaint = [g \in Complaints |-> "none"]
    /\ task = [s \in Sessions |-> NoTask]
    /\ answers = [g \in Complaints |-> 0]
    /\ lost = {}
    /\ losses = 0

-----------------------------------------------------------------------------
(***************************************************************************)
(* Turns.                                                                  *)
(***************************************************************************)

\* lock_contact_and_get_conversation returns c.
Current(c) == conv[c].active /\ ~conv[c].due

In(c, state) == Current(c) /\ conv[c].state = state

\* Conversation c becomes r.
Set(c, r) == conv' = [conv EXCEPT ![c] = r]

Idle(s) == task[s].pc = "idle"

Start(s, pc, g) ==
    task' = [task EXCEPT ![s] = [pc |-> pc, on |-> g, out |-> "none"]]

\* Row r with location message l staged, waiting for its Yes or No.
Staged(r, l) ==
    [r EXCEPT !.state = "confirming_location", !.staged = l, !.agreed = None]

\* Ids are new: it does not matter which of the unused ones is taken.
IsNext(c) ==
    c = CHOOSE d \in Conversations : conv[d].state = "none"

IsNew(l) == l = CHOOSE k \in Locations : k \notin shared

\* The first message, or the first one after the old conversation expired.
Greet(c) ==
    LET new == [Unborn EXCEPT !.state = "awaiting_location", !.active = TRUE]
        Replaced(r) ==
            conv' = [d \in Conversations |->
                        IF d = c THEN r ELSE [conv[d] EXCEPT !.active = FALSE]]
    IN  /\ conv[c].state = "none" /\ IsNext(c)
        /\ \A d \in Conversations : ~Current(d)
        /\ \/ Replaced(new) /\ UNCHANGED shared
           \/ \E l \in Locations \ shared :
                 /\ IsNew(l)
                 /\ Replaced(Staged(new, l))
                 /\ shared' = shared \cup {l}
        /\ UNCHANGED <<cards, complaint, task, answers, lost, losses>>

ShareLocation(c, l) ==
    /\ In(c, "awaiting_location") \/ In(c, "confirming_location")
    /\ l \notin shared /\ IsNew(l)
    /\ shared' = shared \cup {l}
    /\ Set(c, Staged(conv[c], l))
    /\ UNCHANGED <<cards, complaint, task, answers, lost, losses>>

\* A variant of TapLocation below that does not look at the card's token.
TapAnyLocation(c, l) ==
    /\ In(c, "confirming_location")
    /\ l \in shared
    /\ \/ Set(c, [conv[c] EXCEPT !.state = "awaiting_issue", !.agreed = l])
       \/ Set(c, [conv[c] EXCEPT !.state = "awaiting_location",
                                 !.staged = None, !.agreed = None])
    /\ UNCHANGED <<shared, cards, complaint, task, answers, lost, losses>>

\* "Yes" or "No" on the card of location l: a card other than the last one
\* staged does nothing.
TapLocation(c, l) ==
    /\ In(c, "confirming_location")
    /\ l \in shared
    /\ l = conv[c].staged
    /\ \/ Set(c, [conv[c] EXCEPT !.state = "awaiting_issue", !.agreed = l])
       \/ Set(c, [conv[c] EXCEPT !.state = "awaiting_location",
                                 !.staged = None, !.agreed = None])
    /\ UNCHANGED <<shared, cards, complaint, task, answers, lost, losses>>

Describe(c) ==
    /\ In(c, "awaiting_issue")
    /\ Set(c, [conv[c] EXCEPT !.told = TRUE])
    /\ UNCHANGED <<shared, cards, complaint, task, answers, lost, losses>>

IssueDone(c) ==
    /\ In(c, "awaiting_issue")
    /\ conv[c].told
    /\ Set(c, [conv[c] EXCEPT !.state = "awaiting_photo"])
    /\ UNCHANGED <<shared, cards, complaint, task, answers, lost, losses>>

\* A photo, or "Skip": the draft is created, and run_pipeline_followup called.
CreateDraft(s, c) ==
    /\ Idle(s)
    /\ In(c, "awaiting_photo")
    /\ Set(c, [conv[c] EXCEPT !.state = "processing", !.draft = c])
    /\ complaint' = [complaint EXCEPT ![c] = "draft"]
    /\ Start(s, "run", c)
    /\ UNCHANGED <<shared, cards, answers, lost, losses>>

\* A variant of AnswerMismatch below that does not notice a missing draft.
AnswerMismatchBlind(s, c) ==
    /\ Idle(s)
    /\ In(c, "photo_mismatch")
    /\ Set(c, [conv[c] EXCEPT !.state = "processing"])
    /\ Start(s, "recheck", conv[c].draft)
    /\ UNCHANGED <<shared, cards, complaint, answers, lost, losses>>

\* A new photo, or "Continue".  Without a draft a photo's turn raises and is
\* rolled back, and what "Continue" starts raises at once.
AnswerMismatch(s, c) ==
    /\ Idle(s)
    /\ In(c, "photo_mismatch")
    /\ Set(c, [conv[c] EXCEPT !.state = "processing"])
    /\ IF conv[c].draft = None THEN UNCHANGED task
                               ELSE Start(s, "recheck", conv[c].draft)
    /\ UNCHANGED <<shared, cards, complaint, answers, lost, losses>>

Sent(g) ==
    \E c \in Conversations : <<c, "awaiting_confirmation", g>> \in cards

\* A variant of Answer below that leaves the conversation open.
AnswerOpen(s, c, pc) ==
    LET g == conv[c].draft
    IN  /\ Idle(s)
        /\ In(c, "awaiting_confirmation")
        /\ g # None /\ Sent(g)
        /\ answers' = [answers EXCEPT ![g] = @ + 1]
        /\ Start(s, pc, g)
        /\ UNCHANGED <<conv, shared, cards, complaint, lost, losses>>

\* A button of the confirmation card of this conversation's own draft; another
\* complaint's card does nothing.
Answer(s, c, pc) ==
    LET g == conv[c].draft
    IN  /\ Idle(s)
        /\ In(c, "awaiting_confirmation")
        /\ g # None /\ Sent(g)
        /\ Set(c, [conv[c] EXCEPT !.state = "done", !.active = FALSE])
        /\ answers' = [answers EXCEPT ![g] = @ + 1]
        /\ Start(s, pc, g)
        /\ UNCHANGED <<shared, cards, complaint, lost, losses>>

\* conversation_ttl_hours pass without a message.
Elapse(c) ==
    /\ Current(c)
    /\ Set(c, [conv[c] EXCEPT !.due = TRUE])
    /\ UNCHANGED <<shared, cards, complaint, task, answers, lost, losses>>

\* The status query finds no current conversation and retires an expired one.
AskStatus(c) ==
    /\ conv[c].active /\ conv[c].due
    /\ Set(c, [conv[c] EXCEPT !.active = FALSE])
    /\ UNCHANGED <<shared, cards, complaint, task, answers, lost, losses>>

-----------------------------------------------------------------------------
(***************************************************************************)
(* What happens outside the turns.                                         *)
(***************************************************************************)

Finish(s) == task' = [task EXCEPT ![s] = NoTask]

\* run_pipeline or recheck_image commits the status it has found.
CheckEnds(s) ==
    LET g == task[s].on
    IN  /\ task[s].pc \in {"run", "recheck"}
        /\ \E out \in Asking :
              /\ complaint' = [complaint EXCEPT ![g] = out]
              /\ task' = [task EXCEPT ![s].pc = "follow_up", ![s].out = out]
        /\ UNCHANGED <<conv, shared, cards, answers, lost, losses>>

\* A variant of FollowUp below that moves the conversation of the complaint,
\* open or not.
FollowUpOwn(s) ==
    LET g == task[s].on
        out == task[s].out
    IN  /\ task[s].pc = "follow_up"
        /\ \/ /\ g \in Conversations
              /\ Set(g, [conv[g] EXCEPT !.state = out])
              /\ cards' = cards \cup {<<g, out, g>>}
           \/ /\ g \in Web
              /\ UNCHANGED <<conv, cards>>
        /\ Finish(s)
        /\ UNCHANGED <<shared, complaint, answers, lost, losses>>

\* A variant of FollowUp below that loses the result.
FollowUpSilent(s) ==
    /\ task[s].pc = "follow_up"
    /\ Finish(s)
    /\ UNCHANGED <<conv, shared, cards, complaint, answers, lost, losses>>

\* _send_pipeline_followup_message.
FollowUp(s) ==
    LET g == task[s].on
        out == task[s].out
    IN  /\ task[s].pc = "follow_up"
        /\ \/ \E c \in Conversations :
                 /\ Current(c)
                 /\ Set(c, [conv[c] EXCEPT !.state = out])
                 /\ cards' = cards \cup {<<c, out, g>>}
           \/ /\ \A c \in Conversations : ~Current(c)
              /\ UNCHANGED <<conv, cards>>
        /\ Finish(s)
        /\ UNCHANGED <<shared, complaint, answers, lost, losses>>

\* finalize_grievance or cancel_grievance.
Conclude(s) ==
    /\ task[s].pc \in {"finalize", "cancel"}
    /\ complaint' = [complaint EXCEPT ![task[s].on] =
                        IF task[s].pc = "finalize" THEN "filed"
                                                   ELSE "cancelled"]
    /\ Finish(s)
    /\ UNCHANGED <<conv, shared, cards, answers, lost, losses>>

FileOnWeb(g) ==
    /\ g \in Web
    /\ complaint[g] = "none"
    /\ complaint' = [complaint EXCEPT ![g] = "draft"]
    /\ UNCHANGED <<conv, shared, cards, task, answers, lost, losses>>

\* The worker runs a web complaint's job; nobody is told by chat.
RunJob(g) ==
    /\ g \in Web
    /\ complaint[g] = "draft"
    /\ \E out \in Asking : complaint' = [complaint EXCEPT ![g] = out]
    /\ UNCHANGED <<conv, shared, cards, task, answers, lost, losses>>

\* A draft nobody has run for 300 s, filed by chat or on the web.
SweepStuckProcessing(s, g) ==
    /\ Idle(s)
    /\ complaint[g] = "draft"
    /\ \A t \in Sessions : task[t].on # g
    /\ Start(s, "run", g)
    /\ UNCHANGED <<conv, shared, cards, complaint, answers, lost, losses>>

\* The work raises, and is logged, or its process dies.  A draft is left to
\* the sweep; nothing repeats a check of the photo or a follow-up.
Lose(s) ==
    /\ ~Idle(s)
    /\ losses < MaxLosses
    /\ losses' = losses + 1
    /\ lost' = IF task[s].pc = "run" THEN lost ELSE lost \cup {task[s].on}
    /\ Finish(s)
    /\ UNCHANGED <<conv, shared, cards, complaint, answers>>

Turn(c) ==
    \/ Greet(c) \/ Describe(c) \/ IssueDone(c) \/ AskStatus(c)
    \/ \E l \in Locations : ShareLocation(c, l) \/ TapLocation(c, l)
    \/ \E s \in Sessions :
          \/ CreateDraft(s, c) \/ AnswerMismatch(s, c)
          \/ Answer(s, c, "finalize") \/ Answer(s, c, "cancel")

Continue(s) == CheckEnds(s) \/ FollowUp(s) \/ Conclude(s)

Next ==
    \/ \E c \in Conversations : Turn(c) \/ Elapse(c)
    \/ \E s \in Sessions : Continue(s) \/ Lose(s)
    \/ \E g \in Complaints :
          \/ FileOnWeb(g) \/ RunJob(g)
          \/ \E s \in Sessions : SweepStuckProcessing(s, g)

Spec == Init /\ [][Next]_vars

\* Sessions run on and the sweep comes back to every stuck draft.  Nothing
\* makes a citizen write.
Fairness ==
    /\ \A s \in Sessions : WF_vars(Continue(s))
    /\ \A g \in Complaints :
          SF_vars(\E s \in Sessions : SweepStuckProcessing(s, g))

FairSpec == Spec /\ Fairness

-----------------------------------------------------------------------------
(***************************************************************************)
(* Properties.                                                             *)
(***************************************************************************)

TypeOK ==
    /\ conv \in [Conversations -> Row]
    /\ shared \subseteq Locations
    /\ cards \subseteq Card
    /\ complaint \in [Complaints -> {"none", "draft", "filed", "cancelled"}
                                        \cup Asking]
    /\ task \in [Sessions -> Task]
    /\ \A s \in Sessions : ~Idle(s) => task[s].on \in Complaints
    /\ answers \in [Complaints -> Nat]
    /\ lost \subseteq Complaints
    /\ losses \in 0..MaxLosses

\* Whatever cards the citizen taps and whatever follow-ups move the dialog, a
\* complaint is drafted with an issue, and with the location the citizen agreed
\* to, which is the last one shared before (conversation.py: "a `Yes' on an old
\* confirmation card [...] is ignored once a newer location has been staged").
DraftIsComplete ==
    \A c \in Conversations :
        complaint[c] # "none" =>
            /\ conv[c].told
            /\ conv[c].staged # None
            /\ conv[c].agreed = conv[c].staged

\* A complaint is confirmed or cancelled by chat once, however often its cards
\* are tapped and whichever follow-ups arrive late.
AnsweredOnce == \A g \in Complaints : answers[g] <= 1

\* A conversation that was closed is never opened or moved again
\* (repositories/conversations.py: only the active one is returned).
ClosedIsFinal ==
    [][\A c \in Conversations :
          conv[c].state # "none" /\ ~conv[c].active => conv'[c] = conv[c]]_conv

\* A card about the conversation's own complaint was sent in it.
AskedAboutDraft(c) == \E out \in Asking : <<c, out, c>> \in cards

\* "Please wait" ends: a conversation that waits for its draft leaves that state
\* with a card about that very complaint sent, or has expired, although
\* follow-ups about other complaints may move it first and the run may be lost
\* and repeated by the sweep, unless the check of the photo or the follow-up was
\* lost.  (Of several checks of its photo the first is sure of a card of its own.)
WaitEnds ==
    \A c \in Conversations :
        conv[c].state = "processing" /\ conv[c].draft = c
            ~> \/ conv[c].state # "processing" /\ AskedAboutDraft(c)
               \/ conv[c].due \/ c \in lost

\* Only a conversation that waits for the pipeline is asked about its result
\* (README, "WhatsApp Conversation State Machine").
AskedAfterWait ==
    [][\A c \in Conversations :
          /\ conv[c].state # conv'[c].state
          /\ conv'[c].state \in Asking
          => conv[c].state \in {"processing"} \cup Asking]_conv
=============================================================================
