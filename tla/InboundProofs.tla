----------------------------- MODULE InboundProofs -----------------------------
(***************************************************************************)
(* Theorems about the way of a citizen's message: WebhookInbox, from the   *)
(* webhook to its turn, and Conversation, from turn to turn.  They hold    *)
(* for any number of events, messages, drivers, conversations, complaints, *)
(* shared locations and sessions, and any number of failures and crashes.  *)
(***************************************************************************)
EXTENDS Conversation, WebhookInbox, TLAPS

-----------------------------------------------------------------------------
(***************************************************************************)
(* The conversation.  A follow-up may move it from any state to a          *)
(* question, so a state says little of how it was reached: what ties the   *)
(* dialog to its complaint is the draft in the context.                    *)
(***************************************************************************)

\* A location is staged, and it is the one the citizen agreed to.
Agreed(r) == r.staged # None /\ r.agreed = r.staged

\* Where a conversation with a draft can be.
Drafted == Asking \cup {"processing", "done"}

RowInv(c) ==
    /\ conv[c].draft \in {None, c}
    /\ conv[c].draft = c <=> complaint[c] # "none"
    /\ conv[c].state = "none" => ~conv[c].active /\ answers[c] = 0
    /\ conv[c].state \in {"awaiting_issue", "awaiting_photo"} => Agreed(conv[c])
    /\ conv[c].state = "awaiting_photo" => conv[c].told
    /\ conv[c].draft = c => /\ conv[c].told /\ Agreed(conv[c])
                            /\ conv[c].state \in Drafted
    /\ answers[c] = 0 \/ (answers[c] = 1 /\ ~conv[c].active)

\* Work is done on complaints that exist, and a follow-up has a result.
TaskInv(s) ==
    /\ ~Idle(s) => task[s].on \in Complaints /\ complaint[task[s].on] # "none"
    /\ task[s].pc = "follow_up" => task[s].out \in Asking

IInv ==
    /\ TypeOK
    /\ \A c \in Conversations : RowInv(c)
    /\ \A s \in Sessions : TaskInv(s)
    /\ \A g \in Web : answers[g] = 0

LEMMA InitOK == Init => IInv
<1> SUFFICES ASSUME Init PROVE IInv
  OBVIOUS
<1>1. Unborn \in Row /\ NoTask \in Task
  BY DEF Unborn, Row, State, NoTask, Task
<1>2. TypeOK
  BY <1>1, ConversationAssumption DEF Init, TypeOK, Idle, NoTask
<1>3. ASSUME NEW c \in Conversations PROVE RowInv(c)
  <2>1. c # None /\ c \in Complaints
    BY ConversationAssumption DEF Complaints
  <2>2. conv[c] = Unborn /\ complaint[c] = "none" /\ answers[c] = 0
    BY <2>1 DEF Init
  <2> QED  BY <2>1, <2>2 DEF RowInv, Unborn
<1>4. ASSUME NEW t \in Sessions PROVE TaskInv(t)
  BY DEF Init, TaskInv, Idle, NoTask
<1>5. \A g \in Web : answers[g] = 0
  BY DEF Init, Complaints
<1> QED  BY <1>2, <1>3, <1>4, <1>5 DEF IInv

-----------------------------------------------------------------------------
(***************************************************************************)
(* What a step does to the tasks and to the rows.                          *)
(***************************************************************************)

\* The facts every step uses.
LEMMA Facts ==
    ASSUME IInv
    PROVE  /\ conv \in [Conversations -> Row]
           /\ complaint \in [Complaints -> {"none", "draft", "filed", "cancelled"}
                                              \cup Asking]
           /\ task \in [Sessions -> Task]
           /\ answers \in [Complaints -> Nat]
           /\ Conversations \subseteq Complaints /\ Web \subseteq Complaints
           /\ None \notin Complaints /\ None \notin Locations
           /\ \A c \in Conversations : c \notin Web
           /\ \A s \in Sessions : TaskInv(s)
           /\ \A c \in Conversations : conv[c] \in Row /\ RowInv(c)
BY ConversationAssumption DEF IInv, TypeOK, Complaints

RowsOK == /\ conv \in [Conversations -> Row]
          /\ \A c \in Conversations : RowInv(c)

TasksOK == /\ task \in [Sessions -> Task]
           /\ \A s \in Sessions : TaskInv(s)

ComplaintsOK ==
    complaint \in [Complaints -> {"none", "draft", "filed", "cancelled"}
                                    \cup Asking]

AnswersOK == /\ answers \in [Complaints -> Nat]
             /\ \A g \in Web : answers[g] = 0

RestOK == /\ shared \subseteq Locations
          /\ cards \subseteq Card
          /\ lost \subseteq Complaints
          /\ losses \in 0..MaxLosses

LEMMA Parts == IInv <=> RowsOK /\ TasksOK /\ ComplaintsOK /\ AnswersOK /\ RestOK
BY DEF IInv, TypeOK, RowsOK, TasksOK, ComplaintsOK, AnswersOK, RestOK, TaskInv

LEMMA PartsAfter ==
    IInv' <=> RowsOK' /\ TasksOK' /\ ComplaintsOK' /\ AnswersOK' /\ RestOK'
BY DEF IInv, TypeOK, RowsOK, TasksOK, ComplaintsOK, AnswersOK, RestOK, TaskInv

\* A complaint once drafted is never undone.
Stay == \A g \in Complaints : complaint[g] # "none" => complaint'[g] # "none"

LEMMA TasksKept ==
    ASSUME IInv, Stay, UNCHANGED task
    PROVE  TasksOK'
BY Facts DEF TasksOK, TaskInv, Stay, Idle

Work == {"run", "recheck", "finalize", "cancel"}

LEMMA TaskStarts ==
    ASSUME IInv, Stay, NEW s \in Sessions, NEW pc \in Work,
           NEW g \in Complaints, complaint'[g] # "none", Start(s, pc, g)
    PROVE  TasksOK'
<1>1. [pc |-> pc, on |-> g, out |-> "none"] \in Task
  BY DEF Task, Work
<1>2. /\ task' \in [Sessions -> Task]
      /\ task'[s] = [pc |-> pc, on |-> g, out |-> "none"]
      /\ \A t \in Sessions \ {s} : task'[t] = task[t]
  BY <1>1, Facts DEF Start
<1>3. TaskInv(s)'
  BY <1>2 DEF TaskInv, Idle, Work
<1>4. ASSUME NEW t \in Sessions \ {s} PROVE TaskInv(t)'
  BY <1>2, Facts DEF TaskInv, Stay, Idle
<1> QED  BY <1>2, <1>3, <1>4 DEF TasksOK

LEMMA TaskEnds ==
    ASSUME IInv, Stay, NEW s \in Sessions, Finish(s)
    PROVE  TasksOK'
<1>1. NoTask \in Task
  BY DEF NoTask, Task
<1>2. /\ task' \in [Sessions -> Task]
      /\ task'[s] = NoTask
      /\ \A t \in Sessions \ {s} : task'[t] = task[t]
  BY <1>1, Facts DEF Finish
<1>3. TaskInv(s)'
  BY <1>2 DEF TaskInv, Idle, NoTask
<1>4. ASSUME NEW t \in Sessions \ {s} PROVE TaskInv(t)'
  BY <1>2, Facts DEF TaskInv, Stay, Idle
<1> QED  BY <1>2, <1>3, <1>4 DEF TasksOK

\* A conversation that is not written, and whose complaint is not drafted or
\* answered.
LEMMA RowKept ==
    ASSUME IInv, NEW c \in Conversations,
           conv'[c] = conv[c], answers'[c] = answers[c],
           complaint'[c] = "none" <=> complaint[c] = "none"
    PROVE  RowInv(c)'
BY Facts DEF RowInv

LEMMA RowsKept ==
    ASSUME IInv, UNCHANGED conv, UNCHANGED answers,
           \A c \in Conversations :
              complaint'[c] = "none" <=> complaint[c] = "none"
    PROVE  RowsOK'
BY RowKept, Facts DEF RowsOK

\* One conversation is written.
LEMMA RowSet ==
    ASSUME IInv, NEW c \in Conversations, NEW r \in Row, Set(c, r),
           \A d \in Conversations \ {c} :
              /\ complaint'[d] = "none" <=> complaint[d] = "none"
              /\ answers'[d] = answers[d],
           conv'[c] = r => RowInv(c)'
    PROVE  RowsOK'
<1>1. /\ conv' \in [Conversations -> Row]
      /\ conv'[c] = r
      /\ \A d \in Conversations \ {c} : conv'[d] = conv[d]
  BY Facts DEF Set
<1>2. ASSUME NEW d \in Conversations \ {c} PROVE RowInv(d)'
  BY <1>1, RowKept
<1> QED  BY <1>1, <1>2 DEF RowsOK

\* A turn that writes only the conversation: it keeps the draft and, once
\* there is one, what the complaint was drafted with.
LEMMA RowMoved ==
    ASSUME IInv, NEW c \in Conversations, NEW r \in Row, Set(c, r),
           UNCHANGED complaint, UNCHANGED answers,
           r.draft = conv[c].draft,
           r.state # "none", r.active => conv[c].active,
           r.state \in {"awaiting_issue", "awaiting_photo"} => Agreed(r),
           r.state = "awaiting_photo" => r.told,
           r.draft = c => r.told /\ Agreed(r) /\ r.state \in Drafted
    PROVE  RowsOK'
<1>1. conv[c].draft \in {None, c}
      /\ (conv[c].draft = c <=> complaint[c] # "none")
      /\ (answers[c] = 0 \/ (answers[c] = 1 /\ ~conv[c].active))
  BY Facts DEF RowInv
<1>2. ASSUME conv'[c] = r PROVE RowInv(c)'
  <2>1. complaint'[c] = complaint[c] /\ answers'[c] = answers[c]
    OBVIOUS
  <2> QED  BY <1>1, <1>2, <2>1 DEF RowInv
<1> QED  BY <1>2, RowSet

-----------------------------------------------------------------------------
(***************************************************************************)
(* The turns.                                                              *)
(***************************************************************************)

\* A new conversation: its complaint does not exist yet, and the others only
\* close.
LEMMA GreetKeeps ==
    ASSUME IInv, NEW c \in Conversations, Greet(c)
    PROVE  IInv'
<1>1. PICK r \in Row :
         /\ conv' = [d \in Conversations |->
                        IF d = c THEN r ELSE [conv[d] EXCEPT !.active = FALSE]]
         /\ shared' \subseteq Locations
         /\ r.draft = None
         /\ r.state \in {"awaiting_location", "confirming_location"}
  <2> DEFINE new == [Unborn EXCEPT !.state = "awaiting_location",
                                   !.active = TRUE]
  <2>1. /\ new \in Row /\ new.draft = None
        /\ new.state = "awaiting_location"
    BY DEF Unborn, Row, State
  <2>2. ASSUME NEW l \in Locations
        PROVE  /\ Staged(new, l) \in Row /\ Staged(new, l).draft = None
               /\ Staged(new, l).state = "confirming_location"
    BY DEF Unborn, Row, State, Staged
  <2>3. shared \subseteq Locations
    BY DEF IInv, TypeOK
  <2> HIDE DEF new
  <2>4. CASE /\ UNCHANGED shared
             /\ conv' = [d \in Conversations |->
                            IF d = c THEN new
                            ELSE [conv[d] EXCEPT !.active = FALSE]]
    BY <2>1, <2>3, <2>4
  <2>5. CASE \E l \in Locations \ shared :
                /\ conv' = [d \in Conversations |->
                               IF d = c THEN Staged(new, l)
                               ELSE [conv[d] EXCEPT !.active = FALSE]]
                /\ shared' = shared \cup {l}
    <3>1. PICK l \in Locations :
             /\ conv' = [d \in Conversations |->
                            IF d = c THEN Staged(new, l)
                            ELSE [conv[d] EXCEPT !.active = FALSE]]
             /\ shared' = shared \cup {l}
      BY <2>5
    <3> QED  BY <2>2, <2>3, <3>1
  <2> QED  BY <2>4, <2>5 DEF Greet, new
<1>2. /\ conv[c].state = "none"
      /\ UNCHANGED <<cards, complaint, task, answers, lost, losses>>
  BY DEF Greet
<1>3. /\ conv' \in [Conversations -> Row] /\ conv'[c] = r
      /\ \A d \in Conversations \ {c} :
            /\ conv'[d].draft = conv[d].draft
            /\ conv'[d].state = conv[d].state
            /\ conv'[d].told = conv[d].told
            /\ conv'[d].staged = conv[d].staged
            /\ conv'[d].agreed = conv[d].agreed
            /\ conv'[d].active = FALSE
  <2>1. \A d \in Conversations : [conv[d] EXCEPT !.active = FALSE] \in Row
    BY Facts DEF Row
  <2>2. conv' \in [Conversations -> Row] /\ conv'[c] = r
    BY <1>1, <2>1
  <2>3. ASSUME NEW d \in Conversations \ {c}
        PROVE  /\ conv'[d].draft = conv[d].draft
               /\ conv'[d].state = conv[d].state
               /\ conv'[d].told = conv[d].told
               /\ conv'[d].staged = conv[d].staged
               /\ conv'[d].agreed = conv[d].agreed
               /\ conv'[d].active = FALSE
    <3>1. conv'[d] = [conv[d] EXCEPT !.active = FALSE]
      BY <1>1
    <3>2. conv[d] \in Row
      BY Facts
    <3> QED  BY <3>1, <3>2 DEF Row
  <2> QED  BY <2>2, <2>3
<1>4. RowInv(c)'
  <2>1. conv[c].draft # c /\ answers[c] = 0 /\ c # None
    BY <1>2, Facts DEF RowInv, Drafted, Asking
  <2>2. complaint[c] = "none"
    BY <2>1, Facts DEF RowInv
  <2> QED  BY <1>1, <1>2, <1>3, <2>1, <2>2 DEF RowInv
<1>5. ASSUME NEW d \in Conversations \ {c} PROVE RowInv(d)'
  <2>1. RowInv(d)
    BY Facts
  <2>2. complaint'[d] = complaint[d] /\ answers'[d] = answers[d]
    BY <1>2
  <2> QED  BY <1>3, <2>1, <2>2 DEF RowInv, Agreed
<1>6. TasksOK'
  BY <1>2, TasksKept DEF Stay
<1> QED  BY <1>1, <1>2, <1>3, <1>4, <1>5, <1>6, Parts, PartsAfter
         DEF RowsOK, ComplaintsOK, AnswersOK, RestOK

\* The turns that write the conversation only, and the passing of its time.
LEMMA MoveKeeps ==
    ASSUME IInv, NEW c \in Conversations,
           \/ \E l \in Locations : ShareLocation(c, l) \/ TapLocation(c, l)
           \/ Describe(c) \/ IssueDone(c) \/ Elapse(c) \/ AskStatus(c)
    PROVE  IInv'
<1>0. conv[c] \in Row /\ RowInv(c)
  BY Facts
<1>1. /\ shared' \subseteq Locations
      /\ UNCHANGED <<cards, complaint, task, answers, lost, losses>>
  BY Parts DEF RestOK, ShareLocation, TapLocation, Describe, IssueDone, Elapse,
               AskStatus
<1>2. RowsOK'
  <2>1. ASSUME NEW l \in Locations, ShareLocation(c, l) PROVE RowsOK'
    <3> DEFINE r == Staged(conv[c], l)
    <3>1. /\ r \in Row /\ r.draft = conv[c].draft /\ r.active = conv[c].active
          /\ r.state = "confirming_location"
      BY <1>0 DEF Row, State, Staged
    <3>2. conv[c].draft # c
      BY <1>0, <2>1 DEF RowInv, ShareLocation, In, Drafted, Asking
    <3>3. Set(c, r)
      BY <2>1 DEF ShareLocation
    <3> HIDE DEF r
    <3> QED  BY <1>1, <3>1, <3>2, <3>3, RowMoved
  <2>2. ASSUME NEW l \in Locations, TapLocation(c, l) PROVE RowsOK'
    <3> DEFINE y == [conv[c] EXCEPT !.state = "awaiting_issue", !.agreed = l]
               n == [conv[c] EXCEPT !.state = "awaiting_location",
                                    !.staged = None, !.agreed = None]
    <3>1. /\ y \in Row /\ y.draft = conv[c].draft /\ y.active = conv[c].active
          /\ y.state = "awaiting_issue" /\ y.agreed = l
          /\ y.staged = conv[c].staged
      BY <1>0 DEF Row, State
    <3>2. /\ n \in Row /\ n.draft = conv[c].draft /\ n.active = conv[c].active
          /\ n.state = "awaiting_location"
      BY <1>0 DEF Row, State
    <3>3. conv[c].draft # c
      BY <1>0, <2>2 DEF RowInv, TapLocation, In, Drafted, Asking
    <3>4. l = conv[c].staged /\ l # None /\ (Set(c, y) \/ Set(c, n))
      BY <2>2, Facts DEF TapLocation
    <3>5. Agreed(y)
      BY <3>1, <3>4 DEF Agreed
    <3> HIDE DEF y, n
    <3>6. CASE Set(c, y)
      BY <1>1, <3>1, <3>3, <3>5, <3>6, RowMoved
    <3>7. CASE Set(c, n)
      BY <1>1, <3>2, <3>3, <3>7, RowMoved
    <3> QED  BY <3>4, <3>6, <3>7
  <2>3. ASSUME Describe(c) PROVE RowsOK'
    <3> DEFINE r == [conv[c] EXCEPT !.told = TRUE]
    <3>1. /\ r \in Row /\ r.draft = conv[c].draft /\ r.active = conv[c].active
          /\ r.state = conv[c].state /\ r.told
          /\ r.staged = conv[c].staged /\ r.agreed = conv[c].agreed
      BY <1>0 DEF Row
    <3>2. conv[c].state = "awaiting_issue" /\ Set(c, r)
      BY <2>3 DEF Describe, In
    <3>3. conv[c].draft # c /\ Agreed(r)
      BY <1>0, <3>1, <3>2 DEF RowInv, Drafted, Asking, Agreed
    <3> HIDE DEF r
    <3> QED  BY <1>1, <3>1, <3>2, <3>3, RowMoved
  <2>4. ASSUME IssueDone(c) PROVE RowsOK'
    <3> DEFINE r == [conv[c] EXCEPT !.state = "awaiting_photo"]
    <3>1. /\ r \in Row /\ r.draft = conv[c].draft /\ r.active = conv[c].active
          /\ r.state = "awaiting_photo" /\ r.told = conv[c].told
          /\ r.staged = conv[c].staged /\ r.agreed = conv[c].agreed
      BY <1>0 DEF Row, State
    <3>2. conv[c].state = "awaiting_issue" /\ conv[c].told /\ Set(c, r)
      BY <2>4 DEF IssueDone, In
    <3>3. conv[c].draft # c /\ Agreed(r)
      BY <1>0, <3>1, <3>2 DEF RowInv, Drafted, Asking, Agreed
    <3> HIDE DEF r
    <3> QED  BY <1>1, <3>1, <3>2, <3>3, RowMoved
  <2>5. ASSUME Elapse(c) \/ AskStatus(c) PROVE RowsOK'
    <3> DEFINE Time(r) == /\ r \in Row /\ r.draft = conv[c].draft
                          /\ r.active => conv[c].active
                          /\ r.state = conv[c].state /\ r.told = conv[c].told
                          /\ r.staged = conv[c].staged
                          /\ r.agreed = conv[c].agreed
    <3>1. Time([conv[c] EXCEPT !.due = TRUE])
      BY <1>0 DEF Row
    <3>2. Time([conv[c] EXCEPT !.active = FALSE])
      BY <1>0 DEF Row
    <3>3. PICK r : Time(r) /\ Set(c, r)
      BY <2>5, <3>1, <3>2 DEF Elapse, AskStatus
    <3>4. conv[c].state # "none"
      BY <1>0, <2>5 DEF RowInv, Elapse, AskStatus, Current
    <3>5. /\ r.state \in {"awaiting_issue", "awaiting_photo"} => Agreed(r)
          /\ r.state = "awaiting_photo" => r.told
          /\ r.draft = c => r.told /\ Agreed(r) /\ r.state \in Drafted
      BY <1>0, <3>3 DEF RowInv, Agreed
    <3> QED  BY <1>1, <3>3, <3>4, <3>5, RowMoved
  <2> QED  BY <2>1, <2>2, <2>3, <2>4, <2>5
<1>3. TasksOK'
  BY <1>1, TasksKept DEF Stay
<1> QED  BY <1>1, <1>2, <1>3, Parts, PartsAfter DEF ComplaintsOK, AnswersOK, RestOK

\* The draft: the issue is told and the location agreed to.
LEMMA CreateDraftKeeps ==
    ASSUME IInv, NEW s \in Sessions, NEW c \in Conversations, CreateDraft(s, c)
    PROVE  IInv'
<1>0. /\ conv[c] \in Row /\ RowInv(c) /\ c \in Complaints /\ c # None
  BY Facts
<1> DEFINE r == [conv[c] EXCEPT !.state = "processing", !.draft = c]
<1>1. /\ r \in Row /\ r.draft = c /\ r.state = "processing"
      /\ r.told = conv[c].told /\ r.active = conv[c].active
      /\ r.staged = conv[c].staged /\ r.agreed = conv[c].agreed
  BY <1>0 DEF Row, State
<1>2. /\ conv[c].state = "awaiting_photo" /\ Set(c, r)
      /\ complaint' = [complaint EXCEPT ![c] = "draft"]
      /\ Start(s, "run", c)
      /\ UNCHANGED <<shared, cards, answers, lost, losses>>
  BY DEF CreateDraft, In
<1> HIDE DEF r
<1>3. /\ ComplaintsOK' /\ Stay /\ complaint'[c] = "draft"
      /\ \A g \in Complaints \ {c} : complaint'[g] = complaint[g]
  BY <1>0, <1>2, Facts DEF ComplaintsOK, Stay
<1>4. TasksOK'
  BY <1>0, <1>2, <1>3, TaskStarts DEF Work
<1>5. ASSUME conv'[c] = r PROVE RowInv(c)'
  <2>1. conv[c].told /\ Agreed(r)
    BY <1>0, <1>1, <1>2 DEF RowInv, Agreed
  <2>2. answers[c] = 0 \/ (answers[c] = 1 /\ ~r.active)
    BY <1>0, <1>1 DEF RowInv
  <2>3. answers'[c] = answers[c]
    BY <1>2
  <2> QED  BY <1>1, <1>3, <1>5, <2>1, <2>2, <2>3 DEF RowInv, Drafted
<1>6. \A d \in Conversations \ {c} :
         /\ complaint'[d] = "none" <=> complaint[d] = "none"
         /\ answers'[d] = answers[d]
  BY <1>2, <1>3, Facts
<1>7. RowsOK'
  BY <1>1, <1>2, <1>5, <1>6, RowSet
<1> QED  BY <1>2, <1>3, <1>4, <1>7, Parts, PartsAfter DEF AnswersOK, RestOK

\* The answer to a photo that does not match.
LEMMA AnswerMismatchKeeps ==
    ASSUME IInv, NEW s \in Sessions, NEW c \in Conversations,
           AnswerMismatch(s, c)
    PROVE  IInv'
<1>0. /\ conv[c] \in Row /\ RowInv(c) /\ c \in Complaints
  BY Facts
<1> DEFINE r == [conv[c] EXCEPT !.state = "processing"]
<1>1. /\ r \in Row /\ r.draft = conv[c].draft /\ r.state = "processing"
      /\ r.told = conv[c].told /\ r.active = conv[c].active
      /\ r.staged = conv[c].staged /\ r.agreed = conv[c].agreed
  BY <1>0 DEF Row, State
<1>2. /\ Set(c, r)
      /\ UNCHANGED <<shared, cards, complaint, answers, lost, losses>>
      /\ IF conv[c].draft = None THEN UNCHANGED task
                                 ELSE Start(s, "recheck", conv[c].draft)
  BY DEF AnswerMismatch
<1> HIDE DEF r
<1>3. r.draft = c => r.told /\ Agreed(r) /\ r.state \in Drafted
  BY <1>0, <1>1 DEF RowInv, Agreed, Drafted
<1>4. RowsOK'
  BY <1>1, <1>2, <1>3, RowMoved
<1>5. Stay
  BY <1>2 DEF Stay
<1>6. TasksOK'
  <2>1. CASE UNCHANGED task
    BY <1>5, <2>1, TasksKept
  <2>2. CASE conv[c].draft # None /\ Start(s, "recheck", conv[c].draft)
    <3>1. conv[c].draft = c /\ complaint'[c] # "none"
      BY <1>0, <1>2, <2>2 DEF RowInv
    <3> QED  BY <1>0, <1>5, <2>2, <3>1, TaskStarts DEF Work
  <2> QED  BY <1>2, <2>1, <2>2
<1> QED  BY <1>2, <1>4, <1>6, Parts, PartsAfter DEF ComplaintsOK, AnswersOK, RestOK

\* The final answer: counted, and the conversation closed.
LEMMA AnswerKeeps ==
    ASSUME IInv, NEW s \in Sessions, NEW c \in Conversations,
           NEW pc \in {"finalize", "cancel"}, Answer(s, c, pc)
    PROVE  IInv'
<1>0. /\ conv[c] \in Row /\ RowInv(c) /\ c \in Complaints /\ c \notin Web
      /\ answers \in [Complaints -> Nat]
  BY Facts
<1>1. conv[c].draft = c /\ conv[c].active
  BY <1>0 DEF Answer, RowInv, In, Current
<1> DEFINE r == [conv[c] EXCEPT !.state = "done", !.active = FALSE]
<1>2. /\ r \in Row /\ r.draft = c /\ r.state = "done" /\ ~r.active
      /\ r.told = conv[c].told
      /\ r.staged = conv[c].staged /\ r.agreed = conv[c].agreed
  BY <1>0, <1>1 DEF Row, State
<1>3. /\ Set(c, r)
      /\ answers' = [answers EXCEPT ![c] = @ + 1]
      /\ Start(s, pc, c)
      /\ UNCHANGED <<shared, cards, complaint, lost, losses>>
  BY <1>1 DEF Answer
<1> HIDE DEF r
<1>4. answers[c] = 0 /\ complaint[c] # "none" /\ conv[c].told /\ Agreed(r)
  BY <1>0, <1>1, <1>2 DEF RowInv, Agreed
<1>5. /\ answers' \in [Complaints -> Nat] /\ answers'[c] = 1
      /\ \A g \in Complaints \ {c} : answers'[g] = answers[g]
  BY <1>0, <1>3, <1>4
<1>6. AnswersOK'
  BY <1>0, <1>5, Parts, Facts DEF AnswersOK
<1>7. Stay
  BY <1>3 DEF Stay
<1>8. TasksOK'
  BY <1>0, <1>3, <1>4, <1>7, TaskStarts DEF Work
<1>9. ASSUME conv'[c] = r PROVE RowInv(c)'
  BY <1>2, <1>3, <1>4, <1>5, <1>9 DEF RowInv, Drafted
<1>10. RowsOK'
  BY <1>2, <1>3, <1>5, <1>9, Facts, RowSet
<1> QED  BY <1>3, <1>6, <1>8, <1>10, Parts, PartsAfter DEF ComplaintsOK, RestOK

-----------------------------------------------------------------------------
(***************************************************************************)
(* What happens outside the turns.                                         *)
(***************************************************************************)

\* The commit of a run, of a check or of the final answer: it is about a
\* complaint that exists.
LEMMA ResultKeeps ==
    ASSUME IInv, NEW s \in Sessions, CheckEnds(s) \/ Conclude(s)
    PROVE  IInv'
<1> DEFINE g == task[s].on
<1>0. /\ task[s] \in Task /\ TaskInv(s)
  BY Facts
<1>1. g \in Complaints /\ complaint[g] # "none"
  BY <1>0 DEF CheckEnds, Conclude, TaskInv, Idle
<1>2. PICK new \in Asking \cup {"filed", "cancelled"} :
         complaint' = [complaint EXCEPT ![g] = new]
  BY DEF CheckEnds, Conclude
<1>3. UNCHANGED <<conv, shared, cards, answers, lost, losses>>
  BY DEF CheckEnds, Conclude
<1> HIDE DEF g
<1>4. /\ ComplaintsOK' /\ Stay
      /\ \A h \in Complaints : complaint'[h] = "none" <=> complaint[h] = "none"
  BY <1>1, <1>2, Facts DEF ComplaintsOK, Stay, Asking
<1>5. TasksOK'
  <2>1. CASE Conclude(s)
    BY <1>4, <2>1, TaskEnds DEF Conclude
  <2>2. CASE CheckEnds(s)
    <3>1. PICK out \in Asking :
             task' = [task EXCEPT ![s].pc = "follow_up", ![s].out = out]
      BY <2>2 DEF CheckEnds
    <3>2. /\ [task[s] EXCEPT !.pc = "follow_up", !.out = out] \in Task
          /\ [task[s] EXCEPT !.pc = "follow_up", !.out = out].on = task[s].on
          /\ [task[s] EXCEPT !.pc = "follow_up", !.out = out].out = out
      BY <1>0 DEF Task
    <3>3. /\ task' \in [Sessions -> Task]
          /\ task'[s].on = task[s].on /\ task'[s].out = out
          /\ \A t \in Sessions \ {s} : task'[t] = task[t]
      BY <3>1, <3>2, Facts
    <3>4. TaskInv(s)'
      BY <1>1, <1>4, <3>3 DEF TaskInv, g
    <3>5. ASSUME NEW t \in Sessions \ {s} PROVE TaskInv(t)'
      BY <1>4, <3>3, Facts DEF TaskInv, Stay, Idle
    <3> QED  BY <3>3, <3>4, <3>5 DEF TasksOK
  <2> QED  BY <2>1, <2>2
<1>6. RowsOK'
  BY <1>3, <1>4, Facts, RowsKept
<1> QED  BY <1>3, <1>4, <1>5, <1>6, Parts, PartsAfter DEF AnswersOK, RestOK

\* The follow-up moves the conversation that is active, whichever it is: to a
\* question, which is where a conversation with a draft may be.
LEMMA FollowUpKeeps ==
    ASSUME IInv, NEW s \in Sessions, FollowUp(s)
    PROVE  IInv'
<1> DEFINE g == task[s].on
           out == task[s].out
<1>1. /\ Finish(s) /\ UNCHANGED <<shared, complaint, answers, lost, losses>>
      /\ \/ \E c \in Conversations :
               /\ Current(c)
               /\ Set(c, [conv[c] EXCEPT !.state = out])
               /\ cards' = cards \cup {<<c, out, g>>}
         \/ UNCHANGED <<conv, cards>>
  BY DEF FollowUp
<1>2. out \in Asking /\ g \in Complaints
  BY Facts DEF FollowUp, TaskInv, Idle
<1> HIDE DEF g, out
<1>3. TasksOK'
  BY <1>1, TaskEnds DEF Stay
<1>4. CASE UNCHANGED <<conv, cards>>
  <2>1. RowsOK'
    BY <1>1, <1>4, RowsKept
  <2> QED  BY <1>1, <1>3, <1>4, <2>1, Parts, PartsAfter
           DEF ComplaintsOK, AnswersOK, RestOK
<1>5. ASSUME NEW c \in Conversations, Current(c),
             Set(c, [conv[c] EXCEPT !.state = out]),
             cards' = cards \cup {<<c, out, g>>}
      PROVE  IInv'
  <2> DEFINE r == [conv[c] EXCEPT !.state = out]
  <2>0. conv[c] \in Row /\ RowInv(c)
    BY Facts
  <2>1. /\ r \in Row /\ r.draft = conv[c].draft /\ r.state = out
        /\ r.told = conv[c].told /\ r.active = conv[c].active
        /\ r.staged = conv[c].staged /\ r.agreed = conv[c].agreed
    BY <1>2, <2>0 DEF Row, State
  <2>2. Set(c, r)
    BY <1>5
  <2> HIDE DEF r
  <2>3. r.draft = c => r.told /\ Agreed(r) /\ r.state \in Drafted
    BY <1>2, <2>0, <2>1 DEF RowInv, Agreed, Drafted
  <2>4. r.state \notin {"none", "awaiting_issue", "awaiting_photo"}
    BY <1>2, <2>1 DEF Asking
  <2>5. RowsOK'
    BY <1>1, <2>1, <2>2, <2>3, <2>4, RowMoved
  <2>6. cards' \subseteq Card
    BY <1>2, <1>5, Parts DEF RestOK, Card
  <2> QED  BY <1>1, <1>3, <2>5, <2>6, Parts, PartsAfter
           DEF ComplaintsOK, AnswersOK, RestOK
<1> QED  BY <1>1, <1>4, <1>5

\* Work that is lost, web complaints, and the sweep.
LEMMA OtherKeeps ==
    ASSUME IInv,
           \/ \E s \in Sessions : Lose(s)
           \/ \E g \in Complaints : FileOnWeb(g) \/ RunJob(g)
           \/ \E s \in Sessions, g \in Complaints : SweepStuckProcessing(s, g)
    PROVE  IInv'
<1>1. ASSUME NEW s \in Sessions, Lose(s) PROVE IInv'
  <2>1. /\ Finish(s) /\ UNCHANGED <<conv, shared, cards, complaint, answers>>
        /\ losses' = losses + 1 /\ losses < MaxLosses
        /\ lost' \in {lost, lost \cup {task[s].on}}
    BY <1>1 DEF Lose
  <2>2. task[s].on \in Complaints
    BY <1>1, Facts DEF Lose, TaskInv
  <2>3. RestOK'
    BY <2>1, <2>2, Parts, ConversationAssumption DEF RestOK
  <2>4. TasksOK' /\ RowsOK'
    BY <2>1, TaskEnds, RowsKept DEF Stay
  <2> QED  BY <2>1, <2>3, <2>4, Parts, PartsAfter DEF ComplaintsOK, AnswersOK
<1>2. ASSUME NEW g \in Complaints, FileOnWeb(g) \/ RunJob(g) PROVE IInv'
  <2>1. /\ g \in Web
        /\ UNCHANGED <<conv, shared, cards, task, answers, lost, losses>>
        /\ \E new \in Asking \cup {"draft"} :
              complaint' = [complaint EXCEPT ![g] = new]
    BY <1>2 DEF FileOnWeb, RunJob
  <2>2. /\ ComplaintsOK' /\ Stay
        /\ \A c \in Conversations : complaint'[c] = complaint[c]
    BY <2>1, Facts DEF ComplaintsOK, Stay, Asking
  <2>3. TasksOK' /\ RowsOK'
    BY <2>1, <2>2, TasksKept, RowsKept
  <2> QED  BY <2>1, <2>2, <2>3, Parts, PartsAfter DEF AnswersOK, RestOK
<1>3. ASSUME NEW s \in Sessions, NEW g \in Complaints,
             SweepStuckProcessing(s, g)
      PROVE  IInv'
  <2>1. /\ Start(s, "run", g) /\ complaint[g] = "draft"
        /\ UNCHANGED <<conv, shared, cards, complaint, answers, lost, losses>>
    BY <1>3 DEF SweepStuckProcessing
  <2>2. TasksOK'
    BY <2>1, TaskStarts DEF Stay, Work
  <2>3. RowsOK'
    BY <2>1, RowsKept
  <2> QED  BY <2>1, <2>2, <2>3, Parts, PartsAfter
           DEF ComplaintsOK, AnswersOK, RestOK
<1> QED  BY <1>1, <1>2, <1>3

LEMMA IInvNext == IInv /\ [Next]_vars => IInv'
<1> SUFFICES ASSUME IInv, [Next]_vars PROVE IInv'
  OBVIOUS
<1>1. CASE \E c \in Conversations : Turn(c) \/ Elapse(c)
  <2>1. PICK c \in Conversations : Turn(c) \/ Elapse(c)
    BY <1>1
  <2>2. CASE Greet(c)
    BY <2>2, GreetKeeps
  <2>3. CASE \/ \E l \in Locations : ShareLocation(c, l) \/ TapLocation(c, l)
             \/ Describe(c) \/ IssueDone(c) \/ Elapse(c) \/ AskStatus(c)
    BY <2>3, MoveKeeps
  <2>4. CASE \E s \in Sessions : CreateDraft(s, c)
    BY <2>4, CreateDraftKeeps
  <2>5. CASE \E s \in Sessions : AnswerMismatch(s, c)
    BY <2>5, AnswerMismatchKeeps
  <2>6. CASE \E s \in Sessions : Answer(s, c, "finalize") \/ Answer(s, c, "cancel")
    BY <2>6, AnswerKeeps
  <2> QED  BY <2>1, <2>2, <2>3, <2>4, <2>5, <2>6 DEF Turn
<1>2. CASE \E s \in Sessions : Continue(s)
  BY <1>2, ResultKeeps, FollowUpKeeps DEF Continue
<1>3. CASE \/ \E s \in Sessions : Lose(s)
           \/ \E g \in Complaints : FileOnWeb(g) \/ RunJob(g)
           \/ \E s \in Sessions, g \in Complaints : SweepStuckProcessing(s, g)
  BY <1>3, OtherKeeps
<1>4. CASE UNCHANGED vars
  <2>1. UNCHANGED <<conv, shared, cards, complaint, task, answers, lost, losses>>
    BY <1>4 DEF vars
  <2>2. TasksOK' /\ RowsOK'
    BY <2>1, TasksKept, RowsKept DEF Stay
  <2> QED  BY <2>1, <2>2, Parts, PartsAfter DEF ComplaintsOK, AnswersOK, RestOK
<1> QED  BY <1>1, <1>2, <1>3, <1>4 DEF Next

-----------------------------------------------------------------------------
(***************************************************************************)
(* The theorems.                                                           *)
(***************************************************************************)

LEMMA Invariant == Spec => []IInv
BY InitOK, IInvNext, PTL DEF Spec

\* Every row, card and session has its type, for any number of them.
THEOREM TypeCorrect == Spec => []TypeOK
<1>1. IInv => TypeOK
  BY DEF IInv
<1> QED  BY <1>1, Invariant, PTL

\* Whatever cards are tapped and whichever follow-ups move the dialog: a draft
\* has an issue and the location its citizen agreed to last (create_draft in
\* advance, the token of the location's card).
THEOREM DraftsAreComplete == Spec => []DraftIsComplete
<1>1. IInv => DraftIsComplete
  BY DEF IInv, RowInv, Agreed, DraftIsComplete
<1> QED  BY <1>1, Invariant, PTL

\* However often a confirmation card is tapped: its complaint is confirmed or
\* cancelled by chat once, and one filed on the web never (the answer closes
\* the conversation in the same turn).
THEOREM OneAnswer == Spec => []AnsweredOnce
<1>1. IInv => AnsweredOnce
  <2> SUFFICES ASSUME IInv, NEW g \in Complaints PROVE answers[g] <= 1
    BY DEF AnsweredOnce
  <2>1. CASE g \in Conversations
    BY <2>1 DEF IInv, RowInv
  <2>2. CASE g \in Web
    BY <2>2 DEF IInv
  <2> QED  BY <2>1, <2>2 DEF Complaints
<1> QED  BY <1>1, Invariant, PTL

\* Every step leaves a closed conversation as it is.
LEMMA ClosedStays ==
    ASSUME IInv, [Next]_vars, NEW d \in Conversations,
           conv[d].state # "none", ~conv[d].active
    PROVE  conv'[d] = conv[d]
<1>0. conv[d] \in Row /\ conv \in [Conversations -> Row]
  BY Facts
<1>1. CASE UNCHANGED conv
  BY <1>1
<1>2. ASSUME NEW c \in Conversations, NEW r, Set(c, r), conv[c].active
      PROVE  conv'[d] = conv[d]
  BY <1>0, <1>2 DEF Set
<1>3. ASSUME NEW c \in Conversations, Greet(c)
      PROVE  conv'[d] = conv[d]
  <2>1. conv[c].state = "none"
        /\ \E r : conv' = [e \in Conversations |->
                              IF e = c THEN r
                              ELSE [conv[e] EXCEPT !.active = FALSE]]
    BY <1>3 DEF Greet
  <2>2. conv'[d] = [conv[d] EXCEPT !.active = FALSE]
    BY <2>1
  <2> QED  BY <1>0, <2>2 DEF Row
<1>4. ASSUME NEW c \in Conversations, Turn(c) \/ Elapse(c), ~Greet(c)
      PROVE  conv[c].active /\ \E r : Set(c, r)
  BY <1>4 DEF Turn, ShareLocation, TapLocation, Describe, IssueDone, AskStatus,
              CreateDraft, AnswerMismatch, Answer, Elapse, In, Current
<1>5. ASSUME NEW s \in Sessions, FollowUp(s)
      PROVE  \/ UNCHANGED conv
             \/ \E c \in Conversations, r \in Row : conv[c].active /\ Set(c, r)
  <2>1. \/ UNCHANGED conv
        \/ \E c \in Conversations :
              /\ Current(c)
              /\ Set(c, [conv[c] EXCEPT !.state = task[s].out])
    BY <1>5 DEF FollowUp
  <2>2. \A c \in Conversations : [conv[c] EXCEPT !.state = task[s].out] \in Row
    <3>1. task[s].out \in Asking
      BY <1>5, Facts DEF FollowUp, TaskInv
    <3> QED  BY <1>0, <3>1 DEF Row, State
  <2> QED  BY <2>1, <2>2 DEF Current
<1>6. CASE \E c \in Conversations : Turn(c) \/ Elapse(c)
  BY <1>2, <1>3, <1>4, <1>6
<1>7. CASE \E s \in Sessions : FollowUp(s)
  BY <1>1, <1>2, <1>5, <1>7
<1> QED
  BY <1>1, <1>6, <1>7
     DEF Next, Continue, CheckEnds, Conclude, Lose, FileOnWeb, RunJob,
         SweepStuckProcessing, vars

\* No late follow-up, old card or expiry opens or moves a conversation that
\* was closed (lock_contact_and_get_conversation returns an active one only).
THEOREM ClosedStaysClosed == Spec => ClosedIsFinal
<1>1. IInv /\ [Next]_vars =>
         [\A c \in Conversations :
             conv[c].state # "none" /\ ~conv[c].active
                => conv'[c] = conv[c]]_conv
  BY ClosedStays
<1> QED  BY <1>1, Invariant, PTL DEF Spec, ClosedIsFinal

-----------------------------------------------------------------------------
(***************************************************************************)
(* The inbox.  Two drivers may be at one event, as a lease ends under a    *)
(* slow one; that they share no message rests on the rows alone.  What a   *)
(* driver holds has a row, so no other driver finds it fresh.              *)
(***************************************************************************)

DriverInv(d) ==
    /\ ~Resting(d) => driver[d].on \in Events
    /\ driver[d].todo \subseteq stored

\* Unless something failed, a message with a row had its turn or is in
\* somebody's hands (drive_event gives a turn to whatever it stored first).
StoredIsHandled ==
    failures = 0 /\ crashes = 0
        => \A m \in stored :
              m \in consumed \/ \E d \in Drivers : m \in driver[d].todo

InboxInv ==
    /\ InboxTypeOK
    /\ OneHandlerPerMessage
    /\ \A d \in Drivers : DriverInv(d)
    /\ StoredIsHandled

LEMMA InboxInitOK == InboxInit => InboxInv
<1> SUFFICES ASSUME InboxInit PROVE InboxInv
  OBVIOUS
<1>1. \A d \in Drivers : driver[d] = NoDriver
  BY DEF InboxInit
<1>2. InboxTypeOK
  BY WebhookInboxAssumption DEF InboxInit, InboxTypeOK, NoDriver, Driver
<1> QED
  BY <1>1, <1>2
     DEF InboxInit, InboxInv, OneHandlerPerMessage, DriverInv, Resting,
         NoDriver, StoredIsHandled

\* The messages of an event are messages.
LEMMA MessagesOfEvent ==
    ASSUME NEW e \in Events
    PROVE  MessagesOf(e) \subseteq Messages
<1>1. Payload[e] \in Seq(Messages)
  BY WebhookInboxAssumption
<1>2. \A i \in DOMAIN Payload[e] : Payload[e][i] \in Messages
  BY <1>1
<1> QED  BY <1>2 DEF MessagesOf, ToSet

\* A driver that stops or stays where it is without a message leaves the
\* others what they hold.
LEMMA EndDriveOK ==
    ASSUME InboxInv, NEW d \in Drivers, EndDrive(d)
    PROVE  /\ driver' \in [Drivers -> Driver]
           /\ driver'[d] = NoDriver
           /\ \A o \in Drivers \ {d} : driver'[o] = driver[o]
<1>1. NoDriver \in Driver
  BY DEF NoDriver, Driver
<1> QED  BY <1>1 DEF InboxInv, InboxTypeOK, EndDrive

\* A step of one driver keeps the invariant if the driver keeps messages it
\* has or takes messages that had no row.
LEMMA HandsKept ==
    ASSUME InboxInv, NEW d \in Drivers, InboxTypeOK', StoredIsHandled',
           \A o \in Drivers \ {d} : driver'[o] = driver[o],
           driver'[d].pc # "idle" => driver'[d].on \in Events,
           stored \subseteq stored',
           driver'[d].todo \subseteq stored',
           \A m \in driver'[d].todo : m \in driver[d].todo \/ m \notin stored
    PROVE  InboxInv'
<1>1. \A o \in Drivers \ {d} : driver'[d].todo \cap driver'[o].todo = {}
  BY DEF InboxInv, OneHandlerPerMessage, DriverInv
<1>2. OneHandlerPerMessage'
  BY <1>1 DEF InboxInv, OneHandlerPerMessage
<1>3. ASSUME NEW o \in Drivers PROVE DriverInv(o)'
  BY DEF InboxInv, DriverInv, Resting
<1> QED  BY <1>2, <1>3 DEF InboxInv

\* In a step that fails or loses nothing.
LEMMA NothingLost ==
    ASSUME InboxInv, NEW d \in Drivers,
           \A o \in Drivers \ {d} : driver'[o] = driver[o],
           failures' = failures, crashes' = crashes,
           consumed \subseteq consumed',
           \A m \in stored' \ stored : m \in driver'[d].todo,
           \A m \in driver[d].todo : m \in driver'[d].todo \cup consumed'
    PROVE  StoredIsHandled'
<1> SUFFICES ASSUME failures = 0, crashes = 0, NEW m \in stored'
             PROVE  m \in consumed' \/ \E o \in Drivers : m \in driver'[o].todo
  BY DEF StoredIsHandled
<1>1. CASE m \notin stored
  BY <1>1
<1>2. CASE m \in stored
  <2>1. m \in consumed \/ \E o \in Drivers : m \in driver[o].todo
    BY <1>2 DEF InboxInv, StoredIsHandled
  <2> QED  BY <2>1
<1> QED  BY <1>1, <1>2

\* In a step that fails or loses something.
LEMMA SomethingLost ==
    ASSUME InboxInv, \/ failures' = failures + 1 /\ UNCHANGED crashes
                     \/ crashes' = crashes + 1 /\ UNCHANGED failures
    PROVE  StoredIsHandled'
BY DEF InboxInv, InboxTypeOK, StoredIsHandled

LEMMA InboxStep == InboxInv /\ [InboxNext]_inboxVars => InboxInv'
<1> SUFFICES ASSUME InboxInv, [InboxNext]_inboxVars PROVE InboxInv'
  OBVIOUS
<1>1. /\ InboxTypeOK /\ StoredIsHandled
      /\ driver \in [Drivers -> Driver]
      /\ \A d \in Drivers : driver[d] \in Driver /\ DriverInv(d)
  BY DEF InboxInv, InboxTypeOK
\* A driver begins with an event.
<1>2. ASSUME NEW d \in Drivers, NEW e \in Events, Resting(d), Begin(d, e),
             UNCHANGED <<attempts, stored, consumed, failures, crashes>>,
             UNCHANGED lease,
             event' = event \/ event' = [event EXCEPT ![e] = "open"]
      PROVE  InboxInv'
  <2>1. driver[d].todo = {} /\ driver[d].ok \in BOOLEAN
    BY <1>1, <1>2 DEF InboxTypeOK, Resting, Driver
  <2>2. /\ driver' \in [Drivers -> Driver]
        /\ \A o \in Drivers \ {d} : driver'[o] = driver[o]
        /\ driver'[d].pc = "claim" /\ driver'[d].on = e
        /\ driver'[d].todo = {}
    BY <1>1, <1>2, <2>1 DEF Begin, Driver
  <2>3. InboxTypeOK'
    BY <1>1, <1>2, <2>2 DEF InboxTypeOK
  <2>4. StoredIsHandled'
    BY <1>2, <2>1, <2>2, NothingLost
  <2> QED  BY <1>2, <2>2, <2>3, <2>4, HandsKept
<1>3. ASSUME NEW d \in Drivers, NEW e \in Events, ReceiveWebhook(d, e)
      PROVE  InboxInv'
  BY <1>2, <1>3 DEF ReceiveWebhook
<1>4. ASSUME NEW d \in Drivers, NEW e \in Events, FetchUnprocessed(d, e)
      PROVE  InboxInv'
  BY <1>2, <1>4 DEF FetchUnprocessed
\* A driver ends.
<1>5. ASSUME NEW d \in Drivers, EndDrive(d), UNCHANGED stored,
             InboxTypeOK', StoredIsHandled'
      PROVE  InboxInv'
  <2>1. /\ \A o \in Drivers \ {d} : driver'[o] = driver[o]
        /\ driver'[d].pc = "idle" /\ driver'[d].todo = {}
    BY <1>5, EndDriveOK DEF NoDriver
  <2> QED  BY <1>5, <2>1, HandsKept
\* The type after a driver ended.
<1>6. ASSUME NEW d \in Drivers, EndDrive(d), UNCHANGED <<attempts, stored, consumed>>,
             event' \in [Events -> {"none", "open", "processed"}],
             lease' \in [Events -> {"none", "held", "over"}],
             failures' \in 0..MaxFailures, crashes' \in 0..MaxCrashes
      PROVE  InboxTypeOK'
  <2>1. /\ driver' \in [Drivers -> Driver]
        /\ \A o \in Drivers \ {d} : driver'[o] = driver[o]
        /\ driver'[d].todo = {}
    BY <1>6, EndDriveOK DEF NoDriver
  <2>2. \A o \in Drivers : driver'[o].pc # "turns" => driver'[o].todo = {}
    BY <1>1, <2>1 DEF InboxTypeOK
  <2> QED  BY <1>1, <1>6, <2>1, <2>2 DEF InboxTypeOK
\* A driver that has nothing left ends, and loses nothing.
<1>7. ASSUME NEW d \in Drivers, EndDrive(d), driver[d].todo = {},
             UNCHANGED <<attempts, stored, consumed, failures, crashes>>,
             event' \in [Events -> {"none", "open", "processed"}],
             lease' \in [Events -> {"none", "held", "over"}]
      PROVE  InboxInv'
  <2>1. InboxTypeOK'
    BY <1>1, <1>6, <1>7 DEF InboxTypeOK
  <2>2. \A o \in Drivers \ {d} : driver'[o] = driver[o]
    BY <1>7, EndDriveOK
  <2>3. StoredIsHandled'
    BY <1>7, <2>2, NothingLost
  <2> QED  BY <1>5, <1>7, <2>1, <2>3
<1>8. ASSUME NEW d \in Drivers, SkipClaimed(d) PROVE InboxInv'
  <2>1. driver[d].todo = {}
    BY <1>1, <1>8 DEF SkipClaimed, InboxTypeOK
  <2> QED  BY <1>1, <1>7, <1>8, <2>1 DEF SkipClaimed, InboxTypeOK
<1>9. ASSUME NEW d \in Drivers, LeaveUnprocessed(d) PROVE InboxInv'
  BY <1>1, <1>7, <1>9 DEF LeaveUnprocessed, InboxTypeOK
<1>10. ASSUME NEW d \in Drivers, MarkProcessed(d) PROVE InboxInv'
  <2>1. driver[d].todo = {}
    BY <1>1, <1>10 DEF MarkProcessed, InboxTypeOK
  <2>2. /\ event' \in [Events -> {"none", "open", "processed"}]
        /\ lease' \in [Events -> {"none", "held", "over"}]
    BY <1>1, <1>10 DEF MarkProcessed, InboxTypeOK
  <2> QED  BY <1>7, <1>10, <2>1, <2>2 DEF MarkProcessed
<1>11. ASSUME NEW d \in Drivers, StoreFails(d) PROVE InboxInv'
  <2>1. InboxTypeOK'
    BY <1>1, <1>6, <1>11, WebhookInboxAssumption DEF StoreFails, InboxTypeOK
  <2>2. StoredIsHandled'
    BY <1>11, SomethingLost DEF StoreFails
  <2> QED  BY <1>5, <1>11, <2>1, <2>2 DEF StoreFails
<1>12. ASSUME NEW d \in Drivers, Crash(d) PROVE InboxInv'
  <2>1. InboxTypeOK'
    BY <1>1, <1>6, <1>12, WebhookInboxAssumption DEF Crash, InboxTypeOK
  <2>2. StoredIsHandled'
    BY <1>12, SomethingLost DEF Crash
  <2> QED  BY <1>5, <1>12, <2>1, <2>2 DEF Crash
<1>13. ASSUME NEW d \in Drivers, ClaimEvent(d) PROVE InboxInv'
  <2>1. driver[d].todo = {} /\ driver[d].on \in Events
    BY <1>1, <1>13 DEF ClaimEvent, InboxTypeOK, DriverInv, Resting
  <2>2. PICK pc \in {"poisoned", "store"} :
            driver' = [driver EXCEPT ![d].pc = pc]
    BY <1>13 DEF ClaimEvent
  <2>3. /\ driver' \in [Drivers -> Driver]
        /\ \A o \in Drivers \ {d} : driver'[o] = driver[o]
        /\ driver'[d].pc = pc /\ driver'[d].on = driver[d].on
        /\ driver'[d].todo = {}
    BY <1>1, <2>1, <2>2 DEF Driver
  <2>4. InboxTypeOK'
    BY <1>1, <1>13, <2>1, <2>3 DEF ClaimEvent, InboxTypeOK
  <2>5. StoredIsHandled'
    BY <1>13, <2>1, <2>3, NothingLost DEF ClaimEvent
  <2> QED  BY <1>13, <2>1, <2>3, <2>4, <2>5, HandsKept DEF ClaimEvent
<1>14. ASSUME NEW d \in Drivers, StoreIncoming(d) PROVE InboxInv'
  <2> DEFINE e == driver[d].on
  <2>1. driver[d].todo = {} /\ e \in Events
    BY <1>1, <1>14 DEF StoreIncoming, InboxTypeOK, DriverInv, Resting
  <2>2. MessagesOf(e) \subseteq Messages
    BY <2>1, MessagesOfEvent
  <2>3. /\ driver' \in [Drivers -> Driver]
        /\ \A o \in Drivers \ {d} : driver'[o] = driver[o]
        /\ driver'[d].pc = "turns" /\ driver'[d].on = e
        /\ driver'[d].todo = MessagesOf(e) \ stored
    BY <1>1, <1>14, <2>2 DEF StoreIncoming, Fresh, Driver
  <2>4. stored' = stored \cup MessagesOf(e) /\ stored' \subseteq Messages
    BY <1>1, <1>14, <2>2 DEF StoreIncoming, InboxTypeOK
  <2>5. InboxTypeOK'
    BY <1>1, <1>14, <2>3, <2>4 DEF StoreIncoming, InboxTypeOK
  <2>6. StoredIsHandled'
    BY <1>14, <2>1, <2>3, <2>4, NothingLost DEF StoreIncoming
  <2> QED  BY <2>1, <2>3, <2>4, <2>5, <2>6, HandsKept
\* A turn is taken, and commits or raises.
<1>15. ASSUME NEW d \in Drivers, NEW m \in Messages, NEW good \in BOOLEAN,
              InTurn(d, m), NextTurn(d, m, good),
              consumed' \in {consumed, consumed \cup {m}},
              failures' \in 0..MaxFailures,
              UNCHANGED <<event, lease, attempts, stored, crashes>>
       PROVE  /\ InboxTypeOK'
              /\ \A o \in Drivers \ {d} : driver'[o] = driver[o]
              /\ driver'[d].todo = driver[d].todo \ {m}
              /\ StoredIsHandled' => InboxInv'
  <2>1. /\ driver' \in [Drivers -> Driver]
        /\ \A o \in Drivers \ {d} : driver'[o] = driver[o]
        /\ driver'[d].pc = "turns" /\ driver'[d].on = driver[d].on
        /\ driver'[d].todo = driver[d].todo \ {m}
    BY <1>1, <1>15 DEF InTurn, NextTurn, Driver
  <2>2. InboxTypeOK'
    BY <1>1, <1>15, <2>1 DEF InboxTypeOK
  <2>3. driver[d].on \in Events
    BY <1>1, <1>15 DEF InTurn, DriverInv, Resting
  <2>4. driver[d].todo \subseteq stored
    BY <1>1 DEF DriverInv
  <2> QED  BY <1>15, <2>1, <2>2, <2>3, <2>4, HandsKept
<1>16. ASSUME NEW d \in Drivers, HandleInbound(d) PROVE InboxInv'
  <2>1. PICK m \in Messages :
            /\ InTurn(d, m) /\ NextTurn(d, m, TRUE)
            /\ consumed' = consumed \cup {m}
            /\ UNCHANGED <<event, lease, attempts, stored, failures, crashes>>
    BY <1>16 DEF HandleInbound
  <2>2. failures' \in 0..MaxFailures
    BY <1>1, <2>1 DEF InboxTypeOK
  <2>3. /\ \A o \in Drivers \ {d} : driver'[o] = driver[o]
        /\ driver'[d].todo = driver[d].todo \ {m}
        /\ StoredIsHandled' => InboxInv'
    BY <1>15, <2>1, <2>2
  <2>4. StoredIsHandled'
    BY <2>1, <2>3, NothingLost
  <2> QED  BY <2>3, <2>4
<1>17. ASSUME NEW d \in Drivers, HandleInboundFails(d) PROVE InboxInv'
  <2>1. PICK m \in Messages :
            /\ InTurn(d, m) /\ NextTurn(d, m, FALSE)
            /\ consumed' \in {consumed, consumed \cup {m}}
            /\ failures < MaxFailures /\ failures' = failures + 1
            /\ UNCHANGED <<event, lease, attempts, stored, crashes>>
    BY <1>17 DEF HandleInboundFails
  <2>2. failures' \in 0..MaxFailures
    BY <1>1, <2>1, WebhookInboxAssumption DEF InboxTypeOK
  <2>3. StoredIsHandled' => InboxInv'
    BY <1>15, <2>1, <2>2
  <2>4. StoredIsHandled'
    BY <2>1, SomethingLost
  <2> QED  BY <2>3, <2>4
<1>18. ASSUME NEW e \in Events, LeaseExpires(e) PROVE InboxInv'
  <2>1. InboxTypeOK'
    BY <1>1, <1>18 DEF LeaseExpires, InboxTypeOK
  <2> QED
    BY <1>18, <2>1
       DEF LeaseExpires, InboxInv, OneHandlerPerMessage, DriverInv, Resting,
           StoredIsHandled
<1>19. CASE UNCHANGED inboxVars
  BY <1>19
     DEF inboxVars, InboxInv, InboxTypeOK, OneHandlerPerMessage, DriverInv,
         Resting, StoredIsHandled
<1> QED
  BY <1>3, <1>4, <1>8, <1>9, <1>10, <1>11, <1>12, <1>13, <1>14, <1>16, <1>17,
     <1>18, <1>19
     DEF InboxNext, DriveEvent

LEMMA InboxInvariant == InboxSpec => []InboxInv
BY InboxInitOK, InboxStep, PTL DEF InboxSpec

\* Every event and driver has its type, for any number of them.
THEOREM InboxTypeCorrect == InboxSpec => []InboxTypeOK
<1>1. InboxInv => InboxTypeOK
  BY DEF InboxInv
<1> QED  BY <1>1, InboxInvariant, PTL

\* However often Meta delivers a message and whatever leases run out, no two
\* drivers have it in hand (store_incoming_messages: the row is created once).
THEOREM OneHandler == InboxSpec => []OneHandlerPerMessage
<1>1. InboxInv => OneHandlerPerMessage
  BY DEF InboxInv
<1> QED  BY <1>1, InboxInvariant, PTL

\* No interleaving of drivers loses a message: without a failure and a crash
\* each stored message had its turn or is in the hands of a driver, even when
\* its event was closed as poisoned (drive_event).
THEOREM StoredMessagesHandled == InboxSpec => []StoredIsHandled
<1>1. InboxInv => StoredIsHandled
  BY DEF InboxInv
<1> QED  BY <1>1, InboxInvariant, PTL

=============================================================================
