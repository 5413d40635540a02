---------------------------- MODULE SignInProofs ----------------------------
(***************************************************************************)
(* Theorems about SignIn, for any number of phones, codes, challenges,     *)
(* tokens and sessions, any cap and any number of faults.                  *)
(***************************************************************************)
EXTENDS SignIn, TLAPS

-----------------------------------------------------------------------------
(***************************************************************************)
(* The invariant.  What a session may still do is tied to the rows its     *)
(* transaction has locked or claimed.                                      *)
(***************************************************************************)

Sending == {"send", "block", "call", "accepted", "refused", "unsent"}

\* What the task of s is about.
About(s) ==
    /\ task[s].pc \in Sending => /\ task[s].on \in Challenges
                                 /\ prompt[task[s].on].status # "none"
    /\ task[s].pc = "verify" => /\ task[s].on \in Codes
                                /\ task[s].phone \in Phones
    /\ task[s].pc = "poll" => task[s].on \in Ids
    /\ task[s].pc = "refresh" => /\ task[s].on \in Tokens
                                 /\ token[task[s].on].status # "none"
    /\ task[s].pc \in {"counted", "challenge", "unsent"}
          => task[s].phone \in Phones
    /\ task[s].pc # "challenge" => task[s].held = {}

AboutInv == \A s \in Sessions : About(s)

\* Superseded challenges wait for the commit, each for one.
HeldInv ==
    /\ \A s \in Sessions : \A h \in task[s].held :
          challenge[h].status = "pending"
    /\ \A s, t \in Sessions : \A h \in task[s].held :
          h \in task[t].held => s = t

\* A turn that verifies a code holds the row of its contact, so the code that
\* it found is pending still.
VerifyInv ==
    \A s \in Sessions : task[s].pc = "verify" =>
        /\ code[task[s].on].status = "pending"
        /\ code[task[s].on].phone = task[s].phone
        /\ \A t \in Sessions :
              task[t].pc = "verify" /\ task[t].phone = task[s].phone => s = t

Sender == {"block", "call", "accepted", "refused"}

\* s holds the lock of h's prompt, or has it leased.
Claims(s, h) == task[s].pc \in Sender /\ task[s].on = h

\* What the rows say of the prompt that s sends.
Sends(s) ==
    LET h == task[s].on
    IN  /\ task[s].pc = "block" =>
              /\ Sendable(h)
              /\ challenge[h].status \in {"pending", "superseded", "fallback"}
        /\ task[s].pc \in {"call", "accepted", "refused"} =>
              prompt[h].status = "sending" /\ ~prompt[h].over
        /\ task[s].pc = "accepted" => cards[h] > 0

\* One session at a time sends a card.
SendInv ==
    /\ \A s, t \in Sessions, h \in Challenges :
          Claims(s, h) /\ Claims(t, h) => s = t
    /\ \A s \in Sessions : Sends(s)

\* Only a card whose answer counts is recorded, and no one waits for another.
PromptInv ==
    \A h \in Challenges :
        /\ prompt[h].status # "none" => challenge[h].status # "none"
        /\ IF prompt[h].status = "sent"
           THEN prompt[h].wamid \in 1..cards[h]
           ELSE prompt[h].wamid = 0
        /\ h \in told => prompt[h].status = "sent"

\* What the rows of codes and challenges say of the citizen.
AnswerInv ==
    /\ \A c \in Codes :
          code[c].status \in {"verified", "consumed"} =>
             code[c].user = code[c].phone
    /\ \A h \in Challenges :
          /\ challenge[h].status \in {"approved", "consumed"} => h \in yes
          /\ h \in yes => challenge[h].status # "none"

\* A code or a challenge that has been exchanged for tokens.
Spent(x) == \/ x \in Codes /\ code[x].status = "consumed"
            \/ x \in Challenges /\ challenge[x].status = "consumed"

\* Whose login token t comes from.
Granted(t) ==
    LET x == token[t].from
    IN  \/ /\ x \in Codes /\ code[x].status # "none"
           /\ token[t].user = code[x].phone
        \/ /\ x \in yes
           /\ token[t].user = challenge[x].phone

TokenInv ==
    /\ \A t \in Tokens : token[t].status # "none" => Granted(t)
    /\ \A t \in Tokens : First(t) => Spent(token[t].from)

IInv ==
    /\ TypeOK /\ AboutInv /\ HeldInv /\ VerifyInv /\ SendInv
    /\ PromptInv /\ AnswerInv /\ TokenInv /\ GrantedOnce

LEMMA InitOK == Init => IInv
<1> SUFFICES ASSUME Init PROVE IInv
  OBVIOUS
<1> USE SignInAssumption DEF Init
<1>1. TypeOK
  BY DEF TypeOK, Code, Challenge, Prompt, Token, Task, NoTask, Ids
<1>2. AboutInv /\ HeldInv /\ VerifyInv /\ SendInv
  BY DEF AboutInv, About, HeldInv, VerifyInv, SendInv, Sends, Claims, Sender, Sending, NoTask
<1>3. PromptInv /\ AnswerInv
  BY DEF PromptInv, AnswerInv
<1>4. TokenInv /\ GrantedOnce
  BY DEF TokenInv, GrantedOnce, First
<1> QED
  BY <1>1, <1>2, <1>3, <1>4 DEF IInv

-----------------------------------------------------------------------------
(***************************************************************************)
(* What a step does to the tasks.                                          *)
(***************************************************************************)

States == {"idle", "counted", "challenge", "send", "block", "call",
           "accepted", "refused", "unsent", "verify", "poll", "refresh"}

OthersKeep(s) ==
    /\ task' \in [Sessions -> Task]
    /\ \A t \in Sessions \ {s} : task'[t] = task[t]

LEMMA Finished ==
    ASSUME task \in [Sessions -> Task], NEW s \in Sessions, Finish(s)
    PROVE  /\ OthersKeep(s)
           /\ task'[s].pc = "idle" /\ task'[s].held = {}
<1>1. NoTask \in Task /\ NoTask.pc = "idle" /\ NoTask.held = {}
  BY DEF NoTask, Task
<1> QED
  BY <1>1 DEF OthersKeep, Finish

LEMMA Began ==
    ASSUME task \in [Sessions -> Task], NEW s \in Sessions,
           NEW pc \in States, NEW x \in Ids \cup Tokens \cup {None},
           NEW p \in Phones \cup {None}, Begin(s, pc, x, p)
    PROVE  /\ OthersKeep(s)
           /\ task'[s].pc = pc /\ task'[s].on = x
           /\ task'[s].phone = p /\ task'[s].held = {}
<1> DEFINE r == [NoTask EXCEPT !.pc = pc, !.on = x, !.phone = p]
<1>1. r.pc = pc /\ r.on = x /\ r.phone = p /\ r.held = {}
  BY DEF NoTask
<1>2. r \in Task
  BY DEF NoTask, Task, States
<1>3. task' = [task EXCEPT ![s] = r]
  BY DEF Begin
<1> HIDE DEF r
<1>4. OthersKeep(s) /\ task'[s] = r
  BY <1>2, <1>3 DEF OthersKeep
<1> QED
  BY <1>1, <1>4

LEMMA Went ==
    ASSUME task \in [Sessions -> Task], NEW s \in Sessions,
           NEW pc \in States, Goto(s, pc)
    PROVE  /\ OthersKeep(s)
           /\ task'[s].pc = pc /\ task'[s].on = task[s].on
           /\ task'[s].phone = task[s].phone /\ task'[s].held = task[s].held
<1>1. task[s] \in Task
  OBVIOUS
<1>2. [task[s] EXCEPT !.pc = pc] \in Task
  BY <1>1 DEF Task, States
<1>3. task' = [task EXCEPT ![s] = [task[s] EXCEPT !.pc = pc]]
  BY DEF Goto
<1>4. OthersKeep(s) /\ task'[s] = [task[s] EXCEPT !.pc = pc]
  BY <1>2, <1>3 DEF OthersKeep
<1> QED
  BY <1>1, <1>4 DEF Task

\* The end of an attempt that sent nothing.
LEMMA UnsentStep ==
    ASSUME task \in [Sessions -> Task], NEW s \in Sessions,
           NEW h, NEW status, Unsent(s, h, status), task[s].held = {}
    PROVE  /\ OthersKeep(s) /\ told' = told
           /\ task'[s].held = {}
           /\ \/ task'[s].pc = "idle"
              \/ /\ task'[s].pc = "unsent" /\ task'[s].on = task[s].on
                 /\ task'[s].phone = task[s].phone
                 /\ task[s].phone # None
<1>1. CASE Requested(s)
  BY <1>1, Went DEF Unsent, States, Requested
<1>2. CASE ~Requested(s)
  BY <1>2, Finished DEF Unsent
<1> QED
  BY <1>1, <1>2

-----------------------------------------------------------------------------
(***************************************************************************)
(* Steps that only change a task.                                          *)
(***************************************************************************)

rows == <<linked, code, challenge, prompt, cards, told, yes, token>>

RowInv == PromptInv /\ AnswerInv /\ TokenInv /\ GrantedOnce

LEMMA RowsKeep ==
    ASSUME IInv, UNCHANGED rows
    PROVE  RowInv'
BY DEF IInv, rows, RowInv, PromptInv, AnswerInv, TokenInv, GrantedOnce,
       First, Granted, Spent

LEMMA TypeKeeps ==
    ASSUME TypeOK, UNCHANGED rows, task' \in [Sessions -> Task],
           faults' = faults \/ (faults < MaxFaults /\ faults' = faults + 1)
    PROVE  TypeOK'
BY SignInAssumption DEF TypeOK, rows

-----------------------------------------------------------------------------
(***************************************************************************)
(* The parts about the tasks, after a step of s that leaves what the other *)
(* tasks rest upon.                                                        *)
(***************************************************************************)

LEMMA AboutKeeps ==
    ASSUME AboutInv, NEW s \in Sessions, OthersKeep(s), About(s)',
           \A t \in Tokens : token[t].status # "none" => token'[t].status # "none",
           \A h \in Challenges :
              prompt[h].status # "none" => prompt'[h].status # "none"
    PROVE  AboutInv'
BY DEF AboutInv, About, OthersKeep, Sending

LEMMA HeldKeeps ==
    ASSUME HeldInv, NEW s \in Sessions, OthersKeep(s), task'[s].held = {},
           \A t \in Sessions \ {s} : \A h \in task[t].held :
              challenge'[h].status = "pending"
    PROVE  HeldInv'
BY DEF HeldInv, OthersKeep

LEMMA VerifyKeeps ==
    ASSUME VerifyInv, NEW s \in Sessions, OthersKeep(s),
           task'[s].pc # "verify",
           \A t \in Sessions \ {s} : task[t].pc = "verify" =>
              /\ code'[task[t].on].status = "pending"
              /\ code'[task[t].on].phone = code[task[t].on].phone
    PROVE  VerifyInv'
BY DEF VerifyInv, OthersKeep

LEMMA SendKeeps ==
    ASSUME SendInv, NEW s \in Sessions, OthersKeep(s),
           task'[s].pc \notin Sender,
           \A t \in Sessions \ {s}, h \in Challenges : Claims(t, h) =>
              /\ prompt'[h] = prompt[h]
              /\ cards'[h] = cards[h]
              /\ \/ task[t].pc # "block"
                 \/ challenge'[h].status = challenge[h].status
                 \/ challenge'[h].status
                       \in {"pending", "superseded", "fallback"},
           AboutInv
    PROVE  SendInv'
BY DEF SendInv, Sends, OthersKeep, Claims, Sender, Sendable, AboutInv, About, Sending

LEMMA SenderKeeps ==
    ASSUME SendInv, AboutInv, NEW s \in Sessions, OthersKeep(s),
           Sends(s)',
           NEW h, task'[s].on = h, \A t \in Sessions \ {s} : ~Claims(t, h),
           \A g \in Challenges \ {h} :
              prompt'[g] = prompt[g] /\ cards'[g] = cards[g],
           challenge' = challenge
    PROVE  SendInv'
BY DEF SendInv, Sends, OthersKeep, Claims, Sender, Sendable, AboutInv, About, Sending

\* A step that changes no row, and after which s neither verifies nor sends.
LEMMA QuietStep ==
    ASSUME IInv, NEW s \in Sessions, OthersKeep(s), UNCHANGED rows,
           task'[s].pc \notin Sender \cup {"verify"},
           task'[s].held = {}, About(s)',
           faults' = faults \/ (faults < MaxFaults /\ faults' = faults + 1)
    PROVE  IInv'
<1>1. TypeOK' /\ RowInv'
  BY TypeKeeps, RowsKeep DEF OthersKeep, IInv
<1>2. AboutInv'
  BY AboutKeeps DEF IInv, rows
<1>3. HeldInv'
  BY HeldKeeps DEF IInv, rows, HeldInv
<1>4. VerifyInv'
  BY VerifyKeeps DEF IInv, rows, VerifyInv
<1>5. SendInv'
  BY SendKeeps DEF IInv, rows
<1> QED
  BY <1>1, <1>2, <1>3, <1>4, <1>5 DEF IInv, RowInv

-----------------------------------------------------------------------------
(***************************************************************************)
(* Unused ids, and what tokens rest upon.                                  *)
(***************************************************************************)

LEMMA NewIds ==
    /\ (\E c \in Codes : code[c].status = "none") =>
          NextCode \in Codes /\ code[NextCode].status = "none"
    /\ (\E h \in Challenges : challenge[h].status = "none") =>
          /\ NextChallenge \in Challenges
          /\ challenge[NextChallenge].status = "none"
    /\ (\E t \in Tokens : token[t].status = "none") =>
          NextToken \in Tokens /\ token[NextToken].status = "none"
BY DEF NextCode, NextChallenge, NextToken

\* A row in use keeps its phone, and what is spent stays so.
CodesStay ==
    \A c \in Codes : code[c].status # "none" =>
        /\ code'[c].status # "none" /\ code'[c].phone = code[c].phone
        /\ code[c].status = "consumed" => code'[c].status = "consumed"

ChallengesStay ==
    \A h \in Challenges : challenge[h].status # "none" =>
        /\ challenge'[h].status # "none"
        /\ challenge'[h].phone = challenge[h].phone
        /\ challenge[h].status = "consumed" => challenge'[h].status = "consumed"

\* What DecisionIsFinal says of a step.
Stands ==
    \A h \in Challenges :
        /\ challenge[h].status = "approved" =>
              challenge'[h].status \in {"approved", "consumed"}
        /\ challenge[h].status \in {"denied", "consumed"} =>
              challenge'[h].status = challenge[h].status

LEMMA GrantStays ==
    ASSUME IInv, CodesStay, ChallengesStay, yes \subseteq yes', NEW t,
           Granted(t), token'[t].user = token[t].user,
           token'[t].from = token[t].from
    PROVE  Granted(t)'
<1>1. yes \subseteq Challenges
      /\ \A h \in yes : challenge[h].status # "none"
  BY DEF IInv, TypeOK, AnswerInv
<1> QED
  BY <1>1 DEF Granted, CodesStay, ChallengesStay

LEMMA SpentStays ==
    ASSUME CodesStay, ChallengesStay, NEW x, Spent(x)
    PROVE  Spent(x)'
BY DEF Spent, CodesStay, ChallengesStay

\* Token n is new; it may be the first of what was not spent before.
LEMMA TokenAdded ==
    ASSUME IInv, CodesStay, ChallengesStay, yes \subseteq yes',
           NEW n \in Tokens, token[n].status = "none",
           NEW x, token'[n].from = x, Granted(n)',
           token'[n].parent # None \/ (~Spent(x) /\ Spent(x)'),
           \A t \in Tokens \ {n} :
              /\ token'[t].status = "none" <=> token[t].status = "none"
              /\ token'[t].user = token[t].user
              /\ token'[t].from = token[t].from
              /\ token'[t].parent = token[t].parent
    PROVE  TokenInv' /\ GrantedOnce'
<1>1. \A t \in Tokens \ {n} : First(t)' <=> First(t)
  BY DEF First
<1>2. \A t \in Tokens : First(t) => Spent(token[t].from)
  BY DEF IInv, TokenInv
<1>3. ASSUME NEW t \in Tokens, token'[t].status # "none"
      PROVE  Granted(t)'
  BY <1>3, GrantStays DEF IInv, TokenInv
<1>4. ASSUME NEW t \in Tokens, First(t)'
      PROVE  Spent(token[t].from)'
  <2>1. CASE t = n
    BY <1>4, <2>1 DEF First
  <2>2. CASE t # n
    <3>1. PICK y : y = token[t].from
      OBVIOUS
    <3>2. Spent(y)'
      BY <1>1, <1>2, <1>4, <2>2, <3>1, SpentStays
    <3>3. token'[t].from = y
      BY <2>2, <3>1
    <3> QED  BY <3>2, <3>3
  <2> QED  BY <2>1, <2>2
<1>5. ASSUME NEW t \in Tokens, NEW u \in Tokens, First(t)', First(u)',
             token'[t].from = token'[u].from
      PROVE  t = u
  <2>1. CASE t # n /\ u # n
    BY <1>1, <1>5, <2>1 DEF IInv, GrantedOnce
  <2>2. CASE t = n \/ u = n
    BY <1>1, <1>2, <1>5, <2>2 DEF First
  <2> QED  BY <2>1, <2>2
<1> QED
  BY <1>3, <1>4, <1>5 DEF TokenInv, GrantedOnce

LEMMA TokensKeep ==
    ASSUME IInv, CodesStay, ChallengesStay, yes \subseteq yes', token' = token
    PROVE  TokenInv' /\ GrantedOnce'
<1>1. \A t \in Tokens : Granted(t) => Granted(t)'
  BY GrantStays
<1>2. \A x : Spent(x) => Spent(x)'
  BY SpentStays
<1>3. TokenInv'
  BY <1>1, <1>2 DEF IInv, TokenInv, First
<1>4. GrantedOnce'
  BY DEF IInv, GrantedOnce, First
<1> QED
  BY <1>3, <1>4

-----------------------------------------------------------------------------
(***************************************************************************)
(* The request.                                                            *)
(***************************************************************************)

LEMMA RequestCodeKeeps ==
    ASSUME IInv, NEW s \in Sessions, NEW p \in Phones, RequestCode(s, p)
    PROVE  IInv'
<1>1. /\ OthersKeep(s) /\ task'[s].pc = "counted" /\ task'[s].phone = p
      /\ task'[s].held = {}
  BY Began DEF IInv, TypeOK, RequestCode, States
<1>2. About(s)'
  BY <1>1 DEF About, Sending
<1> QED
  BY <1>1, <1>2, QuietStep DEF RequestCode, rows, Sender

LEMMA RefuseKeeps ==
    ASSUME IInv, NEW s \in Sessions, Refuse(s)
    PROVE  IInv'
<1>1. OthersKeep(s) /\ task'[s].pc = "idle" /\ task'[s].held = {}
  BY Finished DEF IInv, TypeOK, Refuse
<1>2. About(s)'
  BY <1>1 DEF About, Sending
<1> QED
  BY <1>1, <1>2, QuietStep DEF Refuse, rows, Sender

LEMMA CrashKeeps ==
    ASSUME IInv, NEW s \in Sessions, Crash(s)
    PROVE  IInv'
<1>1. OthersKeep(s) /\ task'[s].pc = "idle" /\ task'[s].held = {}
  BY Finished DEF IInv, TypeOK, Crash
<1>2. About(s)'
  BY <1>1 DEF About, Sending
<1> QED
  BY <1>1, <1>2, QuietStep DEF Crash, rows, Sender

\* The locks that s takes no other session holds.
LEMMA SupersedeKeeps ==
    ASSUME IInv, NEW s \in Sessions, Supersede(s)
    PROVE  IInv'
<1> DEFINE pending == {h \in ChallengesOf(task[s].phone) :
                          challenge[h].status = "pending"}
<1>1. /\ \A h \in pending : ~Locked(h)
      /\ UNCHANGED rows /\ faults' = faults /\ task[s].pc = "counted"
      /\ task' = [task EXCEPT ![s].pc = "challenge", ![s].held = pending]
  BY DEF Supersede, rows
<1>2. /\ pending \subseteq Challenges
      /\ \A h \in pending : challenge[h].status = "pending"
  BY DEF ChallengesOf
<1> HIDE DEF pending
<1>3. task[s] \in Task
  BY DEF IInv, TypeOK
<1>4. task'[s] = [task[s] EXCEPT !.pc = "challenge", !.held = pending]
  BY <1>1 DEF IInv, TypeOK
<1>5. /\ OthersKeep(s) /\ task'[s].pc = "challenge"
      /\ task'[s].held = pending /\ task'[s].phone = task[s].phone
  <2>1. /\ task'[s] \in Task /\ task'[s].pc = "challenge"
        /\ task'[s].held = pending /\ task'[s].phone = task[s].phone
    BY <1>2, <1>3, <1>4 DEF Task
  <2> QED  BY <1>1, <2>1 DEF OthersKeep, IInv, TypeOK
<1>6. TypeOK' /\ RowInv'
  BY <1>1, <1>5, TypeKeeps, RowsKeep DEF OthersKeep, IInv
<1>7. AboutInv'
  <2>1. About(s)'
    BY <1>1, <1>5 DEF About, IInv, AboutInv, Sending
  <2> QED  BY <1>1, <1>5, <2>1, AboutKeeps DEF IInv, rows
<1>8. HeldInv'
  BY <1>1, <1>2, <1>5 DEF IInv, HeldInv, OthersKeep, Locked, rows
<1>9. VerifyInv'
  BY <1>1, <1>5, VerifyKeeps DEF IInv, rows, VerifyInv
<1>10. SendInv'
  BY <1>1, <1>5, SendKeeps DEF IInv, rows, Sender
<1> QED
  BY <1>6, <1>7, <1>8, <1>9, <1>10 DEF IInv, RowInv

\* The challenges it supersedes are pending still: no answer is lost.
LEMMA CreateLoginApprovalKeeps ==
    ASSUME IInv, NEW s \in Sessions, CreateLoginApproval(s)
    PROVE  IInv' /\ Stands
<1> DEFINE h == NextChallenge
           held == task[s].held
           p == task[s].phone
<1>1. /\ h \in Challenges /\ challenge[h].status = "none"
      /\ task[s].pc = "challenge" /\ p \in Phones
      /\ \A g \in held : g \in Challenges /\ challenge[g].status = "pending"
  BY NewIds DEF CreateLoginApproval, IInv, AboutInv, About, HeldInv, TypeOK, Task
<1>2. /\ challenge'[h] = [status |-> "pending", phone |-> p, due |-> FALSE]
      /\ \A g \in held :
            challenge'[g] = [challenge[g] EXCEPT !.status = "superseded"]
      /\ \A g \in Challenges \ (held \cup {h}) : challenge'[g] = challenge[g]
      /\ DOMAIN challenge' = Challenges
      /\ challenge' = [g \in Challenges |-> challenge'[g]]
  BY <1>1 DEF CreateLoginApproval
<1>3. /\ prompt[h].status = "none"
      /\ prompt' = [prompt EXCEPT ![h].status = "pending"]
  BY <1>1 DEF CreateLoginApproval, IInv, PromptInv
<1>4. /\ Begin(s, "send", h, p)
      /\ UNCHANGED <<linked, code, cards, told, yes, token, faults>>
  BY DEF CreateLoginApproval
<1> HIDE DEF h, held, p
<1>5. /\ OthersKeep(s) /\ task'[s].pc = "send" /\ task'[s].on = h
      /\ task'[s].phone = p /\ task'[s].held = {}
  BY <1>1, <1>4, Began DEF IInv, TypeOK, States, Ids
<1>6. \A g \in Challenges : challenge[g] \in Challenge /\ prompt[g] \in Prompt
  BY DEF IInv, TypeOK
<1>7. /\ \A g \in Challenges : challenge'[g] \in Challenge
      /\ \A g \in held : /\ challenge'[g].status = "superseded"
                         /\ challenge'[g].phone = challenge[g].phone
  <2>1. challenge'[h] \in Challenge
    BY <1>1, <1>2 DEF Challenge
  <2>2. ASSUME NEW g \in held
        PROVE  /\ challenge'[g] \in Challenge
               /\ challenge'[g].status = "superseded"
               /\ challenge'[g].phone = challenge[g].phone
    <3>1. /\ challenge[g] \in Challenge
          /\ challenge'[g] = [challenge[g] EXCEPT !.status = "superseded"]
      BY <1>1, <1>2, <1>6
    <3> QED  BY <3>1 DEF Challenge
  <2> QED  BY <1>2, <1>6, <2>1, <2>2
<1>8. /\ prompt' \in [Challenges -> Prompt]
      /\ prompt'[h].status = "pending" /\ prompt'[h].wamid = prompt[h].wamid
      /\ \A g \in Challenges \ {h} : prompt'[g] = prompt[g]
  BY <1>1, <1>3, <1>6 DEF Prompt, IInv, TypeOK
<1>9. TypeOK'
  BY <1>2, <1>4, <1>5, <1>7, <1>8 DEF IInv, TypeOK, OthersKeep
<1>10. AboutInv'
  <2>1. About(s)'
    BY <1>1, <1>5, <1>8 DEF About, Sending
  <2> QED  BY <1>4, <1>5, <1>8, <2>1, AboutKeeps DEF IInv
<1>11. HeldInv'
  <2>1. ASSUME NEW t \in Sessions \ {s}, NEW g \in task[t].held
        PROVE  challenge'[g].status = "pending"
    BY <1>1, <1>2 DEF IInv, HeldInv, TypeOK, Task, held
  <2> QED  BY <1>5, <2>1, HeldKeeps DEF IInv
<1>12. VerifyInv'
  BY <1>4, <1>5, VerifyKeeps DEF IInv, VerifyInv
<1>13. SendInv'
  <2>1. ASSUME NEW t \in Sessions \ {s}, NEW g \in Challenges, Claims(t, g)
        PROVE  /\ prompt'[g] = prompt[g] /\ cards'[g] = cards[g]
               /\ \/ challenge'[g].status = challenge[g].status
                  \/ challenge'[g].status = "superseded"
    <3>1. g # h
      BY <1>3, <2>1 DEF Claims, Sender, IInv, AboutInv, About, Sending
    <3> QED  BY <1>2, <1>4, <1>7, <1>8, <3>1
  <2> QED  BY <1>5, <2>1, SendKeeps DEF IInv, Sender
<1>14. PromptInv'
  BY <1>1, <1>2, <1>3, <1>4, <1>7, <1>8 DEF IInv, PromptInv
<1>15. ChallengesStay /\ AnswerInv'
  BY <1>1, <1>2, <1>4, <1>7 DEF IInv, AnswerInv, ChallengesStay
<1>16. TokenInv' /\ GrantedOnce'
  BY <1>4, <1>15, TokensKeep DEF CodesStay
<1>17. Stands
  BY <1>1, <1>2, <1>7 DEF Stands
<1> QED
  BY <1>9, <1>10, <1>11, <1>12, <1>13, <1>14, <1>15, <1>16, <1>17 DEF IInv

LEMMA NewCodeStep ==
    ASSUME IInv, NEW p \in Phones, NewCode(p)
    PROVE  /\ code' \in [Codes -> Code]
           /\ \A c \in Codes :
                 \/ code'[c] = code[c]
                 \/ /\ code[c].status = "none"
                    /\ code'[c].status = "pending"
<1> DEFINE new == [status |-> "pending", phone |-> p, user |-> None,
                   due |-> FALSE]
<1>1. /\ NextCode \in Codes /\ code[NextCode].status = "none"
      /\ code' = [code EXCEPT ![NextCode] = new]
  BY NewIds DEF NewCode
<1>2. new \in Code /\ new.status = "pending"
  BY DEF Code
<1> QED
  BY <1>1, <1>2 DEF IInv, TypeOK

\* A new code: the rows of the tasks that verify another are as they were.
LEMMA NewCodeKeeps ==
    ASSUME IInv, NEW s \in Sessions, NEW p \in Phones, NewCode(p),
           OthersKeep(s), task'[s].pc = "idle"
    PROVE  CodesStay /\ VerifyInv'
<1>1. CodesStay
  BY NewCodeStep DEF CodesStay
<1>2. ASSUME NEW t \in Sessions \ {s}, task[t].pc = "verify"
      PROVE  code'[task[t].on] = code[task[t].on]
  BY <1>2, NewCodeStep DEF IInv, VerifyInv, AboutInv, About
<1> QED
  BY <1>1, <1>2, VerifyKeeps DEF IInv, VerifyInv

LEMMA CreateVerificationKeeps ==
    ASSUME IInv, NEW s \in Sessions, CreateVerification(s)
    PROVE  IInv'
<1>1. OthersKeep(s) /\ task'[s].pc = "idle" /\ task'[s].held = {}
  BY Finished DEF IInv, TypeOK, CreateVerification
<1>2. /\ task[s].phone \in Phones /\ NewCode(task[s].phone)
      /\ UNCHANGED <<linked, challenge, prompt, cards, told, yes, token, faults>>
  BY DEF CreateVerification, IInv, AboutInv, About
<1>3. TypeOK'
  BY <1>1, <1>2, NewCodeStep DEF IInv, TypeOK, OthersKeep
<1>4. AboutInv'
  <2>1. About(s)'
    BY <1>1 DEF About, Sending
  <2> QED  BY <1>1, <1>2, <2>1, AboutKeeps DEF IInv
<1>5. HeldInv'
  BY <1>1, <1>2, HeldKeeps DEF IInv, HeldInv
<1>6. CodesStay /\ VerifyInv'
  BY <1>1, <1>2, NewCodeKeeps
<1>7. SendInv'
  BY <1>1, <1>2, SendKeeps DEF IInv, Sender
<1>8. PromptInv' /\ AnswerInv'
  BY <1>2, NewCodeStep DEF IInv, PromptInv, AnswerInv
<1>9. TokenInv' /\ GrantedOnce'
  BY <1>2, <1>6, TokensKeep DEF ChallengesStay
<1> QED
  BY <1>3, <1>4, <1>5, <1>6, <1>7, <1>8, <1>9 DEF IInv

\* The update looks at the status, and waits for a lock on the row.
LEMMA FallbackKeeps ==
    ASSUME IInv, NEW s \in Sessions, Fallback(s)
    PROVE  IInv' /\ Stands
<1> DEFINE h == task[s].on
<1>1. OthersKeep(s) /\ task'[s].pc = "idle" /\ task'[s].held = {}
  BY Finished DEF IInv, TypeOK, Fallback
<1>2. /\ task[s].phone \in Phones /\ NewCode(task[s].phone)
      /\ h \in Challenges /\ ~Locked(h)
      /\ UNCHANGED <<linked, prompt, cards, told, yes, token, faults>>
  BY DEF Fallback, IInv, AboutInv, About, Sending
<1>3. /\ challenge' \in [Challenges -> Challenge]
      /\ \A g \in Challenges :
            /\ challenge'[g].phone = challenge[g].phone
            /\ \/ challenge'[g] = challenge[g]
               \/ /\ g = h /\ challenge[g].status = "pending"
                  /\ challenge'[g].status = "fallback"
  <2>1. challenge \in [Challenges -> Challenge] /\ challenge[h] \in Challenge
    BY <1>2 DEF IInv, TypeOK
  <2>2. CASE challenge[h].status = "pending"
    <3>1. challenge' = [challenge EXCEPT ![h] =
                          [challenge[h] EXCEPT !.status = "fallback"]]
      BY <2>2 DEF Fallback, MarkFallback
    <3>2. /\ [challenge[h] EXCEPT !.status = "fallback"] \in Challenge
          /\ [challenge[h] EXCEPT !.status = "fallback"].status = "fallback"
          /\ [challenge[h] EXCEPT !.status = "fallback"].phone
                = challenge[h].phone
      BY <2>1 DEF Challenge
    <3> QED  BY <1>2, <2>1, <2>2, <3>1, <3>2
  <2>3. CASE challenge[h].status # "pending"
    <3>1. challenge' = challenge
      BY <2>3 DEF Fallback, MarkFallback
    <3> QED  BY <2>1, <3>1
  <2> QED  BY <2>2, <2>3
<1> HIDE DEF h
<1>4. TypeOK'
  BY <1>1, <1>2, <1>3, NewCodeStep DEF IInv, TypeOK, OthersKeep
<1>5. AboutInv'
  <2>1. About(s)'
    BY <1>1 DEF About, Sending
  <2> QED  BY <1>1, <1>2, <2>1, AboutKeeps DEF IInv
<1>6. HeldInv'
  <2>1. ASSUME NEW t \in Sessions \ {s}, NEW g \in task[t].held
        PROVE  challenge'[g].status = "pending"
    BY <1>2, <1>3 DEF IInv, HeldInv, TypeOK, Task, Locked
  <2> QED  BY <1>1, <2>1, HeldKeeps DEF IInv
<1>7. CodesStay /\ VerifyInv'
  BY <1>1, <1>2, NewCodeKeeps
<1>8. SendInv'
  BY <1>1, <1>2, <1>3, SendKeeps DEF IInv, Sender
<1>9. PromptInv' /\ AnswerInv'
  BY <1>2, <1>3, NewCodeStep DEF IInv, PromptInv, AnswerInv
<1>10. TokenInv' /\ GrantedOnce'
  BY <1>2, <1>3, <1>7, TokensKeep DEF ChallengesStay
<1>11. Stands
  BY <1>3 DEF Stands
<1> QED
  BY <1>4, <1>5, <1>6, <1>7, <1>8, <1>9, <1>10, <1>11 DEF IInv

-----------------------------------------------------------------------------
(***************************************************************************)
(* Sending the card.                                                       *)
(***************************************************************************)

LEMMA SweepKeeps ==
    ASSUME IInv, NEW s \in Sessions, NEW h \in Challenges, Sweep(s, h)
    PROVE  IInv'
<1>1. /\ OthersKeep(s) /\ task'[s].pc = "send" /\ task'[s].on = h
      /\ task'[s].held = {}
  BY Began DEF IInv, TypeOK, Sweep, States, Ids
<1>2. About(s)'
  BY <1>1 DEF About, Sending, Sweep, Sendable
<1> QED
  BY <1>1, <1>2, QuietStep DEF Sweep, rows, Sender

LEMMA SkipClaimedKeeps ==
    ASSUME IInv, NEW s \in Sessions, SkipClaimed(s)
    PROVE  IInv'
<1>1. /\ task[s].pc = "send" /\ task[s].held = {}
      /\ task[s].on \in Challenges /\ prompt[task[s].on].status # "none"
      /\ task[s].phone \in Phones \cup {None}
  BY DEF SkipClaimed, IInv, TypeOK, Task, AboutInv, About, Sending
<1>2. Unsent(s, task[s].on, "skipped")
      /\ UNCHANGED <<linked, code, challenge, prompt, cards, yes, token, faults>>
  BY DEF SkipClaimed
<1>3. /\ OthersKeep(s) /\ told' = told
      /\ task'[s].held = {}
      /\ \/ task'[s].pc = "idle"
         \/ /\ task'[s].pc = "unsent" /\ task'[s].on = task[s].on
            /\ task'[s].phone = task[s].phone
            /\ task[s].phone # None
  BY <1>1, <1>2, UnsentStep DEF IInv, TypeOK
<1>4. About(s)'
  BY <1>1, <1>2, <1>3 DEF About, Sending
<1> QED
  BY <1>2, <1>3, <1>4, QuietStep DEF rows, Sender

\* What a write to the row of a prompt does.
PromptSet(h, status) ==
    /\ prompt' \in [Challenges -> Prompt]
    /\ prompt'[h].status = status /\ ~prompt'[h].over
    /\ prompt'[h].wamid = prompt[h].wamid
    /\ \A g \in Challenges \ {h} : prompt'[g] = prompt[g]

LEMMA PromptRow ==
    ASSUME NEW r \in Prompt,
           NEW status \in {"pending", "sending", "failed", "blocked_24h"}
    PROVE  LET new == [r EXCEPT !.status = status, !.over = FALSE]
           IN  /\ new \in Prompt /\ new.status = status
               /\ ~new.over /\ new.wamid = r.wamid
<1> DEFINE new == [r EXCEPT !.status = status, !.over = FALSE]
<1>1. new \in Prompt
  BY DEF Prompt
<1>2. new.status = status /\ new.wamid = r.wamid
  BY DEF Prompt
<1>3. ~new.over
  BY DEF Prompt
<1> QED
  BY <1>1, <1>2, <1>3

LEMMA PromptWrite ==
    ASSUME TypeOK, NEW h \in Challenges,
           NEW status \in {"pending", "sending", "failed", "blocked_24h"},
           prompt' = [prompt EXCEPT ![h].status = status, ![h].over = FALSE]
    PROVE  PromptSet(h, status)
<1>1. prompt[h] \in Prompt
  BY DEF TypeOK
<1>2. prompt'[h] = [prompt[h] EXCEPT !.status = status, !.over = FALSE]
  BY DEF TypeOK
<1>3. /\ prompt'[h] \in Prompt /\ prompt'[h].status = status
      /\ ~prompt'[h].over /\ prompt'[h].wamid = prompt[h].wamid
  <2> DEFINE new == [prompt[h] EXCEPT !.status = status, !.over = FALSE]
  <2>1. /\ new \in Prompt /\ new.status = status
        /\ ~new.over /\ new.wamid = prompt[h].wamid
    BY <1>1, PromptRow
  <2>2. prompt'[h] = new
    BY <1>2
  <2> HIDE DEF new
  <2> QED  BY <2>1, <2>2
<1> QED
  BY <1>3 DEF TypeOK, PromptSet

\* The end of an attempt: s has, or nobody has, the claim.
LEMMA AttemptEnds ==
    ASSUME IInv, NEW s \in Sessions, NEW h \in Challenges, task[s].on = h,
           task[s].pc \in {"send", "block", "refused"},
           \A t \in Sessions : Claims(t, h) => t = s,
           prompt[h].status \notin {"sent", "none"},
           NEW status \in {"pending", "failed", "blocked_24h"},
           prompt' = [prompt EXCEPT ![h].status = status, ![h].over = FALSE],
           Unsent(s, h, status), UNCHANGED <<linked, code, cards, yes, token, faults>>,
           challenge' \in [Challenges -> Challenge],
           \A g \in Challenges :
              /\ challenge'[g].phone = challenge[g].phone
              /\ \/ challenge'[g] = challenge[g]
                 \/ /\ g = h /\ ~Locked(g)
                    /\ challenge[g].status \in {"pending", "superseded", "fallback"}
                    /\ challenge'[g].status = "fallback"
    PROVE  IInv' /\ Stands
<1>1. /\ task[s].held = {} /\ task[s].phone \in Phones \cup {None}
  BY DEF IInv, TypeOK, Task, AboutInv, About, Sending
<1>2. /\ OthersKeep(s) /\ told' = told
      /\ task'[s].held = {}
      /\ \/ task'[s].pc = "idle"
         \/ /\ task'[s].pc = "unsent" /\ task'[s].on = task[s].on
            /\ task'[s].phone = task[s].phone
            /\ task[s].phone # None
  BY <1>1, UnsentStep DEF IInv, TypeOK
<1>3. PromptSet(h, status)
  BY PromptWrite DEF IInv
<1>4. TypeOK'
  BY <1>2, <1>3 DEF IInv, TypeOK, OthersKeep, PromptSet
<1>5. AboutInv'
  <2>1. About(s)'
    BY <1>1, <1>2, <1>3 DEF About, Sending, PromptSet
  <2>2. \A g \in Challenges : prompt[g].status # "none" => prompt'[g].status # "none"
    BY <1>3 DEF PromptSet
  <2> QED  BY <1>2, <2>1, <2>2, AboutKeeps DEF IInv
<1>6. HeldInv'
  <2>1. ASSUME NEW t \in Sessions \ {s}, NEW g \in task[t].held
        PROVE  challenge'[g].status = "pending"
    BY DEF IInv, HeldInv, TypeOK, Task, Locked
  <2> QED  BY <1>2, <2>1, HeldKeeps DEF IInv
<1>7. VerifyInv'
  BY <1>2, VerifyKeeps DEF IInv, VerifyInv
<1>8. SendInv'
  <2>1. ASSUME NEW t \in Sessions \ {s}, NEW g \in Challenges, Claims(t, g)
        PROVE  /\ prompt'[g] = prompt[g]
               /\ cards'[g] = cards[g]
               /\ challenge'[g].status = challenge[g].status
    <3>1. g # h
      BY <2>1
    <3>2. prompt'[g] = prompt[g]
      BY <1>3, <3>1 DEF PromptSet
    <3> QED  BY <3>1, <3>2
  <2>2. task'[s].pc \notin Sender
    BY <1>2 DEF Sender
  <2>3. SendInv /\ AboutInv /\ OthersKeep(s)
    BY <1>2 DEF IInv
  <2> QED  BY <2>1, <2>2, <2>3, SendKeeps
<1>9. PromptInv'
  <2>1. h \notin told
    BY DEF IInv, PromptInv
  <2> QED  BY <1>2, <1>3, <2>1 DEF IInv, PromptInv, PromptSet
<1>10. AnswerInv'
  BY DEF IInv, AnswerInv
<1>11. TokenInv' /\ GrantedOnce'
  BY TokensKeep DEF ChallengesStay, CodesStay
<1>12. Stands
  BY DEF Stands
<1> QED
  BY <1>4, <1>5, <1>6, <1>7, <1>8, <1>9, <1>10, <1>11, <1>12 DEF IInv

\* Nobody has h's prompt claimed that can be sent.
LEMMA Unclaimed ==
    ASSUME IInv, NEW h \in Challenges, ~Claiming(h), Sendable(h)
    PROVE  /\ \A t \in Sessions : ~Claims(t, h)
           /\ prompt[h].status \notin {"sent", "none"}
BY DEF IInv, SendInv, Sends, Claims, Sender, Claiming, Sendable

LEMMA DropPromptKeeps ==
    ASSUME IInv, NEW s \in Sessions, DropPrompt(s)
    PROVE  IInv'
<1> DEFINE h == task[s].on
<1>1. h \in Challenges
  BY DEF DropPrompt, IInv, AboutInv, About, Sending
<1>2. /\ task[s].pc = "send" /\ ~Claiming(h) /\ Sendable(h)
      /\ prompt' = [prompt EXCEPT ![h].status = "failed", ![h].over = FALSE]
      /\ Unsent(s, h, "failed")
      /\ UNCHANGED <<linked, code, challenge, cards, yes, token, faults>>
  BY DEF DropPrompt
<1>3. /\ \A t \in Sessions : ~Claims(t, h)
      /\ prompt[h].status \notin {"sent", "none"}
  BY <1>1, <1>2, Unclaimed
<1>4. challenge' \in [Challenges -> Challenge]
      /\ \A g \in Challenges : challenge'[g] = challenge[g]
  BY <1>2 DEF IInv, TypeOK
<1> HIDE DEF h
<1> QED
  BY <1>1, <1>2, <1>3, <1>4, AttemptEnds DEF h

LEMMA MarkPendingKeeps ==
    ASSUME IInv, NEW s \in Sessions, MarkPending(s)
    PROVE  IInv'
<1> DEFINE h == task[s].on
<1>1. /\ h \in Challenges /\ task[s].pc = "refused" /\ Claims(s, h)
      /\ prompt[h].status = "sending"
  BY DEF MarkPending, IInv, AboutInv, About, Sending, SendInv, Sends, Claims, Sender
<1>2. /\ prompt' = [prompt EXCEPT ![h].status = "pending", ![h].over = FALSE]
      /\ Unsent(s, h, "pending")
      /\ UNCHANGED <<linked, code, challenge, cards, yes, token, faults>>
  BY DEF MarkPending, Unsent
<1>3. \A t \in Sessions : Claims(t, h) => t = s
  BY <1>1 DEF IInv, SendInv, Sends
<1>4. challenge' \in [Challenges -> Challenge]
      /\ \A g \in Challenges : challenge'[g] = challenge[g]
  BY <1>2 DEF IInv, TypeOK
<1> QED
  BY <1>1, <1>2, <1>3, <1>4, AttemptEnds

\* The write that does not look at the status overwrites no answer: a card
\* that is being sent has no id yet that a tap could name.
LEMMA BlockPromptKeeps ==
    ASSUME IInv, NEW s \in Sessions, BlockPrompt(s)
    PROVE  IInv' /\ Stands
<1> DEFINE h == task[s].on
<1>1. /\ h \in Challenges /\ task[s].pc = "block" /\ Claims(s, h)
      /\ Sendable(h)
      /\ challenge[h].status \in {"pending", "superseded", "fallback"}
  BY DEF BlockPrompt, IInv, AboutInv, About, Sending, SendInv, Sends, Claims, Sender
<1>2. /\ ~Locked(h)
      /\ prompt' = [prompt EXCEPT ![h].status = "blocked_24h",
                                  ![h].over = FALSE]
      /\ challenge' = [challenge EXCEPT ![h].status = "fallback"]
      /\ Unsent(s, h, "blocked_24h")
      /\ UNCHANGED <<linked, code, cards, yes, token, faults>>
  BY DEF BlockPrompt
<1>3. \A t \in Sessions : Claims(t, h) => t = s
  BY <1>1 DEF IInv, SendInv, Sends
<1>4. challenge' = [challenge EXCEPT ![h] =
                      [challenge[h] EXCEPT !.status = "fallback"]]
  BY <1>2
<1> HIDE DEF h
<1>5. /\ challenge' \in [Challenges -> Challenge]
      /\ challenge'[h].status = "fallback"
      /\ challenge'[h].phone = challenge[h].phone
      /\ \A g \in Challenges \ {h} : challenge'[g] = challenge[g]
  <2> DEFINE new == [challenge[h] EXCEPT !.status = "fallback"]
  <2>1. challenge \in [Challenges -> Challenge] /\ challenge[h] \in Challenge
    BY <1>1 DEF IInv, TypeOK
  <2>2. /\ new \in Challenge /\ new.status = "fallback"
        /\ new.phone = challenge[h].phone
    BY <2>1 DEF Challenge
  <2>3. challenge' = [challenge EXCEPT ![h] = new]
    BY <1>4
  <2> HIDE DEF new
  <2> QED  BY <1>1, <2>1, <2>2, <2>3
<1>6. prompt[h].status \notin {"sent", "none"}
  BY <1>1 DEF Sendable
<1>7. \A g \in Challenges :
         /\ challenge'[g].phone = challenge[g].phone
         /\ \/ challenge'[g] = challenge[g]
            \/ /\ g = h /\ ~Locked(g)
               /\ challenge[g].status \in {"pending", "superseded", "fallback"}
               /\ challenge'[g].status = "fallback"
  BY <1>1, <1>2, <1>5
<1>8. /\ task[s].on = h /\ task[s].pc = "block"
      /\ prompt' = [prompt EXCEPT ![h].status = "blocked_24h",
                                  ![h].over = FALSE]
      /\ Unsent(s, h, "blocked_24h") /\ h \in Challenges
      /\ UNCHANGED <<linked, code, cards, yes, token, faults>>
      /\ challenge' \in [Challenges -> Challenge]
  BY <1>1, <1>2, <1>5 DEF h
<1> QED
  BY <1>3, <1>6, <1>7, <1>8, AttemptEnds

\* A claimant goes on with its prompt; the rows of others stay.
LEMMA ClaimantStep ==
    ASSUME IInv, NEW s \in Sessions, NEW h \in Challenges, task[s].on = h,
           task[s].pc \in Sending,
           \A t \in Sessions : Claims(t, h) => t = s,
           OthersKeep(s), task'[s].on = h, task'[s].held = {},
           task'[s].pc \in Sender, Sends(s)', TypeOK',
           \A g \in Challenges \ {h} :
              prompt'[g] = prompt[g] /\ cards'[g] = cards[g],
           prompt'[h].status # "none", prompt[h].status # "none",
           UNCHANGED <<linked, code, challenge, told, yes, token>>
    PROVE  AboutInv' /\ HeldInv' /\ VerifyInv' /\ SendInv' /\ AnswerInv'
           /\ TokenInv' /\ GrantedOnce'
<1>1. AboutInv'
  <2>1. About(s)'
    BY DEF About, Sending, Sender
  <2>2. \A g \in Challenges : prompt[g].status # "none" => prompt'[g].status # "none"
    OBVIOUS
  <2> QED  BY <2>1, <2>2, AboutKeeps DEF IInv
<1>2. HeldInv'
  BY HeldKeeps DEF IInv, HeldInv
<1>3. VerifyInv'
  BY VerifyKeeps DEF IInv, VerifyInv, Sender
<1>4. SendInv'
  BY SenderKeeps DEF IInv
<1>5. AnswerInv'
  BY DEF IInv, AnswerInv
<1>6. TokenInv' /\ GrantedOnce'
  BY TokensKeep DEF ChallengesStay, CodesStay
<1> QED
  BY <1>1, <1>2, <1>3, <1>4, <1>5, <1>6

LEMMA ClaimPromptKeeps ==
    ASSUME IInv, NEW s \in Sessions, ClaimPrompt(s)
    PROVE  IInv'
<1> DEFINE h == task[s].on
<1>1. /\ h \in Challenges /\ task[s].pc = "send" /\ task[s].held = {}
      /\ Sendable(h) /\ challenge[h].status = "pending"
      /\ prompt[h].status # "none"
  BY DEF ClaimPrompt, IInv, AboutInv, About, Sending, Live
<1>2. /\ \A t \in Sessions : ~Claims(t, h)
      /\ prompt[h].status \notin {"sent", "none"}
  BY <1>1, Unclaimed DEF ClaimPrompt
<1>3. UNCHANGED <<linked, code, challenge, cards, told, yes, token, faults>>
  BY DEF ClaimPrompt
<1>4. CASE /\ prompt' = [prompt EXCEPT ![h].status = "sending",
                                       ![h].over = FALSE]
           /\ Goto(s, "call")
  <2>1. /\ OthersKeep(s) /\ task'[s].pc = "call" /\ task'[s].on = h
        /\ task'[s].held = {}
    BY <1>1, <1>4, Went DEF IInv, TypeOK, States
  <2>2. PromptSet(h, "sending")
    BY <1>1, <1>4, PromptWrite DEF IInv
  <2> HIDE DEF h
  <2>3. TypeOK'
    BY <1>3, <2>1, <2>2 DEF IInv, TypeOK, OthersKeep, PromptSet
  <2>4. Sends(s)'
    BY <2>1, <2>2 DEF Sends, PromptSet
  <2>5. /\ \A g \in Challenges \ {h} :
              prompt'[g] = prompt[g] /\ cards'[g] = cards[g]
        /\ prompt'[h].status # "none"
    BY <1>3, <2>2 DEF PromptSet
  <2>6. PromptInv'
    BY <1>1, <1>2, <1>3, <2>2 DEF IInv, PromptInv, PromptSet
  <2> QED  BY <1>1, <1>2, <1>3, <2>1, <2>3, <2>4, <2>5, <2>6, ClaimantStep
              DEF IInv, Sender, Sending, h
<1>5. CASE Goto(s, "block") /\ UNCHANGED prompt
  <2>1. /\ OthersKeep(s) /\ task'[s].pc = "block" /\ task'[s].on = h
        /\ task'[s].held = {}
    BY <1>1, <1>5, Went DEF IInv, TypeOK, States
  <2>2. TypeOK' /\ PromptInv'
    BY <1>3, <1>5, <2>1 DEF IInv, TypeOK, OthersKeep, PromptInv
  <2>3. Sends(s)'
    BY <1>1, <1>3, <1>5, <2>1 DEF Sends, Sendable
  <2> QED  BY <1>1, <1>2, <1>3, <1>5, <2>1, <2>2, <2>3, ClaimantStep
              DEF IInv, Sender, Sending
<1> QED
  BY <1>4, <1>5 DEF ClaimPrompt

LEMMA GraphAcceptsKeeps ==
    ASSUME IInv, NEW s \in Sessions, GraphAccepts(s)
    PROVE  IInv'
<1> DEFINE h == task[s].on
<1>1. /\ h \in Challenges /\ task[s].pc = "call" /\ task[s].held = {}
      /\ prompt[h].status = "sending" /\ ~prompt[h].over
      /\ \A t \in Sessions : Claims(t, h) => t = s
      /\ cards[h] \in Nat
  BY DEF GraphAccepts, IInv, TypeOK, AboutInv, About, Sending, SendInv, Sends,
         Claims, Sender
<1>2. /\ cards' = [cards EXCEPT ![h] = cards[h] + 1]
      /\ UNCHANGED <<linked, code, challenge, prompt, told, yes, token, faults>>
  BY DEF GraphAccepts
<1>3. /\ OthersKeep(s) /\ task'[s].pc = "accepted" /\ task'[s].on = h
      /\ task'[s].held = {}
  BY <1>1, Went DEF GraphAccepts, IInv, TypeOK, States
<1> HIDE DEF h
<1>4. /\ cards' \in [Challenges -> Nat] /\ cards'[h] > 0
      /\ \A g \in Challenges : cards'[g] >= cards[g]
      /\ \A g \in Challenges \ {h} : cards'[g] = cards[g]
  BY <1>1, <1>2 DEF IInv, TypeOK
<1>5. TypeOK'
  BY <1>2, <1>3, <1>4 DEF IInv, TypeOK, OthersKeep
<1>6. Sends(s)'
  BY <1>1, <1>2, <1>3, <1>4 DEF Sends
<1>7. PromptInv'
  BY <1>1, <1>2, <1>4 DEF IInv, PromptInv, TypeOK
<1> QED
  BY <1>1, <1>2, <1>3, <1>4, <1>5, <1>6, <1>7, ClaimantStep
  DEF IInv, Sender, Sending, h

LEMMA GraphFailsKeeps ==
    ASSUME IInv, NEW s \in Sessions, GraphFails(s)
    PROVE  IInv'
<1> DEFINE h == task[s].on
<1>1. /\ h \in Challenges /\ task[s].pc \in {"call", "accepted"}
      /\ task[s].held = {}
      /\ prompt[h].status = "sending" /\ ~prompt[h].over
      /\ \A t \in Sessions : Claims(t, h) => t = s
  BY DEF GraphFails, IInv, TypeOK, AboutInv, About, Sending, SendInv, Sends,
         Claims, Sender
<1>2. /\ UNCHANGED <<linked, code, challenge, prompt, cards, told, yes, token>>
      /\ faults < MaxFaults /\ faults' = faults + 1
  BY DEF GraphFails
<1>3. /\ OthersKeep(s) /\ task'[s].pc = "refused" /\ task'[s].on = h
      /\ task'[s].held = {}
  BY <1>1, Went DEF GraphFails, IInv, TypeOK, States
<1>4. TypeOK' /\ PromptInv'
  BY <1>2, <1>3, TypeKeeps, RowsKeep DEF IInv, OthersKeep, rows, RowInv
<1>5. Sends(s)'
  BY <1>1, <1>2, <1>3 DEF Sends
<1> QED
  BY <1>1, <1>2, <1>3, <1>4, <1>5, ClaimantStep DEF IInv, Sender, Sending

\* Whoever is told to wait, the card that reached the phone is recorded.
LEMMA MarkSentKeeps ==
    ASSUME IInv, NEW s \in Sessions, MarkSent(s)
    PROVE  IInv'
<1> DEFINE h == task[s].on
           row == [status |-> "sent", over |-> FALSE, wamid |-> cards[h]]
<1>1. /\ h \in Challenges /\ task[s].pc = "accepted"
      /\ prompt[h].status = "sending" /\ cards[h] > 0 /\ cards[h] \in Nat
      /\ \A t \in Sessions : Claims(t, h) => t = s
  BY DEF MarkSent, IInv, TypeOK, AboutInv, About, Sending, SendInv, Sends,
         Claims, Sender
<1>2. /\ prompt' = [prompt EXCEPT ![h] = row]
      /\ told' \in {told, told \cup {h}}
      /\ UNCHANGED <<linked, code, challenge, cards, yes, token, faults>>
  BY DEF MarkSent
<1>3. /\ OthersKeep(s) /\ task'[s].pc = "idle" /\ task'[s].held = {}
  BY Finished DEF MarkSent, IInv, TypeOK
<1>4. row \in Prompt /\ row.status = "sent" /\ row.wamid = cards[h]
  BY <1>1 DEF Prompt
<1> HIDE DEF h, row
<1>5. /\ prompt' \in [Challenges -> Prompt] /\ prompt'[h] = row
      /\ \A g \in Challenges \ {h} : prompt'[g] = prompt[g]
  BY <1>1, <1>2, <1>4 DEF IInv, TypeOK
<1>6. TypeOK'
  BY <1>1, <1>2, <1>3, <1>5 DEF IInv, TypeOK, OthersKeep
<1>7. AboutInv'
  <2>1. About(s)'
    BY <1>3 DEF About, Sending
  <2>2. \A g \in Challenges : prompt[g].status # "none" => prompt'[g].status # "none"
    BY <1>4, <1>5
  <2> QED  BY <1>2, <1>3, <2>1, <2>2, AboutKeeps DEF IInv
<1>8. HeldInv' /\ VerifyInv'
  BY <1>2, <1>3, HeldKeeps, VerifyKeeps DEF IInv, HeldInv, VerifyInv
<1>9. SendInv'
  <2>1. \A t \in Sessions \ {s}, g \in Challenges : Claims(t, g) =>
              prompt'[g] = prompt[g]
    BY <1>1, <1>5
  <2> QED  BY <1>2, <1>3, <2>1, SendKeeps DEF IInv, Sender
<1>10. PromptInv'
  BY <1>1, <1>2, <1>4, <1>5 DEF IInv, PromptInv
<1>11. AnswerInv'
  BY <1>2 DEF IInv, AnswerInv
<1>12. TokenInv' /\ GrantedOnce'
  BY <1>2, TokensKeep DEF ChallengesStay, CodesStay
<1> QED
  BY <1>6, <1>7, <1>8, <1>9, <1>10, <1>11, <1>12 DEF IInv

-----------------------------------------------------------------------------
(***************************************************************************)
(* Steps without a session, and the row they change.                       *)
(***************************************************************************)

\* The parts about the tasks, after a step that changes no task.
LEMMA TasksKeep ==
    ASSUME IInv, task' = task, CodesStay, ChallengesStay,
           \A c \in Codes : code[c].status = "pending" =>
              code'[c].status = "pending",
           \A h \in Challenges :
              /\ Locked(h) /\ challenge[h].status = "pending" =>
                    challenge'[h].status = "pending"
              /\ Sendable(h) => /\ Sendable(h)'
                                /\ challenge'[h].status = challenge[h].status
              /\ prompt[h].status # "none" => prompt'[h].status # "none"
              /\ (\E s \in Sessions : Claims(s, h)) /\ ~Sendable(h) =>
                    prompt'[h] = prompt[h],
           cards' = cards,
           \A t \in Tokens : token[t].status # "none" => token'[t].status # "none"
    PROVE  AboutInv' /\ HeldInv' /\ VerifyInv' /\ SendInv'
<1>1. AboutInv'
  BY DEF IInv, AboutInv, About, Sending
<1>2. HeldInv'
  <2>1. \A s \in Sessions : task[s].held \subseteq Challenges
    BY DEF IInv, TypeOK, Task
  <2> QED  BY <2>1 DEF IInv, HeldInv, Locked
<1>3. VerifyInv'
  BY DEF IInv, VerifyInv, AboutInv, About, CodesStay
<1>4. SendInv'
  <2>1. ASSUME NEW s \in Sessions
        PROVE  Sends(s)'
    <3>1. task[s].pc \in Sender => task[s].on \in Challenges /\ Claims(s, task[s].on)
      BY DEF IInv, AboutInv, About, Sending, Sender, Claims
    <3>2. Sends(s)
      BY DEF IInv, SendInv
    <3>3. CASE task[s].pc = "block"
      BY <3>1, <3>2, <3>3 DEF Sends, Sender
    <3>4. CASE task[s].pc \in {"call", "accepted", "refused"}
      BY <3>1, <3>2, <3>4 DEF Sends, Sender, Sendable
    <3>5. CASE task[s].pc \notin Sender
      BY <3>5 DEF Sends, Sender
    <3> QED  BY <3>3, <3>4, <3>5 DEF Sender
  <2> QED  BY <2>1 DEF IInv, SendInv, Claims
<1> QED
  BY <1>1, <1>2, <1>3, <1>4

LEMMA LeaseExpiresKeeps ==
    ASSUME IInv, NEW h \in Challenges, LeaseExpires(h)
    PROVE  IInv'
<1>1. /\ prompt[h].status = "sending" /\ ~prompt[h].over
      /\ \A a \in Sessions : task[a].on = h =>
            task[a].pc \notin {"call", "accepted", "refused"}
      /\ prompt' = [prompt EXCEPT ![h].over = TRUE]
      /\ UNCHANGED <<linked, code, challenge, cards, told, yes, token, task,
                     faults>>
  BY DEF LeaseExpires
<1>2. /\ prompt' \in [Challenges -> Prompt]
      /\ prompt'[h].status = "sending" /\ prompt'[h].over
      /\ prompt'[h].wamid = prompt[h].wamid
      /\ \A g \in Challenges \ {h} : prompt'[g] = prompt[g]
  <2> DEFINE new == [prompt[h] EXCEPT !.over = TRUE]
  <2>1. prompt \in [Challenges -> Prompt] /\ prompt[h] \in Prompt
    BY DEF IInv, TypeOK
  <2>2. new \in Prompt
    BY <2>1 DEF Prompt
  <2>3. new.status = "sending" /\ new.wamid = prompt[h].wamid
    BY <1>1, <2>1 DEF Prompt
  <2>4. new.over
    BY <2>1 DEF Prompt
  <2>5. prompt' = [prompt EXCEPT ![h] = new]
    BY <1>1
  <2> HIDE DEF new
  <2> QED  BY <2>1, <2>2, <2>3, <2>4, <2>5
<1>3. TypeOK'
  BY <1>1, <1>2 DEF IInv, TypeOK
<1>4. /\ ~Sendable(h) /\ ~(\E s \in Sessions : Claims(s, h))
  <2>1. ~Sendable(h)
    BY <1>1 DEF Sendable
  <2> QED  BY <1>1, <2>1 DEF IInv, SendInv, Sends, Claims, Sender
<1>5. AboutInv' /\ HeldInv' /\ VerifyInv' /\ SendInv'
  <2>1. CodesStay /\ ChallengesStay
    BY <1>1 DEF CodesStay, ChallengesStay
  <2>2. \A g \in Challenges :
          /\ Sendable(g) => Sendable(g)'
          /\ prompt[g].status # "none" => prompt'[g].status # "none"
          /\ (\E s \in Sessions : Claims(s, g)) => prompt'[g] = prompt[g]
    BY <1>2, <1>4 DEF Sendable
  <2> QED  BY <1>1, <2>1, <2>2, TasksKeep
<1>6. PromptInv'
  BY <1>1, <1>2 DEF IInv, PromptInv
<1>7. AnswerInv' /\ TokenInv' /\ GrantedOnce'
  BY <1>1, TokensKeep DEF IInv, AnswerInv, CodesStay, ChallengesStay
<1> QED
  BY <1>3, <1>5, <1>6, <1>7 DEF IInv

\* Only a card that was sent and recorded is decided on.
LEMMA DecideKeeps ==
    ASSUME IInv, NEW h \in Challenges, NEW answer \in {"yes", "no"},
           NEW n \in 1..cards[h], DecideLoginApproval(h, n, answer)
    PROVE  IInv' /\ Stands
<1>1. /\ ~Locked(h) /\ challenge[h].status = "pending"
      /\ prompt[h].wamid = n /\ n # 0
      /\ challenge' = [challenge EXCEPT ![h].status = Decision(answer)]
      /\ yes' = IF answer = "yes" THEN yes \cup {h} ELSE yes
      /\ UNCHANGED <<linked, code, prompt, cards, told, token, task, faults>>
  BY DEF DecideLoginApproval, Decidable, Live, IInv, TypeOK
<1>2. /\ Decision(answer) \in {"approved", "denied"}
      /\ Decision(answer) = "approved" => answer = "yes"
  BY DEF Decision
<1>3. prompt[h].status = "sent" /\ ~Sendable(h)
  BY <1>1 DEF IInv, PromptInv, Sendable
<1>4. /\ challenge' \in [Challenges -> Challenge]
      /\ challenge'[h].status = Decision(answer)
      /\ challenge'[h].phone = challenge[h].phone
      /\ \A g \in Challenges \ {h} : challenge'[g] = challenge[g]
  <2>1. challenge[h] \in Challenge
    BY DEF IInv, TypeOK
  <2>2. challenge'[h] = [challenge[h] EXCEPT !.status = Decision(answer)]
    BY <1>1 DEF IInv, TypeOK
  <2>3. /\ challenge'[h] \in Challenge
        /\ challenge'[h].status = Decision(answer)
        /\ challenge'[h].phone = challenge[h].phone
    BY <1>2, <2>1, <2>2 DEF Challenge
  <2> QED  BY <1>1, <2>3 DEF IInv, TypeOK
<1>5. TypeOK'
  BY <1>1, <1>4 DEF IInv, TypeOK
<1>6. CodesStay /\ ChallengesStay
  BY <1>1, <1>2, <1>4 DEF CodesStay, ChallengesStay
<1>7. AboutInv' /\ HeldInv' /\ VerifyInv' /\ SendInv'
  <2>1. \A g \in Challenges :
          /\ Locked(g) => challenge'[g].status = challenge[g].status
          /\ Sendable(g) => /\ Sendable(g)'
                            /\ challenge'[g].status = challenge[g].status
    BY <1>1, <1>3, <1>4 DEF Sendable
  <2> QED  BY <1>1, <1>6, <2>1, TasksKeep
<1>8. PromptInv' /\ AnswerInv'
  BY <1>1, <1>2, <1>4 DEF IInv, PromptInv, AnswerInv
<1>9. TokenInv' /\ GrantedOnce'
  BY <1>1, <1>6, TokensKeep
<1>10. Stands
  BY <1>1, <1>4 DEF Stands
<1> QED
  BY <1>5, <1>7, <1>8, <1>9, <1>10 DEF IInv

\* Time changes what is due, and no status.
LEMMA ExpireKeeps ==
    ASSUME IInv, NEW x \in Ids, Expire(x)
    PROVE  IInv' /\ Stands
<1>1. UNCHANGED <<linked, prompt, cards, told, yes, token, task, faults>>
  BY DEF Expire
<1>2. /\ code' \in [Codes -> Code]
      /\ \A c \in Codes : /\ code'[c].status = code[c].status
                          /\ code'[c].phone = code[c].phone
                          /\ code'[c].user = code[c].user
  <2>1. CASE x \in Codes /\ code' = [code EXCEPT ![x].due = TRUE]
    <3>1. code[x] \in Code
      BY <2>1 DEF IInv, TypeOK
    <3>2. code'[x] = [code[x] EXCEPT !.due = TRUE]
      BY <2>1 DEF IInv, TypeOK
    <3>3. /\ code'[x] \in Code /\ code'[x].status = code[x].status
          /\ code'[x].phone = code[x].phone /\ code'[x].user = code[x].user
      BY <3>1, <3>2 DEF Code
    <3> QED  BY <2>1, <3>3 DEF IInv, TypeOK
  <2>2. CASE code' = code
    BY <2>2 DEF IInv, TypeOK
  <2> QED  BY <2>1, <2>2 DEF Expire
<1>3. /\ challenge' \in [Challenges -> Challenge]
      /\ \A h \in Challenges : /\ challenge'[h].status = challenge[h].status
                               /\ challenge'[h].phone = challenge[h].phone
  <2>1. CASE x \in Challenges /\ challenge' = [challenge EXCEPT ![x].due = TRUE]
    <3>1. challenge[x] \in Challenge
      BY <2>1 DEF IInv, TypeOK
    <3>2. challenge'[x] = [challenge[x] EXCEPT !.due = TRUE]
      BY <2>1 DEF IInv, TypeOK
    <3>3. /\ challenge'[x] \in Challenge
          /\ challenge'[x].status = challenge[x].status
          /\ challenge'[x].phone = challenge[x].phone
      BY <3>1, <3>2 DEF Challenge
    <3> QED  BY <2>1, <3>3 DEF IInv, TypeOK
  <2>2. CASE challenge' = challenge
    BY <2>2 DEF IInv, TypeOK
  <2> QED  BY <2>1, <2>2 DEF Expire
<1>4. TypeOK'
  BY <1>1, <1>2, <1>3 DEF IInv, TypeOK
<1>5. CodesStay /\ ChallengesStay
  BY <1>2, <1>3 DEF CodesStay, ChallengesStay
<1>6. AboutInv' /\ HeldInv' /\ VerifyInv' /\ SendInv'
  <2>1. \A g \in Challenges : Sendable(g) => Sendable(g)'
    BY <1>1 DEF Sendable
  <2> QED  BY <1>1, <1>2, <1>3, <1>5, <2>1, TasksKeep
<1>7. PromptInv' /\ AnswerInv'
  BY <1>1, <1>2, <1>3 DEF IInv, PromptInv, AnswerInv
<1>8. TokenInv' /\ GrantedOnce'
  BY <1>1, <1>5, TokensKeep
<1>9. Stands
  BY <1>3 DEF Stands
<1> QED
  BY <1>4, <1>6, <1>7, <1>8, <1>9 DEF IInv

-----------------------------------------------------------------------------
(***************************************************************************)
(* The citizen's code.                                                     *)
(***************************************************************************)

LEMMA SendCodeKeeps ==
    ASSUME IInv, NEW s \in Sessions, NEW p \in Phones, NEW c \in Codes,
           SendCode(s, p, c)
    PROVE  IInv'
<1>1. /\ OthersKeep(s) /\ task'[s].pc = "verify" /\ task'[s].on = c
      /\ task'[s].phone = p /\ task'[s].held = {}
  BY Began DEF SendCode, IInv, TypeOK, States, Ids
<1>2. UNCHANGED rows /\ faults' = faults
  BY DEF SendCode, rows
<1>3. TypeOK' /\ RowInv'
  BY <1>1, <1>2, TypeKeeps, RowsKeep DEF IInv, OthersKeep
<1>4. AboutInv'
  <2>1. About(s)'
    BY <1>1 DEF About, Sending
  <2> QED  BY <1>1, <1>2, <2>1, AboutKeeps DEF IInv, rows
<1>5. HeldInv' /\ SendInv'
  BY <1>1, <1>2, HeldKeeps, SendKeeps DEF IInv, HeldInv, rows, Sender
<1>6. VerifyInv'
  BY <1>1, <1>2 DEF IInv, VerifyInv, OthersKeep, SendCode, ContactFree, Matches, rows
<1> QED
  BY <1>3, <1>4, <1>5, <1>6 DEF IInv, RowInv

\* The mark that does not look at the status: no other turn holds the contact,
\* so the code is pending still.
LEMMA VerifyCodeKeeps ==
    ASSUME IInv, NEW s \in Sessions, VerifyCode(s)
    PROVE  IInv'
<1> DEFINE c == task[s].on
           p == task[s].phone
<1>1. /\ c \in Codes /\ p \in Phones /\ task[s].pc = "verify"
      /\ code[c].status = "pending" /\ code[c].phone = p
  BY DEF VerifyCode, IInv, AboutInv, About, VerifyInv
<1>2. /\ code' = [code EXCEPT ![c].status = "verified", ![c].user = p]
      /\ linked' = linked \cup {p}
      /\ UNCHANGED <<challenge, prompt, cards, told, yes, token, faults>>
  BY DEF VerifyCode
<1>3. OthersKeep(s) /\ task'[s].pc = "idle" /\ task'[s].held = {}
  BY Finished DEF VerifyCode, IInv, TypeOK
<1>4. \A t \in Sessions \ {s} : task[t].pc = "verify" => task[t].on # c
  BY <1>1 DEF IInv, VerifyInv
<1> HIDE DEF c, p
<1>5. /\ code' \in [Codes -> Code]
      /\ code'[c].status = "verified" /\ code'[c].phone = p
      /\ code'[c].user = p
      /\ \A d \in Codes \ {c} : code'[d] = code[d]
  <2> DEFINE new == [code[c] EXCEPT !.status = "verified", !.user = p]
  <2>1. code[c] \in Code
    BY <1>1 DEF IInv, TypeOK
  <2>2. code'[c] = new
    BY <1>1, <1>2 DEF IInv, TypeOK
  <2>3. new \in Code
    BY <1>1, <2>1 DEF Code
  <2>4. new.status = "verified" /\ new.phone = p /\ new.user = p
    BY <1>1, <2>1 DEF Code
  <2> HIDE DEF new
  <2> QED  BY <1>1, <1>2, <2>2, <2>3, <2>4 DEF IInv, TypeOK
<1>6. TypeOK'
  BY <1>1, <1>2, <1>3, <1>5 DEF IInv, TypeOK, OthersKeep
<1>7. CodesStay /\ ChallengesStay
  BY <1>1, <1>2, <1>5 DEF CodesStay, ChallengesStay
<1>8. AboutInv'
  <2>1. About(s)'
    BY <1>3 DEF About, Sending
  <2> QED  BY <1>2, <1>3, <2>1, AboutKeeps DEF IInv
<1>9. HeldInv' /\ SendInv'
  BY <1>2, <1>3, HeldKeeps, SendKeeps DEF IInv, HeldInv, Sender
<1>10. VerifyInv'
  <2>1. ASSUME NEW t \in Sessions \ {s}, task[t].pc = "verify"
        PROVE  code'[task[t].on] = code[task[t].on]
    BY <1>4, <1>5, <2>1 DEF IInv, AboutInv, About
  <2> QED  BY <1>3, <2>1, VerifyKeeps DEF IInv, VerifyInv
<1>11. PromptInv' /\ AnswerInv'
  BY <1>1, <1>2, <1>5 DEF IInv, PromptInv, AnswerInv
<1>12. TokenInv' /\ GrantedOnce'
  BY <1>2, <1>7, TokensKeep
<1> QED
  BY <1>6, <1>8, <1>9, <1>10, <1>11, <1>12 DEF IInv

-----------------------------------------------------------------------------
(***************************************************************************)
(* The browser and its tokens.                                             *)
(***************************************************************************)

LEMMA PollKeeps ==
    ASSUME IInv, NEW s \in Sessions, NEW x \in Ids, Poll(s, x)
    PROVE  IInv'
<1>1. /\ OthersKeep(s) /\ task'[s].pc = "poll" /\ task'[s].on = x
      /\ task'[s].held = {}
  BY Began DEF Poll, IInv, TypeOK, States
<1>2. About(s)'
  BY <1>1 DEF About, Sending
<1> QED
  BY <1>1, <1>2, QuietStep DEF Poll, rows, Sender

LEMMA RefreshKeeps ==
    ASSUME IInv, NEW s \in Sessions, NEW t \in Tokens, Refresh(s, t)
    PROVE  IInv'
<1>1. /\ OthersKeep(s) /\ task'[s].pc = "refresh" /\ task'[s].on = t
      /\ task'[s].held = {}
  BY Began DEF Refresh, IInv, TypeOK, States
<1>2. About(s)'
  BY <1>1 DEF About, Sending, Refresh
<1> QED
  BY <1>1, <1>2, QuietStep DEF Refresh, rows, Sender

\* The new row, beside what old says of the others.
LEMMA TokenIssued ==
    ASSUME TypeOK, NEW old \in [Tokens -> Token],
           \A t \in Tokens : old[t].status = "none" => token[t].status = "none",
           NEW user \in Phones \cup {None}, NEW x \in Ids,
           NEW parent \in Tokens \cup {None},
           IssueTokens(old, user, x, parent)
    PROVE  \E n \in Tokens :
              /\ token' \in [Tokens -> Token]
              /\ token[n].status = "none"
              /\ \A t \in Tokens \ {n} : token'[t] = old[t]
              /\ token'[n].status = "active" /\ token'[n].user = user
              /\ token'[n].from = x /\ token'[n].parent = parent
<1> DEFINE new == [status |-> "active", user |-> user, from |-> x,
                   parent |-> parent]
<1>1. NextToken \in Tokens /\ token[NextToken].status = "none"
  BY NewIds DEF IssueTokens
<1>2. token' = [old EXCEPT ![NextToken] = new]
  BY DEF IssueTokens
<1>3. /\ new \in Token /\ new.status = "active" /\ new.user = user
      /\ new.from = x /\ new.parent = parent
  BY DEF Token
<1> HIDE DEF new
<1> QED
  BY <1>1, <1>2, <1>3

\* Its token is the first of x, which no token was handed out for before.
LEMMA ClaimKeeps ==
    ASSUME IInv, NEW s \in Sessions, Claim(s)
    PROVE  IInv' /\ Stands
<1>1. PICK x \in Ids : x = task[s].on
  BY DEF Claim, IInv, AboutInv, About
<1>2. OthersKeep(s) /\ task'[s].pc = "idle" /\ task'[s].held = {}
  BY Finished DEF Claim, IInv, TypeOK
<1>3. UNCHANGED <<linked, prompt, cards, told, yes, faults>>
  BY DEF Claim
<1>4. About(s)'
  BY <1>2 DEF About, Sending
<1>5. CASE UNCHANGED <<code, challenge, token>>
  <2>1. IInv'
    BY <1>2, <1>3, <1>4, <1>5, QuietStep DEF rows, Sender
  <2> QED  BY <1>5, <2>1 DEF Stands
<1>6. CASE /\ Claimable(x) /\ Consume(x)
           /\ IssueTokens(token, UserOf(x), x, None)
  <2>1. /\ code' \in [Codes -> Code]
        /\ \A c \in Codes :
              /\ code'[c].phone = code[c].phone /\ code'[c].user = code[c].user
              /\ c # x => code'[c] = code[c]
              /\ c = x => /\ code[c].status = "verified"
                          /\ code'[c].status = "consumed"
    <3>1. CASE x \in Codes
      <4>1. code[x] \in Code
        BY <3>1 DEF IInv, TypeOK
      <4>2. code'[x] = [code[x] EXCEPT !.status = "consumed"]
        BY <1>6, <3>1 DEF Consume, IInv, TypeOK
      <4>3. /\ code'[x] \in Code /\ code'[x].status = "consumed"
            /\ code'[x].phone = code[x].phone /\ code'[x].user = code[x].user
        BY <4>1, <4>2 DEF Code
      <4>4. x \notin Challenges
        BY <3>1, SignInAssumption
      <4> QED  BY <1>6, <3>1, <4>3, <4>4 DEF Consume, Claimable, IInv, TypeOK
    <3>2. CASE x \notin Codes
      BY <1>6, <3>2 DEF Consume, IInv, TypeOK
    <3> QED  BY <3>1, <3>2
  <2>2. /\ challenge' \in [Challenges -> Challenge]
        /\ \A h \in Challenges :
              /\ challenge'[h].phone = challenge[h].phone
              /\ h # x => challenge'[h] = challenge[h]
              /\ h = x => /\ challenge[h].status = "approved"
                          /\ challenge'[h].status = "consumed"
    <3>1. CASE x \in Codes
      BY <1>6, <3>1, SignInAssumption DEF Consume, IInv, TypeOK
    <3>2. CASE x \notin Codes
      <4>1. x \in Challenges /\ challenge[x] \in Challenge
        BY <1>1, <3>2 DEF IInv, TypeOK, Ids
      <4>2. challenge'[x] = [challenge[x] EXCEPT !.status = "consumed"]
        BY <1>6, <3>2, <4>1 DEF Consume, IInv, TypeOK
      <4>3. /\ challenge'[x] \in Challenge /\ challenge'[x].status = "consumed"
            /\ challenge'[x].phone = challenge[x].phone
        BY <4>1, <4>2 DEF Challenge
      <4> QED  BY <1>6, <3>2, <4>1, <4>3 DEF Consume, Claimable, IInv, TypeOK
    <3> QED  BY <3>1, <3>2
  <2>3. CodesStay /\ ChallengesStay
    BY <2>1, <2>2 DEF CodesStay, ChallengesStay
  <2>4. \/ /\ x \in Codes /\ UserOf(x) = code[x].phone
           /\ code[x].status = "verified" /\ code'[x].status = "consumed"
        \/ /\ x \in Challenges /\ UserOf(x) = challenge[x].phone /\ x \in yes
           /\ challenge[x].status = "approved"
           /\ challenge'[x].status = "consumed" /\ x \notin Codes
    BY <1>1, <2>1, <2>2 DEF UserOf, IInv, AnswerInv, Ids
  <2>5. UserOf(x) \in Phones \cup {None}
    BY <2>4 DEF IInv, TypeOK, Code, Challenge
  <2>6. PICK n \in Tokens :
           /\ token' \in [Tokens -> Token]
           /\ token[n].status = "none"
           /\ \A t \in Tokens \ {n} : token'[t] = token[t]
           /\ token'[n].status = "active" /\ token'[n].user = UserOf(x)
           /\ token'[n].from = x /\ token'[n].parent = None
    <3>1. TypeOK /\ token \in [Tokens -> Token]
      BY DEF IInv, TypeOK
    <3> QED  BY <1>6, <2>5, <3>1, TokenIssued
  <2>7. TypeOK'
    BY <1>2, <1>3, <2>1, <2>2, <2>6 DEF IInv, TypeOK, OthersKeep
  <2>8. AboutInv'
    BY <1>2, <1>3, <1>4, <2>6, AboutKeeps DEF IInv
  <2>9. HeldInv'
    <3>1. ASSUME NEW t \in Sessions \ {s}, NEW h \in task[t].held
          PROVE  challenge'[h].status = "pending"
      BY <2>2 DEF IInv, HeldInv, TypeOK, Task
    <3> QED  BY <1>2, <3>1, HeldKeeps DEF IInv
  <2>10. VerifyInv'
    <3>1. ASSUME NEW t \in Sessions \ {s}, task[t].pc = "verify"
          PROVE  code'[task[t].on] = code[task[t].on]
      BY <2>1, <3>1 DEF IInv, VerifyInv, AboutInv, About
    <3> QED  BY <1>2, <3>1, VerifyKeeps DEF IInv, VerifyInv
  <2>11. SendInv'
    <3>1. ASSUME NEW t \in Sessions \ {s}, NEW h \in Challenges, Claims(t, h),
                 task[t].pc = "block"
          PROVE  challenge'[h] = challenge[h]
      BY <2>2, <3>1 DEF IInv, SendInv, Sends, Claims
    <3> QED  BY <1>2, <1>3, <3>1, SendKeeps DEF IInv, Sender
  <2>12. PromptInv' /\ AnswerInv'
    BY <1>3, <2>1, <2>2 DEF IInv, PromptInv, AnswerInv
  <2>13. TokenInv' /\ GrantedOnce'
    <3>1. ~Spent(x)
      BY <2>4, SignInAssumption DEF Spent
    <3>2. Spent(x)'
      BY <2>4 DEF Spent
    <3>3. Granted(n)'
      BY <1>3, <2>1, <2>2, <2>4, <2>6 DEF Granted
    <3> QED  BY <1>3, <2>3, <2>6, <3>1, <3>2, <3>3, TokenAdded DEF IInv, TypeOK
  <2>14. Stands
    BY <2>2 DEF Stands
  <2> QED
    BY <2>7, <2>8, <2>9, <2>10, <2>11, <2>12, <2>13, <2>14 DEF IInv
<1> QED
  BY <1>1, <1>5, <1>6 DEF Claim

\* Revoking a token changes nothing that its successors rest upon.
LEMMA RevokedRow ==
    ASSUME TypeOK, NEW t \in Tokens, token[t].status # "none"
    PROVE  /\ Revoked(t) \in [Tokens -> Token]
           /\ \A u \in Tokens :
                 /\ Revoked(t)[u].status = "none" <=> token[u].status = "none"
                 /\ Revoked(t)[u].user = token[u].user
                 /\ Revoked(t)[u].from = token[u].from
                 /\ Revoked(t)[u].parent = token[u].parent
<1> DEFINE new == [token[t] EXCEPT !.status = "revoked"]
<1>1. token \in [Tokens -> Token] /\ token[t] \in Token
  BY DEF TypeOK
<1>2. Revoked(t) = [token EXCEPT ![t] = new]
  BY DEF Revoked
<1>3. new \in Token
  BY <1>1 DEF Token
<1>4. /\ new.status = "revoked" /\ new.user = token[t].user
      /\ new.from = token[t].from /\ new.parent = token[t].parent
  BY <1>1 DEF Token
<1> HIDE DEF new
<1> QED
  BY <1>1, <1>2, <1>3, <1>4

LEMMA RotateRefreshKeeps ==
    ASSUME IInv, NEW s \in Sessions, RotateRefresh(s)
    PROVE  IInv'
<1>1. PICK t \in Tokens : t = task[s].on /\ token[t].status # "none"
  BY DEF RotateRefresh, IInv, AboutInv, About
<1>2. /\ IssueTokens(Revoked(t), token[t].user, token[t].from, t)
      /\ UNCHANGED <<linked, code, challenge, prompt, cards, told, yes, faults>>
  BY <1>1 DEF RotateRefresh
<1>3. OthersKeep(s) /\ task'[s].pc = "idle" /\ task'[s].held = {}
  BY Finished DEF RotateRefresh, IInv, TypeOK
<1>4. /\ TypeOK /\ Granted(t)
      /\ token[t].user \in Phones \cup {None} /\ token[t].from \in Ids
  BY <1>1 DEF IInv, TypeOK, TokenInv, Granted, Token, Ids
<1>5. PICK x \in Ids, user \in Phones \cup {None} :
         x = token[t].from /\ user = token[t].user
  BY <1>4
<1>6. PICK old \in [Tokens -> Token] :
         /\ old = Revoked(t)
         /\ \A u \in Tokens : /\ old[u].status = "none" <=> token[u].status = "none"
                              /\ old[u].user = token[u].user
                              /\ old[u].from = token[u].from
                              /\ old[u].parent = token[u].parent
  BY <1>1, <1>4, RevokedRow
<1>7. PICK n \in Tokens :
         /\ token' \in [Tokens -> Token]
         /\ token[n].status = "none"
         /\ \A u \in Tokens \ {n} : token'[u] = old[u]
         /\ token'[n].status = "active" /\ token'[n].user = user
         /\ token'[n].from = x /\ token'[n].parent = t
  <2>1. IssueTokens(old, user, x, t)
    BY <1>2, <1>5, <1>6
  <2>2. /\ \A u \in Tokens : old[u].status = "none" => token[u].status = "none"
        /\ t \in Tokens \cup {None}
    BY <1>6
  <2> QED  BY <1>4, <2>1, <2>2, TokenIssued
<1>8. CodesStay /\ ChallengesStay
  BY <1>2 DEF CodesStay, ChallengesStay
<1>9. TypeOK'
  BY <1>2, <1>3, <1>7 DEF IInv, TypeOK, OthersKeep
<1>10. AboutInv'
  <2>1. About(s)'
    BY <1>3 DEF About, Sending
  <2>2. \A u \in Tokens : token[u].status # "none" => token'[u].status # "none"
    BY <1>6, <1>7
  <2> QED  BY <1>2, <1>3, <2>1, <2>2, AboutKeeps DEF IInv
<1>11. HeldInv' /\ VerifyInv' /\ SendInv'
  BY <1>2, <1>3, HeldKeeps, VerifyKeeps, SendKeeps
  DEF IInv, HeldInv, VerifyInv, Sender
<1>12. PromptInv' /\ AnswerInv'
  BY <1>2 DEF IInv, PromptInv, AnswerInv
<1>13. TokenInv' /\ GrantedOnce'
  <2>1. Granted(n)'
    BY <1>2, <1>4, <1>5, <1>7 DEF Granted
  <2>2. t # None
    BY SignInAssumption
  <2> QED  BY <1>2, <1>6, <1>7, <1>8, <2>1, <2>2, TokenAdded
<1> QED
  BY <1>9, <1>10, <1>11, <1>12, <1>13 DEF IInv

LEMMA LogoutKeeps ==
    ASSUME IInv, NEW t \in Tokens, Logout(t)
    PROVE  IInv'
<1>1. /\ token[t].status = "active" /\ token' = Revoked(t)
      /\ UNCHANGED <<linked, code, challenge, prompt, cards, told, yes, task,
                     faults>>
  BY DEF Logout
<1>2. /\ token' \in [Tokens -> Token]
      /\ \A u \in Tokens :
            /\ token'[u].status = "none" <=> token[u].status = "none"
            /\ token'[u].user = token[u].user
            /\ token'[u].from = token[u].from
            /\ token'[u].parent = token[u].parent
  BY <1>1, RevokedRow DEF IInv
<1>3. CodesStay /\ ChallengesStay
  BY <1>1 DEF CodesStay, ChallengesStay
<1>4. TypeOK'
  BY <1>1, <1>2 DEF IInv, TypeOK
<1>5. AboutInv' /\ HeldInv' /\ VerifyInv' /\ SendInv'
  BY <1>1, <1>2, <1>3, TasksKeep DEF Sendable
<1>6. PromptInv' /\ AnswerInv'
  BY <1>1 DEF IInv, PromptInv, AnswerInv
<1>7. TokenInv'
  <2>1. ASSUME NEW u \in Tokens, token'[u].status # "none"
        PROVE  Granted(u)'
    BY <1>1, <1>2, <1>3, <2>1, GrantStays DEF IInv, TokenInv
  <2>2. ASSUME NEW u \in Tokens, First(u)'
        PROVE  Spent(token[u].from)'
    BY <1>1, <1>2, <2>2 DEF First, Spent, IInv, TokenInv
  <2> QED  BY <2>1, <2>2 DEF TokenInv
<1>8. GrantedOnce'
  BY <1>2 DEF IInv, GrantedOnce, First
<1> QED
  BY <1>4, <1>5, <1>6, <1>7, <1>8 DEF IInv

-----------------------------------------------------------------------------
(***************************************************************************)
(* The theorems.                                                           *)
(***************************************************************************)

LEMMA RowsStand == ASSUME IInv, challenge' = challenge PROVE Stands
BY DEF Stands

LEMMA RequestKeeps ==
    ASSUME IInv, NEW s \in Sessions, Request(s)
    PROVE  IInv' /\ Stands
<1>1. CASE \E p \in Phones : RequestCode(s, p)
  BY <1>1, RequestCodeKeeps, RowsStand DEF RequestCode
<1>2. CASE Supersede(s)
  BY <1>2, SupersedeKeeps, RowsStand DEF Supersede
<1>3. CASE CreateLoginApproval(s)
  BY <1>3, CreateLoginApprovalKeeps
<1>4. CASE CreateVerification(s)
  BY <1>4, CreateVerificationKeeps, RowsStand DEF CreateVerification
<1>5. CASE Refuse(s)
  BY <1>5, RefuseKeeps, RowsStand DEF Refuse
<1>6. CASE Fallback(s)
  BY <1>6, FallbackKeeps
<1> QED
  BY <1>1, <1>2, <1>3, <1>4, <1>5, <1>6 DEF Request

LEMMA SendingKeeps ==
    ASSUME IInv, NEW s \in Sessions, Send(s)
    PROVE  IInv' /\ Stands
<1>1. CASE \E h \in Challenges : Sweep(s, h)
  BY <1>1, SweepKeeps, RowsStand DEF Sweep
<1>2. CASE SkipClaimed(s)
  BY <1>2, SkipClaimedKeeps, RowsStand DEF SkipClaimed
<1>3. CASE DropPrompt(s)
  BY <1>3, DropPromptKeeps, RowsStand DEF DropPrompt
<1>4. CASE ClaimPrompt(s)
  BY <1>4, ClaimPromptKeeps, RowsStand DEF ClaimPrompt
<1>5. CASE BlockPrompt(s)
  BY <1>5, BlockPromptKeeps
<1>6. CASE GraphAccepts(s)
  BY <1>6, GraphAcceptsKeeps, RowsStand DEF GraphAccepts
<1>7. CASE GraphFails(s)
  BY <1>7, GraphFailsKeeps, RowsStand DEF GraphFails
<1>8. CASE MarkSent(s)
  BY <1>8, MarkSentKeeps, RowsStand DEF MarkSent
<1>9. CASE MarkPending(s)
  BY <1>9, MarkPendingKeeps, RowsStand DEF MarkPending
<1> QED
  BY <1>1, <1>2, <1>3, <1>4, <1>5, <1>6, <1>7, <1>8, <1>9 DEF Send

LEMMA BrowseKeeps ==
    ASSUME IInv, NEW s \in Sessions, Browse(s)
    PROVE  IInv' /\ Stands
<1>1. CASE \E x \in Ids : Poll(s, x)
  BY <1>1, PollKeeps, RowsStand DEF Poll
<1>2. CASE Claim(s)
  BY <1>2, ClaimKeeps
<1>3. CASE \E t \in Tokens : Refresh(s, t)
  BY <1>3, RefreshKeeps, RowsStand DEF Refresh
<1>4. CASE RotateRefresh(s)
  BY <1>4, RotateRefreshKeeps, RowsStand DEF RotateRefresh
<1> QED
  BY <1>1, <1>2, <1>3, <1>4 DEF Browse

LEMMA IInvNext == IInv /\ [Next]_vars => IInv' /\ Stands
<1> SUFFICES ASSUME IInv, [Next]_vars PROVE IInv' /\ Stands
  OBVIOUS
<1>1. ASSUME NEW s \in Sessions,
             Request(s) \/ Send(s) \/ Browse(s) \/ VerifyCode(s) \/ Crash(s)
      PROVE  IInv' /\ Stands
  <2>1. CASE Request(s) \/ Send(s) \/ Browse(s)
    BY <2>1, RequestKeeps, SendingKeeps, BrowseKeeps
  <2>2. CASE VerifyCode(s)
    BY <2>2, VerifyCodeKeeps, RowsStand DEF VerifyCode
  <2>3. CASE Crash(s)
    BY <2>3, CrashKeeps, RowsStand DEF Crash
  <2> QED  BY <1>1, <2>1, <2>2, <2>3
<1>2. ASSUME NEW s \in Sessions, NEW p \in Phones, NEW c \in Codes,
             SendCode(s, p, c)
      PROVE  IInv' /\ Stands
  BY <1>2, SendCodeKeeps, RowsStand DEF SendCode
<1>3. ASSUME NEW h \in Challenges, NEW answer \in {"yes", "no"},
             NEW n \in 1..cards[h], DecideLoginApproval(h, n, answer)
      PROVE  IInv' /\ Stands
  BY <1>3, DecideKeeps
<1>4. ASSUME NEW h \in Challenges, LeaseExpires(h)
      PROVE  IInv' /\ Stands
  BY <1>4, LeaseExpiresKeeps, RowsStand DEF LeaseExpires
<1>5. ASSUME NEW x \in Ids, Expire(x)
      PROVE  IInv' /\ Stands
  BY <1>5, ExpireKeeps
<1>6. ASSUME NEW t \in Tokens, Logout(t)
      PROVE  IInv' /\ Stands
  BY <1>6, LogoutKeeps, RowsStand DEF Logout
<1>7. ASSUME UNCHANGED vars
      PROVE  IInv' /\ Stands
  <2>1. CodesStay /\ ChallengesStay
    BY <1>7 DEF vars, CodesStay, ChallengesStay
  <2>2. AboutInv' /\ HeldInv' /\ VerifyInv' /\ SendInv'
    BY <1>7, <2>1, TasksKeep DEF vars, Sendable
  <2>3. TypeOK' /\ RowInv'
    BY <1>7, TypeKeeps, RowsKeep DEF vars, rows, IInv, TypeOK
  <2>4. Stands
    BY <1>7, RowsStand DEF vars
  <2> QED  BY <2>2, <2>3, <2>4 DEF IInv, RowInv
<1> QED
  BY <1>1, <1>2, <1>3, <1>4, <1>5, <1>6, <1>7 DEF Next

LEMMA Invariant == Spec => []IInv
<1>1. IInv /\ [Next]_vars => IInv'
  BY IInvNext
<1> QED
  BY InitOK, <1>1, PTL DEF Spec

\* Every row and every session has its type, for any number of them.
THEOREM TypeCorrect == Spec => []TypeOK
<1>1. IInv => TypeOK
  BY DEF IInv
<1> QED
  BY Invariant, <1>1, PTL

\* A code or an approval logs in once, whatever the order of messages, polls,
\* refreshes, sweeps and crashes (consume_verification, consume_login_approval,
\* mark_verification_verified under the contact's lock).
THEOREM OneGrant == Spec => []GrantedOnce
<1>1. IInv => GrantedOnce
  BY DEF IInv
<1> QED
  BY Invariant, <1>1, PTL

\* A login is that of the phone its code was made for, or of a phone that
\* answered Yes first (auth_status, approval_status, decide_login_approval).
THEOREM LoginIsAnswered == Spec => []LoginAsAnswered
<1>1. IInv => LoginAsAnswered
  BY DEF IInv, TokenInv, Granted, LoginAsAnswered
<1> QED
  BY Invariant, <1>1, PTL

\* A browser that was told to wait waits for a card whose answer will count
\* (request_code, send_pending, mark_outbound).
THEOREM WaitIsAnswerable == Spec => []PromptWorks
<1>1. IInv => PromptWorks
  BY DEF IInv, TypeOK, PromptInv, PromptWorks, Decidable
<1> QED
  BY Invariant, <1>1, PTL

\* No fallback, closed window or newer request takes a decision back
\* (mark_login_approval_fallback, create_login_approval, send_pending).
THEOREM DecisionStands == Spec => DecisionIsFinal
<1>1. IInv /\ [Next]_vars =>
        [\A h \in Challenges :
           /\ challenge[h].status = "approved" =>
                 challenge'[h].status \in {"approved", "consumed"}
           /\ challenge[h].status \in {"denied", "consumed"} =>
                 challenge'[h].status = challenge[h].status]_vars
  BY IInvNext DEF Stands
<1> QED
  BY Invariant, <1>1, PTL DEF Spec, DecisionIsFinal

-----------------------------------------------------------------------------
(***************************************************************************)
(* The promise.  Each step is one of Login, or none, of the rows as OwnerOf *)
(* and AnswerOf read them.                                                 *)
(***************************************************************************)

\* A row of x has been made.
Used(x) == IF x \in Codes THEN code[x].status # "none"
           ELSE challenge[x].status # "none"

\* A row has a phone from the start, and a token is issued for what is spent.
RowPromise(x) == IF Used(x) THEN OwnerOf(x) \in Phones ELSE OwnerOf(x) = None

TokenPromise(t) ==
    IF token[t].status = "none"
    THEN token[t].from = None /\ token[t].user = None /\ token[t].parent = None
    ELSE token[t].from \in Ids /\ Spent(token[t].from)

PromiseInv ==
    /\ \A x \in Ids : RowPromise(x)
    /\ \A t \in Tokens : TokenPromise(t)

LEMMA PromiseInit == Init => PromiseInv /\ Promise!Init
<1> SUFFICES ASSUME Init PROVE PromiseInv /\ Promise!Init
  OBVIOUS
<1>1. \A x \in Ids : OwnerOf(x) = None /\ AnswerOf(x) = "none" /\ ~Used(x)
  BY DEF Init, OwnerOf, AnswerOf, Used, Ids
<1>2. \A t \in Tokens : /\ token[t].status = "none" /\ token[t].from = None
                         /\ token[t].user = None /\ token[t].parent = None
  BY DEF Init
<1>3. Promise!Init
  BY <1>1, <1>2 DEF Promise!Init
<1> QED  BY <1>1, <1>2, <1>3 DEF PromiseInv, RowPromise, TokenPromise

\* The attempts other than those in a set are as they were.
SameRows(X) ==
    \A x \in Ids \ X : /\ OwnerOf(x)' = OwnerOf(x)
                       /\ AnswerOf(x)' = AnswerOf(x)
                       /\ Used(x)' = Used(x)
                       /\ Spent(x) => Spent(x)'

SameTokens(T) ==
    \A t \in Tokens \ T : /\ token'[t].status = "none" <=> token[t].status = "none"
                          /\ token'[t].from = token[t].from
                          /\ token'[t].user = token[t].user
                          /\ token'[t].parent = token[t].parent

LEMMA OthersKept ==
    ASSUME PromiseInv, NEW X, SameRows(X), NEW T, SameTokens(T),
           \A x \in X : Spent(x) => Spent(x)'
    PROVE  /\ \A x \in Ids \ X : RowPromise(x)'
           /\ \A t \in Tokens \ T : TokenPromise(t)'
<1>1. ASSUME NEW x \in Ids \ X PROVE RowPromise(x)'
  BY DEF PromiseInv, RowPromise, SameRows
<1>2. ASSUME NEW t \in Tokens \ T PROVE TokenPromise(t)'
  BY DEF PromiseInv, TokenPromise, SameRows, SameTokens, Spent
<1> QED  BY <1>1, <1>2

\* A step that writes nothing the promise speaks of.
LEMMA SilentStep ==
    ASSUME PromiseInv, SameRows({}), SameTokens({})
    PROVE  PromiseInv' /\ UNCHANGED Promise!vars
<1>1. PromiseInv'
  BY OthersKept DEF PromiseInv
<1>2. UNCHANGED Promise!vars
  BY DEF SameRows, SameTokens, Promise!vars
<1> QED  BY <1>1, <1>2

\* An attempt is made, for a phone.
LEMMA AskStep ==
    ASSUME PromiseInv, NEW x \in Ids, NEW p \in Phones, SameRows({x}),
           SameTokens({}), ~Used(x), Used(x)', OwnerOf(x)' = p,
           AnswerOf(x)' = AnswerOf(x)
    PROVE  PromiseInv' /\ Promise!Next
<1>1. ~Spent(x)
  BY SignInAssumption DEF Used, Spent, Ids
<1>2. PromiseInv'
  BY <1>1, OthersKept DEF PromiseInv, RowPromise
<1>3. OwnerOf(x) = None
  BY DEF PromiseInv, RowPromise
<1>4. Promise!Ask(x, p)
  BY <1>3 DEF Promise!Ask, SameRows, SameTokens
<1> QED  BY <1>2, <1>4 DEF Promise!Next

\* An attempt is answered.
LEMMA AnswerStep ==
    ASSUME PromiseInv, NEW x \in Ids, NEW a \in {"yes", "no"}, SameRows({x}),
           SameTokens({}), Used(x), Used(x)', OwnerOf(x)' = OwnerOf(x),
           AnswerOf(x) = "none", AnswerOf(x)' = a, Spent(x) => Spent(x)'
    PROVE  PromiseInv' /\ Promise!Next
<1>1. PromiseInv'
  BY OthersKept DEF PromiseInv, RowPromise
<1>2. OwnerOf(x) # None
  BY SignInAssumption DEF PromiseInv, RowPromise
<1>3. Promise!Answer(x, a)
  BY <1>2 DEF Promise!Answer, SameRows, SameTokens
<1> QED  BY <1>1, <1>3 DEF Promise!Next

\* A token is issued for an attempt: the first one, or a later one.
LEMMA IssueStep ==
    ASSUME PromiseInv, NEW x \in Ids, SameRows({x}), OwnerOf(x)' = OwnerOf(x),
           AnswerOf(x)' = AnswerOf(x), Used(x), Used(x)', Spent(x)',
           NEW n \in Tokens, SameTokens({n}), token[n].status = "none",
           token'[n].status # "none", token'[n].from = x,
           \/ /\ token'[n].user = OwnerOf(x) /\ token'[n].parent = None
              /\ AnswerOf(x) = "yes" /\ ~Spent(x)
           \/ \E u \in Tokens : /\ token[u].status # "none" /\ token[u].from = x
                                /\ token'[n].user = token[u].user
                                /\ token'[n].parent = u
    PROVE  PromiseInv' /\ Promise!Next
<1>1. PromiseInv'
  <2>1. RowPromise(x)'
    BY DEF PromiseInv, RowPromise
  <2>2. TokenPromise(n)'
    BY DEF TokenPromise, Spent
  <2> QED  BY <2>1, <2>2, OthersKept DEF PromiseInv
<1>2. token[n].from = None
  BY DEF PromiseInv, TokenPromise
<1>3. x # None
  BY SignInAssumption
<1>4. CASE /\ token'[n].user = OwnerOf(x) /\ token'[n].parent = None
           /\ AnswerOf(x) = "yes" /\ ~Spent(x)
  <2>1. \A u \in Tokens : token[u].from # x
    BY <1>3, <1>4 DEF PromiseInv, TokenPromise
  <2>2. Promise!LogIn(n, x)
    BY <1>2, <1>4, <2>1 DEF Promise!LogIn, Promise!Issue, SameRows, SameTokens
  <2> QED  BY <1>1, <2>2 DEF Promise!Next
<1>5. ASSUME NEW u \in Tokens, token[u].status # "none", token[u].from = x,
             token'[n].user = token[u].user, token'[n].parent = u
      PROVE  Promise!Next
  <2>1. Promise!Renew(n, u)
    BY <1>2, <1>3, <1>5 DEF Promise!Renew, Promise!Issue, SameRows, SameTokens
  <2> QED  BY <2>1 DEF Promise!Next
<1> QED  BY <1>1, <1>4, <1>5

\* Statuses that answer nothing are all the same to the promise.
LEMMA RowsWritten ==
    ASSUME TypeOK, NEW X,
           \A c \in Codes \ X : code'[c] = code[c],
           \A h \in Challenges \ X :
              /\ challenge'[h].phone = challenge[h].phone
              /\ \/ challenge'[h].status = challenge[h].status
                 \/ {challenge[h].status, challenge'[h].status}
                       \subseteq {"pending", "superseded", "fallback"}
    PROVE  SameRows(X)
BY SignInAssumption DEF SameRows, OwnerOf, AnswerOf, Used, Spent, Ids

\* The step is one of Login or none.
Implements == PromiseInv' /\ (Promise!Next \/ UNCHANGED Promise!vars)

LEMMA NothingWritten ==
    ASSUME IInv, PromiseInv, UNCHANGED <<code, challenge, token>>
    PROVE  Implements
<1>1. SameRows({}) /\ SameTokens({})
  BY RowsWritten DEF IInv, SameTokens
<1> QED  BY <1>1, SilentStep DEF Implements

LEMMA CreateLoginApprovalAsks ==
    ASSUME IInv, PromiseInv, NEW s \in Sessions, CreateLoginApproval(s)
    PROVE  Implements
<1>1. PICK h \in Challenges, p \in Phones :
         h = NextChallenge /\ p = task[s].phone /\ challenge[h].status = "none"
  BY NewIds DEF CreateLoginApproval, IInv, AboutInv, About
<1>2. \A g \in task[s].held : g \in Challenges /\ challenge[g].status = "pending"
  BY DEF IInv, HeldInv, TypeOK, Task
<1>3. /\ challenge'[h] = [status |-> "pending", phone |-> p, due |-> FALSE]
      /\ \A g \in task[s].held :
            challenge'[g] = [challenge[g] EXCEPT !.status = "superseded"]
      /\ \A g \in Challenges \ (task[s].held \cup {h}) :
            challenge'[g] = challenge[g]
      /\ UNCHANGED <<code, token>>
  BY <1>1, <1>2 DEF CreateLoginApproval
<1>4. \A g \in task[s].held : /\ challenge'[g].status = "superseded"
                              /\ challenge'[g].phone = challenge[g].phone
  <2>1. \A g \in task[s].held : challenge[g] \in Challenge
    BY <1>2 DEF IInv, TypeOK
  <2> QED  BY <1>3, <2>1 DEF Challenge
<1>5. SameRows({h})
  BY <1>2, <1>3, <1>4, RowsWritten DEF IInv
<1>6. /\ ~Used(h) /\ Used(h)' /\ OwnerOf(h)' = p /\ AnswerOf(h)' = AnswerOf(h)
      /\ h \in Ids
  BY <1>1, <1>3, SignInAssumption DEF Used, OwnerOf, AnswerOf, Ids
<1>7. SameTokens({})
  BY <1>3 DEF SameTokens
<1> QED  BY <1>5, <1>6, <1>7, AskStep DEF Implements

\* A new code, beside a challenge that may fall back.
LEMMA NewCodeAsks ==
    ASSUME IInv, PromiseInv, NEW p \in Phones, NewCode(p), token' = token,
           \A h \in Challenges :
              /\ challenge'[h].phone = challenge[h].phone
              /\ \/ challenge'[h].status = challenge[h].status
                 \/ {challenge[h].status, challenge'[h].status}
                       \subseteq {"pending", "superseded", "fallback"}
    PROVE  Implements
<1>1. PICK c \in Codes : c = NextCode /\ code[c].status = "none"
  BY NewIds DEF NewCode
<1>2. /\ \A d \in Codes \ {c} : code'[d] = code[d]
      /\ code'[c].status = "pending" /\ code'[c].phone = p
  BY <1>1 DEF NewCode, IInv, TypeOK
<1>3. SameRows({c})
  BY <1>2, RowsWritten DEF IInv
<1>4. /\ ~Used(c) /\ Used(c)' /\ OwnerOf(c)' = p /\ AnswerOf(c)' = AnswerOf(c)
      /\ c \in Ids
  BY <1>1, <1>2 DEF Used, OwnerOf, AnswerOf, Ids
<1>5. SameTokens({})
  BY DEF SameTokens
<1> QED  BY <1>3, <1>4, <1>5, AskStep DEF Implements

\* One column of one challenge is written.
LEMMA ChallengeSet ==
    ASSUME TypeOK, NEW h \in Challenges, NEW status,
           challenge' = [challenge EXCEPT ![h].status = status]
    PROVE  /\ challenge'[h].status = status
           /\ challenge'[h].phone = challenge[h].phone
           /\ \A g \in Challenges \ {h} : challenge'[g] = challenge[g]
<1>1. challenge \in [Challenges -> Challenge] /\ challenge[h] \in Challenge
  BY DEF TypeOK
<1>2. challenge'[h] = [challenge[h] EXCEPT !.status = status]
  BY <1>1
<1> QED  BY <1>1, <1>2 DEF Challenge

LEMMA FallbackAsks ==
    ASSUME IInv, PromiseInv, NEW s \in Sessions, Fallback(s)
    PROVE  Implements
<1>1. PICK h \in Challenges, p \in Phones : h = task[s].on /\ p = task[s].phone
  BY DEF Fallback, IInv, AboutInv, About, Sending
<1>2. /\ challenge' = MarkFallback(h) /\ NewCode(p) /\ token' = token
  BY <1>1 DEF Fallback
<1>3. CASE challenge[h].status = "pending"
  <2>1. challenge' = [challenge EXCEPT ![h].status = "fallback"]
    BY <1>2, <1>3 DEF MarkFallback
  <2>2. /\ challenge'[h].status = "fallback"
        /\ challenge'[h].phone = challenge[h].phone
        /\ \A g \in Challenges \ {h} : challenge'[g] = challenge[g]
    BY <2>1, ChallengeSet DEF IInv
  <2> QED  BY <1>2, <1>3, <2>2, NewCodeAsks
<1>4. CASE challenge[h].status # "pending"
  BY <1>2, <1>4, NewCodeAsks DEF MarkFallback
<1> QED  BY <1>3, <1>4

LEMMA RequestImplements ==
    ASSUME IInv, PromiseInv, NEW s \in Sessions, Request(s)
    PROVE  Implements
<1>1. CASE \E p \in Phones : RequestCode(s, p)
  BY <1>1, NothingWritten DEF RequestCode
<1>2. CASE Supersede(s) \/ Refuse(s)
  BY <1>2, NothingWritten DEF Supersede, Refuse
<1>3. CASE CreateLoginApproval(s)
  BY <1>3, CreateLoginApprovalAsks
<1>4. CASE CreateVerification(s)
  <2>1. task[s].phone \in Phones
    BY <1>4 DEF CreateVerification, IInv, AboutInv, About
  <2> QED  BY <1>4, <2>1, NewCodeAsks DEF CreateVerification
<1>5. CASE Fallback(s)
  BY <1>5, FallbackAsks
<1> QED  BY <1>1, <1>2, <1>3, <1>4, <1>5 DEF Request

\* A session that has claimed the prompt finds no answer on the challenge.
LEMMA BlockPromptSilent ==
    ASSUME IInv, PromiseInv, NEW s \in Sessions, BlockPrompt(s)
    PROVE  Implements
<1>1. PICK h \in Challenges : h = task[s].on
  BY DEF BlockPrompt, IInv, AboutInv, About, Sending
<1>2. challenge[h].status \in {"pending", "superseded", "fallback"}
  BY <1>1 DEF BlockPrompt, IInv, SendInv, Sends
<1>3. /\ challenge' = [challenge EXCEPT ![h].status = "fallback"]
      /\ UNCHANGED <<code, token>>
  BY <1>1 DEF BlockPrompt
<1>4. /\ challenge'[h].status = "fallback"
      /\ challenge'[h].phone = challenge[h].phone
      /\ \A g \in Challenges \ {h} : challenge'[g] = challenge[g]
  BY <1>3, ChallengeSet DEF IInv
<1>5. SameRows({}) /\ SameTokens({})
  BY <1>2, <1>3, <1>4, RowsWritten DEF IInv, SameTokens
<1> QED  BY <1>5, SilentStep DEF Implements

LEMMA SendImplements ==
    ASSUME IInv, PromiseInv, NEW s \in Sessions, Send(s)
    PROVE  Implements
<1>1. CASE BlockPrompt(s)
  BY <1>1, BlockPromptSilent
<1>2. CASE ~BlockPrompt(s)
  <2>1. UNCHANGED <<code, challenge, token>>
    BY <1>2 DEF Send, Sweep, SkipClaimed, DropPrompt, ClaimPrompt, GraphAccepts,
                GraphFails, MarkSent, MarkPending
  <2> QED  BY <2>1, NothingWritten
<1> QED  BY <1>1, <1>2

LEMMA VerifyCodeAnswers ==
    ASSUME IInv, PromiseInv, NEW s \in Sessions, VerifyCode(s)
    PROVE  Implements
<1>1. PICK c \in Codes, p \in Phones :
         c = task[s].on /\ p = task[s].phone /\ code[c].status = "pending"
  BY DEF VerifyCode, IInv, AboutInv, About, VerifyInv
<1>2. /\ code' = [code EXCEPT ![c].status = "verified", ![c].user = p]
      /\ UNCHANGED <<challenge, token>>
  BY <1>1 DEF VerifyCode
<1>3. /\ code'[c].status = "verified" /\ code'[c].phone = code[c].phone
      /\ \A d \in Codes \ {c} : code'[d] = code[d]
  <2>1. code \in [Codes -> Code] /\ code[c] \in Code
    BY DEF IInv, TypeOK
  <2>2. code'[c] = [code[c] EXCEPT !.status = "verified", !.user = p]
    BY <1>2, <2>1
  <2> QED  BY <1>2, <2>1, <2>2 DEF Code
<1>4. SameRows({c}) /\ SameTokens({})
  BY <1>2, <1>3, RowsWritten DEF IInv, SameTokens
<1>5. /\ c \in Ids /\ Used(c) /\ Used(c)' /\ OwnerOf(c)' = OwnerOf(c)
      /\ AnswerOf(c) = "none" /\ AnswerOf(c)' = "yes" /\ ~Spent(c)
  BY <1>1, <1>3, SignInAssumption DEF Ids, Used, OwnerOf, AnswerOf, Spent
<1> QED  BY <1>4, <1>5, AnswerStep DEF Implements

LEMMA DecideAnswers ==
    ASSUME IInv, PromiseInv, NEW h \in Challenges, NEW answer \in {"yes", "no"},
           NEW n, DecideLoginApproval(h, n, answer)
    PROVE  Implements
<1>1. /\ challenge[h].status = "pending"
      /\ challenge' = [challenge EXCEPT ![h].status = Decision(answer)]
      /\ UNCHANGED <<code, token>>
  BY DEF DecideLoginApproval, Decidable, Live
<1>2. /\ challenge'[h].status = Decision(answer)
      /\ challenge'[h].phone = challenge[h].phone
      /\ \A g \in Challenges \ {h} : challenge'[g] = challenge[g]
  BY <1>1, ChallengeSet DEF IInv
<1>3. SameRows({h}) /\ SameTokens({})
  BY <1>1, <1>2, RowsWritten DEF IInv, SameTokens
<1>4. /\ h \in Ids /\ Used(h) /\ Used(h)' /\ OwnerOf(h)' = OwnerOf(h)
      /\ AnswerOf(h) = "none" /\ AnswerOf(h)' = answer /\ ~Spent(h)
  BY <1>1, <1>2, SignInAssumption
     DEF Ids, Used, OwnerOf, AnswerOf, Spent, Decision
<1> QED  BY <1>3, <1>4, AnswerStep DEF Implements

LEMMA ExpireSilent ==
    ASSUME IInv, PromiseInv, NEW x \in Ids, Expire(x)
    PROVE  Implements
<1>1. token' = token
  BY DEF Expire
<1>2. CASE x \in Codes /\ code' = [code EXCEPT ![x].due = TRUE]
           /\ challenge' = challenge
  <2>1. code \in [Codes -> Code] /\ code[x] \in Code
    BY <1>2 DEF IInv, TypeOK
  <2>2. code'[x] = [code[x] EXCEPT !.due = TRUE]
    BY <1>2, <2>1
  <2>3. code'[x].status = code[x].status /\ code'[x].phone = code[x].phone
    BY <2>1, <2>2 DEF Code
  <2>4. \A c \in Codes : /\ code'[c].status = code[c].status
                         /\ code'[c].phone = code[c].phone
    BY <1>2, <2>1, <2>3
  <2>5. SameRows({})
    BY <1>2, <2>4 DEF SameRows, OwnerOf, AnswerOf, Used, Spent, Ids
  <2> QED  BY <1>1, <2>5, SilentStep DEF SameTokens, Implements
<1>3. CASE x \in Challenges /\ challenge' = [challenge EXCEPT ![x].due = TRUE]
           /\ code' = code
  <2>1. challenge \in [Challenges -> Challenge] /\ challenge[x] \in Challenge
    BY <1>3 DEF IInv, TypeOK
  <2>2. challenge'[x] = [challenge[x] EXCEPT !.due = TRUE]
    BY <1>3, <2>1
  <2>3. /\ challenge'[x].status = challenge[x].status
        /\ challenge'[x].phone = challenge[x].phone
    BY <2>1, <2>2 DEF Challenge
  <2>4. \A h \in Challenges : /\ challenge'[h].status = challenge[h].status
                              /\ challenge'[h].phone = challenge[h].phone
    BY <1>3, <2>1, <2>3
  <2>5. SameRows({})
    BY <1>3, <2>4, RowsWritten DEF IInv
  <2> QED  BY <1>1, <2>5, SilentStep DEF SameTokens, Implements
<1> QED  BY <1>2, <1>3 DEF Expire

\* The first token of an attempt, whose row is consumed in the same commit.
LEMMA ClaimLogsIn ==
    ASSUME IInv, PromiseInv, NEW s \in Sessions, Claim(s)
    PROVE  Implements
<1>1. PICK x \in Ids : x = task[s].on
  BY DEF Claim, IInv, AboutInv, About
<1>2. CASE UNCHANGED <<code, challenge, token>>
  BY <1>2, NothingWritten
<1>3. CASE /\ Claimable(x) /\ Consume(x)
           /\ IssueTokens(token, UserOf(x), x, None)
  <2>1. /\ SameRows({x}) /\ OwnerOf(x)' = OwnerOf(x) /\ UserOf(x) = OwnerOf(x)
        /\ AnswerOf(x) = "yes" /\ AnswerOf(x)' = "yes"
        /\ Used(x) /\ Used(x)' /\ ~Spent(x) /\ Spent(x)'
    <3>1. CASE x \in Codes
      <4>1. /\ code \in [Codes -> Code] /\ code[x] \in Code
            /\ x \notin Challenges
        BY <3>1, SignInAssumption DEF IInv, TypeOK
      <4>2. /\ code[x].status = "verified" /\ challenge' = challenge
            /\ code' = [code EXCEPT ![x].status = "consumed"]
        BY <1>3, <3>1, <4>1 DEF Claimable, Consume
      <4>3. code'[x] = [code[x] EXCEPT !.status = "consumed"]
        BY <4>1, <4>2, <3>1
      <4>4. /\ code'[x].status = "consumed" /\ code'[x].phone = code[x].phone
            /\ \A c \in Codes \ {x} : code'[c] = code[c]
        BY <4>1, <4>2, <4>3 DEF Code
      <4>5. SameRows({x})
        BY <4>2, <4>4, RowsWritten DEF IInv
      <4>6. code[x].user = code[x].phone
        BY <3>1, <4>2 DEF IInv, AnswerInv
      <4> QED
        BY <3>1, <4>1, <4>2, <4>4, <4>5, <4>6
           DEF OwnerOf, UserOf, AnswerOf, Used, Spent
    <3>2. CASE x \notin Codes
      <4>1. x \in Challenges
        BY <3>2 DEF Ids
      <4>2. /\ challenge[x].status = "approved" /\ code' = code
            /\ challenge' = [challenge EXCEPT ![x].status = "consumed"]
        BY <1>3, <3>2 DEF Claimable, Consume
      <4>3. /\ challenge'[x].status = "consumed"
            /\ challenge'[x].phone = challenge[x].phone
            /\ \A g \in Challenges \ {x} : challenge'[g] = challenge[g]
        BY <4>1, <4>2, ChallengeSet DEF IInv
      <4>4. SameRows({x})
        BY <4>2, <4>3, RowsWritten DEF IInv
      <4> QED
        BY <3>2, <4>1, <4>2, <4>3, <4>4
           DEF OwnerOf, UserOf, AnswerOf, Used, Spent
    <3> QED  BY <3>1, <3>2
  <2>2. OwnerOf(x) \in Phones
    BY <2>1 DEF PromiseInv, RowPromise
  <2>3. TypeOK /\ token \in [Tokens -> Token]
    BY DEF IInv, TypeOK
  <2>4. PICK n \in Tokens :
           /\ token[n].status = "none"
           /\ \A t \in Tokens \ {n} : token'[t] = token[t]
           /\ token'[n].status = "active" /\ token'[n].user = OwnerOf(x)
           /\ token'[n].from = x /\ token'[n].parent = None
    BY <1>3, <2>1, <2>2, <2>3, TokenIssued
  <2>5. SameTokens({n})
    BY <2>4 DEF SameTokens
  <2> QED  BY <2>1, <2>4, <2>5, IssueStep DEF Implements
<1> QED  BY <1>1, <1>2, <1>3 DEF Claim

\* A token for the attempt of the one it replaces, revoked by now or not.
LEMMA RotateRefreshRenews ==
    ASSUME IInv, PromiseInv, NEW s \in Sessions, RotateRefresh(s)
    PROVE  Implements
<1>1. PICK u \in Tokens : u = task[s].on /\ token[u].status # "none"
  BY DEF RotateRefresh, IInv, AboutInv, About
<1>2. token[u].from \in Ids /\ Spent(token[u].from)
  BY <1>1 DEF PromiseInv, TokenPromise
<1>3. /\ TypeOK /\ token[u].user \in Phones \cup {None}
      /\ UNCHANGED <<code, challenge>>
  BY <1>1 DEF RotateRefresh, IInv, TypeOK, Token
<1>4. PICK x \in Ids, user \in Phones \cup {None} :
         x = token[u].from /\ user = token[u].user
  BY <1>2, <1>3
<1>5. PICK old \in [Tokens -> Token] :
         /\ old = Revoked(u)
         /\ \A t \in Tokens : /\ old[t].status = "none" <=> token[t].status = "none"
                              /\ old[t].user = token[t].user
                              /\ old[t].from = token[t].from
                              /\ old[t].parent = token[t].parent
  BY <1>1, <1>3, RevokedRow
<1>6. IssueTokens(old, user, x, u)
  BY <1>1, <1>4, <1>5 DEF RotateRefresh
<1>7. /\ \A t \in Tokens : old[t].status = "none" => token[t].status = "none"
      /\ u \in Tokens \cup {None}
  BY <1>5
<1>8. PICK n \in Tokens :
         /\ token' \in [Tokens -> Token]
         /\ token[n].status = "none"
         /\ \A t \in Tokens \ {n} : token'[t] = old[t]
         /\ token'[n].status = "active" /\ token'[n].user = user
         /\ token'[n].from = x /\ token'[n].parent = u
  <2>1. TypeOK
    BY <1>3
  <2>2. old \in [Tokens -> Token]
    BY <1>5
  <2>3. user \in Phones \cup {None} /\ x \in Ids
    BY <1>4
  <2> QED  BY <1>6, <1>7, <2>1, <2>2, <2>3, TokenIssued
<1>9. SameTokens({n})
  BY <1>5, <1>8 DEF SameTokens
<1>10. SameRows({})
  BY <1>3, RowsWritten
<1>11. /\ SameRows({x}) /\ OwnerOf(x)' = OwnerOf(x) /\ Used(x)' = Used(x)
       /\ AnswerOf(x)' = AnswerOf(x) /\ Spent(x)'
  BY <1>2, <1>4, <1>10 DEF SameRows
<1>12. Used(x)
  BY <1>2, <1>4, SignInAssumption DEF Used, Spent
<1> QED
  BY <1>1, <1>4, <1>8, <1>9, <1>11, <1>12, IssueStep DEF Implements

LEMMA LogoutSilent ==
    ASSUME IInv, PromiseInv, NEW t \in Tokens, Logout(t)
    PROVE  Implements
<1>1. /\ token[t].status = "active" /\ token' = Revoked(t)
      /\ UNCHANGED <<code, challenge>>
  BY DEF Logout
<1>2. SameTokens({})
  BY <1>1, RevokedRow DEF SameTokens, IInv
<1>3. SameRows({})
  BY <1>1, RowsWritten DEF IInv
<1> QED  BY <1>2, <1>3, SilentStep DEF Implements

LEMMA BrowseImplements ==
    ASSUME IInv, PromiseInv, NEW s \in Sessions, Browse(s)
    PROVE  Implements
<1>1. CASE \/ \E x \in Ids : Poll(s, x)
           \/ \E t \in Tokens : Refresh(s, t)
  BY <1>1, NothingWritten DEF Poll, Refresh
<1>2. CASE Claim(s)
  BY <1>2, ClaimLogsIn
<1>3. CASE RotateRefresh(s)
  BY <1>3, RotateRefreshRenews
<1> QED  BY <1>1, <1>2, <1>3 DEF Browse

LEMMA StepImplements ==
    IInv /\ PromiseInv /\ [Next]_vars
        => PromiseInv' /\ [Promise!Next]_(Promise!vars)
<1> SUFFICES ASSUME IInv, PromiseInv, [Next]_vars PROVE Implements
  BY DEF Implements
<1>1. ASSUME NEW s \in Sessions,
             Request(s) \/ Send(s) \/ Browse(s) \/ VerifyCode(s) \/ Crash(s)
      PROVE  Implements
  BY <1>1, RequestImplements, SendImplements, BrowseImplements,
     VerifyCodeAnswers, NothingWritten DEF Crash
<1>2. ASSUME NEW s \in Sessions, NEW p \in Phones, NEW c \in Codes,
             SendCode(s, p, c)
      PROVE  Implements
  BY <1>2, NothingWritten DEF SendCode
<1>3. ASSUME NEW h \in Challenges, NEW answer \in {"yes", "no"},
             NEW n \in 1..cards[h], DecideLoginApproval(h, n, answer)
      PROVE  Implements
  BY <1>3, DecideAnswers
<1>4. ASSUME NEW h \in Challenges, LeaseExpires(h) PROVE Implements
  BY <1>4, NothingWritten DEF LeaseExpires
<1>5. ASSUME NEW x \in Ids, Expire(x) PROVE Implements
  BY <1>5, ExpireSilent
<1>6. ASSUME NEW t \in Tokens, Logout(t) PROVE Implements
  BY <1>6, LogoutSilent
<1>7. CASE UNCHANGED vars
  BY <1>7, NothingWritten DEF vars
<1> QED  BY <1>1, <1>2, <1>3, <1>4, <1>5, <1>6, <1>7 DEF Next

\* Requests, cards, sweeps, messages, polls, refreshes and crashes, in any
\* order, keep the promise of a login (auth.py, send_pending,
\* decide_login_approval, consume_verification, consume_login_approval).
THEOREM LoginPromiseKept == Spec => KeepsLoginPromise
<1>1. Init => PromiseInv /\ Promise!Init
  BY PromiseInit
<1>2. IInv /\ PromiseInv /\ [Next]_vars
         => PromiseInv' /\ [Promise!Next]_(Promise!vars)
  BY StepImplements
<1> QED  BY <1>1, <1>2, Invariant, PTL DEF Spec, KeepsLoginPromise, Promise!Spec

=============================================================================
