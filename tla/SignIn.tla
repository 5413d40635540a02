------------------------------- MODULE SignIn -------------------------------
(***************************************************************************)
(* A citizen's sign-in (auth.py, repositories/users.py and                 *)
(* login_approvals.py): a code the citizen sends to the bot, or a card the *)
(* bot sends to a linked phone; the browser polls, gets its tokens once    *)
(* and rotates them.                                                       *)
(*                                                                         *)
(* Every request and every inbound message is a READ COMMITTED             *)
(* transaction.  One that changes what it read earlier is split after the  *)
(* read; row locks are held to the commit.  Only the browser that was      *)
(* answered knows an id and the nonce, so it alone polls for it.           *)
(*                                                                         *)
(* The hour of the cap, the 30 days of a refresh token and the attempts of *)
(* a reply (module Outbox) do not end here.  A card that Graph accepts     *)
(* comes with its id.                                                      *)
(***************************************************************************)
EXTENDS Naturals, FiniteSets

CONSTANTS
    Phones,     \* phones; a user and a contact are known by their phone
    Linked,     \* phones that belong to a user from the start
    Codes,      \* ids of reverse codes
    Challenges, \* ids of login approvals; the prompt of one has the same name
    Tokens,     \* refresh tokens
    Sessions,   \* requests, webhook turns and sweeps; each does one thing
    None,
    Cap,        \* verification_max_per_hour
    MaxFaults   \* bound: failed calls, lost answers and crashes

Ids == Codes \cup Challenges

ASSUME SignInAssumption ==
    /\ Linked \subseteq Phones
    /\ Codes \cap Challenges = {}
    /\ None \notin Phones \cup Ids \cup Tokens
    /\ Cap \in Nat /\ MaxFaults \in Nat

VARIABLES
    linked,    \* phones of users with a contact
    code,      \* phone_verifications
    challenge, \* login_approval_challenges
    prompt,    \* the outgoing row of each challenge's card
    cards,     \* how many cards of a challenge reached the phone
    told,      \* challenges a browser was told to wait for
    yes,       \* challenges whose first answer by the citizen was Yes
    token,     \* refresh_tokens
    task,      \* what each session is doing
    faults     \* failures and crashes so far

vars == <<linked, code, challenge, prompt, cards, told, yes, token, task,
          faults>>

Code == [status : {"none", "pending", "verified", "consumed"},
         phone : Phones \cup {None}, user : Phones \cup {None},
         due : BOOLEAN]

Challenge == [status : {"none", "pending", "approved", "denied",
                        "superseded", "fallback", "consumed"},
              phone : Phones \cup {None}, due : BOOLEAN]

\* wamid: the id Graph gave to the n-th card is n; 0 is NULL.
Prompt == [status : {"none", "pending", "sending", "sent", "failed",
                     "blocked_24h"},
           over : BOOLEAN, wamid : Nat]

\* from: the code or challenge of the login; parent: the token it replaced.
Token == [status : {"none", "active", "revoked"}, user : Phones \cup {None},
          from : Ids \cup {None}, parent : Tokens \cup {None}]

\* phone: whose request or message it is; None for a poll and a sweep.
\* held: the challenges an uncommitted create_login_approval superseded.
Task == [pc : {"idle", "counted", "challenge", "send", "block", "call",
               "accepted", "refused", "unsent", "verify", "poll", "refresh"},
         on : Ids \cup Tokens \cup {None}, phone : Phones \cup {None},
         held : SUBSET Challenges]

NoTask == [pc |-> "idle", on |-> None, phone |-> None, held |-> {}]

Init ==
    /\ linked = Linked
    /\ code = [c \in Codes |-> [status |-> "none", phone |-> None,
                                user |-> None, due |-> FALSE]]
    /\ challenge = [h \in Challenges |->
                      [status |-> "none", phone |-> None, due |-> FALSE]]
    /\ prompt = [h \in Challenges |->
                   [status |-> "none", over |-> FALSE, wamid |-> 0]]
    /\ cards = [h \in Challenges |-> 0]
    /\ told = {}
    /\ yes = {}
    /\ token = [t \in Tokens |-> [status |-> "none", user |-> None,
                                  from |-> None, parent |-> None]]
    /\ task = [a \in Sessions |-> NoTask]
    /\ faults = 0

-----------------------------------------------------------------------------

Idle(a) == task[a].pc = "idle"

Begin(a, pc, x, p) ==
    task' = [task EXCEPT ![a] = [NoTask EXCEPT !.pc = pc, !.on = x, !.phone = p]]

Goto(a, pc) == task' = [task EXCEPT ![a].pc = pc]

Finish(a) == task' = [task EXCEPT ![a] = NoTask]

\* Ids are new: it does not matter which of the unused ones is taken.
NextCode == CHOOSE c \in Codes : code[c].status = "none"
NextChallenge == CHOOSE h \in Challenges : challenge[h].status = "none"
NextToken == CHOOSE t \in Tokens : token[t].status = "none"

Live(h) == challenge[h].status = "pending" /\ ~challenge[h].due

\* A transaction that has written h has not committed yet.
Locked(h) == \E a \in Sessions : h \in task[a].held

-----------------------------------------------------------------------------
(***************************************************************************)
(* request_code.                                                           *)
(***************************************************************************)

CodesOf(p) == {c \in Codes : code[c].phone = p}
ChallengesOf(p) == {h \in Challenges : challenge[h].phone = p}

\* Both counts are below the cap.
RequestCode(s, p) ==
    /\ Idle(s)
    /\ Cardinality(CodesOf(p)) + Cardinality(ChallengesOf(p)) < Cap
    /\ Begin(s, "counted", None, p)
    /\ UNCHANGED <<linked, code, challenge, prompt, cards, told, yes, token,
                   faults>>

\* The first UPDATE of create_login_approval: the phone is linked, inside the
\* 24 h window, and the browser sent a nonce.
Supersede(s) ==
    LET p == task[s].phone
        pending == {h \in ChallengesOf(p) : challenge[h].status = "pending"}
    IN  /\ task[s].pc = "counted"
        /\ p \in linked
        /\ \A h \in pending : ~Locked(h)
        /\ task' = [task EXCEPT ![s].pc = "challenge", ![s].held = pending]
        /\ UNCHANGED <<linked, code, challenge, prompt, cards, told, yes,
                       token, faults>>

\* The commit of the new challenge, its prompt and the superseded ones.
CreateLoginApproval(s) ==
    LET h == NextChallenge
        held == task[s].held
    IN  /\ task[s].pc = "challenge"
        /\ \E g \in Challenges : challenge[g].status = "none"
        /\ challenge' =
             [g \in Challenges |->
                CASE g = h -> [status |-> "pending", phone |-> task[s].phone,
                               due |-> FALSE]
                  [] g \in held -> [challenge[g] EXCEPT !.status = "superseded"]
                  [] OTHER -> challenge[g]]
        /\ prompt' = [prompt EXCEPT ![h].status = "pending"]
        /\ Begin(s, "send", h, task[s].phone)
        /\ UNCHANGED <<linked, code, cards, told, yes, token, faults>>

\* create_verification: counts the codes again and makes one, or raises.
NewCode(p) ==
    /\ Cardinality(CodesOf(p)) < Cap
    /\ \E c \in Codes : code[c].status = "none"
    /\ code' = [code EXCEPT ![NextCode] =
                  [status |-> "pending", phone |-> p, user |-> None,
                   due |-> FALSE]]

CreateVerification(s) ==
    /\ task[s].pc = "counted"
    /\ NewCode(task[s].phone)
    /\ Finish(s)
    /\ UNCHANGED <<linked, challenge, prompt, cards, told, yes, token, faults>>

\* RateLimitExceeded: the session rolls back, a fallback with it.
Refuse(s) ==
    /\ task[s].pc \in {"counted", "unsent"}
    /\ Cardinality(CodesOf(task[s].phone)) >= Cap
    /\ Finish(s)
    /\ UNCHANGED <<linked, code, challenge, prompt, cards, told, yes, token,
                   faults>>

\* A variant of MarkFallback below that does not look at the status.
AlwaysFallback(h) == [challenge EXCEPT ![h].status = "fallback"]

\* mark_login_approval_fallback.
MarkFallback(h) ==
    IF challenge[h].status = "pending"
    THEN [challenge EXCEPT ![h].status = "fallback"]
    ELSE challenge

\* The prompt was not sent: the browser gets a code.
Fallback(s) ==
    LET h == task[s].on
    IN  /\ task[s].pc = "unsent"
        /\ ~Locked(h)
        /\ challenge' = MarkFallback(h)
        /\ NewCode(task[s].phone)
        /\ Finish(s)
        /\ UNCHANGED <<linked, prompt, cards, told, yes, token, faults>>

-----------------------------------------------------------------------------
(***************************************************************************)
(* send_pending for a login approval, by the request and by the sweep.     *)
(***************************************************************************)

Sendable(h) ==
    \/ prompt[h].status = "pending"
    \/ prompt[h].status = "sending" /\ prompt[h].over

\* A claim of the row has not been committed or rolled back yet.
Claiming(h) == \E a \in Sessions : task[a].pc = "block" /\ task[a].on = h

\* The request that made the challenge sends, not a sweep.
Requested(a) == task[a].phone # None

\* A variant of Unsent below that takes "skipped" for "sent".
SkippedIsSent(a, h, status) ==
    IF Requested(a) /\ status # "skipped"
    THEN Goto(a, "unsent") /\ UNCHANGED told
    ELSE Finish(a) /\ told' = IF Requested(a) THEN told \cup {h} ELSE told

\* send_pending returned something else than "sent".
Unsent(a, h, status) ==
    /\ IF Requested(a) THEN Goto(a, "unsent") ELSE Finish(a)
    /\ UNCHANGED told

\* A sweep takes the row up.
Sweep(w, h) ==
    /\ Idle(w)
    /\ Sendable(h)
    /\ Begin(w, "send", h, None)
    /\ UNCHANGED <<linked, code, challenge, prompt, cards, told, yes, token,
                   faults>>

SkipClaimed(a) ==
    LET h == task[a].on
    IN  /\ task[a].pc = "send"
        /\ ~Claiming(h) /\ ~Sendable(h)
        /\ Unsent(a, h, "skipped")
        /\ UNCHANGED <<linked, code, challenge, prompt, cards, yes, token,
                       faults>>

\* The challenge was answered, superseded, given up or has expired.
DropPrompt(a) ==
    LET h == task[a].on
    IN  /\ task[a].pc = "send"
        /\ ~Claiming(h) /\ Sendable(h) /\ ~Live(h)
        /\ prompt' = [prompt EXCEPT ![h].status = "failed", ![h].over = FALSE]
        /\ Unsent(a, h, "failed")
        /\ UNCHANGED <<linked, code, challenge, cards, yes, token, faults>>

\* The claim; the 24 h window is open, or has ended by now.
ClaimPrompt(a) ==
    LET h == task[a].on
    IN  /\ task[a].pc = "send"
        /\ ~Claiming(h) /\ Sendable(h) /\ Live(h)
        /\ \/ /\ prompt' = [prompt EXCEPT ![h].status = "sending",
                                          ![h].over = FALSE]
              /\ Goto(a, "call")
           \/ Goto(a, "block") /\ UNCHANGED prompt
        /\ UNCHANGED <<linked, code, challenge, cards, told, yes, token, faults>>

\* The write does not look at the status again.
BlockPrompt(a) ==
    LET h == task[a].on
    IN  /\ task[a].pc = "block"
        /\ ~Locked(h)
        /\ prompt' = [prompt EXCEPT ![h].status = "blocked_24h",
                                    ![h].over = FALSE]
        /\ challenge' = [challenge EXCEPT ![h].status = "fallback"]
        /\ Unsent(a, h, "blocked_24h")
        /\ UNCHANGED <<linked, code, cards, yes, token, faults>>

\* The card reaches the phone.
GraphAccepts(a) ==
    LET h == task[a].on
    IN  /\ task[a].pc = "call"
        /\ cards' = [cards EXCEPT ![h] = @ + 1]
        /\ Goto(a, "accepted")
        /\ UNCHANGED <<linked, code, challenge, prompt, told, yes, token, faults>>

\* The call fails, or its answer is lost on the way back.
GraphFails(a) ==
    /\ task[a].pc \in {"call", "accepted"}
    /\ faults < MaxFaults
    /\ faults' = faults + 1
    /\ Goto(a, "refused")
    /\ UNCHANGED <<linked, code, challenge, prompt, cards, told, yes, token>>

\* mark_outbound with the id of the card; the browser is told to wait.
MarkSent(a) ==
    LET h == task[a].on
    IN  /\ task[a].pc = "accepted"
        /\ prompt' = [prompt EXCEPT ![h] = [status |-> "sent", over |-> FALSE,
                                            wamid |-> cards[h]]]
        /\ told' = IF Requested(a) THEN told \cup {h} ELSE told
        /\ Finish(a)
        /\ UNCHANGED <<linked, code, challenge, cards, yes, token, faults>>

MarkPending(a) ==
    LET h == task[a].on
    IN  /\ task[a].pc = "refused"
        /\ prompt' = [prompt EXCEPT ![h].status = "pending", ![h].over = FALSE]
        /\ Unsent(a, h, "failed")
        /\ UNCHANGED <<linked, code, challenge, cards, yes, token, faults>>

\* locked_until passes; a call ends within it (module Outbox).
LeaseExpires(h) ==
    /\ prompt[h].status = "sending" /\ ~prompt[h].over
    /\ \A a \in Sessions : task[a].on = h =>
          task[a].pc \notin {"call", "accepted", "refused"}
    /\ prompt' = [prompt EXCEPT ![h].over = TRUE]
    /\ UNCHANGED <<linked, code, challenge, cards, told, yes, token, task,
                   faults>>

-----------------------------------------------------------------------------
(***************************************************************************)
(* The citizen's messages.  A turn begins with upsert_contact, whose row   *)
(* stays locked until its commit.                                          *)
(***************************************************************************)

\* A variant of ContactFree below for an upsert that does nothing on conflict.
Unlocked(p) == TRUE

ContactFree(p) ==
    ~\E a \in Sessions : task[a].pc = "verify" /\ task[a].phone = p

\* A variant of Matches below that takes a code from any phone.
MatchesAny(c, p) == code[c].status = "pending" /\ ~code[c].due

\* The code find_pending_verification_by_code_hash finds is this phone's.
Matches(c, p) ==
    /\ code[c].status = "pending" /\ ~code[c].due
    /\ code[c].phone = p

\* A message from phone p with code c; one that does not match is answered.
SendCode(s, p, c) ==
    /\ Idle(s)
    /\ ContactFree(p)
    /\ Matches(c, p)
    /\ Begin(s, "verify", c, p)
    /\ UNCHANGED <<linked, code, challenge, prompt, cards, told, yes, token,
                   faults>>

\* upsert_user_for_verified_phone and mark_verification_verified.
VerifyCode(s) ==
    LET c == task[s].on
        p == task[s].phone
    IN  /\ task[s].pc = "verify"
        /\ code' = [code EXCEPT ![c].status = "verified", ![c].user = p]
        /\ linked' = linked \cup {p}
        /\ Finish(s)
        /\ UNCHANGED <<challenge, prompt, cards, told, yes, token, faults>>

Decision(answer) == IF answer = "yes" THEN "approved" ELSE "denied"

\* The guard of decide_login_approval's UPDATE, for a tap on the n-th card.
Decidable(h, n) == Live(h) /\ prompt[h].wamid = n

DecideLoginApproval(h, n, answer) ==
    /\ n \in 1..cards[h]
    /\ ContactFree(challenge[h].phone) /\ ~Locked(h)
    /\ Decidable(h, n)
    /\ challenge' = [challenge EXCEPT ![h].status = Decision(answer)]
    /\ yes' = IF answer = "yes" /\ challenge[h].status = "pending"
              THEN yes \cup {h} ELSE yes
    /\ UNCHANGED <<linked, code, prompt, cards, told, token, task, faults>>

\* expires_at passes.
Expire(x) ==
    /\ \/ /\ x \in Codes
          /\ code[x].status = "pending" /\ ~code[x].due
          /\ code' = [code EXCEPT ![x].due = TRUE]
          /\ UNCHANGED challenge
       \/ /\ x \in Challenges
          /\ challenge[x].status \in {"pending", "approved"} /\ ~challenge[x].due
          /\ challenge' = [challenge EXCEPT ![x].due = TRUE]
          /\ UNCHANGED code
    /\ UNCHANGED <<linked, prompt, cards, told, yes, token, task, faults>>

-----------------------------------------------------------------------------
(***************************************************************************)
(* The browser polls; tokens.                                              *)
(***************************************************************************)

\* auth_status and approval_status find the answer they wait for.
Poll(s, x) ==
    /\ Idle(s)
    /\ \/ x \in Codes /\ code[x].status = "verified"
       \/ x \in told /\ challenge[x].status = "approved"
    /\ Begin(s, "poll", x, None)
    /\ UNCHANGED <<linked, code, challenge, prompt, cards, told, yes, token,
                   faults>>

\* A variant of Claimable below for an UPDATE that does not look at the status.
ClaimableAnyhow(x) ==
    \/ x \in Codes /\ code[x].status # "none"
    \/ x \in Challenges /\ challenge[x].status # "none"

\* The guards of consume_verification and consume_login_approval.
Claimable(x) ==
    \/ x \in Codes /\ code[x].status = "verified"
    \/ /\ x \in Challenges
       /\ challenge[x].status = "approved" /\ ~challenge[x].due

\* The row of a code or challenge is marked as consumed.
Consume(x) ==
    IF x \in Codes
    THEN code' = [code EXCEPT ![x].status = "consumed"] /\ UNCHANGED challenge
    ELSE /\ challenge' = [challenge EXCEPT ![x].status = "consumed"]
         /\ UNCHANGED code

UserOf(x) == IF x \in Codes THEN code[x].user ELSE challenge[x].phone

\* issue_tokens: row t, beside the changed rows of old.
IssueTokens(old, user, x, parent) ==
    /\ \E t \in Tokens : old[t].status = "none"
    /\ token' = [old EXCEPT ![NextToken] =
                   [status |-> "active", user |-> user, from |-> x,
                    parent |-> parent]]

Claim(s) ==
    LET x == task[s].on
    IN  /\ task[s].pc = "poll"
        /\ \/ /\ Claimable(x)
              /\ Consume(x)
              /\ IssueTokens(token, UserOf(x), x, None)
           \/ ~Claimable(x) /\ UNCHANGED <<code, challenge, token>>
        /\ Finish(s)
        /\ UNCHANGED <<linked, prompt, cards, told, yes, faults>>

\* rotate_refresh finds the cookie's token active.
Refresh(s, t) ==
    /\ Idle(s)
    /\ token[t].status = "active"
    /\ Begin(s, "refresh", t, None)
    /\ UNCHANGED <<linked, code, challenge, prompt, cards, told, yes, token,
                   faults>>

\* revoke_refresh_token.
Revoked(t) == [token EXCEPT ![t].status = "revoked"]

\* Its revocation and the new pair, whether or not it is active still.
RotateRefresh(s) ==
    LET t == task[s].on
    IN  /\ task[s].pc = "refresh"
        /\ IssueTokens(Revoked(t), token[t].user, token[t].from, t)
        /\ Finish(s)
        /\ UNCHANGED <<linked, code, challenge, prompt, cards, told, yes, faults>>

Logout(t) ==
    /\ token[t].status = "active"
    /\ token' = Revoked(t)
    /\ UNCHANGED <<linked, code, challenge, prompt, cards, told, yes, task,
                   faults>>

\* A session dies with its process: what it has not committed is undone.
Crash(a) ==
    /\ ~Idle(a)
    /\ faults < MaxFaults
    /\ faults' = faults + 1
    /\ Finish(a)
    /\ UNCHANGED <<linked, code, challenge, prompt, cards, told, yes, token>>

-----------------------------------------------------------------------------

Request(s) ==
    \/ \E p \in Phones : RequestCode(s, p)
    \/ Supersede(s) \/ CreateLoginApproval(s) \/ CreateVerification(s)
    \/ Refuse(s) \/ Fallback(s)

Send(a) ==
    \/ \E h \in Challenges : Sweep(a, h)
    \/ SkipClaimed(a) \/ DropPrompt(a) \/ ClaimPrompt(a) \/ BlockPrompt(a)
    \/ GraphAccepts(a) \/ GraphFails(a) \/ MarkSent(a) \/ MarkPending(a)

Browse(s) ==
    \/ \E x \in Ids : Poll(s, x)
    \/ Claim(s)
    \/ \E t \in Tokens : Refresh(s, t)
    \/ RotateRefresh(s)

Next ==
    \/ \E s \in Sessions : Request(s) \/ Send(s) \/ Browse(s) \/ VerifyCode(s) \/ Crash(s)
    \/ \E s \in Sessions, p \in Phones, c \in Codes : SendCode(s, p, c)
    \/ \E h \in Challenges, answer \in {"yes", "no"} :
          \E n \in 1..cards[h] : DecideLoginApproval(h, n, answer)
    \/ \E h \in Challenges : LeaseExpires(h)
    \/ \E x \in Ids : Expire(x)
    \/ \E t \in Tokens : Logout(t)

Spec == Init /\ [][Next]_vars

-----------------------------------------------------------------------------
(***************************************************************************)
(* Properties.                                                             *)
(***************************************************************************)

\* Every variable has its type; in particular the rows and the sessions.
TypeOK ==
    /\ linked \subseteq Phones
    /\ code \in [Codes -> Code]
    /\ challenge \in [Challenges -> Challenge]
    /\ prompt \in [Challenges -> Prompt]
    /\ cards \in [Challenges -> Nat]
    /\ told \subseteq Challenges
    /\ yes \subseteq Challenges
    /\ token \in [Tokens -> Token]
    /\ task \in [Sessions -> Task]
    /\ faults \in 0..MaxFaults

\* A token that was handed out at a login, not at a refresh.
First(t) == token[t].status # "none" /\ token[t].parent = None

\* A code or an approval logs in once, however often it is sent, polled for or
\* refreshed: mark_verification_verified does not look at the status and relies
\* on the contact's lock, auth_status relies on consume_verification.
GrantedOnce ==
    \A t, u \in Tokens :
        First(t) /\ First(u) /\ token[t].from = token[u].from => t = u

\* A login by a code is that of the phone the code was made for; a login by an
\* approval follows a Yes of that phone that no other answer preceded
\* (decide_login_approval, verify_code_from_whatsapp).
LoginAsAnswered ==
    \A t \in Tokens : token[t].status # "none" =>
        LET x == token[t].from
        IN  \/ x \in Codes /\ token[t].user = code[x].phone
            \/ x \in yes /\ token[t].user = challenge[x].phone

(***************************************************************************)
(* What the rows say of an attempt.                                        *)
(***************************************************************************)
OwnerOf(x) == IF x \in Codes THEN code[x].phone ELSE challenge[x].phone

AnswerOf(x) ==
    LET status == IF x \in Codes THEN code[x].status ELSE challenge[x].status
    IN  IF status \in {"verified", "approved", "consumed"} THEN "yes"
        ELSE IF status = "denied" THEN "no" ELSE "none"

Promise == INSTANCE Login WITH
    Attempts <- Ids,
    owner    <- [x \in Ids |-> OwnerOf(x)],
    answer   <- [x \in Ids |-> AnswerOf(x)],
    login    <- [t \in Tokens |-> token[t].from],
    account  <- [t \in Tokens |-> token[t].user],
    parent   <- [t \in Tokens |-> token[t].parent]

\* Requests, cards, sweeps, messages, polls, refreshes and crashes, in any
\* order, keep the promise of a login: an attempt keeps its phone and its
\* first answer, only a Yes is exchanged, for one token of that phone, and
\* each later token descends from it.
KeepsLoginPromise == Promise!Spec

\* What the citizen decided stays decided: a late fallback, an expired window
\* or a newer request takes no answer back (mark_login_approval_fallback,
\* create_login_approval, the gate of send_pending).
DecisionIsFinal ==
    [][\A h \in Challenges :
         /\ challenge[h].status = "approved" =>
               challenge'[h].status \in {"approved", "consumed"}
         /\ challenge[h].status \in {"denied", "consumed"} =>
               challenge'[h].status = challenge[h].status]_vars

\* A browser that is told to wait has a card on the citizen's phone whose Yes
\* will count, until another request or the time ends it: request_code answers
\* so only if send_pending itself sent and recorded the card.
PromptWorks ==
    \A h \in told : Live(h) => \E n \in 1..cards[h] : Decidable(h, n)

\* Not true of the code: rotate_refresh's revocation is not tested, so two
\* refreshes, or a refresh and a logout, can pass the lookup together.
ExchangedOnce ==
    \A t, u \in Tokens :
        token[t].parent # None /\ token[t].parent = token[u].parent => t = u

=============================================================================
