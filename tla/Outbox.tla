------------------------------- MODULE Outbox -------------------------------
(***************************************************************************)
(* Outbound WhatsApp replies: rows persisted as "pending", claimed by a    *)
(* 30 s lease, sent to the Graph API and marked (whatsapp/dispatch.py,     *)
(* repositories/messages.py).                                              *)
(*                                                                         *)
(* The request that wrote a reply sends it once, right after its commit;   *)
(* the worker's sweep fetches the rows still to be sent and goes through   *)
(* them in one session.  That session already holds the fetched row when   *)
(* it claims it, so the attempt count that is tested is the fetched one    *)
(* plus one, not the one in the database (SQLAlchemy evaluates the claim's *)
(* UPDATE on the loaded object, and session.get returns that object).      *)
(***************************************************************************)
EXTENDS Naturals, FiniteSets

CONSTANTS
    Messages,    \* replies
    Sweepers,    \* worker.py processes
    Requests,    \* requests and BackgroundTasks that write and send a reply
    NoMessage,   \* what an idle sender is working on
    MaxSend,     \* MAX_SEND_ATTEMPTS
    SlowSends,   \* TRUE if a call can outlive LEASE_SECONDS
    MaxLost,     \* bound: calls that fail, or whose answer is lost
    MaxCrashes   \* bound: senders that die with their process

Senders == Sweepers \cup Requests

ASSUME OutboxAssumption ==
    /\ NoMessage \notin Messages
    /\ Sweepers \cap Requests = {}
    /\ MaxSend \in Nat \ {0}
    /\ SlowSends \in BOOLEAN
    /\ MaxLost \in Nat
    /\ MaxCrashes \in Nat

VARIABLES
    status,    \* the row's status, "none" before it is written
    lease,     \* locked_until: "none" (NULL), "held" (future), "over" (past)
    attempts,  \* the row's attempt_count
    sender,    \* what each sender is doing
    calls,     \* how often Graph was called with the message
    accepted,  \* how often Graph accepted it
    lost,      \* failures so far
    crashes    \* crashes so far

vars == <<status, lease, attempts, sender, calls, accepted, lost, crashes>>

Terminal == {"sent", "failed", "blocked_24h"}

Status == {"none", "pending", "sending"} \cup Terminal

\* n: the attempt_count of the fetched row.
Sender == [pc : {"idle", "claim", "call", "done", "error"},
           on : Messages \cup {NoMessage}, n : Nat]

NoSender == [pc |-> "idle", on |-> NoMessage, n |-> 0]

Init ==
    /\ status = [m \in Messages |-> "none"]
    /\ lease = [m \in Messages |-> "none"]
    /\ attempts = [m \in Messages |-> 0]
    /\ sender = [s \in Senders |-> NoSender]
    /\ calls = [m \in Messages |-> 0]
    /\ accepted = [m \in Messages |-> 0]
    /\ lost = 0
    /\ crashes = 0

-----------------------------------------------------------------------------

Idle(s) == sender[s].pc = "idle"

Begin(s, m) ==
    sender' = [sender EXCEPT ![s] = [pc |-> "claim", on |-> m,
                                     n |-> attempts[m]]]

Goto(s, pc) == sender' = [sender EXCEPT ![s].pc = pc]

Finish(s) == sender' = [sender EXCEPT ![s] = NoSender]

InFlight(s, m) == sender[s].on = m /\ sender[s].pc \in {"call", "done", "error"}

\* store_outgoing_pending and the commit of the turn; send_pending is next.
StoreOutgoingPending(s, m) ==
    /\ s \in Requests /\ Idle(s)
    /\ status[m] = "none"
    /\ status' = [status EXCEPT ![m] = "pending"]
    /\ Begin(s, m)
    /\ UNCHANGED <<lease, attempts, calls, accepted, lost, crashes>>

\* A variant of Sendable below that takes a leased row, too.
SendableUnleased(m) == status[m] \in {"pending", "sending"}

\* A variant of Sendable below that never takes a crashed sender's row.
SendableOnce(m) == status[m] = "pending"

\* The rows fetch_sweepable_outbound selects and claim_outbound can lease.
Sendable(m) ==
    \/ status[m] = "pending"
    \/ status[m] = "sending" /\ lease[m] = "over"

\* sweep_pending_outbound reaches one of the rows it fetches.
FetchSweepable(s, m) ==
    /\ s \in Sweepers /\ Idle(s)
    /\ Sendable(m)
    /\ Begin(s, m)
    /\ UNCHANGED <<status, lease, attempts, calls, accepted, lost, crashes>>

\* claim_outbound leases nothing.
SkipClaimed(s) ==
    /\ sender[s].pc = "claim"
    /\ ~Sendable(sender[s].on)
    /\ Finish(s)
    /\ UNCHANGED <<status, lease, attempts, calls, accepted, lost, crashes>>

\* The attempt_count send_pending tests: a request's session reads the row
\* after its claim, a sweep's session has it from its fetch.
SeenAttempts(s) ==
    IF s \in Sweepers THEN sender[s].n + 1 ELSE attempts[sender[s].on] + 1

\* A variant of TooMany below that allows two attempts more.
TooManyLate(n) == n > MaxSend + 2

TooMany(n) == n > MaxSend

\* Claimed and parked in one transaction: used up, outside the 24 h window, or
\* a login prompt whose challenge is over.
ClaimAndPark(s) ==
    LET m == sender[s].on
    IN  /\ sender[s].pc = "claim"
        /\ Sendable(m)
        /\ \/ status' = [status EXCEPT ![m] = "failed"]
           \/ /\ ~TooMany(SeenAttempts(s))
              /\ status' = [status EXCEPT ![m] = "blocked_24h"]
        /\ lease' = [lease EXCEPT ![m] = "none"]
        /\ attempts' = [attempts EXCEPT ![m] = @ + 1]
        /\ Finish(s)
        /\ UNCHANGED <<calls, accepted, lost, crashes>>

\* Claimed and committed; the HTTP call is next.
ClaimAndSend(s) ==
    LET m == sender[s].on
    IN  /\ sender[s].pc = "claim"
        /\ Sendable(m)
        /\ ~TooMany(SeenAttempts(s))
        /\ status' = [status EXCEPT ![m] = "sending"]
        /\ lease' = [lease EXCEPT ![m] = "held"]
        /\ attempts' = [attempts EXCEPT ![m] = @ + 1]
        /\ calls' = [calls EXCEPT ![m] = @ + 1]
        /\ Goto(s, "call")
        /\ UNCHANGED <<accepted, lost, crashes>>

GraphAccepts(s) ==
    /\ sender[s].pc = "call"
    /\ accepted' = [accepted EXCEPT ![sender[s].on] = @ + 1]
    /\ Goto(s, "done")
    /\ UNCHANGED <<status, lease, attempts, calls, lost, crashes>>

\* Refused, unreachable, or accepted with an answer that cannot be read.
GraphFails(s) ==
    /\ sender[s].pc = "call"
    /\ lost < MaxLost
    /\ lost' = lost + 1
    /\ \/ UNCHANGED accepted
       \/ accepted' = [accepted EXCEPT ![sender[s].on] = @ + 1]
    /\ Goto(s, "error")
    /\ UNCHANGED <<status, lease, attempts, calls, crashes>>

\* mark_outbound, whatever the row says by now.
Mark(s, new) ==
    /\ status' = [status EXCEPT ![sender[s].on] = new]
    /\ lease' = [lease EXCEPT ![sender[s].on] = "none"]
    /\ Finish(s)
    /\ UNCHANGED <<attempts, calls, accepted, lost, crashes>>

MarkSent(s) == sender[s].pc = "done" /\ Mark(s, "sent")

\* A variant of MarkPending below that takes any answer for a success.
MarkAnswered(s) == sender[s].pc = "error" /\ Mark(s, "sent")

MarkPending(s) == sender[s].pc = "error" /\ Mark(s, "pending")

LeaseExpires(m) ==
    /\ lease[m] = "held"
    /\ SlowSends \/ \A s \in Senders : ~InFlight(s, m)
    /\ lease' = [lease EXCEPT ![m] = "over"]
    /\ UNCHANGED <<status, attempts, sender, calls, accepted, lost, crashes>>

\* The process dies, before the answer of Graph or after it.
Crash(s) ==
    /\ ~Idle(s)
    /\ crashes < MaxCrashes
    /\ crashes' = crashes + 1
    /\ Finish(s)
    /\ UNCHANGED <<status, lease, attempts, calls, accepted, lost>>

Send(s) ==
    \/ SkipClaimed(s) \/ ClaimAndPark(s) \/ ClaimAndSend(s)
    \/ GraphAccepts(s) \/ GraphFails(s) \/ MarkSent(s) \/ MarkPending(s)

Next ==
    \/ \E s \in Senders : Send(s) \/ Crash(s)
    \/ \E s \in Senders, m \in Messages :
          StoreOutgoingPending(s, m) \/ FetchSweepable(s, m)
    \/ \E m \in Messages : LeaseExpires(m)

Spec == Init /\ [][Next]_vars

(***************************************************************************)
(* Senders run on, leases run out, and every sweep starts with the oldest  *)
(* rows, so each row is reached again and again.                           *)
(***************************************************************************)
Fairness ==
    /\ \A s \in Senders : WF_vars(Send(s))
    /\ \A m \in Messages :
          /\ WF_vars(LeaseExpires(m))
          /\ SF_vars(\E s \in Sweepers : FetchSweepable(s, m))

FairSpec == Spec /\ Fairness

-----------------------------------------------------------------------------
(***************************************************************************)
(* Properties.                                                             *)
(***************************************************************************)

TypeOK ==
    /\ status \in [Messages -> Status]
    /\ lease \in [Messages -> {"none", "held", "over"}]
    /\ attempts \in [Messages -> Nat]
    /\ sender \in [Senders -> Sender]
    /\ calls \in [Messages -> Nat]
    /\ accepted \in [Messages -> Nat]
    /\ lost \in 0..MaxLost
    /\ crashes \in 0..MaxCrashes

\* "sent" is never claimed of a message Graph has not accepted (dispatch.py:
\* "`sent' means Graph accepted the message").
SentMeansAccepted ==
    \A m \in Messages : status[m] = "sent" => accepted[m] > 0

\* A reply as a piece of leased work, and the senders at work on it.
RowState ==
    [m \in Messages |-> IF status[m] = "none" THEN "absent"
                        ELSE IF status[m] \in Terminal THEN "closed" ELSE "open"]

RowHolders == [m \in Messages |-> {s \in Senders : InFlight(s, m)}]

Leased == INSTANCE LeasedWork WITH
    Items <- Messages, Actors <- Senders,
    state <- RowState, holders <- RowHolders

\* Two senders are never at the same message, a message is closed by the one
\* that is at it, and what ended stays ended, however sweeps, requests, crashes
\* and expired leases interleave (claim_outbound: "Only one caller wins"; no
\* late answer revives or rewrites a message).  It needs calls that end within
\* their lease.
LeasesExclude == Leased!Spec

\* Graph is called at most MAX_SEND_ATTEMPTS times, and once more for each
\* sweep that fetched the row before the cap was reached.
CallsBounded ==
    \A m \in Messages : calls[m] <= MaxSend + Cardinality(Sweepers)

\* Every persisted reply is sent, parked or given up.
EveryReplyEnds ==
    \A m \in Messages : status[m] # "none" ~> status[m] \in Terminal
=============================================================================
