---------------------------- MODULE WebhookInbox ----------------------------
(***************************************************************************)
(* Inbound WhatsApp webhooks, from the stored event to the conversation    *)
(* turn of every message in it (whatsapp/api.py, whatsapp/processing.py,   *)
(* repositories/webhook_events.py).                                        *)
(*                                                                         *)
(* drive_event is run by the request's BackgroundTask and by the worker's  *)
(* sweep.  A driver leases the event for 60 s, stores its messages, and    *)
(* gives a turn to those it stored first.  A turn may run the pipeline, so *)
(* it can outlive the lease at any point.  AUTO_REPLY_ENABLED is on.       *)
(*                                                                         *)
(* Inbox is put before the usual names (Init, Next, Spec, ...) so that one *)
(* module can speak of the inbox and of the conversations it feeds.        *)
(***************************************************************************)
EXTENDS Naturals, Sequences, SequencesExt

CONSTANTS
    Messages,     \* WhatsApp message ids
    Events,       \* webhook_events rows
    Payload,      \* the messages each event carries, by received_at
    Workers,      \* worker.py processes
    Requests,     \* webhook requests with their BackgroundTask
    NoEvent,      \* what an idle driver is working on
    MaxAttempts,  \* MAX_EVENT_ATTEMPTS
    MaxFailures,  \* bound: turns and stores that raise
    MaxCrashes    \* bound: drivers that die with their process

Drivers == Workers \cup Requests

ASSUME WebhookInboxAssumption ==
    /\ Payload \in [Events -> Seq(Messages)]
    /\ NoEvent \notin Events
    /\ Workers \cap Requests = {}
    /\ MaxAttempts \in Nat \ {0}
    /\ MaxFailures \in Nat
    /\ MaxCrashes \in Nat

VARIABLES
    event,     \* "none", "open" (processed_at is NULL) or "processed"
    lease,     \* locked_until: "none" (NULL), "held" (future), "over" (past)
    attempts,  \* the event's attempt_count
    stored,    \* messages with a whatsapp_messages row
    consumed,  \* messages with an fsm_message_consumptions row: the turn's
               \* writes are committed with it
    driver,    \* what each driver is doing
    failures,  \* failures so far
    crashes    \* crashes so far

inboxVars ==
    <<event, lease, attempts, stored, consumed, driver, failures, crashes>>

\* todo: the messages still to be given a turn; ok: no turn has raised.
Driver == [pc : {"idle", "claim", "poisoned", "store", "turns"},
           on : Events \cup {NoEvent}, todo : SUBSET Messages, ok : BOOLEAN]

NoDriver == [pc |-> "idle", on |-> NoEvent, todo |-> {}, ok |-> TRUE]

InboxInit ==
    /\ event = [e \in Events |-> "none"]
    /\ lease = [e \in Events |-> "none"]
    /\ attempts = [e \in Events |-> 0]
    /\ stored = {}
    /\ consumed = {}
    /\ driver = [d \in Drivers |-> NoDriver]
    /\ failures = 0
    /\ crashes = 0

-----------------------------------------------------------------------------

Resting(d) == driver[d].pc = "idle"

Begin(d, e) == driver' = [driver EXCEPT ![d].pc = "claim", ![d].on = e]

\* A variant of EndDrive below that keeps the queue of messages.
EndDriveOnly(d) == driver' = [driver EXCEPT ![d].pc = "idle"]

EndDrive(d) == driver' = [driver EXCEPT ![d] = NoDriver]

\* receive_webhook: the event is committed, Meta gets its answer, and the
\* BackgroundTask is started.
ReceiveWebhook(d, e) ==
    /\ d \in Requests /\ Resting(d)
    /\ event[e] = "none"
    /\ event' = [event EXCEPT ![e] = "open"]
    /\ Begin(d, e)
    /\ UNCHANGED <<lease, attempts, stored, consumed, failures, crashes>>

\* A variant of Free below that never takes a dead driver's event.
FreeOnce(e) == event[e] = "open" /\ lease[e] = "none"

Free(e) == event[e] = "open" /\ lease[e] # "held"

\* process_pending_events reaches one of the events it fetched.
FetchUnprocessed(d, e) ==
    /\ d \in Workers /\ Resting(d)
    /\ Free(e)
    /\ Begin(d, e)
    /\ UNCHANGED <<event, lease, attempts, stored, consumed, failures,
                   crashes>>

SkipClaimed(d) ==
    /\ driver[d].pc = "claim"
    /\ ~Free(driver[d].on)
    /\ EndDrive(d)
    /\ UNCHANGED <<event, lease, attempts, stored, consumed, failures,
                   crashes>>

Poisoned(n) == n > MaxAttempts

ClaimEvent(d) ==
    LET e == driver[d].on
    IN  /\ driver[d].pc = "claim"
        /\ Free(e)
        /\ lease' = [lease EXCEPT ![e] = "held"]
        /\ attempts' = [attempts EXCEPT ![e] = @ + 1]
        /\ driver' = [driver EXCEPT ![d].pc =
                         IF Poisoned(attempts'[e]) THEN "poisoned" ELSE "store"]
        /\ UNCHANGED <<event, stored, consumed, failures, crashes>>

MessagesOf(e) == ToSet(Payload[e])

\* A variant of Fresh below that takes every message of the event.
FreshAll(e) == MessagesOf(e)

\* The messages of e whose rows this driver creates; a row that exists, by
\* another event or an earlier attempt, is left alone.
Fresh(e) == MessagesOf(e) \ stored

\* A variant of StoreIncoming below that asks what is fresh after the insert.
StoreThenAsk(d) ==
    LET e == driver[d].on
    IN  /\ driver[d].pc = "store"
        /\ stored' = stored \cup MessagesOf(e)
        /\ driver' = [driver EXCEPT ![d].pc = "turns",
                                    ![d].todo = MessagesOf(e) \ stored']
        /\ UNCHANGED <<event, lease, attempts, consumed, failures, crashes>>

StoreIncoming(d) ==
    LET e == driver[d].on
    IN  /\ driver[d].pc = "store"
        /\ stored' = stored \cup MessagesOf(e)
        /\ driver' = [driver EXCEPT ![d].pc = "turns", ![d].todo = Fresh(e)]
        /\ UNCHANGED <<event, lease, attempts, consumed, failures, crashes>>

\* The store raises: rolled back, and the event is left to its lease.
StoreFails(d) ==
    /\ driver[d].pc = "store"
    /\ failures < MaxFailures
    /\ failures' = failures + 1
    /\ EndDrive(d)
    /\ UNCHANGED <<event, lease, attempts, stored, consumed, crashes>>

\* The turns are taken in the order of the messages in the payload.
InTurn(d, m) ==
    LET payload == Payload[driver[d].on]
    IN  /\ driver[d].pc = "turns"
        /\ m \in driver[d].todo
        /\ \E i \in DOMAIN payload :
              /\ payload[i] = m
              /\ \A j \in 1..(i - 1) : payload[j] \notin driver[d].todo

NextTurn(d, m, good) ==
    driver' = [driver EXCEPT ![d].todo = @ \ {m}, ![d].ok = @ /\ good]

\* _handle_inbound commits the turn, or finds the message consumed.
HandleInbound(d) ==
    \E m \in Messages :
        /\ InTurn(d, m)
        /\ consumed' = consumed \cup {m}
        /\ NextTurn(d, m, TRUE)
        /\ UNCHANGED <<event, lease, attempts, stored, failures, crashes>>

\* _handle_inbound raises, before its commit or in what follows it.
HandleInboundFails(d) ==
    \E m \in Messages :
        /\ InTurn(d, m)
        /\ failures < MaxFailures
        /\ failures' = failures + 1
        /\ consumed' \in {consumed, consumed \cup {m}}
        /\ NextTurn(d, m, FALSE)
        /\ UNCHANGED <<event, lease, attempts, stored, crashes>>

\* A turn raised: the event is left unprocessed, to be claimed again.
LeaveUnprocessed(d) ==
    /\ driver[d].pc = "turns" /\ driver[d].todo = {}
    /\ ~driver[d].ok
    /\ EndDrive(d)
    /\ UNCHANGED <<event, lease, attempts, stored, consumed, failures,
                   crashes>>

\* mark_event_processed, after the last turn or for a poisoned event.
MarkProcessed(d) ==
    LET e == driver[d].on
    IN  /\ \/ driver[d].pc = "poisoned"
           \/ /\ driver[d].pc = "turns" /\ driver[d].todo = {}
              /\ driver[d].ok
        /\ event' = [event EXCEPT ![e] = "processed"]
        /\ lease' = [lease EXCEPT ![e] = "none"]
        /\ EndDrive(d)
        /\ UNCHANGED <<attempts, stored, consumed, failures, crashes>>

LeaseExpires(e) ==
    /\ lease[e] = "held"
    /\ lease' = [lease EXCEPT ![e] = "over"]
    /\ UNCHANGED <<event, attempts, stored, consumed, driver, failures,
                   crashes>>

Crash(d) ==
    /\ ~Resting(d)
    /\ crashes < MaxCrashes
    /\ crashes' = crashes + 1
    /\ EndDrive(d)
    /\ UNCHANGED <<event, lease, attempts, stored, consumed, failures>>

DriveEvent(d) ==
    \/ SkipClaimed(d) \/ ClaimEvent(d) \/ StoreIncoming(d) \/ StoreFails(d)
    \/ HandleInbound(d) \/ HandleInboundFails(d)
    \/ LeaveUnprocessed(d) \/ MarkProcessed(d)

InboxNext ==
    \/ \E d \in Drivers : DriveEvent(d) \/ Crash(d)
    \/ \E d \in Drivers, e \in Events :
          ReceiveWebhook(d, e) \/ FetchUnprocessed(d, e)
    \/ \E e \in Events : LeaseExpires(e)

InboxSpec == InboxInit /\ [][InboxNext]_inboxVars

(***************************************************************************)
(* Drivers run on, leases run out, and the sweep takes the oldest events   *)
(* first.  Nothing makes a webhook arrive.                                 *)
(***************************************************************************)
InboxFairness ==
    /\ \A d \in Drivers : WF_inboxVars(DriveEvent(d))
    /\ \A e \in Events :
          /\ WF_inboxVars(LeaseExpires(e))
          /\ SF_inboxVars(\E d \in Workers : FetchUnprocessed(d, e))

FairInboxSpec == InboxSpec /\ InboxFairness

-----------------------------------------------------------------------------
(***************************************************************************)
(* Properties.                                                             *)
(***************************************************************************)

InboxTypeOK ==
    /\ event \in [Events -> {"none", "open", "processed"}]
    /\ lease \in [Events -> {"none", "held", "over"}]
    /\ attempts \in [Events -> Nat]
    /\ stored \subseteq Messages
    /\ consumed \subseteq Messages
    /\ driver \in [Drivers -> Driver]
    /\ \A d \in Drivers : driver[d].pc # "turns" => driver[d].todo = {}
    /\ failures \in 0..MaxFailures
    /\ crashes \in 0..MaxCrashes

\* A message is in the hands of at most one driver, whatever webhooks repeat
\* it and however often its event is claimed again (webhook_events.py: both
\* paths drive an event "without double-processing it").
OneHandlerPerMessage ==
    \A c, d \in Drivers :
        c # d => driver[c].todo \cap driver[d].todo = {}

\* An event is processed only when each of its messages has had its turn or
\* is about to (processing.py: "marked processed only once every message's FSM
\* turn has been attempted successfully").
ProcessedMeansHandled ==
    \A e \in Events, m \in Messages :
        event[e] = "processed" /\ m \in MessagesOf(e)
            => \/ m \in consumed
               \/ \E d \in Drivers : m \in driver[d].todo

\* Every event that arrived is processed in the end, whatever fails.
EveryEventEnds ==
    \A e \in Events : event[e] = "open" ~> event[e] = "processed"

\* Unless something fails, every message that arrived has its turn, even when
\* leases run out under slow drivers.
EveryMessageHandled ==
    \A m \in Messages :
        (\E e \in Events : event[e] # "none" /\ m \in MessagesOf(e))
            ~> m \in consumed \/ failures > 0 \/ crashes > 0
=============================================================================
