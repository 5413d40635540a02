---------------------------- MODULE OutboxProofs ----------------------------
(***************************************************************************)
(* Theorems about Outbox, for any replies, sweeps and requests, any cap on *)
(* attempts and any number of lost answers and crashes.                    *)
(***************************************************************************)
EXTENDS Outbox, FiniteSetTheorems, TLAPS

-----------------------------------------------------------------------------
(***************************************************************************)
(* Type correctness, and that "sent" is no false claim.  Neither depends   *)
(* on leases: a sender that is done has its own answer from Graph.         *)
(***************************************************************************)

AtWork == {"claim", "call", "done", "error"}

TInv ==
    /\ TypeOK
    /\ \A s \in Senders :
          /\ sender[s].pc \in AtWork => sender[s].on \in Messages
          /\ sender[s].pc = "done" => accepted[sender[s].on] > 0
    /\ SentMeansAccepted

LEMMA TInvInit == Init => TInv
<1> SUFFICES ASSUME Init PROVE TInv
  OBVIOUS
<1>1. NoSender \in Sender
  BY DEF NoSender, Sender
<1>2. TypeOK
  BY <1>1, OutboxAssumption DEF Init, TypeOK, Status
<1> QED  BY <1>2 DEF Init, TInv, NoSender, AtWork, SentMeansAccepted

\* What the operators on senders leave behind.
LEMMA SenderSteps ==
    ASSUME TInv, NEW s \in Senders
    PROVE  /\ \A m \in Messages :
                 Begin(s, m) =>
                    /\ sender' \in [Senders -> Sender]
                    /\ sender'[s].pc = "claim" /\ sender'[s].on = m
                    /\ \A t \in Senders \ {s} : sender'[t] = sender[t]
           /\ \A pc \in AtWork :
                 Goto(s, pc) =>
                    /\ sender' \in [Senders -> Sender]
                    /\ sender'[s].pc = pc /\ sender'[s].on = sender[s].on
                    /\ \A t \in Senders \ {s} : sender'[t] = sender[t]
           /\ Finish(s) =>
                 /\ sender' \in [Senders -> Sender]
                 /\ sender'[s].pc = "idle" /\ sender'[s].on = NoMessage
                 /\ \A t \in Senders \ {s} : sender'[t] = sender[t]
<1>0. sender \in [Senders -> Sender] /\ attempts \in [Messages -> Nat]
  BY DEF TInv, TypeOK
<1>1. ASSUME NEW m \in Messages, Begin(s, m)
      PROVE  /\ sender' \in [Senders -> Sender]
             /\ sender'[s].pc = "claim" /\ sender'[s].on = m
             /\ \A t \in Senders \ {s} : sender'[t] = sender[t]
  BY <1>0, <1>1 DEF Begin, Sender
<1>2. ASSUME NEW pc \in AtWork, Goto(s, pc)
      PROVE  /\ sender' \in [Senders -> Sender]
             /\ sender'[s].pc = pc /\ sender'[s].on = sender[s].on
             /\ \A t \in Senders \ {s} : sender'[t] = sender[t]
  <2>1. sender[s] \in Sender
    BY <1>0
  <2>2. [sender[s] EXCEPT !.pc = pc] \in Sender
        /\ [sender[s] EXCEPT !.pc = pc].pc = pc
        /\ [sender[s] EXCEPT !.pc = pc].on = sender[s].on
    BY <2>1 DEF Sender, AtWork
  <2> QED  BY <1>0, <1>2, <2>2 DEF Goto
<1>3. ASSUME Finish(s)
      PROVE  /\ sender' \in [Senders -> Sender]
             /\ sender'[s].pc = "idle" /\ sender'[s].on = NoMessage
             /\ \A t \in Senders \ {s} : sender'[t] = sender[t]
  <2>1. NoSender \in Sender
    BY DEF NoSender, Sender
  <2> QED  BY <1>0, <1>3, <2>1 DEF Finish, NoSender
<1> QED  BY <1>1, <1>2, <1>3

\* Facts about the sender that acts.
LEMMA TInvFacts ==
    ASSUME TInv, NEW s \in Senders
    PROVE  /\ sender[s] \in Sender
           /\ sender[s].pc \in AtWork => sender[s].on \in Messages
           /\ sender[s].pc = "done" => accepted[sender[s].on] > 0
BY DEF TInv, TypeOK

\* What every action but the ones of the row's status and of Graph keeps.
LEMMA TInvStep ==
    ASSUME TInv, Next,
           TypeOK', SentMeansAccepted',
           NEW s \in Senders,
           \A t \in Senders \ {s} : sender'[t] = sender[t],
           \A m \in Messages : accepted[m] > 0 => accepted'[m] > 0,
           sender'[s].pc \in AtWork => sender'[s].on \in Messages,
           sender'[s].pc = "done" => accepted'[sender'[s].on] > 0
    PROVE  TInv'
<1> SUFFICES ASSUME NEW t \in Senders
             PROVE  /\ sender'[t].pc \in AtWork => sender'[t].on \in Messages
                    /\ sender'[t].pc = "done" => accepted'[sender'[t].on] > 0
  BY DEF TInv
<1>1. CASE t = s
  BY <1>1
<1>2. CASE t # s
  <2>1. sender'[t] = sender[t]
    BY <1>2
  <2>2. /\ sender[t].pc \in AtWork => sender[t].on \in Messages
        /\ sender[t].pc = "done" => accepted[sender[t].on] > 0
    BY TInvFacts
  <2> QED  BY <2>1, <2>2 DEF AtWork
<1> QED  BY <1>1, <1>2

LEMMA TInvNext == TInv /\ [Next]_vars => TInv'
<1> SUFFICES ASSUME TInv, [Next]_vars PROVE TInv'
  OBVIOUS
<1>t. /\ status \in [Messages -> Status]
      /\ lease \in [Messages -> {"none", "held", "over"}]
      /\ attempts \in [Messages -> Nat]
      /\ sender \in [Senders -> Sender]
      /\ calls \in [Messages -> Nat]
      /\ accepted \in [Messages -> Nat]
      /\ lost \in 0..MaxLost
      /\ crashes \in 0..MaxCrashes
      /\ SentMeansAccepted
  BY DEF TInv, TypeOK
<1> USE OutboxAssumption
<1>1. ASSUME NEW s \in Senders, NEW m \in Messages, StoreOutgoingPending(s, m)
      PROVE  TInv'
  <2>1. /\ Begin(s, m) /\ Next
        /\ status' = [status EXCEPT ![m] = "pending"]
        /\ UNCHANGED <<lease, attempts, calls, accepted, lost, crashes>>
    BY <1>1 DEF StoreOutgoingPending, Next
  <2>2. /\ sender' \in [Senders -> Sender]
        /\ sender'[s].pc = "claim" /\ sender'[s].on = m
        /\ \A t \in Senders \ {s} : sender'[t] = sender[t]
    BY <2>1, SenderSteps
  <2>3. TypeOK'
    BY <1>t, <2>1, <2>2 DEF TypeOK, Status
  <2>4. SentMeansAccepted'
    BY <1>t, <2>1 DEF SentMeansAccepted
  <2> QED  BY <2>1, <2>2, <2>3, <2>4, TInvStep
<1>2. ASSUME NEW s \in Senders, NEW m \in Messages, FetchSweepable(s, m)
      PROVE  TInv'
  <2>1. /\ Begin(s, m) /\ Next
        /\ UNCHANGED <<status, lease, attempts, calls, accepted, lost, crashes>>
    BY <1>2 DEF FetchSweepable, Next
  <2>2. /\ sender' \in [Senders -> Sender]
        /\ sender'[s].pc = "claim" /\ sender'[s].on = m
        /\ \A t \in Senders \ {s} : sender'[t] = sender[t]
    BY <2>1, SenderSteps
  <2>3. TypeOK'
    BY <1>t, <2>1, <2>2 DEF TypeOK
  <2>4. SentMeansAccepted'
    BY <1>t, <2>1 DEF SentMeansAccepted
  <2> QED  BY <2>1, <2>2, <2>3, <2>4, TInvStep
<1>3. ASSUME NEW s \in Senders, SkipClaimed(s) \/ Crash(s)
      PROVE  TInv'
  <2>1. /\ Finish(s) /\ Next
        /\ UNCHANGED <<status, lease, attempts, calls, accepted, lost>>
        /\ crashes' \in 0..MaxCrashes
    BY <1>t, <1>3 DEF SkipClaimed, Crash, Next, Send
  <2>2. /\ sender' \in [Senders -> Sender]
        /\ sender'[s].pc = "idle"
        /\ \A t \in Senders \ {s} : sender'[t] = sender[t]
    BY <2>1, SenderSteps
  <2>3. TypeOK'
    BY <1>t, <2>1, <2>2 DEF TypeOK
  <2>4. SentMeansAccepted'
    BY <1>t, <2>1 DEF SentMeansAccepted
  <2>5. sender'[s].pc \notin AtWork /\ sender'[s].pc # "done"
    BY <2>2 DEF AtWork
  <2> QED  BY <2>1, <2>2, <2>3, <2>4, <2>5, TInvStep
<1>4. ASSUME NEW s \in Senders, ClaimAndPark(s)
      PROVE  TInv'
  <2>1. PICK m \in Messages :
           /\ sender[s].on = m
           /\ \E new \in {"failed", "blocked_24h"} :
                 status' = [status EXCEPT ![m] = new]
           /\ lease' = [lease EXCEPT ![m] = "none"]
           /\ attempts' = [attempts EXCEPT ![m] = @ + 1]
    BY <1>4, TInvFacts DEF ClaimAndPark, AtWork
  <2>2. /\ Finish(s) /\ Next
        /\ UNCHANGED <<calls, accepted, lost, crashes>>
    BY <1>4 DEF ClaimAndPark, Next, Send
  <2>3. /\ sender' \in [Senders -> Sender]
        /\ sender'[s].pc = "idle"
        /\ \A t \in Senders \ {s} : sender'[t] = sender[t]
    BY <2>2, SenderSteps
  <2>4. TypeOK'
    BY <1>t, <2>1, <2>2, <2>3 DEF TypeOK, Status, Terminal
  <2>5. SentMeansAccepted'
    BY <1>t, <2>1, <2>2 DEF SentMeansAccepted
  <2>6. sender'[s].pc \notin AtWork /\ sender'[s].pc # "done"
    BY <2>3 DEF AtWork
  <2> QED  BY <2>2, <2>3, <2>4, <2>5, <2>6, TInvStep
<1>5. ASSUME NEW s \in Senders, ClaimAndSend(s)
      PROVE  TInv'
  <2>1. PICK m \in Messages :
           /\ sender[s].on = m
           /\ status' = [status EXCEPT ![m] = "sending"]
           /\ lease' = [lease EXCEPT ![m] = "held"]
           /\ attempts' = [attempts EXCEPT ![m] = @ + 1]
           /\ calls' = [calls EXCEPT ![m] = @ + 1]
    BY <1>5, TInvFacts DEF ClaimAndSend, AtWork
  <2>2. /\ Goto(s, "call") /\ Next
        /\ UNCHANGED <<accepted, lost, crashes>>
    BY <1>5 DEF ClaimAndSend, Next, Send
  <2>3. /\ sender' \in [Senders -> Sender]
        /\ sender'[s].pc = "call" /\ sender'[s].on = m
        /\ \A t \in Senders \ {s} : sender'[t] = sender[t]
    BY <2>1, <2>2, SenderSteps DEF AtWork
  <2>4. TypeOK'
    BY <1>t, <2>1, <2>2, <2>3 DEF TypeOK, Status
  <2>5. SentMeansAccepted'
    BY <1>t, <2>1, <2>2 DEF SentMeansAccepted
  <2> QED  BY <2>2, <2>3, <2>4, <2>5, TInvStep
<1>6. ASSUME NEW s \in Senders, GraphAccepts(s) \/ GraphFails(s)
      PROVE  TInv'
  <2>1. PICK m \in Messages :
           /\ sender[s].on = m
           /\ \/ accepted' = accepted /\ Goto(s, "error")
              \/ /\ accepted' = [accepted EXCEPT ![m] = @ + 1]
                 /\ Goto(s, "done") \/ Goto(s, "error")
    BY <1>6, TInvFacts DEF GraphAccepts, GraphFails, AtWork
  <2>2. /\ UNCHANGED <<status, lease, attempts, calls, crashes>>
        /\ lost' \in 0..MaxLost
        /\ Next
    BY <1>t, <1>6 DEF GraphAccepts, GraphFails, Next, Send
  <2>3. /\ sender' \in [Senders -> Sender]
        /\ sender'[s].pc \in {"done", "error"} /\ sender'[s].on = m
        /\ sender'[s].pc = "done" =>
              accepted' = [accepted EXCEPT ![m] = @ + 1]
        /\ \A t \in Senders \ {s} : sender'[t] = sender[t]
    BY <2>1, SenderSteps DEF AtWork
  <2>4. /\ accepted' \in [Messages -> Nat]
        /\ \A x \in Messages : accepted[x] > 0 => accepted'[x] > 0
        /\ sender'[s].pc = "done" => accepted'[m] > 0
    BY <1>t, <2>1, <2>3
  <2>5. TypeOK'
    BY <1>t, <2>2, <2>3, <2>4 DEF TypeOK
  <2>6. SentMeansAccepted'
    BY <1>t, <2>2, <2>4 DEF SentMeansAccepted
  <2> QED  BY <2>2, <2>3, <2>4, <2>5, <2>6, TInvStep
<1>7. ASSUME NEW s \in Senders, MarkSent(s) \/ MarkPending(s)
      PROVE  TInv'
  <2>1. PICK m \in Messages :
           /\ sender[s].on = m
           /\ lease' = [lease EXCEPT ![m] = "none"]
           /\ \/ /\ status' = [status EXCEPT ![m] = "sent"]
                 /\ accepted[m] > 0
              \/ status' = [status EXCEPT ![m] = "pending"]
    BY <1>7, TInvFacts DEF MarkSent, MarkPending, Mark, AtWork
  <2>2. /\ Finish(s) /\ Next
        /\ UNCHANGED <<attempts, calls, accepted, lost, crashes>>
    BY <1>7 DEF MarkSent, MarkPending, Mark, Next, Send
  <2>3. /\ sender' \in [Senders -> Sender]
        /\ sender'[s].pc = "idle"
        /\ \A t \in Senders \ {s} : sender'[t] = sender[t]
    BY <2>2, SenderSteps
  <2>4. TypeOK'
    BY <1>t, <2>1, <2>2, <2>3 DEF TypeOK, Status, Terminal
  <2>5. SentMeansAccepted'
    BY <1>t, <2>1, <2>2 DEF SentMeansAccepted
  <2>6. sender'[s].pc \notin AtWork /\ sender'[s].pc # "done"
    BY <2>3 DEF AtWork
  <2> QED  BY <2>2, <2>3, <2>4, <2>5, <2>6, TInvStep
<1>8. ASSUME NEW m \in Messages, LeaseExpires(m)
      PROVE  TInv'
  <2>1. /\ lease' \in [Messages -> {"none", "held", "over"}]
        /\ UNCHANGED <<status, attempts, sender, calls, accepted, lost,
                       crashes>>
    BY <1>t, <1>8 DEF LeaseExpires
  <2> QED  BY <1>t, <2>1 DEF TInv, TypeOK, SentMeansAccepted
<1>9. CASE UNCHANGED vars
  BY <1>9 DEF TInv, TypeOK, SentMeansAccepted, vars
<1> QED
  BY <1>1, <1>2, <1>3, <1>4, <1>5, <1>6, <1>7, <1>8, <1>9 DEF Next, Send

\* Every variable keeps its type, whatever senders, leases and crashes do.
THEOREM TypeCorrect == Spec => []TypeOK
<1>1. TInv => TypeOK
  BY DEF TInv
<1> QED  BY <1>1, TInvInit, TInvNext, PTL DEF Spec

\* A reply marked "sent" was accepted by Graph, however many senders were at
\* it and wherever they died.
THEOREM SentIsAccepted == Spec => []SentMeansAccepted
<1>1. TInv => SentMeansAccepted
  BY DEF TInv
<1> QED  BY <1>1, TInvInit, TInvNext, PTL DEF Spec

-----------------------------------------------------------------------------
(***************************************************************************)
(* Leases.  As long as a call ends within its lease, a message somebody is *)
(* sending is "sending" under a lease that has not run out, so that nobody *)
(* else can claim it.                                                      *)
(***************************************************************************)

LInv ==
    /\ TInv
    /\ \A s \in Senders, m \in Messages :
          InFlight(s, m) => status[m] = "sending" /\ lease[m] = "held"
    /\ \A s, t \in Senders, m \in Messages :
          InFlight(s, m) /\ InFlight(t, m) => s = t

LEMMA LInvInit == Init => LInv
<1> SUFFICES ASSUME Init PROVE LInv
  OBVIOUS
<1>1. \A s \in Senders, m \in Messages : ~InFlight(s, m)
  BY DEF Init, InFlight, NoSender
<1> QED  BY <1>1, TInvInit DEF LInv

\* The holders after a step of one sender.
LEMMA HoldersStep ==
    ASSUME NEW s \in Senders,
           \A t \in Senders \ {s} : sender'[t] = sender[t]
    PROVE  /\ \A t \in Senders \ {s}, x \in Messages :
                 InFlight(t, x)' <=> InFlight(t, x)
           /\ \A x \in Messages :
                 RowHolders'[x] = IF InFlight(s, x)' THEN RowHolders[x] \cup {s}
                                  ELSE RowHolders[x] \ {s}
<1>1. \A t \in Senders \ {s}, x \in Messages :
         InFlight(t, x)' <=> InFlight(t, x)
  BY DEF InFlight
<1>2. ASSUME NEW x \in Messages
      PROVE  RowHolders'[x] = IF InFlight(s, x)' THEN RowHolders[x] \cup {s}
                              ELSE RowHolders[x] \ {s}
  <2>1. /\ RowHolders[x] = {t \in Senders : InFlight(t, x)}
        /\ RowHolders'[x] = {t \in Senders : InFlight(t, x)'}
    BY DEF RowHolders
  <2> QED  BY <1>1, <2>1
<1> QED  BY <1>1, <1>2

\* A sender that is not at work, before and after: nobody's work changes.
LEMMA HoldersSame ==
    ASSUME LInv, NEW s \in Senders,
           \A t \in Senders \ {s} : sender'[t] = sender[t],
           \A x \in Messages : InFlight(s, x)' <=> InFlight(s, x)
    PROVE  /\ RowHolders' = RowHolders
           /\ \A t \in Senders, x \in Messages :
                 InFlight(t, x)' <=> InFlight(t, x)
<1>1. \A t \in Senders, x \in Messages : InFlight(t, x)' <=> InFlight(t, x)
  BY HoldersStep
<1>2. \A x \in Messages : {t \in Senders : InFlight(t, x)'}
                          = {t \in Senders : InFlight(t, x)}
  BY <1>1
<1> QED  BY <1>1, <1>2 DEF RowHolders

\* A sender that was at work on m and stops: m is free, and only m.
LEMMA HoldersDrop ==
    ASSUME LInv, NEW s \in Senders, NEW m \in Messages,
           \A t \in Senders \ {s} : sender'[t] = sender[t],
           InFlight(s, m), sender'[s].pc = "idle"
    PROVE  /\ RowHolders[m] = {s}
           /\ RowHolders' = [x \in Messages |->
                                IF x \in {m} THEN {} ELSE RowHolders[x]]
           /\ \A t \in Senders, x \in Messages :
                 InFlight(t, x)' <=> InFlight(t, x) /\ t # s
<1>1. \A x \in Messages : ~InFlight(s, x)'
  BY DEF InFlight
<1>2. \A t \in Senders, x \in Messages :
         InFlight(t, x)' <=> InFlight(t, x) /\ t # s
  BY <1>1, HoldersStep
<1>3. \A x \in Messages : RowHolders[x] = {t \in Senders : InFlight(t, x)}
  BY DEF RowHolders
<1>4. RowHolders[m] = {s}
  BY <1>3 DEF LInv
<1>5. ASSUME NEW x \in Messages
      PROVE  {t \in Senders : InFlight(t, x)'}
             = IF x \in {m} THEN {} ELSE RowHolders[x]
  <2>1. CASE x = m
    BY <1>2, <2>1 DEF LInv
  <2>2. CASE x # m
    <3>1. ~InFlight(s, x)
      BY <2>2 DEF InFlight
    <3> QED  BY <1>2, <1>3, <2>2, <3>1
  <2> QED  BY <2>1, <2>2
<1>6. RowHolders' = [x \in Messages |-> {t \in Senders : InFlight(t, x)'}]
  BY DEF RowHolders
<1> QED  BY <1>2, <1>4, <1>5, <1>6

\* Nobody is at work on a row that can be claimed.
LEMMA SendableIsFree ==
    ASSUME LInv, NEW m \in Messages, Sendable(m)
    PROVE  /\ \A t \in Senders : ~InFlight(t, m)
           /\ RowHolders[m] = {}
           /\ RowState[m] = "open"
<1>1. \A t \in Senders : ~InFlight(t, m)
  BY DEF LInv, Sendable
<1>2. RowHolders[m] = {}
  BY <1>1 DEF RowHolders
<1>3. RowState[m] = "open"
  BY DEF RowState, Sendable, Terminal
<1> QED  BY <1>1, <1>2, <1>3

\* The actions of LeasedWork, on the rows.
LEMMA LeasedActions ==
    /\ \A m \in Messages :
          Leased!Add(m) <=> /\ RowState[m] = "absent"
                            /\ RowState' = [RowState EXCEPT ![m] = "open"]
                            /\ RowHolders' = RowHolders
    /\ \A s \in Senders, new \in SUBSET Messages :
          Leased!Take(s, new) <=>
             /\ \A m \in new : RowState[m] = "open" /\ RowHolders[m] = {}
             /\ RowHolders' = [m \in Messages |->
                                  IF m \in new THEN {s} ELSE RowHolders[m]]
             /\ RowState' = RowState
    /\ \A s \in Senders, some \in SUBSET Messages :
          Leased!Release(s, some) <=>
             /\ \A m \in some : RowHolders[m] = {s}
             /\ RowHolders' = [m \in Messages |->
                                  IF m \in some THEN {} ELSE RowHolders[m]]
             /\ RowState' = RowState
    /\ \A s \in Senders, m \in Messages :
          Leased!Close(s, m) <=>
             /\ RowState[m] = "open"
             /\ RowHolders[m] \subseteq {s}
             /\ RowState' = [RowState EXCEPT ![m] = "closed"]
             /\ RowHolders' = [RowHolders EXCEPT ![m] = {}]
    /\ Leased!Next <=>
          \/ \E m \in Messages : Leased!Add(m)
          \/ \E s \in Senders, is \in SUBSET Messages :
                Leased!Take(s, is) \/ Leased!Release(s, is)
          \/ \E s \in Senders, m \in Messages : Leased!Close(s, m)
<1>1. \A m \in Messages :
          Leased!Add(m) <=> /\ RowState[m] = "absent"
                            /\ RowState' = [RowState EXCEPT ![m] = "open"]
                            /\ RowHolders' = RowHolders
  BY DEF Leased!Add
<1>2. \A s \in Senders, new \in SUBSET Messages :
          Leased!Take(s, new) <=>
             /\ \A m \in new : RowState[m] = "open" /\ RowHolders[m] = {}
             /\ RowHolders' = [m \in Messages |->
                                  IF m \in new THEN {s} ELSE RowHolders[m]]
             /\ RowState' = RowState
  BY DEF Leased!Take
<1>3. \A s \in Senders, some \in SUBSET Messages :
          Leased!Release(s, some) <=>
             /\ \A m \in some : RowHolders[m] = {s}
             /\ RowHolders' = [m \in Messages |->
                                  IF m \in some THEN {} ELSE RowHolders[m]]
             /\ RowState' = RowState
  BY DEF Leased!Release
<1>4. \A s \in Senders, m \in Messages :
          Leased!Close(s, m) <=>
             /\ RowState[m] = "open"
             /\ RowHolders[m] \subseteq {s}
             /\ RowState' = [RowState EXCEPT ![m] = "closed"]
             /\ RowHolders' = [RowHolders EXCEPT ![m] = {}]
  BY DEF Leased!Close
<1>5. Leased!Next <=>
          \/ \E m \in Messages : Leased!Add(m)
          \/ \E s \in Senders, is \in SUBSET Messages :
                Leased!Take(s, is) \/ Leased!Release(s, is)
          \/ \E s \in Senders, m \in Messages : Leased!Close(s, m)
  BY DEF Leased!Next
<1> QED  BY <1>1, <1>2, <1>3, <1>4, <1>5

\* What a step keeps of the leases, given what became of the senders.
LEMMA LInvKept ==
    ASSUME LInv, TInv',
           \A t \in Senders, x \in Messages :
              InFlight(t, x)' =>
                 InFlight(t, x) /\ status'[x] = status[x] /\ lease'[x] = lease[x]
    PROVE  LInv'
BY DEF LInv

\* Every step keeps the leases and is a step of LeasedWork.
LEMMA LInvNext ==
    ASSUME LInv, ~SlowSends, [Next]_vars
    PROVE  LInv' /\ [Leased!Next]_<<RowState, RowHolders>>
<1> DEFINE Goal == LInv' /\ [Leased!Next]_<<RowState, RowHolders>>
<1>i. TInv /\ TInv'
  BY TInvNext DEF LInv
<1>t. /\ status \in [Messages -> Status]
      /\ lease \in [Messages -> {"none", "held", "over"}]
      /\ sender \in [Senders -> Sender]
  BY <1>i DEF TInv, TypeOK
<1>1. ASSUME NEW s \in Senders, NEW m \in Messages, StoreOutgoingPending(s, m)
      PROVE  Goal
  <2>1. /\ Begin(s, m) /\ sender[s].pc = "idle"
        /\ status[m] = "none"
        /\ status' = [status EXCEPT ![m] = "pending"]
        /\ lease' = lease
    BY <1>1 DEF StoreOutgoingPending, Idle
  <2>2. /\ sender'[s].pc = "claim"
        /\ \A t \in Senders \ {s} : sender'[t] = sender[t]
    BY <1>i, <2>1, SenderSteps
  <2>3. \A x \in Messages : ~InFlight(s, x) /\ ~InFlight(s, x)'
    BY <2>1, <2>2 DEF InFlight
  <2>4. /\ RowHolders' = RowHolders
        /\ \A t \in Senders, x \in Messages :
              InFlight(t, x)' <=> InFlight(t, x)
    BY <2>2, <2>3, HoldersSame
  <2>5. \A t \in Senders : ~InFlight(t, m)
    BY <2>1 DEF LInv
  <2>6. LInv'
    BY <1>i, <1>t, <2>1, <2>4, <2>5, LInvKept
  <2>7. RowState[m] = "absent" /\ RowState' = [RowState EXCEPT ![m] = "open"]
    BY <1>t, <2>1 DEF RowState, Terminal
  <2>8. Leased!Add(m)
    BY <2>4, <2>7, LeasedActions
  <2> QED  BY <2>6, <2>8, LeasedActions
<1>2. ASSUME NEW s \in Senders,
             (\E m \in Messages : FetchSweepable(s, m)) \/ SkipClaimed(s)
      PROVE  Goal
  <2>1. /\ sender[s].pc \in {"idle", "claim"}
        /\ (\E m \in Messages : Begin(s, m)) \/ Finish(s)
        /\ status' = status /\ lease' = lease
    BY <1>2 DEF FetchSweepable, SkipClaimed, Idle
  <2>2. /\ sender'[s].pc \in {"idle", "claim"}
        /\ \A t \in Senders \ {s} : sender'[t] = sender[t]
    BY <1>i, <2>1, SenderSteps
  <2>3. \A x \in Messages : ~InFlight(s, x) /\ ~InFlight(s, x)'
    BY <2>1, <2>2 DEF InFlight
  <2>4. /\ RowHolders' = RowHolders
        /\ \A t \in Senders, x \in Messages :
              InFlight(t, x)' <=> InFlight(t, x)
    BY <2>2, <2>3, HoldersSame
  <2>5. LInv'
    BY <1>i, <2>1, <2>4, LInvKept
  <2>6. RowState' = RowState
    BY <2>1 DEF RowState
  <2> QED  BY <2>4, <2>5, <2>6
<1>3. ASSUME NEW s \in Senders, ClaimAndPark(s)
      PROVE  Goal
  <2>1. PICK m \in Messages :
           /\ sender[s].on = m /\ Sendable(m)
           /\ \E new \in {"failed", "blocked_24h"} :
                 status' = [status EXCEPT ![m] = new]
           /\ lease' = [lease EXCEPT ![m] = "none"]
    BY <1>i, <1>3, TInvFacts DEF ClaimAndPark, AtWork
  <2>2. sender[s].pc = "claim" /\ Finish(s)
    BY <1>3 DEF ClaimAndPark
  <2>3. /\ sender'[s].pc = "idle"
        /\ \A t \in Senders \ {s} : sender'[t] = sender[t]
    BY <1>i, <2>2, SenderSteps
  <2>4. \A x \in Messages : ~InFlight(s, x) /\ ~InFlight(s, x)'
    BY <2>2, <2>3 DEF InFlight
  <2>5. /\ RowHolders' = RowHolders
        /\ \A t \in Senders, x \in Messages :
              InFlight(t, x)' <=> InFlight(t, x)
    BY <2>3, <2>4, HoldersSame
  <2>6. /\ \A t \in Senders : ~InFlight(t, m)
        /\ RowHolders[m] = {}
        /\ RowState[m] = "open"
    BY <2>1, SendableIsFree
  <2>7. LInv'
    BY <1>i, <1>t, <2>1, <2>5, <2>6, LInvKept
  <2>8. RowState' = [RowState EXCEPT ![m] = "closed"]
    BY <1>t, <2>1 DEF RowState, Terminal
  <2>9. RowHolders' = [RowHolders EXCEPT ![m] = {}]
    BY <2>5, <2>6 DEF RowHolders
  <2>10. Leased!Close(s, m)
    BY <2>6, <2>8, <2>9, LeasedActions
  <2> QED  BY <2>7, <2>10, LeasedActions
<1>4. ASSUME NEW s \in Senders, ClaimAndSend(s)
      PROVE  Goal
  <2>1. PICK m \in Messages :
           /\ sender[s].on = m /\ Sendable(m)
           /\ status' = [status EXCEPT ![m] = "sending"]
           /\ lease' = [lease EXCEPT ![m] = "held"]
    BY <1>i, <1>4, TInvFacts DEF ClaimAndSend, AtWork
  <2>2. sender[s].pc = "claim" /\ Goto(s, "call")
    BY <1>4 DEF ClaimAndSend
  <2>3. /\ sender'[s].pc = "call" /\ sender'[s].on = m
        /\ \A t \in Senders \ {s} : sender'[t] = sender[t]
    BY <1>i, <2>1, <2>2, SenderSteps DEF AtWork
  <2>4. \A x \in Messages : ~InFlight(s, x) /\ (InFlight(s, x)' <=> x = m)
    BY <2>2, <2>3 DEF InFlight
  <2>5. /\ \A t \in Senders : ~InFlight(t, m)
        /\ RowHolders[m] = {}
        /\ RowState[m] = "open"
    BY <2>1, SendableIsFree
  <2>6. \A t \in Senders, x \in Messages :
           InFlight(t, x)' <=> (IF x = m THEN t = s ELSE InFlight(t, x))
    BY <2>3, <2>4, <2>5, HoldersStep
  <2>7. LInv'
    BY <1>i, <1>t, <2>1, <2>6 DEF LInv
  <2>8. RowState' = RowState
    BY <1>t, <2>1 DEF RowState, Terminal, Sendable
  <2>9. RowHolders' = [x \in Messages |->
                          IF x \in {m} THEN {s} ELSE RowHolders[x]]
    <3>1. \A x \in Messages : {t \in Senders : InFlight(t, x)'}
             = IF x \in {m} THEN {s} ELSE {t \in Senders : InFlight(t, x)}
      BY <2>6
    <3> QED  BY <3>1 DEF RowHolders
  <2>10. Leased!Take(s, {m})
    BY <2>5, <2>8, <2>9, LeasedActions
  <2> QED  BY <2>7, <2>10, LeasedActions
<1>5. ASSUME NEW s \in Senders, GraphAccepts(s) \/ GraphFails(s)
      PROVE  Goal
  <2>1. /\ sender[s].pc = "call"
        /\ Goto(s, "done") \/ Goto(s, "error")
        /\ status' = status /\ lease' = lease
    BY <1>5 DEF GraphAccepts, GraphFails
  <2>2. /\ sender'[s].pc \in {"done", "error"} /\ sender'[s].on = sender[s].on
        /\ \A t \in Senders \ {s} : sender'[t] = sender[t]
    BY <1>i, <2>1, SenderSteps DEF AtWork
  <2>3. \A x \in Messages : InFlight(s, x)' <=> InFlight(s, x)
    BY <2>1, <2>2 DEF InFlight
  <2>4. /\ RowHolders' = RowHolders
        /\ \A t \in Senders, x \in Messages :
              InFlight(t, x)' <=> InFlight(t, x)
    BY <2>2, <2>3, HoldersSame
  <2>5. LInv'
    BY <1>i, <2>1, <2>4, LInvKept
  <2>6. RowState' = RowState
    BY <2>1 DEF RowState
  <2> QED  BY <2>4, <2>5, <2>6
<1>6. ASSUME NEW s \in Senders, MarkSent(s) \/ MarkPending(s)
      PROVE  Goal
  <2>1. PICK m \in Messages :
           /\ sender[s].on = m
           /\ \/ status' = [status EXCEPT ![m] = "sent"]
              \/ status' = [status EXCEPT ![m] = "pending"]
           /\ lease' = [lease EXCEPT ![m] = "none"]
    BY <1>i, <1>6, TInvFacts DEF MarkSent, MarkPending, Mark, AtWork
  <2>2. sender[s].pc \in {"done", "error"} /\ Finish(s)
    BY <1>6 DEF MarkSent, MarkPending, Mark
  <2>3. /\ sender'[s].pc = "idle"
        /\ \A t \in Senders \ {s} : sender'[t] = sender[t]
    BY <1>i, <2>2, SenderSteps
  <2>4. InFlight(s, m)
    BY <2>1, <2>2 DEF InFlight
  <2>5. /\ RowHolders[m] = {s}
        /\ RowHolders' = [x \in Messages |->
                             IF x \in {m} THEN {} ELSE RowHolders[x]]
        /\ \A t \in Senders, x \in Messages :
              InFlight(t, x)' <=> InFlight(t, x) /\ t # s
    BY <2>3, <2>4, HoldersDrop
  <2>6. \A t \in Senders, x \in Messages : InFlight(t, x)' => x # m
    BY <2>4, <2>5 DEF LInv
  <2>7. LInv'
    BY <1>i, <1>t, <2>1, <2>5, <2>6, LInvKept
  <2>8. status[m] = "sending"
    BY <2>4 DEF LInv
  <2>9. RowState[m] = "open"
    BY <2>8 DEF RowState, Terminal
  <2>10. CASE status' = [status EXCEPT ![m] = "sent"]
    <3>1. RowState' = [RowState EXCEPT ![m] = "closed"]
      BY <1>t, <2>10 DEF RowState, Terminal
    <3>2. RowHolders' = [RowHolders EXCEPT ![m] = {}]
      BY <2>5 DEF RowHolders
    <3>3. Leased!Close(s, m)
      BY <2>5, <2>9, <3>1, <3>2, LeasedActions
    <3> QED  BY <2>7, <3>3, LeasedActions
  <2>11. CASE status' = [status EXCEPT ![m] = "pending"]
    <3>1. RowState' = RowState
      BY <1>t, <2>8, <2>11 DEF RowState, Terminal
    <3>2. Leased!Release(s, {m})
      BY <2>5, <3>1, LeasedActions
    <3> QED  BY <2>7, <3>2, LeasedActions
  <2> QED  BY <2>1, <2>10, <2>11
<1>7. ASSUME NEW s \in Senders, Crash(s)
      PROVE  Goal
  <2>1. Finish(s) /\ status' = status /\ lease' = lease
    BY <1>7 DEF Crash
  <2>2. /\ sender'[s].pc = "idle"
        /\ \A t \in Senders \ {s} : sender'[t] = sender[t]
    BY <1>i, <2>1, SenderSteps
  <2>3. RowState' = RowState
    BY <2>1 DEF RowState
  <2>4. CASE \E m \in Messages : InFlight(s, m)
    <3>1. PICK m \in Messages : InFlight(s, m)
      BY <2>4
    <3>2. /\ RowHolders[m] = {s}
          /\ RowHolders' = [x \in Messages |->
                               IF x \in {m} THEN {} ELSE RowHolders[x]]
          /\ \A t \in Senders, x \in Messages :
                InFlight(t, x)' <=> InFlight(t, x) /\ t # s
      BY <2>2, <3>1, HoldersDrop
    <3>3. LInv'
      BY <1>i, <2>1, <3>2, LInvKept
    <3>4. Leased!Release(s, {m})
      BY <2>3, <3>2, LeasedActions
    <3> QED  BY <3>3, <3>4, LeasedActions
  <2>5. CASE \A m \in Messages : ~InFlight(s, m)
    <3>1. \A x \in Messages : InFlight(s, x)' <=> InFlight(s, x)
      BY <2>2, <2>5 DEF InFlight
    <3>2. /\ RowHolders' = RowHolders
          /\ \A t \in Senders, x \in Messages :
                InFlight(t, x)' <=> InFlight(t, x)
      BY <2>2, <3>1, HoldersSame
    <3>3. LInv'
      BY <1>i, <2>1, <3>2, LInvKept
    <3> QED  BY <2>3, <3>2, <3>3
  <2> QED  BY <2>4, <2>5
<1>8. ASSUME NEW m \in Messages, LeaseExpires(m)
      PROVE  Goal
  <2>1. /\ \A s \in Senders : ~InFlight(s, m)
        /\ status' = status /\ sender' = sender
        /\ lease' = [lease EXCEPT ![m] = "over"]
    BY <1>8, ~SlowSends DEF LeaseExpires
  <2>2. \A s \in Senders, x \in Messages : InFlight(s, x)' <=> InFlight(s, x)
    BY <2>1 DEF InFlight
  <2>3. LInv'
    BY <1>i, <1>t, <2>1, <2>2, LInvKept
  <2>4. RowHolders' = RowHolders /\ RowState' = RowState
    BY <2>1 DEF RowHolders, RowState, InFlight
  <2> QED  BY <2>3, <2>4
<1>9. CASE UNCHANGED vars
  <2>1. status' = status /\ lease' = lease /\ sender' = sender
    BY <1>9 DEF vars
  <2>2. \A s \in Senders, x \in Messages : InFlight(s, x)' <=> InFlight(s, x)
    BY <2>1 DEF InFlight
  <2>3. LInv'
    BY <1>i, <2>1, <2>2, LInvKept
  <2>4. RowHolders' = RowHolders /\ RowState' = RowState
    BY <2>1 DEF RowHolders, RowState, InFlight
  <2> QED  BY <2>3, <2>4
<1> QED
  BY <1>1, <1>2, <1>3, <1>4, <1>5, <1>6, <1>7, <1>8, <1>9 DEF Next, Send

LEMMA LeasedInit == Init => Leased!Init
<1> SUFFICES ASSUME Init PROVE Leased!Init
  OBVIOUS
<1>1. RowState = [m \in Messages |-> "absent"]
  BY DEF Init, RowState
<1>2. \A m \in Messages : {s \in Senders : InFlight(s, m)} = {}
  BY DEF Init, InFlight, NoSender
<1>3. RowHolders = [m \in Messages |-> {}]
  BY <1>2 DEF RowHolders
<1> QED  BY <1>1, <1>3 DEF Leased!Init

\* As long as calls end within their lease, the outbox implements the leased
\* work of LeasedWork: one sender at a time is at a reply, and a reply that
\* ended stays ended, for any number of sweeps, requests, losses and crashes.
THEOREM LeasesKept == ASSUME ~SlowSends PROVE Spec => LeasesExclude
<1>1. LInv /\ [Next]_vars => LInv' /\ [Leased!Next]_<<RowState, RowHolders>>
  BY LInvNext
<1>2. LInv /\ [Next]_vars => LInv' /\ [Leased!Next]_(Leased!vars)
  BY <1>1 DEF Leased!vars
<1> QED
  BY <1>2, LInvInit, LeasedInit, PTL DEF Spec, LeasesExclude, Leased!Spec

-----------------------------------------------------------------------------
(***************************************************************************)
(* The number of calls.  Each call is an attempt, and no attempt is begun  *)
(* above the cap except by a sweep that fetched the row below it: such a   *)
(* sweep is counted before it calls.                                       *)
(***************************************************************************)

\* The sweeps that fetched m when it had an attempt left.
Fetched(m) == {s \in Sweepers : /\ sender[s].pc = "claim"
                                /\ sender[s].on = m
                                /\ sender[s].n < MaxSend}

CallsKept(m) ==
    /\ calls[m] <= attempts[m]
    /\ calls[m] + Cardinality(Fetched(m)) <= MaxSend + Cardinality(Sweepers)

CallsInv == TInv /\ \A m \in Messages : CallsKept(m)

LEMMA FetchedCounts ==
    ASSUME IsFiniteSet(Sweepers)
    PROVE  /\ Cardinality(Sweepers) \in Nat
           /\ \A S \in SUBSET Sweepers :
                 /\ Cardinality(S) \in Nat
                 /\ Cardinality(S) <= Cardinality(Sweepers)
                 /\ \A T \in SUBSET S : Cardinality(T) <= Cardinality(S)
                 /\ \A s \in S : Cardinality(S \ {s}) = Cardinality(S) - 1
<1>1. ASSUME NEW S \in SUBSET Sweepers
      PROVE  /\ IsFiniteSet(S)
             /\ Cardinality(S) \in Nat
             /\ Cardinality(S) <= Cardinality(Sweepers)
  BY FS_Subset, FS_CardinalityType
<1>2. ASSUME NEW S \in SUBSET Sweepers, NEW T \in SUBSET S
      PROVE  Cardinality(T) <= Cardinality(S)
  BY <1>1, FS_Subset
<1>3. ASSUME NEW S \in SUBSET Sweepers, NEW s \in S
      PROVE  Cardinality(S \ {s}) = Cardinality(S) - 1
  BY <1>1, FS_RemoveElement
<1> QED  BY <1>1, <1>2, <1>3, FS_CardinalityType

\* A message that is not called with, and that no new sweep has fetched.
LEMMA CallsStay ==
    ASSUME IsFiniteSet(Sweepers), TInv, NEW m \in Messages, CallsKept(m),
           calls'[m] = calls[m], attempts'[m] \in Nat,
           attempts[m] <= attempts'[m],
           Fetched(m)' \subseteq Fetched(m)
    PROVE  CallsKept(m)'
<1>1. /\ calls[m] \in Nat /\ attempts[m] \in Nat /\ MaxSend \in Nat
  BY OutboxAssumption DEF TInv, TypeOK
<1>2. Fetched(m) \in SUBSET Sweepers
  BY DEF Fetched
<1>3. /\ Cardinality(Sweepers) \in Nat
      /\ Cardinality(Fetched(m)) \in Nat
      /\ Cardinality(Fetched(m)') \in Nat
      /\ Cardinality(Fetched(m)') <= Cardinality(Fetched(m))
  BY <1>2, FetchedCounts
<1> QED  BY <1>1, <1>3 DEF CallsKept

\* A message below the cap, whoever fetches it.
LEMMA CallsBelow ==
    ASSUME IsFiniteSet(Sweepers), NEW m \in Messages,
           calls'[m] \in Nat, attempts'[m] \in Nat,
           calls'[m] <= attempts'[m], calls'[m] <= MaxSend
    PROVE  CallsKept(m)'
<1>1. Fetched(m)' \in SUBSET Sweepers
  BY DEF Fetched
<1>2. /\ Cardinality(Sweepers) \in Nat
      /\ Cardinality(Fetched(m)') \in Nat
      /\ Cardinality(Fetched(m)') <= Cardinality(Sweepers)
  BY <1>1, FetchedCounts
<1>3. MaxSend \in Nat
  BY OutboxAssumption
<1> QED  BY <1>2, <1>3 DEF CallsKept

\* The sweeps that have fetched m, after a step of s.
LEMMA FetchedStep ==
    ASSUME NEW s \in Senders, NEW m \in Messages,
           \A t \in Senders \ {s} : sender'[t] = sender[t]
    PROVE  /\ sender'[s].pc # "claim" \/ sender'[s].on # m
                 => Fetched(m)' = Fetched(m) \ {s}
           /\ s \in Requests => Fetched(m)' = Fetched(m)
           /\ ~(sender'[s].n < MaxSend) => Fetched(m)' \subseteq Fetched(m)
<1>1. \A t \in Sweepers \ {s} : t \in Fetched(m)' <=> t \in Fetched(m)
  BY DEF Fetched, Senders
<1>2. sender'[s].pc # "claim" \/ sender'[s].on # m => s \notin Fetched(m)'
  BY DEF Fetched
<1>3. ~(sender'[s].n < MaxSend) => s \notin Fetched(m)'
  BY DEF Fetched
<1>4. s \in Requests => s \notin Sweepers
  BY OutboxAssumption
<1>5. Fetched(m) \subseteq Sweepers /\ Fetched(m)' \subseteq Sweepers
  BY DEF Fetched
<1> QED  BY <1>1, <1>2, <1>3, <1>4, <1>5

LEMMA CallsNext ==
    ASSUME IsFiniteSet(Sweepers), CallsInv, [Next]_vars
    PROVE  CallsInv'
<1>i. TInv /\ TInv'
  BY TInvNext DEF CallsInv
<1>t. /\ attempts \in [Messages -> Nat] /\ attempts' \in [Messages -> Nat]
      /\ calls \in [Messages -> Nat] /\ calls' \in [Messages -> Nat]
      /\ sender \in [Senders -> Sender] /\ MaxSend \in Nat
  BY <1>i, OutboxAssumption DEF TInv, TypeOK
<1> SUFFICES ASSUME NEW m \in Messages
             PROVE  CallsKept(m)'
  BY <1>i DEF CallsInv
<1>k. CallsKept(m)
  BY DEF CallsInv
<1>1. ASSUME NEW s \in Senders, NEW x \in Messages,
             StoreOutgoingPending(s, x)
      PROVE  CallsKept(m)'
  <2>1. /\ s \in Requests /\ Begin(s, x)
        /\ calls' = calls /\ attempts' = attempts
    BY <1>1 DEF StoreOutgoingPending
  <2>2. \A t \in Senders \ {s} : sender'[t] = sender[t]
    BY <1>i, <2>1, SenderSteps
  <2> QED  BY <1>i, <1>k, <1>t, <2>1, <2>2, FetchedStep, CallsStay
<1>2. ASSUME NEW s \in Senders, NEW x \in Messages, FetchSweepable(s, x)
      PROVE  CallsKept(m)'
  <2>1. /\ Begin(s, x)
        /\ calls' = calls /\ attempts' = attempts
    BY <1>2 DEF FetchSweepable
  <2>2. /\ sender'[s].on = x
        /\ \A t \in Senders \ {s} : sender'[t] = sender[t]
    BY <1>i, <2>1, SenderSteps
  <2>3. sender'[s].n = attempts[x]
    BY <1>t, <2>1 DEF Begin
  <2>4. CASE x # m
    BY <1>i, <1>k, <1>t, <2>1, <2>2, <2>4, FetchedStep, CallsStay
  <2>5. CASE x = m /\ attempts[m] >= MaxSend
    BY <1>i, <1>k, <1>t, <2>1, <2>2, <2>3, <2>5, FetchedStep, CallsStay
  <2>6. CASE x = m /\ attempts[m] < MaxSend
    BY <1>k, <1>t, <2>1, <2>6, CallsBelow DEF CallsKept
  <2> QED  BY <1>t, <2>4, <2>5, <2>6
<1>3. ASSUME NEW s \in Senders, ClaimAndSend(s)
      PROVE  CallsKept(m)'
  <2>1. PICK x \in Messages :
           /\ sender[s].on = x
           /\ attempts' = [attempts EXCEPT ![x] = @ + 1]
           /\ calls' = [calls EXCEPT ![x] = @ + 1]
    BY <1>i, <1>3, TInvFacts DEF ClaimAndSend, AtWork
  <2>2. /\ Goto(s, "call") /\ sender[s].pc = "claim"
        /\ ~TooMany(SeenAttempts(s))
    BY <1>3 DEF ClaimAndSend
  <2>3. /\ sender'[s].pc = "call"
        /\ \A t \in Senders \ {s} : sender'[t] = sender[t]
    BY <1>i, <2>2, SenderSteps DEF AtWork
  <2>4. CASE x # m
    <3>1. calls'[m] = calls[m] /\ attempts'[m] = attempts[m]
      BY <1>t, <2>1, <2>4
    <3>2. Fetched(m)' = Fetched(m) \ {s}
      BY <2>3, FetchedStep
    <3> QED  BY <1>i, <1>k, <1>t, <3>1, <3>2, CallsStay
  <2>5. CASE x = m /\ s \notin Sweepers
    <3>1. attempts[m] + 1 <= MaxSend
      BY <1>t, <2>1, <2>2, <2>5 DEF TooMany, SeenAttempts
    <3>2. calls'[m] = calls[m] + 1 /\ attempts'[m] = attempts[m] + 1
      BY <1>t, <2>1, <2>5
    <3> QED  BY <1>k, <1>t, <3>1, <3>2, CallsBelow DEF CallsKept
  <2>6. CASE x = m /\ s \in Sweepers
    <3>1. sender[s].n < MaxSend
      <4>1. sender[s].n \in Nat /\ ~(sender[s].n + 1 > MaxSend)
        BY <1>t, <2>2, <2>6 DEF TooMany, SeenAttempts, Sender
      <4> QED  BY <1>t, <4>1
    <3>2. s \in Fetched(m) /\ Fetched(m)' = Fetched(m) \ {s}
      BY <2>1, <2>2, <2>3, <2>6, <3>1, FetchedStep DEF Fetched
    <3>3. /\ Cardinality(Fetched(m)) \in Nat /\ Cardinality(Sweepers) \in Nat
          /\ Cardinality(Fetched(m)') = Cardinality(Fetched(m)) - 1
      <4>1. Fetched(m) \in SUBSET Sweepers
        BY DEF Fetched
      <4> QED  BY <3>2, <4>1, FetchedCounts
    <3>4. calls'[m] = calls[m] + 1 /\ attempts'[m] = attempts[m] + 1
      BY <1>t, <2>1, <2>6
    <3> QED  BY <1>k, <1>t, <3>3, <3>4 DEF CallsKept
  <2> QED  BY <2>4, <2>5, <2>6
<1>4. ASSUME NEW s \in Senders,
             \/ SkipClaimed(s) \/ ClaimAndPark(s) \/ GraphAccepts(s)
             \/ GraphFails(s) \/ MarkSent(s) \/ MarkPending(s) \/ Crash(s)
      PROVE  CallsKept(m)'
  <2>1. /\ calls' = calls
        /\ Finish(s) \/ Goto(s, "done") \/ Goto(s, "error")
    BY <1>4 DEF SkipClaimed, ClaimAndPark, GraphAccepts, GraphFails, MarkSent,
                MarkPending, Mark, Crash
  <2>2. attempts[m] <= attempts'[m]
    BY <1>i, <1>t, <1>4
       DEF SkipClaimed, ClaimAndPark, GraphAccepts, GraphFails, MarkSent,
           MarkPending, Mark, Crash
  <2>3. /\ sender'[s].pc # "claim"
        /\ \A t \in Senders \ {s} : sender'[t] = sender[t]
    BY <1>i, <2>1, SenderSteps DEF AtWork
  <2> QED  BY <1>i, <1>k, <1>t, <2>1, <2>2, <2>3, FetchedStep, CallsStay
<1>5. CASE (\E x \in Messages : LeaseExpires(x)) \/ UNCHANGED vars
  <2>1. sender' = sender /\ calls' = calls /\ attempts' = attempts
    BY <1>5 DEF LeaseExpires, vars
  <2> QED  BY <1>k, <2>1 DEF CallsKept, Fetched
<1> QED  BY <1>1, <1>2, <1>3, <1>4, <1>5 DEF Next, Send

\* With finitely many workers, whether or not calls end within their lease:
\* Graph is called with a reply at most MAX_SEND_ATTEMPTS times, and once more
\* for each worker that fetched it before (send_pending tests the count of the
\* fetched row).
THEOREM CallsStayBounded ==
    ASSUME IsFiniteSet(Sweepers)
    PROVE  Spec => []CallsBounded
<1>1. Init => CallsInv
  <2> SUFFICES ASSUME Init, NEW m \in Messages PROVE CallsKept(m)
    BY TInvInit DEF CallsInv
  <2>1. Fetched(m) = {}
    BY DEF Init, Fetched, NoSender, Senders
  <2>2. /\ Cardinality(Fetched(m)) = 0
        /\ Cardinality(Sweepers) \in Nat /\ MaxSend \in Nat
    BY <2>1, FS_EmptySet, FetchedCounts, OutboxAssumption
  <2> QED  BY <2>2 DEF Init, CallsKept
<1>2. CallsInv /\ [Next]_vars => CallsInv'
  BY CallsNext
<1>3. CallsInv => CallsBounded
  <2> SUFFICES ASSUME CallsInv, NEW m \in Messages
               PROVE  calls[m] <= MaxSend + Cardinality(Sweepers)
    BY DEF CallsBounded
  <2>1. /\ calls[m] \in Nat /\ MaxSend \in Nat
        /\ Cardinality(Sweepers) \in Nat /\ Cardinality(Fetched(m)) \in Nat
    <3>1. Fetched(m) \in SUBSET Sweepers
      BY DEF Fetched
    <3> QED  BY <3>1, FetchedCounts, OutboxAssumption
             DEF CallsInv, TInv, TypeOK
  <2> QED  BY <2>1 DEF CallsInv, CallsKept
<1> QED  BY <1>1, <1>2, <1>3, PTL DEF Spec
=============================================================================
