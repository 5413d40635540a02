------------------------------ MODULE Throttle ------------------------------
(***************************************************************************)
(* The rate limiter of one external provider (pipeline/throttle.py) and    *)
(* its callers (pipeline/classify.py, stt.py, geocoding.py).               *)
(*                                                                         *)
(* reserve_slot is one short transaction that holds the provider's row     *)
(* lock from before it reads the clock until its commit.  The caller then  *)
(* sleeps until its slot and makes its call some time later.  The names    *)
(* differ from those of JobQueue, whose runs are among the callers, so     *)
(* that one module can speak of both.                                      *)
(***************************************************************************)
EXTENDS Naturals, FiniteSets

CONSTANTS
    Callers,      \* pipeline runs, geocodings, transcriptions under way
    Interval,     \* min_interval
    MaxTime,      \* bound: when the clock stops
    MaxLostSlots  \* bound: callers that die between their slot and their call

ASSUME ThrottleAssumption ==
    /\ Interval \in Nat
    /\ MaxTime \in Nat
    /\ MaxLostSlots \in Nat

VARIABLES
    now,         \* the clock
    nextAllowed, \* next_allowed_at; 0 while the row is missing
    phase,       \* what each caller is doing
    slot,        \* the slot it last reserved
    lostSlots    \* slots whose caller died so far

throttleVars == <<now, nextAllowed, phase, slot, lostSlots>>

ThrottleInit ==
    /\ now = 0
    /\ nextAllowed = 0
    /\ phase = [c \in Callers |-> "new"]
    /\ slot = [c \in Callers |-> 0]
    /\ lostSlots = 0

-----------------------------------------------------------------------------

\* A variant of NextSlot below that forgets the slots given out.
SlotNow == now

\* A variant of NextSlot below that hands out the slot after the free one.
SlotAfterNext == IF nextAllowed > now THEN nextAllowed + Interval
                                      ELSE now + Interval

\* The row is inserted with next_allowed_at = now if it is missing.
NextSlot == IF nextAllowed > now THEN nextAllowed ELSE now

ReserveSlot(c) ==
    /\ phase[c] # "waiting"
    /\ slot' = [slot EXCEPT ![c] = NextSlot]
    /\ nextAllowed' = NextSlot + Interval
    /\ phase' = [phase EXCEPT ![c] = "waiting"]
    /\ UNCHANGED <<now, lostSlots>>

\* The caller's sleep is over and the request goes out.
CallProvider(c) ==
    /\ phase[c] = "waiting"
    /\ now >= slot[c]
    /\ phase' = [phase EXCEPT ![c] = "called"]
    /\ UNCHANGED <<now, nextAllowed, slot, lostSlots>>

\* The caller dies; its slot is lost.
LoseSlot(c) ==
    /\ phase[c] = "waiting"
    /\ lostSlots < MaxLostSlots
    /\ lostSlots' = lostSlots + 1
    /\ phase' = [phase EXCEPT ![c] = "called"]
    /\ UNCHANGED <<now, nextAllowed, slot>>

Tick ==
    /\ now < MaxTime
    /\ now' = now + 1
    /\ UNCHANGED <<nextAllowed, phase, slot, lostSlots>>

ThrottleNext ==
    \/ Tick
    \/ \E c \in Callers : ReserveSlot(c) \/ CallProvider(c) \/ LoseSlot(c)

ThrottleSpec == ThrottleInit /\ [][ThrottleNext]_throttleVars

-----------------------------------------------------------------------------
(***************************************************************************)
(* Properties.                                                             *)
(***************************************************************************)

ThrottleTypeOK ==
    /\ now \in Nat
    /\ nextAllowed \in Nat
    /\ phase \in [Callers -> {"new", "waiting", "called"}]
    /\ slot \in [Callers -> Nat]
    /\ lostSlots \in Nat

Reserved(c) == phase[c] # "new"

Spaced(c, d) == slot[c] + Interval <= slot[d] \/ slot[d] + Interval <= slot[c]

\* Any two slots held by different callers, in whatever processes they run,
\* are at least min_interval apart (throttle.py: "a >=min_interval spacing
\* holds across all processes").
SlotsSpaced ==
    \A c, d \in Callers :
        c # d /\ Reserved(c) /\ Reserved(d) => Spaced(c, d)

Waiting == {c \in Callers : phase[c] = "waiting"}

\* The next free slot is never further off than one interval for each caller
\* that waits and each slot that was lost, and one for the last call: nobody
\* waits for slots that nobody holds.
BacklogBounded ==
    nextAllowed <= now + Interval * (Cardinality(Waiting) + lostSlots + 1)
=============================================================================
