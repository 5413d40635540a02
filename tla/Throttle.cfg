\* Three callers, an interval of two ticks, one lost slot.
CONSTANTS
    Callers = {c1, c2, c3}
    Interval = 2
    MaxTime = 8
    MaxLostSlots = 1
SPECIFICATION ThrottleSpec
SYMMETRY CallerSymmetry
INVARIANTS SlotsSpaced BacklogBounded
\* The clock stops at MaxTime.
CHECK_DEADLOCK FALSE
