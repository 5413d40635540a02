\* Three complaints in a row; the middle one is confirmed again and rewritten.
CONSTANTS
    g1 = g1
    g2 = g2
    g3 = g3
    t1 = t1
    t2 = t2
    t3 = t3
    t4 = t4
    r1 = r1
    Complaints = {g1, g2, g3}
    Categories = {"water", "roads"}
    Near <- Chain
    Confirms = {t1, t2, t3, t4}
    Rewrites = {r1}
    Of <- Calls
    None = None
SPECIFICATION Spec
CONSTRAINT OnlyMiddleVaries
INVARIANTS MasterStands CountNotInflated
\* Finalized complaints leave nothing to do.
CHECK_DEADLOCK FALSE
