------------------------------- MODULE MCDedup -------------------------------
(***************************************************************************)
(* An instance of Dedup for TLC: three complaints in a row.  The middle    *)
(* one, near both others, is confirmed twice and rewritten once.           *)
(***************************************************************************)
EXTENDS Dedup

CONSTANTS g1, g2, g3, t1, t2, t3, t4, r1

\* g1 - g2 - g3: each near its neighbours only.
Chain == {<<g1, g2>>, <<g2, g1>>, <<g2, g3>>, <<g3, g2>>}

Calls == [c \in {t1, t2, t3, t4, r1} |->
             CASE c = t1 -> g1 [] c = t3 -> g3 [] OTHER -> g2]

\* Bound: the middle complaint alone has a mismatch or another category.
Alike(g) == status[g] # "photo_mismatch" /\ category[g] = "water"

OnlyMiddleVaries == Alike(g1) /\ Alike(g3)
=============================================================================
