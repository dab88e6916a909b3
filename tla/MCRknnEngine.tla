---------------------------- MODULE MCRknnEngine ---------------------------
\* Three contexts and two models, one of which does not classify: enough for
\* two contexts to be lost and the third to be the last the driver has.
EXTENDS RknnEngine, TLC

CONSTANTS c1, c2, c3, m1, m2, w1, w2

MCContexts == {c1, c2, c3}
MCModels == {m1, m2}
MCClassifies == {m1}
MCWindows == {w1, w2}

\* Contexts are handed out in any order, and nothing tells the windows apart.
Symmetry == Permutations(MCContexts) \cup Permutations(MCWindows)
=============================================================================
