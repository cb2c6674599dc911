----------------------------- MODULE MCProjects -----------------------------
\* One project and three calls: one creates it, two change project or
\* timeline, at once or one after the other.
EXTENDS Projects, TLC

MCCalls == Permutations(Calls)
=============================================================================
