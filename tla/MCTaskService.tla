--------------------------- MODULE MCTaskService ---------------------------
\* One task and three calls: one creates the task, two work on it, at once or
\* one after the other, and either may start before task.created is out.
EXTENDS TaskService, TLC

MCCalls == Permutations(Calls)
=============================================================================
