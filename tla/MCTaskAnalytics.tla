--------------------------- MODULE MCTaskAnalytics ---------------------------
\* MCTaskAnalytics.cfg: three events of one task, enough to assign it to
\* another user and back, to change what was said before and to complete it.
\* MCTaskReopened.cfg: five events of one user's task without hours, enough
\* to complete it, reopen it and complete it again, in time or late.
EXTENDS TaskAnalytics

\* User 1 is one of those the migration inserts.
MCDemo == [u \in Users |-> IF u = 1 /\ 1 \in Departments THEN 1 ELSE 0]

\* No hours where task.created is overtaken: with one value of them to report
\* it could set none back.
HoursInOrder ==
    \A t \in Tasks :
        /\ late[t].planned # 0 => EventsOf(t) = {}
        /\ (\E i \in EventsOf(t) : HasLabor(log[i])) =>
              \A i \in EventsOf(t) : log[i].kind = "created" <=> i = 1
==============================================================================
