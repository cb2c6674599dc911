------------------------ MODULE MCDeadlineReminders ------------------------
\* On day 1 the deadline 5 is still a day too far ahead, and the deadline 1
\* is upcoming; on day 2 the first is upcoming and the second overdue.
EXTENDS DeadlineReminders
=============================================================================
