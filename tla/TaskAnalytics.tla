--------------------------- MODULE TaskAnalytics ---------------------------
(***************************************************************************)
(* analytics-service's read model of the tasks: the durable queue          *)
(* "analytics_events" consumed with automatic acknowledgement, the one     *)
(* goroutine that records each event in events_raw and then runs the       *)
(* statements of its handler, and the tables task_analytics and users.     *)
(* The broker forgets a message as it delivers it, so whatever the client  *)
(* has buffered, or has in hand when the process dies, is gone.            *)
(*                                                                         *)
(* The events are those of calls on a task that did not overlap (see       *)
(* TaskService), but for the call that creates it: once the row is there   *)
(* others find the task, and task.created may be published after their     *)
(* events.  The i-th event occurred at time i.  0 stands for NULL and for  *)
(* a field an event does not carry.  "planned" stands for planned_hours    *)
(* and activity_type_id.  Projects, departments' names and activity types, *)
(* each one upsert, and cycle times, which follow from created and         *)
(* completed, are left out.                                                *)
(***************************************************************************)
EXTENDS Naturals, Sequences

CONSTANTS
    Tasks,
    Users,
    Movers,       \* users who change their department
    Departments,
    Demo,         \* Demo[u]: the department the migration of
                  \* analytics-service puts u in, 0 if it does not insert u
    Deadlines,    \* times a deadline may fall on
    Hours,        \* hours a client may report or plan
    Statuses,     \* statuses a task may have
    MaxEvents     \* bound on the events published

TODO == 1
COMPLETED == 3

ASSUME AnalyticsAssumption ==
    /\ Movers \subseteq Users
    /\ Users \cup Departments \cup Deadlines \cup Hours \subseteq Nat \ {0}
    /\ Demo \in [Users -> Departments \cup {0}]
    /\ TODO \in Statuses
    /\ Statuses \subseteq 1..4
    /\ MaxEvents \in Nat

EventIds == 1..MaxEvents
NoEvent == 0

\* What an event says of its task.
Facts == [assignee : Users \cup {0}, department : Departments \cup {0},
          deadline : Deadlines \cup {0}, status : Statuses \cup {0},
          planned : Hours \cup {0}, actual : Hours \cup {0}]
Nothing == [k \in {"assignee", "department", "deadline", "status", "planned",
                   "actual"} |-> 0]

EventKinds == {"created", "assigned", "deadline_changed", "status_changed",
               "updated"}
Events == [kind : EventKinds, task : Tasks, says : Facts]

\* A row of task_analytics: facts, and the times that follow from events.
Rows == [facts : Facts, created : EventIds \cup {0}, assigned : EventIds \cup {0},
         completed : EventIds \cup {0}, overdue : BOOLEAN]
NoRow == [facts |-> Nothing, created |-> 0, assigned |-> 0, completed |-> 0,
          overdue |-> FALSE]

Statements == {"save", "task", "user", "labor", "complete"}

VARIABLES
    member,      \* member[u]: the department of u, in project-service
    told,        \* told[t]: what the calls on t say of it, taken together
    late,        \* late[t]: what task.created has yet to say, or Nothing
    log,         \* the events published, in order
    delivered,   \* how many of them have left the broker
    taken,       \* how many of these the goroutine has taken, or lost
    current,     \* the event in hand
    todo,        \* the statements left to run for it
    raw,         \* events with a row in events_raw
    row,         \* row[t]: the row of task_analytics, or NoRow
    department,  \* department[u]: users.department_id
    link,        \* "up" or "cut": the channel is closed
    lost         \* history: events not applied, or not in full

sourceVars == <<member, told, late, log>>
consumerVars == <<taken, current, todo>>
dbVars == <<raw, row, department>>
vars == <<sourceVars, delivered, consumerVars, dbVars, link, lost>>

TypeOK ==
    /\ member \in [Users -> Departments \cup {0}]
    /\ log \in Seq(Events)
    /\ Len(log) <= MaxEvents
    /\ told \in [Tasks -> Facts]
    /\ late \in [Tasks -> Facts]
    /\ delivered \in 0..Len(log)
    /\ taken \in 0..delivered
    /\ current \in 0..taken
    /\ todo \in Seq(Statements)
    /\ todo = <<>> <=> current = NoEvent
    /\ raw \in SUBSET (1..taken)
    /\ row \in [Tasks -> Rows]
    /\ department \in [Users -> Departments \cup {0}]
    /\ link \in {"up", "cut"}
    /\ lost \in SUBSET (1..taken)

Init ==
    /\ member = [u \in Users |-> 0]
    /\ log = <<>>
    /\ told = [t \in Tasks |-> Nothing]
    /\ late = [t \in Tasks |-> Nothing]
    /\ delivered = 0
    /\ taken = 0
    /\ current = NoEvent
    /\ todo = <<>>
    /\ raw = {}
    /\ row = [t \in Tasks |-> NoRow]
    /\ department = Demo
    /\ link = "up"
    /\ lost = {}

-----------------------------------------------------------------------------
(* project-service. *)

Given(new, old) == IF new > 0 THEN new ELSE old
Merge(new, old) == [k \in DOMAIN Nothing |-> Given(new[k], old[k])]
Only(says, fields) ==
    [k \in DOMAIN Nothing |-> IF k \in fields THEN says[k] ELSE 0]

\* Every event names the assignee and the department he is in by then.
WithDepartment(says) == [says EXCEPT !.department = member[says.assignee]]

Send(kind, t, event) ==
    /\ Len(log) < MaxEvents
    /\ log' = Append(log, [kind |-> kind, task |-> t, says |-> event])
    /\ UNCHANGED <<member, delivered, consumerVars, dbVars, link, lost>>

\* A call that writes its task and tells of it.  The bound on events leaves
\* room for the one that is late.
Publish(kind, t, says) ==
    LET event == WithDepartment(says) IN
    /\ late[t] # Nothing => Len(log) + 1 < MaxEvents
    /\ Send(kind, t, event)
    /\ told' = [told EXCEPT ![t] = Merge(event, @)]
    /\ UNCHANGED late

Known(t) == told[t] # Nothing

CreateTask(t, u, d, h) ==
    LET says == [Nothing EXCEPT !.assignee = u, !.deadline = d,
                                !.status = TODO, !.planned = h]
    IN  /\ ~Known(t)
        /\ told' = [told EXCEPT ![t] = says]
        /\ late' = [late EXCEPT ![t] = says]
        /\ UNCHANGED <<member, log, delivered, consumerVars, dbVars, link, lost>>

\* The task as it was inserted, whatever else was published of it meanwhile.
PublishCreated(t) ==
    LET event == WithDepartment(late[t]) IN
    /\ late[t] # Nothing
    /\ Send("created", t, event)
    /\ told' = [told EXCEPT ![t] = Merge(@, event)]
    /\ late' = [late EXCEPT ![t] = Nothing]

AssignTask(t, u) ==
    /\ Known(t)
    /\ told[t].assignee # u
    /\ Publish("assigned", t,
               [Only(told[t], {"deadline", "status"}) EXCEPT !.assignee = u])

ChangeDeadline(t, d) ==
    /\ Known(t)
    /\ told[t].deadline # d
    /\ Publish("deadline_changed", t,
               [Only(told[t], {"assignee"}) EXCEPT !.deadline = d])

\* The hours are those reported with the status, or those there were.
UpdateTaskStatus(t, s, h) ==
    /\ Known(t)
    /\ told[t].status # s
    /\ Publish("status_changed", t,
               [told[t] EXCEPT !.status = s, !.actual = Given(h, @)])

\* Published by UpdateTaskLabor, and by UpdateTask, which names status and
\* deadline only in the former; the handler reads neither.
UpdateTaskLabor(t, p, h) ==
    /\ Known(t)
    /\ Publish("updated", t, [told[t] EXCEPT !.planned = Given(p, @),
                                             !.actual = Given(h, @)])

\* AssignUserToDepartment and RemoveUserFromDepartment publish nothing: no
\* more is heard of the department than the events to come say of it.
ChangeDepartment(u, d) ==
    /\ Len(log) < MaxEvents
    /\ member[u] # d
    /\ member' = [member EXCEPT ![u] = d]
    /\ UNCHANGED <<told, late, log, delivered, consumerVars, dbVars, link, lost>>

-----------------------------------------------------------------------------
(* The consumer. *)

Event == log[current]

\* What the client has buffered is not in the queue any more.
DropBuffer ==
    /\ taken' = delivered
    /\ lost' = lost \cup (taken + 1)..delivered
    /\ UNCHANGED delivered

Deliver ==
    /\ link = "up"
    /\ delivered < Len(log)
    /\ delivered' = delivered + 1
    /\ UNCHANGED <<sourceVars, consumerVars, dbVars, link, lost>>

HasLabor(e) == e.says.planned > 0 \/ e.says.actual > 0

\* Variant: the status is not looked at.
CompletesAnyway(e) == e.kind = "status_changed"

Completes(e) == e.kind = "status_changed" /\ e.says.status = COMPLETED

\* Variant: the event is recorded when all is done.
HandlerRecordsLast(e) ==
    <<"task", "user">>
    \o (IF HasLabor(e) /\ e.kind \in {"created", "status_changed", "updated"}
        THEN <<"labor">> ELSE <<>>)
    \o (IF Completes(e) THEN <<"complete">> ELSE <<>>)
    \o <<"save">>

\* The statements run for an event, in their order.
Handler(e) ==
    <<"save", "task", "user">>
    \o (IF HasLabor(e) /\ e.kind \in {"created", "status_changed", "updated"}
        THEN <<"labor">> ELSE <<>>)
    \o (IF Completes(e) THEN <<"complete">> ELSE <<>>)

TakeEvent ==
    /\ current = NoEvent
    /\ taken < delivered
    /\ taken' = taken + 1
    /\ current' = taken + 1
    /\ todo' = Handler(log[taken + 1])
    /\ UNCHANGED <<sourceVars, delivered, dbVars, link, lost>>

\* Status and deadline as the handler of the event passes them on.
Passed(e) ==
    CASE e.kind \in {"created", "status_changed"} ->
            Only(e.says, {"assignee", "department", "status", "deadline"})
      [] e.kind = "deadline_changed" ->
            Only(e.says, {"assignee", "department", "deadline"})
      [] OTHER -> Only(e.says, {"assignee", "department"})

SaveRawEvent ==
    /\ raw' = raw \cup {current}
    /\ UNCHANGED <<row, department>>

\* Variant: EXCLUDED wins although the event does not have the field.
UpsertedAsPassed(r) ==
    [r EXCEPT !.facts = Passed(Event),
              !.created = Given(@, current),
              !.assigned = IF Event.says.assignee # r.facts.assignee
                           THEN current ELSE @]

\* Variant: every event dates the assignment anew.
UpsertedRedating(r) ==
    [r EXCEPT !.facts = Merge(Passed(Event), @),
              !.created = Given(@, current),
              !.assigned = current]

\* ON CONFLICT (task_id) DO UPDATE SET ...
Upserted(r) ==
    [r EXCEPT !.facts = Merge(Passed(Event), @),
              !.created = Given(@, current),
              !.assigned = IF Event.says.assignee # r.facts.assignee
                           THEN current ELSE @]

UpsertTaskAnalytics ==
    /\ row' = [row EXCEPT ![Event.task] = Upserted(@)]
    /\ UNCHANGED <<raw, department>>

UpsertUser ==
    /\ department' = [department EXCEPT ![Event.says.assignee] =
                         Given(Event.says.department, @)]
    /\ UNCHANGED <<raw, row>>

PatchTaskLabor ==
    /\ row' = [row EXCEPT ![Event.task].facts =
                  Merge(Only(Event.says, {"planned", "actual"}), @)]
    /\ UNCHANGED <<raw, department>>

\* Variant: completed_at is kept once it is set.
UpdateTaskCompletionOnce ==
    /\ row' = [row EXCEPT ![Event.task] =
          [@ EXCEPT !.facts.status = COMPLETED,
                    !.completed = Given(@, current),
                    !.overdue = /\ Event.says.deadline > 0
                                /\ current > Event.says.deadline]]
    /\ UNCHANGED <<raw, department>>

\* Overdue by the deadline the event names.
UpdateTaskCompletion ==
    /\ row' = [row EXCEPT ![Event.task] =
          [@ EXCEPT !.facts.status = COMPLETED,
                    !.completed = current,
                    !.overdue = /\ Event.says.deadline > 0
                                /\ current > Event.says.deadline]]
    /\ UNCHANGED <<raw, department>>

RunStatement ==
    CASE Head(todo) = "save" -> SaveRawEvent
      [] Head(todo) = "task" -> UpsertTaskAnalytics
      [] Head(todo) = "user" -> UpsertUser
      [] Head(todo) = "labor" -> PatchTaskLabor
      [] Head(todo) = "complete" -> UpdateTaskCompletion

\* Variant: the goroutine forgets to let go of the event.
ContinueHolding(rest) ==
    /\ todo' = rest
    /\ UNCHANGED current

\* The goroutine lets go of the event once nothing is left to do.
Continue(rest) ==
    /\ todo' = rest
    /\ current' = IF rest = <<>> THEN NoEvent ELSE current

HandleEvent ==
    /\ current # NoEvent
    /\ RunStatement
    /\ Continue(Tail(todo))
    /\ UNCHANGED <<sourceVars, delivered, taken, link, lost>>

\* A statement reports an error, committed or not.  Those on the assignee and
\* the labour are passed over; any other ends the handler.
FailStatement ==
    /\ current # NoEvent
    /\ RunStatement \/ UNCHANGED dbVars
    /\ Continue(IF Head(todo) \in {"user", "labor"} THEN Tail(todo) ELSE <<>>)
    /\ lost' = lost \cup {current}
    /\ UNCHANGED <<sourceVars, delivered, taken, link>>

\* The channel closes; the event in hand is handled to its end.  Nobody
\* opens the channel again while the process lives.
CutLink ==
    /\ link = "up"
    /\ link' = "cut"
    /\ DropBuffer
    /\ UNCHANGED <<sourceVars, current, todo, dbVars>>

\* Variant: the queue is consumed with manual acknowledgement.
CrashAndRedeliver ==
    /\ link' = "up"
    /\ taken' = IF current = NoEvent THEN taken ELSE current - 1
    /\ delivered' = taken'
    /\ Continue(<<>>)
    /\ UNCHANGED <<sourceVars, dbVars, lost>>

\* The process dies and starts again.
Crash ==
    /\ link' = "up"
    /\ taken' = delivered
    /\ lost' = lost \cup (taken + 1)..delivered \cup ({current} \ {NoEvent})
    /\ Continue(<<>>)
    /\ UNCHANGED <<sourceVars, delivered, dbVars>>

-----------------------------------------------------------------------------
Call(t) ==
    \/ \E u \in Users, d \in Deadlines \cup {0}, h \in Hours \cup {0} :
          CreateTask(t, u, d, h)
    \/ PublishCreated(t)
    \/ \E u \in Users : AssignTask(t, u)
    \/ \E d \in Deadlines : ChangeDeadline(t, d)
    \/ \E s \in Statuses, h \in Hours \cup {0} : UpdateTaskStatus(t, s, h)
    \/ \E p, h \in Hours \cup {0} : UpdateTaskLabor(t, p, h)

Next ==
    \/ \E t \in Tasks : Call(t)
    \/ \E u \in Movers, d \in Departments \cup {0} : ChangeDepartment(u, d)
    \/ Deliver
    \/ TakeEvent
    \/ HandleEvent
    \/ FailStatement
    \/ CutLink
    \/ Crash

Spec == Init /\ [][Next]_vars

-----------------------------------------------------------------------------
(* Properties. *)

EventsOf(t) == {i \in 1..Len(log) : log[i].task = t}
InHand(t) == current # NoEvent /\ Event.task = t
Harmed(t) == EventsOf(t) \cap lost # {}

\* A task whose events have all been published, and handled without a fault.
UpToDate(t) ==
    late[t] = Nothing /\ taken = Len(log) /\ ~InHand(t) /\ ~Harmed(t)

\* The handler of an event writes this field.
Carries(e, k) ==
    \/ Passed(e)[k] # 0
    \/ /\ k \in {"planned", "actual"} /\ e.says[k] # 0
       /\ e.kind \in {"created", "status_changed", "updated"}

\* What task.created says of a field, although later calls came first, and no
\* event since has said otherwise.
SetBack(t, k) ==
    \E i \in EventsOf(t) :
        /\ log[i].kind = "created"
        /\ \E j \in EventsOf(t) : j < i
        /\ \A j \in EventsOf(t) : j > i => ~Carries(log[j], k)
        /\ row[t].facts[k] = log[i].says[k]

\* The row of a task agrees with what the calls on it said, for the reports
\* are built from events alone; but for the fields that a late task.created
\* set back, and those only until the next event that carries them.
RowFollowsEvents ==
    \A t \in Tasks : UpToDate(t) =>
        \A k \in DOMAIN Nothing :
            row[t].facts[k] = told[t][k] \/ SetBack(t, k)

\* assigned_at is the time of the event that made the assignee one: those
\* that only name him again do not move it.
AssignmentIsDated ==
    \A t \in Tasks :
        LET since == row[t].assigned
            Names(i) == log[i].says.assignee = row[t].facts.assignee
        IN  UpToDate(t) /\ EventsOf(t) # {} =>
                /\ since \in EventsOf(t)
                /\ \A i \in EventsOf(t) : i >= since => Names(i)
                /\ \A i \in EventsOf(t) : i < since =>
                      \E j \in EventsOf(t) : i <= j /\ j < since /\ ~Names(j)

\* Whatever was lost before, completed_at is the time of an event that
\* completed the task, and is_overdue is right by the deadline of that event.
CompletionIsVouched ==
    \A t \in Tasks :
        LET c == row[t].completed
        IN  c # 0 => /\ c \in EventsOf(t)
                     /\ log[c].kind = "status_changed"
                     /\ log[c].says.status = COMPLETED
                     /\ row[t].overdue <=> /\ log[c].says.deadline > 0
                                           /\ c > log[c].says.deadline

\* The last completion, if any, has its time, as soon as the goroutine has
\* let go of the task.
CompletedTasksAreDated ==
    \A t \in Tasks : ~InHand(t) /\ ~Harmed(t) =>
        \A i \in EventsOf(t) :
            i <= taken /\ Completes(log[i]) => row[t].completed >= i

\* Each value in task_analytics, and each department in users but those the
\* migration put there, was said by an event that events_raw has, at every
\* step and whatever went wrong.
EffectsAreRecorded ==
    /\ \A t \in Tasks :
          /\ {row[t].created, row[t].assigned, row[t].completed} \subseteq raw \cup {0}
          /\ \A k \in DOMAIN Nothing : row[t].facts[k] # 0 =>
                \E i \in raw : log[i].task = t /\ log[i].says[k] = row[t].facts[k]
    /\ \A u \in Users : department[u] # Demo[u] =>
          \E i \in raw : /\ log[i].says.assignee = u
                         /\ log[i].says.department = department[u]

-----------------------------------------------------------------------------
(* The promise of EventDelivery. *)

FateOf(i) ==
    CASE i > Len(log) -> "unpublished"
      [] i \in (taken + 1)..Len(log) -> "waiting"
      [] i = current -> IF i \in raw THEN "started" ELSE "waiting"
      [] i \in 1..taken /\ i # current -> IF i \in lost THEN "lost" ELSE "applied"

Delivery == INSTANCE EventDelivery
                WITH fate <- [i \in EventIds |-> FateOf(i)]

\* Although no message is acknowledged by hand, an event is started at most
\* once and never again after it was applied or lost, be it with the others
\* that were in the client's buffer.
DeliversAtMostOnce == Delivery!Spec

=============================================================================
