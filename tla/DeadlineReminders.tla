------------------------- MODULE DeadlineReminders -------------------------
(***************************************************************************)
(* What notification-service makes of the events: its own copy of every    *)
(* task (notification_tasks), the notifications, and the reminders that    *)
(* two goroutines create side by side: the event handlers, right after     *)
(* they have stored what an event says, and the scheduler, which once an   *)
(* hour lists the tasks that are due and works through the list.  Each SQL *)
(* statement is a step; midnight may pass between any two of them.         *)
(*                                                                         *)
(* The events arrive in the order of publication, each handled once (see   *)
(* NotificationConsumer), and are those of calls on a task that did not    *)
(* overlap (see TaskService).  0 stands for a field an event or a row does *)
(* not have.  A deadline is the number of its day.  Titles, project names  *)
(* and project.updated, which changes nothing but those names, are left    *)
(* out.                                                                    *)
(***************************************************************************)
EXTENDS Naturals, Sequences

CONSTANTS
    Tasks,
    NoTask,
    Users,
    Actors,       \* users who make the calls
    Readers,      \* users who open their notifications
    Deadlines,    \* days a deadline may fall on
    Statuses,     \* statuses a task may have
    LastDay,      \* bound on the clock
    MaxEvents     \* bound on the events published

TODO == 1
COMPLETED == 3
Ahead == 3        \* now.Add(72*time.Hour), nowDay.AddDate(0, 0, 3)

ASSUME RemindersAssumption ==
    /\ NoTask \notin Tasks
    /\ Actors \cup Readers \subseteq Users
    /\ Users \cup Deadlines \subseteq Nat \ {0}
    /\ TODO \in Statuses
    /\ Statuses \subseteq 1..4
    /\ LastDay \in Nat \ {0}
    /\ MaxEvents \in Nat

\* What is known of a task: here, by project-service, and in an event.
Facts == [assignee : Users \cup {0}, deadline : Deadlines \cup {0},
          status : Statuses \cup {0}]
NoRow == [assignee |-> 0, deadline |-> 0, status |-> 0]

EventKinds == {"created", "assigned", "deadline_changed", "status_changed",
               "updated", "member_added"}
Events == [kind : EventKinds, task : Tasks \cup {NoTask}, actor : Actors,
           says : Facts]

\* A notification is named by its recipient and its source: an event, or a
\* task and the day of its deadline.
Notifications ==
    [to : Users, source : EventKinds \cup {"upcoming", "overdue"},
     task : Tasks \cup {NoTask}, about : Nat]

VARIABLES
    today,          \* the day, in UTC
    log,            \* the events published, in order
    told,           \* told[t]: what they say of t, taken together
    row,            \* row[t]: the row of notification_tasks, or NoRow
    handled,        \* how many events are behind the consumer
    step,           \* where the handler of the next event stands
    scheduler,      \* the local variables of ProcessDeadlineReminders
    notifications,  \* rows of notifications
    read,           \* those with a read_at
    lost            \* history: events whose handling a fault cut short

sourceVars == <<log, told>>
consumerVars == <<row, handled, step, lost>>
noteVars == <<notifications, read>>
vars == <<today, sourceVars, consumerVars, scheduler, noteVars>>

Idle == [step |-> "idle", now |-> 0, list |-> {}]
Listed == [task : Tasks, says : Facts]

TypeOK ==
    /\ today \in 1..LastDay
    /\ log \in Seq(Events)
    /\ told \in [Tasks -> Facts]
    /\ row \in [Tasks -> Facts]
    /\ handled \in 0..Len(log)
    /\ step \in {"store", "remind", "notify"}
    /\ step # "store" => handled < Len(log)
    /\ scheduler \in [step : {"idle", "list", "upcoming", "overdue"},
                      now : 0..today, list : SUBSET Listed]
    /\ notifications \in SUBSET Notifications
    /\ read \in SUBSET notifications
    /\ lost \in SUBSET (1..handled)

Init ==
    /\ today = 1
    /\ log = <<>>
    /\ told = [t \in Tasks |-> NoRow]
    /\ row = [t \in Tasks |-> NoRow]
    /\ handled = 0
    /\ step = "store"
    /\ scheduler = Idle
    /\ notifications = {}
    /\ read = {}
    /\ lost = {}

-----------------------------------------------------------------------------
(* project-service: calls on a task, one at a time. *)

Given(new, old) == IF new > 0 THEN new ELSE old
Merge(new, old) == [k \in DOMAIN NoRow |-> Given(new[k], old[k])]

Publish(kind, t, actor, says) ==
    /\ Len(log) < MaxEvents
    /\ log' = Append(log, [kind |-> kind, task |-> t, actor |-> actor,
                           says |-> says])
    /\ told' = IF t \in Tasks
               THEN [told EXCEPT ![t] = Merge(says, @)]
               ELSE told
    /\ UNCHANGED <<today, consumerVars, scheduler, noteVars>>

CreateTask(a, t, u, d) ==
    /\ told[t] = NoRow
    /\ Publish("created", t, a, [assignee |-> u, deadline |-> d, status |-> TODO])

AssignTask(a, t, u) ==
    /\ told[t] # NoRow
    /\ told[t].assignee # u
    /\ Publish("assigned", t, a, [told[t] EXCEPT !.assignee = u])

\* A deadline may move within its day.
ChangeDeadline(a, t, d) ==
    /\ told[t] # NoRow
    /\ Publish("deadline_changed", t, a,
               [told[t] EXCEPT !.deadline = d, !.status = 0])

UpdateTaskStatus(a, t, s) ==
    /\ told[t] # NoRow
    /\ told[t].status # s
    /\ Publish("status_changed", t, a, [told[t] EXCEPT !.status = s])

\* task.updated of UpdateTaskLabor carries deadline and status.
UpdateTaskLabor(a, t) ==
    /\ told[t] # NoRow
    /\ Publish("updated", t, a, told[t])

\* task.updated of UpdateTask does not.
UpdatePlannedHours(a, t) ==
    /\ told[t] # NoRow
    /\ Publish("updated", t, a, [told[t] EXCEPT !.deadline = 0, !.status = 0])

AddMember(a, u) ==
    Publish("member_added", NoTask, a, [NoRow EXCEPT !.assignee = u])

-----------------------------------------------------------------------------
(* Notifications and reminders. *)

\* The kind of reminder that is due on the given day, or "none".
DueKind(deadline, day) ==
    CASE deadline < day -> "overdue"
      [] deadline \in day..(day + Ahead) -> "upcoming"
      [] OTHER -> "none"

Reminder(kind, t, says) ==
    [to |-> says.assignee, source |-> kind, task |-> t, about |-> says.deadline]

\* INSERT ... ON CONFLICT (recipient_user_id, source_event_key) DO NOTHING
CreateNotification(n) ==
    /\ notifications' = notifications \cup {n}
    /\ UNCHANGED read

\* Variant: the actor is notified like everybody else.
SaveNotificationAlways(actor, n) == CreateNotification(n)

\* Nobody is notified of what he did himself.
SaveNotification(actor, n) ==
    IF actor = n.to THEN UNCHANGED noteVars ELSE CreateNotification(n)

\* A user marks one of his own.
MarkAsRead(u, n) ==
    /\ n.to = u
    /\ read' = read \cup {n}
    /\ UNCHANGED <<today, sourceVars, consumerVars, scheduler, notifications>>

MarkAllAsRead(u) ==
    /\ read' = read \cup {n \in notifications : n.to = u}
    /\ UNCHANGED <<today, sourceVars, consumerVars, scheduler, notifications>>

-----------------------------------------------------------------------------
(* The event handlers. *)

Event == log[handled + 1]

\* Variant: EXCLUDED wins although the event does not have the field.
StoredAsSaid(e, old) ==
    CASE e.kind \in {"created", "assigned", "updated"} -> e.says
      [] e.kind = "deadline_changed" /\ old # NoRow ->
            [e.says EXCEPT !.status = old.status]
      [] e.kind = "status_changed" /\ old # NoRow ->
            [old EXCEPT !.status = e.says.status]
      [] OTHER -> old

\* Variant: COALESCE with its arguments swapped.
StoredUnlessKnown(e, old) ==
    CASE e.kind \in {"created", "assigned", "updated"} ->
            [Merge(old, e.says) EXCEPT !.status = e.says.status]
      [] e.kind = "deadline_changed" /\ old # NoRow ->
            [old EXCEPT !.deadline = e.says.deadline]
      [] e.kind = "status_changed" /\ old # NoRow ->
            [old EXCEPT !.status = e.says.status]
      [] OTHER -> old

\* UpsertNotificationTask keeps assignee and deadline if the event has none,
\* but takes the status as it comes, 0 included.  UpdateTaskDeadline and
\* UpdateTaskStatus change nothing if the task has no row.
Stored(e, old) ==
    CASE e.kind \in {"created", "assigned", "updated"} ->
            [Merge(e.says, old) EXCEPT !.status = e.says.status]
      [] e.kind = "deadline_changed" /\ old # NoRow ->
            [old EXCEPT !.assignee = e.says.assignee, !.deadline = e.says.deadline]
      [] e.kind = "status_changed" /\ old # NoRow ->
            [old EXCEPT !.status = e.says.status]
      [] OTHER -> old

StoreTask ==
    /\ step = "store"
    /\ Event.task \in Tasks
    /\ row' = [row EXCEPT ![Event.task] = Stored(Event, @)]
    /\ UNCHANGED noteVars

\* syncDeadlineReminders looks at the event, not at the row: a deadline that
\* changes is announced even for a task that is completed.
SyncDeadlineReminders ==
    LET kind == DueKind(Event.says.deadline, today)
    IN  /\ step = "remind"
        /\ UNCHANGED row
        /\ IF \/ Event.says.deadline = 0
              \/ Event.says.status = COMPLETED
              \/ kind = "none"
           THEN UNCHANGED noteVars
           ELSE CreateNotification(Reminder(kind, Event.task, Event.says))

NotifyRecipient ==
    /\ \/ step = "notify"
       \/ step = "store" /\ Event.kind = "member_added"
    /\ UNCHANGED row
    /\ SaveNotification(Event.actor,
            [to |-> Event.says.assignee, source |-> Event.kind,
             task |-> Event.task, about |-> handled + 1])

\* A handler's statements, in their order.
LastStep(kind) == IF kind = "updated" THEN "remind"
                  ELSE IF kind = "member_added" THEN "store" ELSE "notify"
StepAfter(kind) == IF step = "store" /\ kind # "status_changed"
                   THEN "remind" ELSE "notify"

\* Variant: the place in the handler is not reset.
EndEventHolding ==
    /\ handled' = handled + 1
    /\ UNCHANGED step

EndEvent ==
    /\ handled' = handled + 1
    /\ step' = "store"

RunStatement == StoreTask \/ SyncDeadlineReminders \/ NotifyRecipient

HandleEvent ==
    /\ handled < Len(log)
    /\ RunStatement
    /\ IF step = LastStep(Event.kind)
       THEN EndEvent
       ELSE /\ step' = StepAfter(Event.kind)
            /\ UNCHANGED handled
    /\ UNCHANGED <<today, sourceVars, scheduler, lost>>

\* A statement reports an error, committed or not: the message goes back to
\* the queue, and its redelivery is taken for a duplicate.
FailEvent ==
    /\ handled < Len(log)
    /\ RunStatement \/ UNCHANGED <<row, noteVars>>
    /\ EndEvent
    /\ lost' = lost \cup {handled + 1}
    /\ UNCHANGED <<today, sourceVars, scheduler>>

-----------------------------------------------------------------------------
(* The scheduler. *)

\* Variant: completed tasks are listed too.
DueCompletedToo(kind, day) ==
    {x \in {[task |-> t, says |-> row[t]] : t \in Tasks} :
        /\ x.says.assignee # 0
        /\ x.says.deadline # 0
        /\ DueKind(x.says.deadline, day) = kind}

\* Variant: `until` is counted from the day after.
DueADayEarly(kind, day) ==
    {x \in {[task |-> t, says |-> row[t]] : t \in Tasks} :
        /\ x.says.assignee # 0
        /\ x.says.deadline # 0
        /\ x.says.status # COMPLETED
        /\ kind = "overdue" => x.says.deadline < day
        /\ kind = "upcoming" => x.says.deadline \in day..(day + Ahead + 1)}

\* ListUpcomingDeadlineTasks and ListOverdueTasks
Due(kind, day) ==
    {x \in {[task |-> t, says |-> row[t]] : t \in Tasks} :
        /\ x.says.assignee # 0
        /\ x.says.deadline # 0
        /\ x.says.status # COMPLETED
        /\ DueKind(x.says.deadline, day) = kind}

RunOnce ==
    /\ scheduler.step = "idle"
    /\ scheduler' = [Idle EXCEPT !.step = "list", !.now = today]
    /\ UNCHANGED <<today, sourceVars, consumerVars, noteVars>>

ListUpcoming ==
    /\ scheduler.step = "list"
    /\ scheduler' = [scheduler EXCEPT !.step = "upcoming",
                                      !.list = Due("upcoming", scheduler.now)]
    /\ UNCHANGED <<today, sourceVars, consumerVars, noteVars>>

\* The day is still the one read at the start.
ListOverdue ==
    /\ scheduler.step = "upcoming"
    /\ scheduler.list = {}
    /\ scheduler' = [scheduler EXCEPT !.step = "overdue",
                                      !.list = Due("overdue", scheduler.now)]
    /\ UNCHANGED <<today, sourceVars, consumerVars, noteVars>>

\* The list may be older than the row by now.
CreateDeadlineReminder(x) ==
    /\ x \in scheduler.list
    /\ CreateNotification(Reminder(scheduler.step, x.task, x.says))
    /\ scheduler' = [scheduler EXCEPT !.list = @ \ {x}]
    /\ UNCHANGED <<today, sourceVars, consumerVars>>

EndRun ==
    /\ scheduler.step = "overdue"
    /\ scheduler.list = {}
    /\ scheduler' = Idle
    /\ UNCHANGED <<today, sourceVars, consumerVars, noteVars>>

\* Variant: the scheduler's goroutine ends with the first error.
FailRunForGood ==
    /\ scheduler.step # "idle"
    /\ scheduler' = [Idle EXCEPT !.step = "stopped"]
    /\ UNCHANGED <<today, sourceVars, consumerVars, noteVars>>

\* The first error ends the run, and the rest of the list waits for the next.
FailRun ==
    /\ scheduler.step # "idle"
    /\ scheduler' = Idle
    /\ \/ UNCHANGED noteVars
       \/ \E x \in scheduler.list :
             CreateNotification(Reminder(scheduler.step, x.task, x.says))
    /\ UNCHANGED <<today, sourceVars, consumerVars>>

-----------------------------------------------------------------------------
NextDay ==
    /\ today < LastDay
    /\ today' = today + 1
    /\ UNCHANGED <<sourceVars, consumerVars, scheduler, noteVars>>

\* The process dies and starts again: both goroutines forget where they were.
Crash ==
    /\ scheduler' = Idle
    /\ IF step = "store"
       THEN UNCHANGED <<handled, step, lost>>
       ELSE EndEvent /\ lost' = lost \cup {handled + 1}
    /\ UNCHANGED <<today, sourceVars, row, noteVars>>

Call(a) ==
    \/ \E t \in Tasks :
          \/ \E u \in Users, d \in Deadlines \cup {0} : CreateTask(a, t, u, d)
          \/ \E u \in Users : AssignTask(a, t, u)
          \/ \E d \in Deadlines : ChangeDeadline(a, t, d)
          \/ \E s \in Statuses : UpdateTaskStatus(a, t, s)
          \/ UpdateTaskLabor(a, t)
          \/ UpdatePlannedHours(a, t)
    \/ \E u \in Users : AddMember(a, u)

Next ==
    \/ \E a \in Actors : Call(a)
    \/ HandleEvent
    \/ FailEvent
    \/ RunOnce
    \/ ListUpcoming
    \/ ListOverdue
    \/ \E x \in Listed : CreateDeadlineReminder(x)
    \/ EndRun
    \/ FailRun
    \/ \E u \in Readers :
          \/ \E n \in notifications : MarkAsRead(u, n)
          \/ MarkAllAsRead(u)
    \/ NextDay
    \/ Crash

Spec == Init /\ [][Next]_vars

\* The ticker goes off and the scheduler's goroutine is run.  The database
\* may refuse a statement, but not the same one for ever.
Fairness ==
    /\ WF_vars(RunOnce)
    /\ SF_vars(ListUpcoming)
    /\ SF_vars(ListOverdue)
    /\ \A t \in Tasks :
          SF_vars(\E x \in Listed : x.task = t /\ CreateDeadlineReminder(x))
    /\ WF_vars(EndRun)

FairSpec == Spec /\ Fairness

-----------------------------------------------------------------------------
(* Properties. *)

\* A task whose events have all been handled without a fault.
UpToDate(t) ==
    /\ handled = Len(log)
    /\ \A i \in lost : log[i].task # t

\* The copy of a task agrees with what project-service said of it, so that
\* the consumer never has to ask.  Only the status may be unknown, after a
\* task.updated that did not carry one: the task is then taken for open.
RowFollowsEvents ==
    \A t \in Tasks : UpToDate(t) =>
        /\ row[t].assignee = told[t].assignee
        /\ row[t].deadline = told[t].deadline
        /\ \/ row[t].status = told[t].status
           \/ /\ row[t].status = 0
              /\ \E i \in 1..Len(log) : /\ log[i].task = t
                                        /\ log[i].kind = "updated"
                                        /\ log[i].says.status = 0

\* Reminders are never early, whatever midnight falls between: no task is
\* called overdue on the day of its deadline, nor due more than three days
\* ahead.
RemindersNeverEarly ==
    \A n \in notifications :
        /\ n.source = "overdue" => n.about < today
        /\ n.source = "upcoming" => n.about <= today + Ahead

\* A reminder goes to a user who was the assignee while the deadline was the
\* one it names, although list, row and event are read at different times.
RemindersWereTrue ==
    \A n \in notifications :
        /\ n.source \in {"overdue", "upcoming"}
        /\ \A i \in lost : log[i].task # n.task
        => \E i \in 1..Len(log) : /\ log[i].task = n.task
                                  /\ log[i].says.assignee = n.to
                                  /\ log[i].says.deadline = n.about

\* The user whom event i concerns has been notified of it.
IsTold(i) ==
    \E n \in notifications :
        n.source = log[i].kind /\ n.about = i /\ n.to = log[i].says.assignee

\* Once an event is handled without a fault, the user it concerns has its
\* notification if and only if he did not cause it himself.
AllButTheActorAreTold ==
    \A i \in (1..handled) \ lost :
        log[i].kind # "updated" =>
            (IsTold(i) <=> log[i].actor # log[i].says.assignee)

\* A task known to be completed is reminded of only by the handler of its
\* task.deadline_changed, or by a scheduler run that listed it before.
CompletedTasksAreLeftAlone ==
    [][\A n \in notifications' \ notifications :
          /\ n.source \in {"overdue", "upcoming"}
          /\ row[n.task].status = COMPLETED
          => \/ step = "remind" /\ Event.kind = "deadline_changed"
             \/ \E x \in scheduler.list :
                   x.task = n.task /\ x.says.status # COMPLETED]_vars

\* A notification once read stays read and in place, although the scheduler
\* inserts the same reminder again every hour.
ReadStaysRead == [][read \subseteq read']_vars

\* The row of t says that a reminder of this kind is due to u.
Waits(u, t, d, kind) ==
    /\ row[t].assignee = u
    /\ row[t].deadline = d
    /\ row[t].status # COMPLETED
    /\ DueKind(d, today) = kind

\* Whoever a reminder stays due to is reminded in the end, however often a
\* run is broken off, be it by another task of the list.
EventuallyReminded ==
    \A u \in Users, t \in Tasks, d \in Deadlines, k \in {"upcoming", "overdue"} :
        <>[]Waits(u, t, d, k) =>
            <>(\E n \in notifications :
                  n.to = u /\ n.task = t /\ n.about = d /\ n.source = k)

=============================================================================
