# Formal model of building-services

TLA+ specifications of the services in this repository, TLC configurations
that model-check them on small instances, and proofs, checked by TLAPS, of
their main properties for instances of any size.

The repository has no tests. Its promises are taken from the code itself and
from the top-level README, which is quoted where the code disagrees with it.

## 1. The system

Five Go services around three infrastructure pieces (PostgreSQL, RabbitMQ,
Redis). A browser talks HTTP to the gateway, the gateway gRPC to the rest.

| Component | State it keeps | Operations | Talks to |
|---|---|---|---|
| auth-service | `users` (role, password hash), refresh tokens in Redis | register, login, refresh, logout, update role, update profile | publishes `user.created`, `user.updated` |
| project-service: tasks | `tasks` | create, update, delete, update status, update labour, assign | publishes `task.*` on the topic exchange `project.events`; reads users and projects |
| project-service: projects, members, timeline | `projects`, `project_members`, `project_timeline` | create, update, change status, delete; add, update, remove member; update timeline | publishes `project.*` |
| project-service: departments, users | `departments`, a copy of `users` with `department_id` | create, update, delete department; assign and remove user; consume user events | publishes `department.created`; consumes `user.*` |
| project-service: attachments, activity types | `task_attachments`, `activity_types` | add, delete; create, list | publishes `activity_type.created` |
| project-service: permissions | none; reads role, department, membership, assignment | `Check(user, resource, id, action)` | called first by every handler but those of members |
| analytics-service | `events_raw`, `task_analytics`, copies of `users`, `projects`, `departments`, `activity_types` | one handler per event; reports | consumes `analytics_events` and user events, acknowledging automatically |
| notification-service | `notification_events` (deduplication), `notification_tasks` (copy of the tasks), `notifications` | one handler per event; the hourly deadline scheduler; list, mark as read | consumes `notification_events`, acknowledging by hand |
| api-gateway | none of its own; the browser keeps the refresh cookie and the access token it hands out | routes, JWT and role middleware, project scope of analytics | gRPC clients of all of the above |

The services share nothing but messages. A service that needs another's data
keeps a copy built from events and never asks again (top-level README, line
219, says so of analytics). That makes three things matter most: that the
producer publishes what it writes, that a consumer applies an event once and
not half, and that the copy, built from what an event happens to carry, agrees
with the original.

What is hard about it, and therefore modelled:

* Handlers are lists of single SQL statements without a transaction around
  them. Calls on the same task interleave between read, write, re-read and
  publish; any statement may fail, or be committed although its answer is lost;
  the process may die between any two.
* Publishing is fire and forget, and a closed AMQP channel is never reopened
  while the process lives.
* notification-service requeues on errors and is redelivered messages;
  analytics-service acknowledges on delivery and loses what its client has
  buffered.
* Two goroutines of notification-service, the event handler and the scheduler,
  write the same notifications, one of them from lists read earlier, while the
  clock passes midnight.
* Events carry different subsets of a task's fields; each consumer has its own
  rule for the fields an event leaves out.
* A permission check is up to five queries, in no transaction with each other
  or with what the handler does once it may; roles, members, assignees and
  departments change between them.
* A browser's refreshes overlap and are answered in any order, while each trades
  in the token that the others send along.

What makes each component correct:

* tasks: concurrent calls move only the columns that are their business; the
  events of a call that ran alone add up to the row it left; deleted is deleted.
* event consumers: effects at most once, in order, none half applied without a
  fault, nothing gone unrecorded, and (when connected) everything answered.
* copies of tasks: agree with what the events said; dates are those of the
  events that caused them.
* reminders: never early, always to someone who was concerned, eventually
  created, and never un-read.
* permissions: whoever is let through deserved it, by what held while his call
  ran; departments and members: a row refers to what exists, a creator is a
  member, a member's department was his.
* sessions and reports: a refresh token is good once, overlapping requests sign
  nobody out, a report covers what its user may see.
* users: what a copy says was true, and becomes true again once events stop.

## 2. The modules

| Module | Models |
|---|---|
| `TaskService` | `project-service/internal/task` and its publisher |
| `Projects` | `project-service/internal/project`, `internal/timeline`, and their events |
| `NotificationConsumer` | `notification-service/internal/consumer`, the queue, the table `notification_events` |
| `DeadlineReminders` | the event handlers, scheduler, and notifications of notification-service |
| `TaskAnalytics` | the consumer, handlers and task tables of analytics-service |
| `UserCopies` | the accounts of auth-service, the user events, and the copies of the users in project-service and analytics-service |
| `Access` | `project-service/internal/authz`, `internal/departmnet`, `internal/member`, `internal/attachment`, and of tasks and projects what a check reads |
| `Gateway` | the sessions of auth-service and api-gateway, and the scope of the analytics reports |
| `EventDelivery` | abstract specification: what an event consumer promises of one event |
| `MC*` | a module per component that TLC runs, with its configurations |
| `*Proofs` | the theorems about a component |

### TaskService

A gRPC call is a goroutine: `call[c]` holds its program counter and local
variables (`existing`, the request, the events it has decided to publish).
`ReadTask` is `FindByID`, `UpdateTask` the UPDATE of that handler followed by
the decision which events to publish, `WriteThenReread` the UPDATE of the
handlers that read the row again (`Reread`) before they decide, `PublishEvent`
one call of the publisher. A row is a function from columns to numbers, 0
standing for NULL and for a field a request or an event does not have.
`StatementColumns` says which columns a handler's UPDATE writes and `Written`
what it writes there: for most columns the request's value, or what the handler
read before. `told[t]` is what the events published so far say of `t`, merged
in order: the knowledge of a consumer that misses nothing. `disturbed` is a
history variable: tasks on which calls overlapped or a fault struck.

Faults: an error before or after the commit, deletion by another call or by
the cascade of a project, the publisher's channel, the death of the process.

Left out: title, description, priority, parent; the permission check in front
of each handler (see `Access`); the lists.

### Projects

Built like `TaskService`: `call[c]` is a handler between its statements, `told[p]`
what its events said. A row is that of `projects` and that of
`project_timeline` together; `TableWith` says which field is in which, and
`disturbed` holds pairs of a project and a table, since an `UpdateTimeline` that
overlaps an `UpdateProject` is no overlap. `ReadProject` is the read that all
three changing handlers begin with, `WriteRow` the statement that follows:
`Update` and `Upsert` write every column of their table, `UpdateStatus` one.
`CreateProject` goes on to `CreateEmpty`, which fails without consequence when an
`UpdateTimeline` has inserted the row before it. `EndInOrder` is the check that
`UpdateProject` makes between read and write; a request that fails it takes
`FailBeforeWrite`. `UpdateTimeline` and `DeleteProject` publish nothing.

Left out: members and the permission check (see `Access`), the lists,
`from_status` of `project.status_changed`. `UpdateTimeline`'s `Exists` and `Get` are one step: ids
are never used again, so a project deleted between them is found missing by the
foreign key.

### NotificationConsumer

The broker (`ready`, `unacked`), the AMQP client's `buffer`, the goroutine with
its place in `handleMessage` (`phase`: save, process, mark, ack), and the table
(`saved`, `processed`). What an event does is a number of statements
(`done[i]` of `body[i].statements`), each of which may fail or be committed
without an answer. `SaveInserts`, `SaveFindsRow` and `SaveFails` are the three
outcomes of `SaveRawEvent`; the second acknowledges without doing anything,
which is what makes redelivery harmless and, after an error half way, final.
`CutLink` closes the channel under a living process, `Crash` and `Restart` end
and start it.

### DeadlineReminders

`told` and `log` are project-service's side (calls that do not overlap, as
`TaskService` shows is when the events tell the task); `row` is
`notification_tasks`. The handler of an event takes the steps `store`,
`remind`, `notify` as far as its kind has them, the scheduler lists upcoming
tasks, then works through the list, lists overdue ones and does the same;
`today` may advance at any step. `Stored` says, per kind of event, which fields
reach the row. A notification is named by recipient, source, task and date, its
deduplication key.

Assumed here, shown by the other modules: what an event says in view of the ones
before it (`ToldInTurn` of `TaskService`: `GoesOnFrom` is, column by column, what
`CreateTask` ... `UpdatePlannedHours` here and their namesakes in `TaskAnalytics`
append to the log), and that events arrive once and in order. The one exception is
an event requeued by `SaveRawEvent`'s error, which can be overtaken (see
`InOrderUnlessRequeued`).

### TaskAnalytics

The queue (`log`, `delivered`), the client's buffer (between `taken` and
`delivered`), the goroutine with the statements left for its event (`todo`),
and the tables. `Handler` gives the statements of each kind of event and
`Passed` the fields its handler passes on. The upsert of the assignee and the
labour patch swallow their errors, any other error ends the handler;
either way the event is in `lost`, the history of events not applied or not
in full. The i-th event occurred at time i.

The events are those of calls that do not overlap, with one exception.
`CreateTask` inserts the row and publishes only after it has looked up assignee
and project, and from the insert on others find the task: `late` is what
`task.created` has yet to say, `PublishCreated` says it, before or after the
events of other calls. `told` is what the calls on a task come to, in the order
of their statements, whatever order their events have.

Left out: projects, department names and activity types, each a single upsert
by its key; cycle and delay times, which follow from the times modelled; the
SQL of the reports.

### UserCopies

`account` is auth-service's table, `call[c]` a registration or profile change
between its statement and its publication, `log` the events on `user.events`,
and `taken[s]` how many of them have left the queue of `s`. `copy[s]` is the
table `users` of project-service or analytics-service. `Upserted` is what each
makes of an event: project-service overwrites name, address and role and keeps
the department, analytics-service keeps whatever the event leaves out, and takes
part of what task events say of an assignee (`mentions`) on another queue, in
any order with the first. `Disconnect` is the loss of acknowledged deliveries
that were not handled; a consumer that is not connected is one that takes
nothing. `UpdateRole` and `AppointAdmin` (the SQL of the README's "first
administrator") change the account and publish nothing.

At the beginning there may be the users that the migrations insert in
auth-service and analytics-service, but not in project-service.

History: `was[u]` and `belonged[u]` are what `u` has been, `unannounced` the
users whose role changed without an event since, and `disturbed[s]` the users of
whom `s` may have missed the latest event or seen it out of order.

Abstracted: the look-up of the address is one step with the insert (the column
is UNIQUE in auth-service), so is `UpdateRole`'s check with its UPDATE; the
statements that write `department_id` are one action that may happen at any
time, whatever call they belong to. Left out: passwords, sessions (`Gateway`), the
table `departments`, and the permission checks that read the copy (`Access`).

### Access

`call[c]` is a gRPC call that is made once: not begun, at a step, or ended. Its
steps are those of `Check` and then of its handler, each a SELECT or a statement
of its own; what the code keeps in variables between them (`role` and `dept` of
the caller, the `task` of a file, the `project` of a task, what was `found`) is in
the call's record. `FindCaller` reads role and department of the caller and goes
where `Route` says, the `switch` of `Check`; `ReadFile`, `ReadUploader`, `ReadTask`,
`CheckProject`, `CheckOwn` and `CheckHead` are the queries of `checkAttachment`,
`checkTask`, `checkProject` and `checkDepartment`, in their order. After "granted"
come the handlers that write what checks read: projects and their creators
(`CreateProject`, then `Join` in a statement of its own, or `JoinFails`, which is
only logged), tasks' assignees, attachments, departments (`Detach` and `Drop`, the
two statements of `Delete`; `FindHead` and `WriteHead`, which writes the head it
read), a user's department, and members. `Serve` stands for the operations that
touch none of these tables. `Without` is ON DELETE CASCADE.

The member handlers ask for no permission, so their calls begin at "find".
`AddAttachment` passes the id of its task where `Check` expects that of an
attachment, which is never found; so `Route` lets only directors and
administrators attach.

History: `since[c]` is what has held, at some time since call `c` began, of its
caller and of the things it is known to be about; `once[u]` the departments `u`
has been in; `raced` users assigned to a department that was being deleted;
`unjoined` projects whose creator was not added or was removed; `foreign` members
given a department that `SyncDepartmentFromUser` took from another user or a
request named. These are exactly the exceptions in the properties.

Left out: everything the rows hold besides, events (in `TaskService`, `Projects`,
`UserCopies`), lists. User events change roles only; that they leave the
department alone is proved of `UserCopies`.

### Gateway

`browser[u]` is what a browser has, refresh cookie and role claim; `stored` the
refresh tokens in Redis; `call[c]` a request between its steps. `Refresh` sends
the cookie, `GetToken` finds its owner, `DeleteToken` or `DeleteFails` (the error is
ignored) removes it, `FindUser` reads the role for the new access token,
`SaveToken` stores the next refresh token and `Answer` brings both to the browser,
in whatever order answers arrive. `SessionFails` ends such a call at any step,
`ForgetToken` is expiry in Redis, `Expire` the end of the cookie, which is given
the lifetime of the access token.

`AskReport` is a request for analytics behind `AuthRequired`: it takes the role
from the token. `ReadDepartment` and `ReadProjects` are the two calls to
project-service in `memberProjectScope`, `QueryAnalytics` the filter that
analytics-service makes of the answer, in which an empty list of projects means
all of them; `InScope` is what keeps that from happening. `Move` changes projects
and departments meanwhile.

Left out: passwords and signatures, what a report contains, `Logout` (no handler
calls it), `RequireRole` (the administrators' routes are registered without
`AuthRequired`, so it never finds a role and always answers 401), and
`GetDataFreshness`, which has no scope.

### EventDelivery

One event's fate: unpublished, waiting, started, and then at rest for good:
applied, lost or discarded. Both consumers implement it, the one by a
deduplicating table, the other by never seeing a message twice. `FateOf` is
the refinement mapping. Losing several events in one step is part of it: a
crash of the automatically acknowledging consumer loses its whole buffer.

## 3. What is checked

| Run | Instance | Shows |
|---|---|---|
| `notification_consumer` | 2 messages, up to 2 statements | effects at most once, nothing vanishes unrecorded, loss needs a fault, order unless requeued, every message answered; implements `EventDelivery` |
| `task_service` | 1 task, 3 calls, 2 users, 2 deadlines | columns move only by their own calls; undisturbed calls are told in full, each event going on from the last as the consumers' models suppose |
| `task_hours` | 1 task, 3 calls | a violation, see below |
| `deadline_reminders` | 1 task, 3 events, 2 users, 2 days | the copy of the task, who is notified, which reminders may exist |
| `reminders_live` | 2 tasks, 2 events, 2 days | reminders that stay due are created |
| `task_analytics` | 1 task, 3 events, the creation in its turn or late, 2 users, 1 of whom changes department | the row follows the calls, but for what a late creation set back, `assigned_at` dates the last change, every value in the tables was said by a recorded event; implements `EventDelivery` |
| `task_reopened` | 1 task, 5 events | `completed_at` and `is_overdue` over completion, reopening and completion again |
| `user_copies` | 1 user, 2 calls, 2 names, 2 roles, 1 department, 1 mention | a copy never shows what the account never was; once settled it agrees, a role given since excepted |
| `projects` | 1 project, 3 calls, 2 names, 2 dates, 2 milestones, 2 statuses | no project ends before it starts; undisturbed calls are told in full and move only what they were asked to |
| `user_roles` | 2 users, 2 calls, 3 roles | a violation, see below |
| `access` | 2 users with a call each, 5 roles, 2 departments, 2 projects, 1 task, 1 attachment, in four scenes | whoever passes a check deserved it; nobody stays in a deleted department but by a race; creators and members are in order |
| `gateway` | 1 user, 3 refresh tokens, 2 overlapping requests, 3 roles, 2 projects, 1 department | a token is traded in once, overlaps sign nobody out, reports stay in scope |

Every property of every run has a mutant in `PROJECT.json`: a small change of
one definition, of the kind a slip in that code would be, with which TLC finds
the property violated. The definitions commented "Variant" are these changes.

Why the bounds are enough to be interesting:

* Two messages let one be requeued and overtaken; two statements let a handler
  stop half way. Keys and tables treat messages independently of each other.
* Three calls on one task: one to create it and two to overlap in every order,
  or one after the other so that the second reads what the first left.
* Two of the eight milestones let one call write back what another set; two
  dates put an end before, on and after a start.
* Deadlines 1 and 5 with the days 1 and 2 put a deadline on both sides of both
  boundaries (yesterday/today, three/four days ahead). Three events are create,
  a change, and a change back or a completion.
* `task_analytics` can hand a task to another user and back in three events;
  completing, reopening and completing it again takes four, so `task_reopened`
  has five and gives up the other fields for it.
* Tasks do not share rows, so one suffices for safety. `reminders_live` has two,
  because an error on one breaks the scheduler's run off before the other.
* Users share nothing but the unique address, so `user_copies` has one; two
  calls overlap, or the second repairs what the first lost. An administrator and
  a user he gives a role make the two of `user_roles`.
* `task_analytics` has one value of hours, which a late `task.created` could not set
  back; so hours occur only where it is published first (`HoursInOrder`, a constraint
  on the states explored).
* A department that changes after the last event of `task_analytics` could not be
  heard of, so `ChangeDepartment` is bounded by `MaxEvents`, too.

* `access` starts from any tables its scene allows, so two calls are enough: one
  whose check is under way, and one that changes what the check has read or will
  read. The scenes, in `MCAccess`, are departments alone; a project with a task
  and an attachment; a project that gets them; two projects with their members.
  u2 is the director, who may do everything to the tables, and u1 has every other
  role in turn, or two of them in one call (`worker` and one more) because a user
  event changed it. Every call is made once, so the system stops
  (`CHECK_DEADLOCK FALSE`).
* `gateway` has either two overlapping logins or refreshes and three tokens (a
  token traded in twice has two successors), or one request at a time while role,
  projects and department change; `OneThingAtATime` leaves out the product of the
  two, which share nothing.

### Fairness

Only two properties are about progress.

* `EventuallySettled` (NotificationConsumer.`Fairness`): the broker delivers, a
  goroutine in the middle of something goes on (weak fairness: nothing else
  disables it but the faults), and `SaveRawEvent` is not refused for ever (strong
  fairness, because each refusal requeues the message and so disables the step
  until the next delivery). It claims nothing unless the channel stays up from
  some point on: the code never reconnects.
* `EventuallyReminded` (DeadlineReminders.`Fairness`): the ticker fires, and a
  statement of the scheduler that is tried again and again succeeds at some time,
  for every single task (strong fairness, because every error ends the run and
  the next begins an hour later). Publishing, errors, days and crashes owe
  nothing.

### What the code does differently from what is written

`task_hours`: the top-level README, line 214, says project-service publishes
labour («трудоёмкость»), and line 219 that analytics is built from the events
alone. `UpdateTaskStatus` writes the reported `actual_hours` and then publishes
only if the status changed (`task/service.go:343`). Hours reported together
with the status the task already has are in the table and in no event, so
`EventsTellTheHours` is violated by two calls that do not even overlap.
`EventsTellTheTask`, the same property for all other columns, holds.

`user_roles`: line 183 of the README has roles assigned through
`PUT /admin/users/:id/role`, and line 168 has the rights checked in
project-service. `UpdateRole` (`auth.go:217`) writes auth-service's table and,
unlike registration and profile change, publishes nothing; project-service looks
the role up in its own copy, which only user events fill. So `RolesTakeEffect`
is violated without a fault or an overlap: the role has no effect there until
the user happens to change his profile. `SettledCopiesAgree`, the same property
with such roles excepted, holds.

Behaviour that contradicts no text, and is stated as it is in the models: an
`UpdateTask` that overlaps an `AssignTask` undoes it (the exception in
`ColumnsMoveByTheirOwnCalls`), and an `UpdateProject` a `ChangeProjectStatus`
(that in `CallsMoveWhatTheyAreAsked`); a `task.updated` published by `UpdateTask` makes
notification-service forget the status (the exception in `RowFollowsEvents` of
`DeadlineReminders`); a `task.created` published after events of later calls sets
status, assignee, deadline and department back in analytics until an event carries
them again (`SetBack`, the exception in `RowFollowsEvents` of `TaskAnalytics`); moving the deadline of a completed task reminds of it
(the exception in `CompletedTasksAreLeftAlone`); an error in the middle of a
notification handler is final, since the redelivery finds the row
(`LostOnlyByFault`); a role looked up for a check may be gone when the
handler writes (`WritesWereDeserved` says "since the call began", and no more);
`RemoveUserFromDepartment` asks about the department it finds the user in and
removes him from the one he is in by then; `UpdateDepartment` writes back the head
it read; members keep a department that was deleted, or that
`SyncDepartmentFromUser` took from some other user, and `UpdateMember` may read the
row of another project (the exceptions in `MembersInOrder`); `ListProjects` goes by
the role in the token and `Check` by project-service's copy of the role; a
department manager without a department gets the report on the department he
names, for his own projects (the `None` in `ReportsStayInScope`).

## 4. What is proved

For every value of the constants (any number of tasks, users, calls, events),
under the `ASSUME` of each module: that the ids and values used are positive
numbers (0 is "none"), that statuses are among 1..4 (those of tasks with TODO
among them), that the roles include worker and administrator, that milestones are
other fields than the columns of `projects`, and that the marker for "no task"
or "no project" is not one; in `Access` and `Gateway` that the roles are among the
six the code knows, that NULL is no id, and the marker for "no member" neither
NULL nor a department. All proofs go through an inductive
invariant `IInv` (in `DeadlineRemindersProofs`, `Inv`), proved with one lemma
per action; in the modules of the three consumers of task events a second
invariant is built on it.

**NotificationConsumerProofs.** The properties of the tables are not inductive:
whether a redelivery may run a statement depends on what the call in progress
knows. `CallInv` ties the goroutine's place to the tables (in "process" its
counter equals `done` of its event; in "mark" all is done), `TableInv` says
that without a row nothing was done, `Routed` that only published messages
circulate. That no event overtakes another takes a second invariant,
`OrderInv`: `FreshFirst` says of an event that was neither recorded nor requeued
that none published after it is recorded or in hand, and that in the client's
buffer it goes first; a message is delivered to the buffer's end only as the
oldest in the queue, so with `DeliveriesAtHand` (what is unacknowledged is in
the buffer or in hand) all that is older has gone before. Proved: `TypeOK`,
`AtMostOnce`, `RecordedBeforeGone`, `ProcessedMeansApplied`, `LostOnlyByFault`,
`InOrderUnlessRequeued`, and the refinement of `EventDelivery`.

**TaskServiceProofs.** `EventsTellTheTask` speaks of tasks no call works on,
and says nothing while one does. `ProgressInv` says, for a call that has its
task to itself, how far the books are: before the write, `existing` is the row
and `told` agrees with it; before the re-read the row is `After(c)`; before
publishing, the events still pending merged into `told` give the row.
`AloneInv` says that two calls on one task have disturbed it. A second
invariant, `TurnInv`, proved on top of it, serves `ToldInTurn`: what a call has
still to publish goes on from `told`, the second of two events from what the first
adds (`InTurn`), whether or not the row is deleted meanwhile; and hours that were
told are hours the row has (`Backs`), in `existing` before the write and in the
row after it. Only this last part is true of hours: that the row's hours were
told is false (`EventsTellTheHours`, the run `task_hours`). Proved: `TypeOK`,
`EventsTellTheTask`, `DeletedForGood`, `ColumnsMoveByTheirOwnCalls`,
`HoursSurvive`, `ToldInTurn`.

**ProjectsProofs.** The same argument per project and table, with `KnownBy` in
place of the agreement above. `NeverEndsBeforeStart` needs none of it: a call's
`existing` was in order when read, and `UpdateProject` writes back the start it
compared the end with, so it holds for overlapping calls too. Proved: `TypeOK`,
`NeverEndsBeforeStart`, `EventsTellTheProject`, `CallsMoveWhatTheyAreAsked`.

**DeadlineRemindersProofs.** `ListSound` says what a scheduler's list still
guarantees however old it is (each entry was due when listed, on a day not
after today), `HandlerPlace` what the handler has stored by then,
`NotesOfThePast` that no notification is about an event yet to be handled.
What the rows say is compared with what the calls had said when the event at
hand was published, and `told` has moved on since. The second invariant,
`CopiesInv`, therefore asserts that a history of `told` exists, one state for
each number of events (`History`): each event merged into the state before it
gives the next, and of what was known it repeats what its kind repeats
(`Tells`); the last state is `told`, and every pair of assignee and deadline in
it was named by one event (`Said`). `RowsKeepUp` puts
the row at the state of the events stored so far, and `ListTrue` says that what
the scheduler has listed was said too. No recursion is needed: each call
lengthens the history by one, every other step keeps it. Proved: `TypeOK`,
`RemindersNeverEarly`, `AllButTheActorAreTold`, `ReadStaysRead`,
`CompletedTasksAreLeftAlone`, `RowFollowsEvents`, `RemindersWereTrue`.

**TaskAnalyticsProofs.** `HandlerPlace` says that no statement but the first
records the event and that by the time another runs it is recorded;
`SkippedIsLost` that events behind the one in hand are taken only by being
lost; `CompletionsReachTheRow` that a completion not lost is in the row or
about to be. `Effects` collects what any statement may do to the tables, so
that success, failure and failure after commit share one argument
(`WorkKeepsIInv`). The second invariant, `FollowInv`, follows the rows as
`CopiesInv` does, but since a late `task.created` sets fields back the events do
not add up to `told`. It asserts a `Story`: for each number of events the entry
(facts, and the time of assignment) that their handlers make of each task when
each runs to its end (`After`). Two halves meet in it. `EndsAsTold` compares
its end with the calls: the facts are `told`, field by field, or what a late
`task.created` set back (`SaysWhatWasTold`; while it is still to come, what the
events lack is what it has to say), and the assignment is dated by the first of
the latest events that name the assignee (`DatesTheAssignment`). `RowsKeepUp`
compares the row with the entry after the events taken or, while the
goroutine is on an event of the task, with what the statements before its
`Place` in the handler make of the entry before (`UnderWay`); a task with a
lost event is `Harmed` and not spoken of. Proved: `TypeOK`,
`EffectsAreRecorded`, `CompletionIsVouched`, `CompletedTasksAreDated`,
`RowFollowsEvents`, `AssignmentIsDated`, and the refinement of `EventDelivery`.

**UserCopiesProofs.** `SettledCopiesAgree` says nothing while an event is on its
way. The invariant follows the latest event of a user through its three places:
`OneCallInv` (only one call is about to publish for an undisturbed user),
`CallInv` (what it will publish is what the account says), `LogInv` (so does the
last event of the user in a queue, once no call is left), and then the copy.
`TrueInv`, with `EventInv` and `MentionInv` for what is on its way, says that
every value is one the account had. Proved: `TypeOK`, `CopiesWereTrue`,
`SettledCopiesAgree`, `UserEventsKeepDepartments`.

**AccessProofs.** `WritesWereDeserved` speaks of calls that were granted
something, and what they were granted rests on queries of earlier steps.
`EarnedInv` carries those: at every step of a check, the caller's role and
department are among the facts of `since[c]`. `PlaceInv` says which operations can be
at a step, and on what, which is what the answer at that step means; that more
facts give no fewer rights (`MoreFacts`) is why other calls' steps do no harm. For
departments, `DropInv` says that between the two statements of a deletion nobody
is left in it without a race; for members, `JoinInv` that only its creator joins
a project, and its id is not used again, and `GivenInv` where a department about
to be written came from. Proved: `TypeOK` with the foreign keys,
`WritesWereDeserved`, `NobodyIsLeftBehind`, `MembersInOrder`.

**GatewayProofs.** Who may trade a token in is spread over Redis, the browser and
the calls. `OwnerInv` gives a token one owner wherever it is, `AnswerInv` says that a
token on its way to the browser is known to nobody else, and `TradeInv` that of a
token read by one refresh only, deletion and the look-up before it leave room for
one successor. `ReportInv` collects what a report has read so far. Proved:
`TypeOK`, `TradedInOnce`, `SessionsSurvive`, `ReportsStayInScope`.

Four of the properties above (`ProcessedMeansApplied`, `DeletedForGood`,
`ReadStaysRead`, `UserEventsKeepDepartments`) hold by little more than a guard;
they are proved, and no run spends time on them. Nor on `HoursSurvive`, which
follows for `UpdateTaskLabor` from `ToldInTurn`, and is proved of every handler.

Every safety property that a run expects to hold is proved. Only model-checked
are the two liveness properties, `EventuallySettled` and `EventuallyReminded`:
fairness and `ENABLED` are out of this prover's reach. Induction over data is
too, so nothing is defined by recursion over the events: the histories above
are functions that an invariant says exist, extended step by step.

## 5. What is not modelled, and why

* The HTTP handlers and gRPC clients of the gateway translate messages one to
  one and keep no state; the frontend is presentation.
* The reports of analytics-service, and the lists of every service, are SQL that
  only reads. Of the reports the filter is modelled (`Gateway`), of the lists
  nothing; so the order of pages whose rows have equal times is not, either.
* `gen/` is protoc's output, nearly half of the lines of Go in the repository.
  RabbitMQ, PostgreSQL and Redis are environment: their actions (`Deliver`,
  `Requeue`, `CutLink`, `ForgetToken`, an answer lost after a commit) are in the
  models, and marked external in `PROJECT.json` where no code stands for them.
* Passwords, signatures of tokens, titles, names and messages' wording: data that
  no property here tells apart.
* In analytics-service the tables of projects, department names and activity
  types, each one upsert by its key from one event; the sort order of activity
  types, which `activity/service.go` reads before it inserts.

## 6. Plan

Done, in the order of importance: `NotificationConsumer` and `EventDelivery`,
`TaskService`, `DeadlineReminders`, `TaskAnalytics`, `UserCopies`, `Projects`,
`Access` (planned as departments and permissions, which turned out to be one
module: the handlers of the one write what the other reads), `Gateway`.

Left:

* `EventFlow`: `TaskService` in front of `DeadlineReminders` and `TaskAnalytics`, with
  the events of any two overlapping calls out of order. So far only `task.created`
  may be late, and only in `TaskAnalytics`; `EventsTellTheTask`, `ToldInTurn` and
  `RowFollowsEvents` together give the answer for calls that do not overlap.
* What analytics may show of a department: department changes publish no event,
  and no text says how stale it may be.
* Theorems: what the calls of `TaskService` and the rows of its consumers come to
  together, once `EventFlow` composes them.
