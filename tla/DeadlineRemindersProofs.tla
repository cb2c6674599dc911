---------------------- MODULE DeadlineRemindersProofs ----------------------
(***************************************************************************)
(* Proofs about DeadlineReminders.  The inductive invariant Inv says       *)
(* besides the types where a handler may stand for an event of each kind,  *)
(* what the scheduler's list still guarantees although it may be old, and  *)
(* that no notification refers to an event that has not been handled.  A   *)
(* second one, CopiesInv, relates rows, lists and reminders to what the    *)
(* events published so far said.                                           *)
(***************************************************************************)
EXTENDS DeadlineReminders, SequenceTheorems, TLAPS

\* Every event names an assignee, and a task unless it is about a member.
EventShape ==
    /\ \A i \in 1..Len(log) :
          /\ log[i].says.assignee \in Users
          /\ log[i].kind = "member_added" <=> log[i].task = NoTask
    /\ \A t \in Tasks : told[t] # NoRow => told[t].assignee \in Users

\* Between two statements of a handler.
HandlerPlace ==
    /\ step = "remind" =>
          /\ Event.kind \in {"created", "assigned", "updated", "deadline_changed"}
          /\ Event.kind # "deadline_changed" =>
                row[Event.task].status = Event.says.status
    /\ step = "notify" => Event.kind \notin {"updated", "member_added"}

\* What is listed was due, and open, when it was listed.
ListSound ==
    \A x \in scheduler.list :
        /\ x.says.assignee \in Users
        /\ x.says.status # COMPLETED
        /\ scheduler.step \in {"upcoming", "overdue"}
        /\ DueKind(x.says.deadline, scheduler.now) = scheduler.step

NotesOfThePast ==
    \A n \in notifications : n.source \in EventKinds => n.about <= handled

Inv ==
    /\ TypeOK
    /\ EventShape
    /\ HandlerPlace
    /\ ListSound
    /\ NotesOfThePast
    /\ RemindersNeverEarly
    /\ AllButTheActorAreTold

-----------------------------------------------------------------------------
(* The operators. *)

LEMMA DueKindMeaning ==
    ASSUME NEW d \in Nat, NEW day \in Nat
    PROVE  /\ DueKind(d, day) = "overdue" <=> d < day
           /\ DueKind(d, day) = "upcoming" <=> day <= d /\ d <= day + 3
           /\ DueKind(d, day) \in {"overdue", "upcoming", "none"}
BY DEF DueKind, Ahead

LEMMA ConstantFacts ==
    /\ NoTask \notin Tasks
    /\ Actors \subseteq Users
    /\ Users \subseteq Nat \ {0}
    /\ Deadlines \subseteq Nat \ {0}
    /\ Statuses \subseteq Nat
    /\ TODO \in Statuses
    /\ LastDay \in Nat
BY RemindersAssumption

LEMMA NoRowIsFacts == NoRow \in Facts
BY DEF NoRow, Facts

LEMMA MergeType ==
    ASSUME NEW f \in Facts, NEW g \in Facts
    PROVE  /\ Merge(f, g) \in Facts
           /\ f.assignee # 0 => Merge(f, g).assignee = f.assignee
<1>1. DOMAIN NoRow = {"assignee", "deadline", "status"}
  BY DEF NoRow
<1>2. Merge(f, g) = [k \in {"assignee", "deadline", "status"} |->
                        Given(f[k], g[k])]
  BY <1>1 DEF Merge
<1>3. /\ Given(f.assignee, g.assignee) \in Users \cup {0}
      /\ Given(f.deadline, g.deadline) \in Deadlines \cup {0}
      /\ Given(f.status, g.status) \in Statuses \cup {0}
  BY DEF Given, Facts
<1>4. f.assignee # 0 => Given(f.assignee, g.assignee) = f.assignee
  <2>1. f.assignee \in Users \cup {0}
    BY DEF Facts
  <2>2. \A u \in Users \cup {0} : u # 0 => u > 0
    BY ConstantFacts
  <2>3. f.assignee # 0 => f.assignee > 0
    BY <2>1, <2>2
  <2> QED
    BY <2>3 DEF Given
<1>5. Merge(f, g).assignee = Given(f.assignee, g.assignee)
  BY <1>2
<1>6. Merge(f, g) = [assignee |-> Given(f.assignee, g.assignee),
                     deadline |-> Given(f.deadline, g.deadline),
                     status |-> Given(f.status, g.status)]
  BY <1>2
<1>7. Merge(f, g) \in Facts
  BY <1>3, <1>6 DEF Facts
<1> QED
  BY <1>4, <1>5, <1>7

\* What the handlers write is a row, and takes the event's status unless the
\* event is task.deadline_changed.
LEMMA StoredType ==
    ASSUME NEW e \in Events, NEW old \in Facts
    PROVE  /\ Stored(e, old) \in Facts
           /\ e.kind \in {"created", "assigned", "updated"} =>
                 Stored(e, old).status = e.says.status
<1>1. e.says \in Facts
  BY DEF Events
<1>2. Merge(e.says, old) \in Facts
  BY <1>1, MergeType
<1>3. CASE e.kind \in {"created", "assigned", "updated"}
  <2>1. Stored(e, old) = [Merge(e.says, old) EXCEPT !.status = e.says.status]
    BY <1>3 DEF Stored
  <2> QED
    BY <1>1, <1>2, <2>1 DEF Facts
<1>4. CASE e.kind = "deadline_changed" /\ old # NoRow
  <2>1. Stored(e, old) = [old EXCEPT !.assignee = e.says.assignee,
                                     !.deadline = e.says.deadline]
    BY <1>4 DEF Stored
  <2> QED
    BY <1>1, <1>4, <2>1 DEF Facts
<1>5. CASE e.kind = "status_changed" /\ old # NoRow
  <2>1. Stored(e, old) = [old EXCEPT !.status = e.says.status]
    BY <1>5 DEF Stored
  <2> QED
    BY <1>1, <1>5, <2>1 DEF Facts
<1>6. CASE /\ e.kind \notin {"created", "assigned", "updated"}
           /\ ~(e.kind = "deadline_changed" /\ old # NoRow)
           /\ ~(e.kind = "status_changed" /\ old # NoRow)
  <2>1. Stored(e, old) = old
    BY <1>6 DEF Stored
  <2> QED
    BY <1>6, <2>1
<1> QED
  BY <1>3, <1>4, <1>5, <1>6

-----------------------------------------------------------------------------
(* The steps. *)

LEMMA InitInv == Init => Inv
<1> SUFFICES ASSUME Init PROVE Inv
  OBVIOUS
<1> USE DEF Init
<1>1. TypeOK
  <2>1. log \in Seq(Events)
    BY EmptySeq
  <2>2. Len(log) = 0
    BY EmptySeq
  <2>3. told \in [Tasks -> Facts] /\ row \in [Tasks -> Facts]
    BY NoRowIsFacts
  <2>4. scheduler \in [step : {"idle", "list", "upcoming", "overdue"},
                       now : 0..today, list : SUBSET Listed]
    BY DEF Idle
  <2> QED
    BY <2>1, <2>2, <2>3, <2>4, ConstantFacts, RemindersAssumption DEF TypeOK
<1>2. EventShape
  <2>1. Len(log) = 0
    BY EmptySeq
  <2> QED
    BY <2>1 DEF EventShape
<1>3. HandlerPlace /\ ListSound /\ NotesOfThePast /\ RemindersNeverEarly
  BY DEF HandlerPlace, ListSound, Idle, NotesOfThePast, RemindersNeverEarly
<1>4. AllButTheActorAreTold
  BY DEF AllButTheActorAreTold
<1> QED
  BY <1>1, <1>2, <1>3, <1>4 DEF Inv

\* An event more at the end of the log disturbs nothing.
LEMMA PublishKeepsInv ==
    ASSUME Inv, NEW kind \in EventKinds, NEW t \in Tasks \cup {NoTask},
           NEW a \in Actors, NEW says \in Facts, says.assignee \in Users,
           kind = "member_added" <=> t = NoTask,
           Publish(kind, t, a, says)
    PROVE  Inv'
<1> DEFINE e == [kind |-> kind, task |-> t, actor |-> a, says |-> says]
<1>1. e \in Events
  BY DEF Events
<1>2. /\ log \in Seq(Events)
      /\ told \in [Tasks -> Facts]
      /\ Len(log) \in Nat
      /\ handled \in 0..Len(log)
      /\ step # "store" => handled < Len(log)
  BY LenProperties DEF Inv, TypeOK
<1>3. /\ log' = Append(log, e)
      /\ told' = IF t \in Tasks
                 THEN [told EXCEPT ![t] = Merge(says, @)] ELSE told
      /\ UNCHANGED <<today, row, handled, step, lost, scheduler,
                     notifications, read>>
  BY DEF Publish, consumerVars, noteVars
<1> HIDE DEF e
<1>4. /\ log' \in Seq(Events)
      /\ Len(log') = Len(log) + 1
      /\ \A i \in 1..Len(log) : log'[i] = log[i]
      /\ log'[Len(log) + 1] = e
  BY <1>1, <1>2, <1>3, AppendProperties
<1>5. told' \in [Tasks -> Facts]
  BY <1>2, <1>3, MergeType
<1>6. TypeOK'
  BY <1>2, <1>3, <1>4, <1>5 DEF Inv, TypeOK
<1>7. EventShape'
  <2>1. ASSUME NEW i \in 1..Len(log')
        PROVE  /\ log'[i].says.assignee \in Users
               /\ log'[i].kind = "member_added" <=> log'[i].task = NoTask
    <3>1. CASE i \in 1..Len(log)
      BY <1>4, <3>1 DEF Inv, EventShape
    <3>2. CASE i = Len(log) + 1
      BY <1>4, <3>2 DEF e
    <3> QED
      BY <1>2, <1>4, <3>1, <3>2
  <2>2. ASSUME NEW u \in Tasks, told'[u] # NoRow
        PROVE  told'[u].assignee \in Users
    <3>1. CASE u = t
      <4>1. told'[u] = Merge(says, told[u])
        BY <1>2, <1>3, <3>1
      <4>2. says.assignee # 0
        BY ConstantFacts
      <4>3. told[u] \in Facts
        BY <1>2
      <4> QED
        BY <4>1, <4>2, <4>3, MergeType
    <3>2. CASE u # t
      <4>1. told'[u] = told[u]
        BY <1>2, <1>3, <3>2
      <4> QED
        BY <2>2, <4>1 DEF Inv, EventShape
    <3> QED
      BY <3>1, <3>2
  <2> QED
    BY <2>1, <2>2 DEF EventShape
<1>8. step # "store" => log'[handled + 1] = log[handled + 1]
  BY <1>2, <1>4
<1>9. HandlerPlace'
  BY <1>3, <1>8 DEF Inv, HandlerPlace, Event
<1>10. ListSound' /\ NotesOfThePast' /\ RemindersNeverEarly'
  BY <1>3 DEF Inv, ListSound, NotesOfThePast, RemindersNeverEarly
<1>11. AllButTheActorAreTold'
  <2>1. \A i \in 1..handled : log'[i] = log[i]
    BY <1>2, <1>4
  <2>2. \A i \in 1..handled : IsTold(i)' <=> IsTold(i)
    BY <1>3, <2>1 DEF IsTold
  <2>3. AllButTheActorAreTold
    BY DEF Inv
  <2> QED
    BY <1>3, <2>1, <2>2, <2>3 DEF AllButTheActorAreTold
<1> QED
  BY <1>6, <1>7, <1>9, <1>10, <1>11 DEF Inv

LEMMA CallKeepsInv ==
    ASSUME Inv, NEW a \in Actors, Call(a)
    PROVE  Inv'
<1>1. ASSUME NEW t \in Tasks, NEW u \in Users, NEW d \in Deadlines \cup {0},
             CreateTask(a, t, u, d)
      PROVE  Inv'
  <2> DEFINE says == [assignee |-> u, deadline |-> d, status |-> TODO]
  <2>1. says \in Facts /\ says.assignee \in Users
    BY ConstantFacts DEF Facts
  <2>2. Publish("created", t, a, says)
    BY <1>1 DEF CreateTask
  <2> HIDE DEF says
  <2> QED
    BY <2>1, <2>2, ConstantFacts, PublishKeepsInv DEF EventKinds
<1>2. ASSUME NEW t \in Tasks, told[t] # NoRow
      PROVE  told[t] \in Facts /\ told[t].assignee \in Users
  BY <1>2 DEF Inv, TypeOK, EventShape
<1>3. ASSUME NEW t \in Tasks, NEW u \in Users, AssignTask(a, t, u)
      PROVE  Inv'
  <2> DEFINE says == [told[t] EXCEPT !.assignee = u]
  <2>1. says \in Facts /\ says.assignee \in Users
    BY <1>2, <1>3 DEF Facts, AssignTask
  <2>2. Publish("assigned", t, a, says)
    BY <1>3 DEF AssignTask
  <2> HIDE DEF says
  <2> QED
    BY <2>1, <2>2, ConstantFacts, PublishKeepsInv DEF EventKinds
<1>4. ASSUME NEW t \in Tasks, NEW d \in Deadlines, ChangeDeadline(a, t, d)
      PROVE  Inv'
  <2> DEFINE says == [told[t] EXCEPT !.deadline = d, !.status = 0]
  <2>1. says \in Facts /\ says.assignee \in Users
    BY <1>2, <1>4 DEF Facts, ChangeDeadline
  <2>2. Publish("deadline_changed", t, a, says)
    BY <1>4 DEF ChangeDeadline
  <2> HIDE DEF says
  <2> QED
    BY <2>1, <2>2, ConstantFacts, PublishKeepsInv DEF EventKinds
<1>5. ASSUME NEW t \in Tasks, NEW s \in Statuses, UpdateTaskStatus(a, t, s)
      PROVE  Inv'
  <2> DEFINE says == [told[t] EXCEPT !.status = s]
  <2>1. says \in Facts /\ says.assignee \in Users
    BY <1>2, <1>5 DEF Facts, UpdateTaskStatus
  <2>2. Publish("status_changed", t, a, says)
    BY <1>5 DEF UpdateTaskStatus
  <2> HIDE DEF says
  <2> QED
    BY <2>1, <2>2, ConstantFacts, PublishKeepsInv DEF EventKinds
<1>6. ASSUME NEW t \in Tasks, UpdateTaskLabor(a, t)
      PROVE  Inv'
  BY <1>2, <1>6, ConstantFacts, PublishKeepsInv DEF EventKinds, UpdateTaskLabor
<1>7. ASSUME NEW t \in Tasks, UpdatePlannedHours(a, t)
      PROVE  Inv'
  <2> DEFINE says == [told[t] EXCEPT !.deadline = 0, !.status = 0]
  <2>1. says \in Facts /\ says.assignee \in Users
    BY <1>2, <1>7 DEF Facts, UpdatePlannedHours
  <2>2. Publish("updated", t, a, says)
    BY <1>7 DEF UpdatePlannedHours
  <2> HIDE DEF says
  <2> QED
    BY <2>1, <2>2, ConstantFacts, PublishKeepsInv DEF EventKinds
<1>8. ASSUME NEW u \in Users, AddMember(a, u)
      PROVE  Inv'
  <2> DEFINE says == [NoRow EXCEPT !.assignee = u]
  <2>1. says \in Facts /\ says.assignee \in Users
    BY DEF NoRow, Facts
  <2>2. Publish("member_added", NoTask, a, says)
    BY <1>8 DEF AddMember
  <2> HIDE DEF says
  <2> QED
    BY <2>1, <2>2, PublishKeepsInv DEF EventKinds
<1> QED
  BY <1>1, <1>3, <1>4, <1>5, <1>6, <1>7, <1>8 DEF Call

\* The event being handled.
LEMMA EventFacts ==
    ASSUME Inv, handled < Len(log)
    PROVE  /\ handled \in Nat
           /\ handled + 1 \in 1..Len(log)
           /\ Event \in Events
           /\ Event.says \in Facts
           /\ Event.says.assignee \in Users
           /\ Event.says.deadline \in Nat
           /\ Event.kind \in EventKinds
           /\ Event.kind = "member_added" <=> Event.task = NoTask
           /\ Event.kind # "member_added" => Event.task \in Tasks
<1>1. /\ log \in Seq(Events)
      /\ Len(log) \in Nat
      /\ handled \in 0..Len(log)
  BY LenProperties DEF Inv, TypeOK
<1>2. handled \in Nat /\ handled + 1 \in 1..Len(log)
  BY <1>1
<1>3. Event \in Events
  BY <1>1, <1>2, ElementOfSeq DEF Event
<1>4. Event.says.assignee \in Users /\ (Event.kind = "member_added" <=> Event.task = NoTask)
  BY <1>2 DEF Inv, EventShape, Event
<1>5. Event.says \in Facts /\ Event.kind \in EventKinds /\ Event.task \in Tasks \cup {NoTask}
  BY <1>3 DEF Events
<1>6. Event.says.deadline \in Nat
  <2>1. Event.says.deadline \in Deadlines \cup {0}
    BY <1>5 DEF Facts
  <2>2. \A d \in Deadlines \cup {0} : d \in Nat
    BY ConstantFacts
  <2> QED
    BY <2>1, <2>2
<1> QED
  BY <1>2, <1>3, <1>4, <1>5, <1>6

\* The notifications a statement may add.
NewReminder(n) ==
    /\ step = "remind"
    /\ n.source \in {"upcoming", "overdue"}
    /\ DueKind(n.about, today) = n.source
    /\ n.about \in Nat
    /\ n.task = Event.task
    /\ n.to = Event.says.assignee
    /\ n.about = Event.says.deadline
    /\ Event.says.status # COMPLETED

NewEventNote(n) ==
    /\ n.source = Event.kind
    /\ n.about = handled + 1
    /\ step = LastStep(Event.kind)

LEMMA StatementEffect ==
    ASSUME Inv, handled < Len(log), RunStatement
    PROVE  /\ row' \in [Tasks -> Facts]
           /\ notifications' \in SUBSET Notifications
           /\ notifications \subseteq notifications'
           /\ read' = read
           /\ \A n \in notifications' \ notifications :
                 NewReminder(n) \/ NewEventNote(n)
<1>1. row \in [Tasks -> Facts] /\ notifications \in SUBSET Notifications
  BY DEF Inv, TypeOK
<1>2. CASE StoreTask
  <2>1. Event.task \in Tasks
    BY <1>2 DEF StoreTask
  <2>2. Stored(Event, row[Event.task]) \in Facts
    BY <1>1, <2>1, EventFacts, StoredType
  <2>3. row' = [row EXCEPT ![Event.task] = Stored(Event, row[Event.task])]
    BY <1>2 DEF StoreTask
  <2>4. row' \in [Tasks -> Facts]
    BY <1>1, <2>2, <2>3
  <2> QED
    BY <1>1, <1>2, <2>4 DEF StoreTask, noteVars
<1>3. CASE SyncDeadlineReminders
  <2> DEFINE kind == DueKind(Event.says.deadline, today)
             n == Reminder(kind, Event.task, Event.says)
  <2>1. CASE UNCHANGED noteVars
    BY <1>1, <1>3, <2>1 DEF SyncDeadlineReminders, noteVars
  <2>2. CASE /\ kind # "none"
             /\ Event.says.status # COMPLETED
             /\ CreateNotification(n)
    <3>1. today \in Nat
      BY DEF Inv, TypeOK
    <3>2. kind \in {"upcoming", "overdue"}
      BY <2>2, <3>1, EventFacts, DueKindMeaning
    <3>3. step = "remind"
      BY <1>3 DEF SyncDeadlineReminders
    <3>4. Event.task \in Tasks
      BY <3>3, EventFacts DEF Inv, HandlerPlace
    <3>5. /\ n.to = Event.says.assignee
          /\ n.source = kind
          /\ n.task = Event.task
          /\ n.about = Event.says.deadline
      BY DEF Reminder
    <3>6. n \in Notifications
      BY <3>2, <3>4, EventFacts DEF Reminder, Notifications
    <3>7. NewReminder(n)
      BY <2>2, <3>2, <3>3, <3>5, EventFacts DEF NewReminder
    <3>8. /\ notifications' = notifications \cup {n}
          /\ read' = read
          /\ row' = row
      BY <1>3, <2>2 DEF CreateNotification, SyncDeadlineReminders
    <3> HIDE DEF n
    <3> QED
      BY <1>1, <3>6, <3>7, <3>8
  <2> QED
    BY <1>3, <2>1, <2>2 DEF SyncDeadlineReminders
<1>4. CASE NotifyRecipient
  <2> DEFINE n == [to |-> Event.says.assignee, source |-> Event.kind,
                   task |-> Event.task, about |-> handled + 1]
  <2>1. row' = row
    BY <1>4 DEF NotifyRecipient
  <2>2. CASE UNCHANGED noteVars
    BY <1>1, <2>1, <2>2 DEF noteVars
  <2>3. CASE CreateNotification(n)
    <3>1. n \in Notifications
      BY EventFacts DEF Notifications, Events
    <3>2. step = LastStep(Event.kind)
      BY <1>4 DEF NotifyRecipient, LastStep, Inv, HandlerPlace
    <3>3. NewEventNote(n)
      BY <3>2 DEF NewEventNote
    <3>4. notifications' = notifications \cup {n} /\ read' = read
      BY <2>3 DEF CreateNotification
    <3> HIDE DEF n
    <3> QED
      BY <1>1, <2>1, <3>1, <3>3, <3>4
  <2> QED
    BY <1>4, <2>2, <2>3 DEF NotifyRecipient, SaveNotification
<1> QED
  BY <1>2, <1>3, <1>4 DEF RunStatement

LEMMA NewRemindersNotEarly ==
    ASSUME Inv, today' = today,
           \A n \in notifications' \ notifications :
              NewReminder(n) \/ (n.source \in EventKinds)
    PROVE  RemindersNeverEarly'
<1>1. today \in Nat
  BY DEF Inv, TypeOK
<1>2. ASSUME NEW n \in notifications'
      PROVE  /\ n.source = "overdue" => n.about < today
             /\ n.source = "upcoming" => n.about <= today + Ahead
  <2>1. CASE n \in notifications
    BY <2>1 DEF Inv, RemindersNeverEarly
  <2>2. CASE NewReminder(n)
    BY <1>1, <2>2, DueKindMeaning DEF NewReminder, Ahead
  <2>3. CASE n.source \in EventKinds
    BY <2>3 DEF EventKinds
  <2> QED
    BY <2>1, <2>2, <2>3
<1> QED
  BY <1>2 DEF RemindersNeverEarly

\* Notifications of other events are not touched.
LEMMA OldEventsTold ==
    ASSUME Inv, handled < Len(log), UNCHANGED log,
           notifications \subseteq notifications',
           \A n \in notifications' \ notifications :
              NewReminder(n) \/ n.about = handled + 1,
           NEW i \in 1..handled
    PROVE  IsTold(i)' <=> IsTold(i)
<1>1. log[i].kind \in EventKinds
  <2>1. log \in Seq(Events) /\ Len(log) \in Nat /\ handled \in Nat
    BY LenProperties DEF Inv, TypeOK
  <2>2. log[i] \in Events
    BY <2>1, ElementOfSeq
  <2> QED
    BY <2>2 DEF Events
<1>2. handled \in Nat
  BY EventFacts
<1>3. ASSUME NEW n \in notifications', n \notin notifications
      PROVE  n.source # log[i].kind \/ n.about # i
  <2>1. CASE NewReminder(n)
    BY <1>1, <2>1 DEF NewReminder, EventKinds
  <2>2. CASE n.about = handled + 1
    BY <1>2, <2>2
  <2> QED
    BY <1>3, <2>1, <2>2
<1> QED
  BY <1>3 DEF IsTold

\* A statement of a handler, whether or not it is the last.
LEMMA HandleEventKeepsInv ==
    ASSUME Inv, HandleEvent
    PROVE  Inv'
<1>1. /\ handled < Len(log)
      /\ RunStatement
      /\ UNCHANGED <<today, log, told, scheduler, lost>>
  BY DEF HandleEvent, sourceVars
<1>2. /\ row' \in [Tasks -> Facts]
      /\ notifications' \in SUBSET Notifications
      /\ notifications \subseteq notifications'
      /\ read' = read
      /\ \A n \in notifications' \ notifications :
            NewReminder(n) \/ NewEventNote(n)
  BY <1>1, StatementEffect
<1>3. Len(log) \in Nat /\ handled \in Nat /\ step \in {"store", "remind", "notify"}
  BY <1>1, EventFacts, LenProperties DEF Inv, TypeOK
<1>4. /\ Event.kind \in EventKinds
      /\ Event.kind = "member_added" <=> Event.task \notin Tasks
      /\ Event.kind # "member_added" => Event.task \in Tasks
  BY <1>1, EventFacts, ConstantFacts
<1>5. \/ step = LastStep(Event.kind) /\ handled' = handled + 1 /\ step' = "store"
      \/ step # LastStep(Event.kind) /\ handled' = handled
            /\ step' = StepAfter(Event.kind)
  BY DEF HandleEvent, EndEvent
<1>6. TypeOK'
  <2>1. handled' \in 0..Len(log)
    BY <1>1, <1>3, <1>5
  <2>2. step' \in {"store", "remind", "notify"}
    BY <1>5 DEF StepAfter
  <2>3. step' # "store" => handled' < Len(log)
    BY <1>1, <1>5
  <2>4. lost' \in SUBSET (1..handled')
    BY <1>1, <1>3, <1>5 DEF Inv, TypeOK
  <2>5. read' \in SUBSET notifications'
    BY <1>2 DEF Inv, TypeOK
  <2> QED
    BY <1>1, <1>2, <2>1, <2>2, <2>3, <2>4, <2>5 DEF Inv, TypeOK
<1>7. EventShape' /\ ListSound'
  BY <1>1 DEF Inv, EventShape, ListSound
<1>8. HandlerPlace'
  <2>1. CASE step = LastStep(Event.kind)
    BY <1>5, <2>1 DEF HandlerPlace
  <2>2. CASE step # LastStep(Event.kind)
    <3>1. Event' = Event
      BY <1>1, <1>5, <2>2 DEF Event
    <3>2. step \in {"store", "remind"}
      BY <1>3, <2>2 DEF LastStep, Inv, HandlerPlace
    <3>3. CASE step = "store"
      <4>1. Event.kind # "member_added"
        BY <2>2, <3>3 DEF LastStep
      <4>2. StoreTask
        BY <1>1, <3>3, <4>1 DEF RunStatement, SyncDeadlineReminders, NotifyRecipient
      <4>3. CASE Event.kind = "status_changed"
        <5>1. step' = "notify"
          BY <1>5, <2>2, <4>3 DEF StepAfter
        <5> QED
          BY <3>1, <4>3, <5>1 DEF HandlerPlace
      <4>4. CASE Event.kind # "status_changed"
        <5>1. step' = "remind"
          BY <1>5, <2>2, <3>3, <4>4 DEF StepAfter
        <5>2. Event.kind \in {"created", "assigned", "updated", "deadline_changed"}
          BY <1>4, <4>1, <4>4 DEF EventKinds
        <5>3. row'[Event.task] = Stored(Event, row[Event.task])
          BY <1>4, <4>1, <4>2 DEF StoreTask, Inv, TypeOK
        <5>4. row[Event.task] \in Facts
          BY <1>4, <4>1 DEF Inv, TypeOK
        <5>5. Event.kind # "deadline_changed" =>
                  row'[Event.task].status = Event.says.status
          BY <1>1, <5>2, <5>3, <5>4, EventFacts, StoredType
        <5> QED
          BY <3>1, <5>1, <5>2, <5>5 DEF HandlerPlace
      <4> QED
        BY <4>3, <4>4
    <3>4. CASE step = "remind"
      <4>1. step' = "notify"
        BY <1>5, <2>2, <3>4 DEF StepAfter
      <4>2. Event.kind \notin {"updated", "member_added"}
        BY <2>2, <3>4 DEF LastStep, Inv, HandlerPlace
      <4> QED
        BY <3>1, <4>1, <4>2 DEF HandlerPlace
    <3> QED
      BY <3>2, <3>3, <3>4
  <2> QED
    BY <2>1, <2>2
<1>9. NotesOfThePast'
  <2>1. ASSUME NEW n \in notifications', n.source \in EventKinds
        PROVE  n.about <= handled'
    <3>1. CASE n \in notifications
      <4>1. n.about <= handled
        BY <2>1, <3>1 DEF Inv, NotesOfThePast
      <4>2. n.about \in Nat
        BY <1>2 DEF Notifications
      <4> QED
        BY <1>3, <1>5, <4>1, <4>2
    <3>2. CASE NewReminder(n)
      BY <2>1, <3>2 DEF NewReminder, EventKinds
    <3>3. CASE NewEventNote(n)
      BY <1>3, <1>5, <3>3 DEF NewEventNote
    <3> QED
      BY <1>2, <3>1, <3>2, <3>3
  <2> QED
    BY <2>1 DEF NotesOfThePast
<1>10. RemindersNeverEarly'
  <2>1. \A n \in notifications' \ notifications :
            NewReminder(n) \/ n.source \in EventKinds
    BY <1>2, <1>4 DEF NewEventNote
  <2> QED
    BY <1>1, <2>1, NewRemindersNotEarly
<1>11. AllButTheActorAreTold'
  <2>1. \A i \in 1..handled : IsTold(i)' <=> IsTold(i)
    <3>1. \A n \in notifications' \ notifications :
              NewReminder(n) \/ n.about = handled + 1
      BY <1>2 DEF NewEventNote
    <3> QED
      BY <1>1, <1>2, <3>1, OldEventsTold
  <2>2. ASSUME NEW i \in {handled + 1},
               step = LastStep(Event.kind), Event.kind # "updated"
        PROVE  IsTold(i)' <=> Event.actor # Event.says.assignee
    <3> DEFINE n == [to |-> Event.says.assignee, source |-> Event.kind,
                     task |-> Event.task, about |-> handled + 1]
    <3>1. NotifyRecipient
      <4>1. CASE Event.kind = "member_added"
        BY <1>1, <1>4, <2>2, <4>1
           DEF LastStep, RunStatement, StoreTask, SyncDeadlineReminders
      <4>2. CASE Event.kind # "member_added"
        BY <1>1, <2>2, <4>2
           DEF LastStep, RunStatement, StoreTask, SyncDeadlineReminders
      <4> QED
        BY <4>1, <4>2
    <3>2. /\ n.to = Event.says.assignee
          /\ n.source = Event.kind
          /\ n.about = handled + 1
      OBVIOUS
    <3>3. IF Event.actor = n.to THEN notifications' = notifications
          ELSE notifications' = notifications \cup {n}
      BY <3>1 DEF NotifyRecipient, SaveNotification, noteVars, CreateNotification
    <3>4. \A m \in notifications : m.source = Event.kind => m.about # handled + 1
      BY <1>3, <1>4 DEF Inv, NotesOfThePast
    <3>5. log'[i] = Event
      BY <1>1 DEF Event
    <3> HIDE DEF n
    <3>6. IsTold(i)' <=>
              \E m \in notifications' : /\ m.source = Event.kind
                                        /\ m.about = i
                                        /\ m.to = Event.says.assignee
      BY <3>5 DEF IsTold
    <3>7. CASE Event.actor = n.to
      BY <3>2, <3>3, <3>4, <3>6, <3>7
    <3>8. CASE Event.actor # n.to
      BY <3>2, <3>3, <3>6, <3>8
    <3> QED
      BY <3>7, <3>8
  <2>3. ASSUME NEW i \in (1..handled') \ lost', log'[i].kind # "updated"
        PROVE  IsTold(i)' <=> log'[i].actor # log'[i].says.assignee
    <3>1. CASE i \in 1..handled
      BY <1>1, <2>1, <2>3, <3>1 DEF Inv, AllButTheActorAreTold
    <3>2. CASE i = handled + 1
      <4>1. step = LastStep(Event.kind)
        BY <1>3, <1>5, <2>3, <3>2
      <4> QED
        BY <1>1, <2>2, <2>3, <3>2, <4>1 DEF Event
    <3> QED
      BY <1>3, <1>5, <3>1, <3>2
  <2> QED
    BY <2>3 DEF AllButTheActorAreTold
<1> QED
  BY <1>6, <1>7, <1>8, <1>9, <1>10, <1>11 DEF Inv

LEMMA FailEventKeepsInv ==
    ASSUME Inv, FailEvent
    PROVE  Inv'
<1>1. /\ handled < Len(log)
      /\ RunStatement \/ UNCHANGED <<row, notifications, read>>
      /\ handled' = handled + 1
      /\ step' = "store"
      /\ lost' = lost \cup {handled + 1}
      /\ UNCHANGED <<today, log, told, scheduler>>
  BY DEF FailEvent, EndEvent, sourceVars, noteVars
<1>2. /\ row' \in [Tasks -> Facts]
      /\ notifications' \in SUBSET Notifications
      /\ notifications \subseteq notifications'
      /\ read' = read
      /\ \A n \in notifications' \ notifications :
            NewReminder(n) \/ NewEventNote(n)
  BY <1>1, StatementEffect DEF Inv, TypeOK
<1>3. Len(log) \in Nat /\ handled \in Nat /\ Event.kind \in EventKinds
  BY <1>1, EventFacts, LenProperties DEF Inv, TypeOK
<1>4. TypeOK'
  <2>1. handled' \in 0..Len(log)
    BY <1>1, <1>3
  <2>2. lost' \in SUBSET (1..handled')
    BY <1>1, <1>3 DEF Inv, TypeOK
  <2>3. read' \in SUBSET notifications'
    BY <1>2 DEF Inv, TypeOK
  <2> QED
    BY <1>1, <1>2, <2>1, <2>2, <2>3 DEF Inv, TypeOK
<1>5. EventShape' /\ ListSound' /\ HandlerPlace'
  BY <1>1 DEF Inv, EventShape, ListSound, HandlerPlace
<1>6. NotesOfThePast'
  <2>1. ASSUME NEW n \in notifications', n.source \in EventKinds
        PROVE  n.about <= handled'
    <3>1. CASE n \in notifications
      <4>1. n.about <= handled
        BY <2>1, <3>1 DEF Inv, NotesOfThePast
      <4>2. n.about \in Nat
        BY <1>2 DEF Notifications
      <4> QED
        BY <1>1, <1>3, <4>1, <4>2
    <3>2. CASE NewReminder(n)
      BY <2>1, <3>2 DEF NewReminder, EventKinds
    <3>3. CASE NewEventNote(n)
      BY <1>1, <1>3, <3>3 DEF NewEventNote
    <3> QED
      BY <1>2, <3>1, <3>2, <3>3
  <2> QED
    BY <2>1 DEF NotesOfThePast
<1>7. RemindersNeverEarly'
  <2>1. \A n \in notifications' \ notifications :
            NewReminder(n) \/ n.source \in EventKinds
    BY <1>2, <1>3 DEF NewEventNote
  <2> QED
    BY <1>1, <2>1, NewRemindersNotEarly
<1>8. AllButTheActorAreTold'
  <2>1. \A n \in notifications' \ notifications :
            NewReminder(n) \/ n.about = handled + 1
    BY <1>2 DEF NewEventNote
  <2>2. \A i \in 1..handled : IsTold(i)' <=> IsTold(i)
    BY <1>1, <1>2, <2>1, OldEventsTold
  <2>3. (1..handled') \ lost' \subseteq (1..handled) \ lost
    BY <1>1, <1>3
  <2> QED
    BY <1>1, <2>2, <2>3 DEF Inv, AllButTheActorAreTold
<1> QED
  BY <1>4, <1>5, <1>6, <1>7, <1>8 DEF Inv

\* A crash in the middle of a handler loses the event, as an error does.
LEMMA CrashKeepsInv ==
    ASSUME Inv, Crash
    PROVE  Inv'
<1>1. /\ scheduler' = Idle
      /\ UNCHANGED <<today, log, told, row, notifications, read>>
  BY DEF Crash, sourceVars, noteVars
<1>2. \/ UNCHANGED <<handled, step, lost>>
      \/ /\ handled < Len(log)
         /\ handled' = handled + 1
         /\ step' = "store"
         /\ lost' = lost \cup {handled + 1}
  BY DEF Crash, EndEvent, Inv, TypeOK
<1>3. Len(log) \in Nat /\ handled \in Nat
  BY LenProperties DEF Inv, TypeOK
<1>4. TypeOK'
  <2>1. handled' \in 0..Len(log)
    BY <1>2, <1>3 DEF Inv, TypeOK
  <2>2. lost' \in SUBSET (1..handled')
    <3>1. lost \in SUBSET (1..handled)
      BY DEF Inv, TypeOK
    <3>2. CASE UNCHANGED <<handled, lost>>
      BY <3>1, <3>2
    <3>3. CASE handled' = handled + 1 /\ lost' = lost \cup {handled + 1}
      BY <1>3, <3>1, <3>3
    <3> QED
      BY <1>2, <3>2, <3>3
  <2>3. scheduler' \in [step : {"idle", "list", "upcoming", "overdue"},
                        now : 0..today, list : SUBSET Listed]
    BY <1>1 DEF Idle, Inv, TypeOK
  <2>4. /\ step' \in {"store", "remind", "notify"}
        /\ step' # "store" => handled' < Len(log)
    BY <1>2 DEF Inv, TypeOK
  <2> QED
    BY <1>1, <2>1, <2>2, <2>3, <2>4 DEF Inv, TypeOK
<1>5. EventShape' /\ RemindersNeverEarly'
  BY <1>1 DEF Inv, EventShape, RemindersNeverEarly
<1>6. ListSound'
  BY <1>1 DEF ListSound, Idle
<1>7. HandlerPlace'
  BY <1>1, <1>2 DEF Inv, HandlerPlace, Event
<1>8. NotesOfThePast'
  <2>1. \A n \in notifications : n.about \in Nat
    BY DEF Inv, TypeOK, Notifications
  <2> QED
    BY <1>1, <1>2, <1>3, <2>1 DEF Inv, NotesOfThePast
<1>9. AllButTheActorAreTold'
  <2>1. (1..handled') \ lost' \subseteq (1..handled) \ lost
    BY <1>2, <1>3
  <2>2. \A i \in 1..handled : IsTold(i)' <=> IsTold(i)
    BY <1>1 DEF IsTold
  <2> QED
    BY <1>1, <2>1, <2>2 DEF Inv, AllButTheActorAreTold
<1> QED
  BY <1>4, <1>5, <1>6, <1>7, <1>8, <1>9 DEF Inv

\* Steps that leave events, rows and handlers alone, and add reminders at most.
LEMMA OtherStepsKeepInv ==
    ASSUME Inv, UNCHANGED <<sourceVars, consumerVars>>,
           today' \in today..LastDay,
           scheduler' \in [step : {"idle", "list", "upcoming", "overdue"},
                           now : 0..today', list : SUBSET Listed],
           ListSound', RemindersNeverEarly',
           notifications' \in SUBSET Notifications,
           notifications \subseteq notifications',
           \A n \in notifications' \ notifications :
              n.source \in {"upcoming", "overdue"},
           read' \in SUBSET notifications'
    PROVE  Inv'
<1>1. UNCHANGED <<log, told, row, handled, step, lost>>
  BY DEF sourceVars, consumerVars
<1>2. today' \in 1..LastDay
  BY ConstantFacts DEF Inv, TypeOK
<1>3. TypeOK'
  BY <1>1, <1>2 DEF Inv, TypeOK
<1>4. EventShape' /\ HandlerPlace'
  BY <1>1 DEF Inv, EventShape, HandlerPlace, Event
<1>5. NotesOfThePast'
  BY <1>1 DEF Inv, NotesOfThePast, EventKinds
<1>6. AllButTheActorAreTold'
  <2>1. ASSUME NEW i \in 1..handled
        PROVE  IsTold(i)' <=> IsTold(i)
    <3>1. log[i].kind \in EventKinds
      <4>1. log \in Seq(Events) /\ Len(log) \in Nat /\ handled \in 0..Len(log)
        BY LenProperties DEF Inv, TypeOK
      <4>2. log[i] \in Events
        BY <4>1, ElementOfSeq
      <4> QED
        BY <4>2 DEF Events
    <3> QED
      BY <1>1, <3>1 DEF IsTold, EventKinds
  <2> QED
    BY <1>1, <2>1 DEF Inv, AllButTheActorAreTold
<1> QED
  BY <1>3, <1>4, <1>5, <1>6 DEF Inv

-----------------------------------------------------------------------------
(* The scheduler's steps. *)

LEMMA Clock == Inv => /\ today \in Nat
                      /\ today \in today..LastDay
                      /\ scheduler.now \in Nat
                      /\ scheduler.now <= today
<1> SUFFICES ASSUME Inv
             PROVE  /\ today \in Nat
                    /\ today \in today..LastDay
                    /\ scheduler.now \in Nat
                    /\ scheduler.now <= today
  OBVIOUS
<1>1. today \in 1..LastDay /\ scheduler.now \in 0..today
  BY DEF Inv, TypeOK
<1> QED
  BY <1>1, ConstantFacts

\* Whatever a listed task's reminder says, it was due when it was listed, and
\* the clock has not gone back since.
LEMMA ListedReminder ==
    ASSUME Inv, NEW x \in scheduler.list
    PROVE  LET n == Reminder(scheduler.step, x.task, x.says)
           IN  /\ n \in Notifications
               /\ n.task = x.task
               /\ n.source \in {"upcoming", "overdue"}
               /\ n.source = "overdue" => n.about < today
               /\ n.source = "upcoming" => n.about <= today + Ahead
<1> DEFINE n == Reminder(scheduler.step, x.task, x.says)
<1>1. x \in Listed
  BY DEF Inv, TypeOK
<1>2. /\ x.task \in Tasks
      /\ x.says.assignee \in Users
      /\ scheduler.step \in {"upcoming", "overdue"}
      /\ DueKind(x.says.deadline, scheduler.now) = scheduler.step
  BY <1>1 DEF Inv, ListSound, Listed
<1>3. x.says.deadline \in Nat
  <2>1. x.says.deadline \in Deadlines \cup {0}
    BY <1>1 DEF Listed, Facts
  <2>2. \A d \in Deadlines \cup {0} : d \in Nat
    BY ConstantFacts
  <2> QED
    BY <2>1, <2>2
<1>4. /\ n.to = x.says.assignee
      /\ n.source = scheduler.step
      /\ n.task = x.task
      /\ n.about = x.says.deadline
  BY DEF Reminder
<1>5. n \in Notifications
  BY <1>2, <1>3 DEF Reminder, Notifications
<1>6. /\ scheduler.step = "overdue" => x.says.deadline < today
      /\ scheduler.step = "upcoming" => x.says.deadline <= today + Ahead
  BY <1>2, <1>3, Clock, DueKindMeaning DEF Ahead
<1> QED
  BY <1>2, <1>4, <1>5, <1>6

LEMMA DueIsSound ==
    ASSUME Inv, NEW kind \in {"upcoming", "overdue"}, NEW day \in Nat
    PROVE  /\ Due(kind, day) \in SUBSET Listed
           /\ \A x \in Due(kind, day) : /\ x.says.assignee \in Users
                                        /\ x.says.status # COMPLETED
                                        /\ DueKind(x.says.deadline, day) = kind
<1>1. ASSUME NEW x \in Due(kind, day)
      PROVE  /\ x \in Listed
             /\ x.says.assignee \in Users
             /\ x.says.status # COMPLETED
             /\ DueKind(x.says.deadline, day) = kind
  <2>1. PICK t \in Tasks : x = [task |-> t, says |-> row[t]]
    BY DEF Due
  <2>2. row[t] \in Facts
    BY DEF Inv, TypeOK
  <2> QED
    BY <2>1, <2>2 DEF Due, Listed, Facts
<1> QED
  BY <1>1

\* A step of the scheduler that adds a listed task's reminder or none.
LEMMA ReminderNotEarly ==
    ASSUME Inv, today' = today,
           \/ UNCHANGED noteVars
           \/ \E x \in scheduler.list :
                 CreateNotification(Reminder(scheduler.step, x.task, x.says))
    PROVE  /\ RemindersNeverEarly'
           /\ notifications' \in SUBSET Notifications
           /\ notifications \subseteq notifications'
           /\ \A n \in notifications' \ notifications :
                 n.source \in {"upcoming", "overdue"}
           /\ read' \in SUBSET notifications'
           /\ read' = read
<1>1. /\ notifications \in SUBSET Notifications
      /\ read \in SUBSET notifications
      /\ RemindersNeverEarly
  BY DEF Inv, TypeOK
<1>2. CASE UNCHANGED noteVars
  BY <1>1, <1>2 DEF noteVars, RemindersNeverEarly
<1>3. ASSUME NEW x \in scheduler.list,
             CreateNotification(Reminder(scheduler.step, x.task, x.says))
      PROVE  /\ RemindersNeverEarly'
             /\ notifications' \in SUBSET Notifications
             /\ notifications \subseteq notifications'
             /\ \A n \in notifications' \ notifications :
                   n.source \in {"upcoming", "overdue"}
             /\ read' \in SUBSET notifications'
             /\ read' = read
  <2> DEFINE n == Reminder(scheduler.step, x.task, x.says)
  <2>1. /\ n \in Notifications
        /\ n.source \in {"upcoming", "overdue"}
        /\ n.source = "overdue" => n.about < today
        /\ n.source = "upcoming" => n.about <= today + Ahead
    BY ListedReminder
  <2>2. notifications' = notifications \cup {n} /\ read' = read
    BY <1>3 DEF CreateNotification
  <2> HIDE DEF n
  <2> QED
    BY <1>1, <2>1, <2>2 DEF RemindersNeverEarly
<1> QED
  BY <1>2, <1>3

LEMMA SchedulerKeepsInv ==
    ASSUME Inv,
           \/ RunOnce \/ ListUpcoming \/ ListOverdue \/ EndRun \/ FailRun
           \/ \E x \in Listed : CreateDeadlineReminder(x)
    PROVE  Inv'
<1> DEFINE Schedulers == [step : {"idle", "list", "upcoming", "overdue"},
                          now : 0..today, list : SUBSET Listed]
<1>1. /\ scheduler \in Schedulers
      /\ scheduler.now \in 0..today
      /\ scheduler.now \in Nat
      /\ today \in Nat
      /\ today \in today..LastDay
  BY Clock DEF Inv, TypeOK
<1>2. Idle \in Schedulers
  BY <1>1 DEF Idle
<1>3. /\ today' = today
      /\ UNCHANGED <<sourceVars, consumerVars>>
      /\ \/ UNCHANGED noteVars
         \/ \E x \in scheduler.list :
               CreateNotification(Reminder(scheduler.step, x.task, x.says))
  BY DEF RunOnce, ListUpcoming, ListOverdue, EndRun, FailRun,
         CreateDeadlineReminder
<1>4. scheduler' \in Schedulers /\ ListSound'
  <2>1. CASE RunOnce
    <3>1. scheduler' = [Idle EXCEPT !.step = "list", !.now = today]
      BY <2>1 DEF RunOnce
    <3>2. scheduler' = [step |-> "list", now |-> today, list |-> {}]
      BY <3>1 DEF Idle
    <3>3. scheduler' \in Schedulers
      BY <1>1, <3>2
    <3>4. ListSound'
      BY <3>2 DEF ListSound
    <3> QED
      BY <3>3, <3>4
  <2>2. ASSUME NEW kind \in {"upcoming", "overdue"},
               scheduler' = [scheduler EXCEPT !.step = kind,
                                              !.list = Due(kind, scheduler.now)]
        PROVE  scheduler' \in Schedulers /\ ListSound'
    <3>1. Due(kind, scheduler.now) \in SUBSET Listed
      BY <1>1, DueIsSound
    <3>2. scheduler' \in Schedulers
      BY <1>1, <2>2, <3>1
    <3>3. /\ scheduler'.list = Due(kind, scheduler.now)
          /\ scheduler'.step = kind
          /\ scheduler'.now = scheduler.now
      BY <1>1, <2>2
    <3>4. \A x \in Due(kind, scheduler.now) :
              /\ x.says.assignee \in Users
              /\ x.says.status # COMPLETED
              /\ DueKind(x.says.deadline, scheduler.now) = kind
      BY <1>1, DueIsSound
    <3>5. ListSound'
      BY <3>3, <3>4 DEF ListSound
    <3> QED
      BY <3>2, <3>5
  <2>3. CASE ListUpcoming
    BY <2>2, <2>3 DEF ListUpcoming
  <2>4. CASE ListOverdue
    BY <2>2, <2>4 DEF ListOverdue
  <2>5. ASSUME NEW x \in Listed, CreateDeadlineReminder(x)
        PROVE  scheduler' \in Schedulers /\ ListSound'
    <3>1. scheduler' = [scheduler EXCEPT !.list = scheduler.list \ {x}]
      BY <2>5 DEF CreateDeadlineReminder
    <3>2. /\ scheduler'.step = scheduler.step
          /\ scheduler'.now = scheduler.now
          /\ scheduler'.list \subseteq scheduler.list
      BY <1>1, <3>1
    <3>3. scheduler' \in Schedulers
      BY <1>1, <3>1
    <3>4. ListSound'
      BY <3>2 DEF ListSound, Inv
    <3> QED
      BY <3>3, <3>4
  <2>6. CASE EndRun \/ FailRun
    <3>1. scheduler' = Idle
      BY <2>6 DEF EndRun, FailRun
    <3> QED
      BY <1>2, <3>1 DEF Idle, ListSound
  <2> QED
    BY <2>1, <2>3, <2>4, <2>5, <2>6
<1>5. scheduler' \in [step : {"idle", "list", "upcoming", "overdue"},
                      now : 0..today', list : SUBSET Listed]
  BY <1>3, <1>4
<1> QED
  BY <1>1, <1>3, <1>4, <1>5, ReminderNotEarly, OtherStepsKeepInv

-----------------------------------------------------------------------------
(* The inductive invariant. *)

LEMMA NextKeepsInv == Inv /\ [Next]_vars => Inv'
<1> SUFFICES ASSUME Inv, [Next]_vars PROVE Inv'
  OBVIOUS
<1>1. ASSUME NEW a \in Actors, Call(a)
      PROVE  Inv'
  BY <1>1, CallKeepsInv
<1>2. ASSUME NEW u \in Readers, NEW n \in notifications, MarkAsRead(u, n)
      PROVE  Inv'
  <2>1. /\ UNCHANGED <<today, sourceVars, consumerVars, scheduler, notifications>>
        /\ read' \in SUBSET notifications
    BY <1>2 DEF MarkAsRead, Inv, TypeOK
  <2> QED
    BY <2>1, Clock, OtherStepsKeepInv DEF Inv, TypeOK, ListSound, RemindersNeverEarly
<1>3. ASSUME NEW u \in Readers, MarkAllAsRead(u)
      PROVE  Inv'
  <2>1. /\ UNCHANGED <<today, sourceVars, consumerVars, scheduler, notifications>>
        /\ read' \in SUBSET notifications
    BY <1>3 DEF MarkAllAsRead, Inv, TypeOK
  <2> QED
    BY <2>1, Clock, OtherStepsKeepInv DEF Inv, TypeOK, ListSound, RemindersNeverEarly
<1>4. CASE NextDay
  <2>1. /\ UNCHANGED <<sourceVars, consumerVars, scheduler, notifications, read>>
        /\ today < LastDay
        /\ today' = today + 1
    BY <1>4 DEF NextDay, noteVars
  <2>2. today \in Nat /\ today' \in today..LastDay
    BY <2>1, Clock, ConstantFacts
  <2>3. scheduler' \in [step : {"idle", "list", "upcoming", "overdue"},
                        now : 0..today', list : SUBSET Listed]
    <3>1. scheduler \in [step : {"idle", "list", "upcoming", "overdue"},
                         now : 0..today, list : SUBSET Listed]
      BY DEF Inv, TypeOK
    <3>2. 0..today \subseteq 0..today'
      BY <2>1, <2>2
    <3> QED
      BY <2>1, <3>1, <3>2
  <2>4. RemindersNeverEarly'
    <3>1. ASSUME NEW n \in notifications
          PROVE  /\ n.source = "overdue" => n.about < today'
                 /\ n.source = "upcoming" => n.about <= today' + Ahead
      <4>1. n.about \in Nat
        BY DEF Inv, TypeOK, Notifications
      <4> QED
        BY <2>1, <2>2, <4>1 DEF Inv, RemindersNeverEarly, Ahead
    <3> QED
      BY <2>1, <3>1 DEF RemindersNeverEarly
  <2>5. /\ ListSound'
        /\ notifications' \in SUBSET Notifications
        /\ read' \in SUBSET notifications'
    BY <2>1 DEF Inv, TypeOK, ListSound
  <2> QED
    BY <2>1, <2>2, <2>3, <2>4, <2>5, OtherStepsKeepInv
<1>5. CASE UNCHANGED vars
  BY <1>5 DEF vars, sourceVars, consumerVars, noteVars, Inv, TypeOK, EventShape,
              HandlerPlace, Event, ListSound, NotesOfThePast,
              RemindersNeverEarly, AllButTheActorAreTold, IsTold
<1> QED
  BY <1>1, <1>2, <1>3, <1>4, <1>5, HandleEventKeepsInv, FailEventKeepsInv,
     CrashKeepsInv, SchedulerKeepsInv DEF Next

\* The invariant every other theorem rests on.
THEOREM RemindersInvariant == Spec => []Inv
BY InitInv, NextKeepsInv, PTL DEF Spec

\* The state is always well typed: the scheduler's day is never ahead of the
\* clock and no handler is under way without an event.
THEOREM RemindersTypeCorrect == Spec => []TypeOK
<1>1. Inv => TypeOK
  BY DEF Inv
<1> QED
  BY <1>1, RemindersInvariant, PTL

\* No reminder is created before its day, by the handlers or by the scheduler,
\* wherever midnight falls.
THEOREM NoReminderIsEarly == Spec => []RemindersNeverEarly
<1>1. Inv => RemindersNeverEarly
  BY DEF Inv
<1> QED
  BY <1>1, RemindersInvariant, PTL

\* A handled event has its notification exactly if it concerns another user
\* than its actor.
THEOREM TheActorIsSpared == Spec => []AllButTheActorAreTold
<1>1. Inv => AllButTheActorAreTold
  BY DEF Inv
<1> QED
  BY <1>1, RemindersInvariant, PTL

LEMMA NextKeepsRead == Inv /\ [Next]_vars => read \subseteq read'
<1> SUFFICES ASSUME Inv, [Next]_vars PROVE read \subseteq read'
  OBVIOUS
<1>1. ASSUME NEW a \in Actors, Call(a)
      PROVE  read' = read
  BY <1>1 DEF Call, CreateTask, AssignTask, ChangeDeadline, UpdateTaskStatus,
              UpdateTaskLabor, UpdatePlannedHours, AddMember, Publish, noteVars
<1>2. CASE HandleEvent
  BY <1>2, StatementEffect DEF HandleEvent
<1>3. CASE FailEvent
  <2>1. handled < Len(log) /\ (RunStatement \/ read' = read)
    BY <1>3 DEF FailEvent, noteVars
  <2> QED
    BY <2>1, StatementEffect
<1>4. CASE RunOnce \/ ListUpcoming \/ ListOverdue \/ EndRun \/ NextDay \/ Crash
  BY <1>4 DEF RunOnce, ListUpcoming, ListOverdue, EndRun, NextDay, Crash, noteVars
<1>5. ASSUME NEW x \in Listed, CreateDeadlineReminder(x)
      PROVE  read' = read
  BY <1>5 DEF CreateDeadlineReminder, CreateNotification
<1>6. CASE FailRun
  BY <1>6 DEF FailRun, CreateNotification, noteVars
<1>7. ASSUME NEW u \in Readers, NEW n \in notifications, MarkAsRead(u, n)
      PROVE  read \subseteq read'
  BY <1>7 DEF MarkAsRead
<1>8. ASSUME NEW u \in Readers, MarkAllAsRead(u)
      PROVE  read \subseteq read'
  BY <1>8 DEF MarkAllAsRead
<1>9. CASE UNCHANGED vars
  BY <1>9 DEF vars, noteVars
<1> QED
  BY <1>1, <1>2, <1>3, <1>4, <1>5, <1>6, <1>7, <1>8, <1>9 DEF Next

\* Inserting a reminder again never makes it unread.
THEOREM ReadNotificationsStayRead == Spec => ReadStaysRead
<1>1. Inv /\ [Next]_vars => [read \subseteq read']_vars
  BY NextKeepsRead
<1> QED
  BY <1>1, RemindersInvariant, PTL DEF Spec, ReadStaysRead

\* A reminder that appears in a step of the handlers.
LEMMA HandlersSpareCompleted ==
    ASSUME Inv, handled < Len(log), RunStatement,
           NEW n \in notifications' \ notifications,
           n.source \in {"overdue", "upcoming"},
           row[n.task].status = COMPLETED
    PROVE  step = "remind" /\ Event.kind = "deadline_changed"
<1>1. NewReminder(n) \/ NewEventNote(n)
  BY StatementEffect
<1>2. ~NewEventNote(n)
  BY EventFacts DEF NewEventNote, EventKinds
<1>3. step = "remind" /\ n.task = Event.task /\ Event.says.status # COMPLETED
  BY <1>1, <1>2 DEF NewReminder
<1> QED
  BY <1>3 DEF Inv, HandlerPlace

LEMMA NextSparesCompleted ==
    ASSUME Inv, [Next]_vars,
           NEW n \in notifications' \ notifications,
           n.source \in {"overdue", "upcoming"},
           row[n.task].status = COMPLETED
    PROVE  \/ step = "remind" /\ Event.kind = "deadline_changed"
           \/ \E x \in scheduler.list :
                 x.task = n.task /\ x.says.status # COMPLETED
<1> DEFINE Goal == \/ step = "remind" /\ Event.kind = "deadline_changed"
                   \/ \E x \in scheduler.list :
                         x.task = n.task /\ x.says.status # COMPLETED
<1>1. ASSUME notifications' = notifications
      PROVE  Goal
  BY <1>1
<1>2. ASSUME NEW a \in Actors, Call(a)
      PROVE  notifications' = notifications
  BY <1>2 DEF Call, CreateTask, AssignTask, ChangeDeadline, UpdateTaskStatus,
              UpdateTaskLabor, UpdatePlannedHours, AddMember, Publish, noteVars
<1>3. CASE HandleEvent
  BY <1>3, HandlersSpareCompleted DEF HandleEvent
<1>4. CASE FailEvent
  <2>1. handled < Len(log) /\ (RunStatement \/ notifications' = notifications)
    BY <1>4 DEF FailEvent, noteVars
  <2> QED
    BY <1>1, <2>1, HandlersSpareCompleted
<1>5. ASSUME RunOnce \/ ListUpcoming \/ ListOverdue \/ EndRun \/ NextDay \/ Crash
      PROVE  notifications' = notifications
  BY <1>5 DEF RunOnce, ListUpcoming, ListOverdue, EndRun, NextDay, Crash, noteVars
<1>6. ASSUME NEW x \in scheduler.list,
             CreateNotification(Reminder(scheduler.step, x.task, x.says))
      PROVE  Goal
  <2>1. n = Reminder(scheduler.step, x.task, x.says)
    BY <1>6 DEF CreateNotification
  <2>2. n.task = x.task
    BY <2>1, ListedReminder
  <2> QED
    BY <2>2 DEF Inv, ListSound
<1>7. ASSUME NEW x \in Listed, CreateDeadlineReminder(x)
      PROVE  Goal
  BY <1>6, <1>7 DEF CreateDeadlineReminder
<1>8. CASE FailRun
  BY <1>1, <1>6, <1>8 DEF FailRun, noteVars
<1>9. ASSUME NEW u \in Readers, NEW m \in notifications, MarkAsRead(u, m)
      PROVE  notifications' = notifications
  BY <1>9 DEF MarkAsRead
<1>10. ASSUME NEW u \in Readers, MarkAllAsRead(u)
       PROVE  notifications' = notifications
  BY <1>10 DEF MarkAllAsRead
<1>11. ASSUME UNCHANGED vars
       PROVE  notifications' = notifications
  BY <1>11 DEF vars, noteVars
<1> HIDE DEF Goal
<1>12. Goal
  BY <1>1, <1>2, <1>3, <1>4, <1>5, <1>7, <1>8, <1>9, <1>10, <1>11 DEF Next, Goal
<1> QED
  BY <1>12 DEF Goal

\* A task known as completed is reminded of only by the handler of its new
\* deadline or by a scheduler run that listed it while it was open.
THEOREM CompletedTasksAreSpared == Spec => CompletedTasksAreLeftAlone
<1> DEFINE Spared ==
      \A n \in notifications' \ notifications :
          /\ n.source \in {"overdue", "upcoming"}
          /\ row[n.task].status = COMPLETED
          => \/ step = "remind" /\ Event.kind = "deadline_changed"
             \/ \E x \in scheduler.list :
                   x.task = n.task /\ x.says.status # COMPLETED
<1>1. Inv /\ [Next]_vars => Spared
  BY NextSparesCompleted
<1>2. Inv /\ [Next]_vars => [Spared]_vars
  BY <1>1
<1> QED
  BY <1>2, RemindersInvariant, PTL DEF Spec, CompletedTasksAreLeftAlone

-----------------------------------------------------------------------------
(* The copy of a task.  It is compared with what the calls on the task had  *)
(* come to when the event now stored was published, which no variable keeps.*)
(* The second invariant asserts that there is a history: for each number of *)
(* events what they say, taken together.                                    *)

\* What the calls knew of the task is in the event that tells of one of them.
SaysWhatWasTold(e, known) ==
    /\ e.kind = "created" <=> known = NoRow
    /\ e.kind = "created" => e.says.status = TODO
    /\ e.kind \notin {"created", "assigned"} => e.says.assignee = known.assignee
    /\ e.kind \in {"assigned", "status_changed"} => e.says.deadline = known.deadline
    /\ e.kind = "deadline_changed" => e.says.deadline # 0
    /\ e.kind = "updated" => e.says.deadline \in {known.deadline, 0}
    /\ e.kind = "assigned" => e.says.status = known.status
    /\ e.kind = "deadline_changed" => e.says.status = 0
    /\ e.kind = "status_changed" => e.says.status # 0
    /\ e.kind = "updated" => e.says.status \in {known.status, 0}

\* What is known of each task changes from `old` to `new` with event e.
Tells(e, old, new) ==
    IF e.task \in Tasks
    THEN /\ SaysWhatWasTold(e, old[e.task])
         /\ new = [old EXCEPT ![e.task] = Merge(e.says, @)]
    ELSE new = old

\* One of the first n events names the user and the day.
Said(n, t, user, day) ==
    \E i \in 1..n : /\ log[i].task = t
                    /\ log[i].says.assignee = user
                    /\ log[i].says.deadline = day

History(h) ==
    /\ h \in [0..Len(log) -> [Tasks -> Facts]]
    /\ h[0] = [t \in Tasks |-> NoRow]
    /\ h[Len(log)] = told
    /\ \A i \in 1..Len(log) : Tells(log[i], h[i - 1], h[i])
    /\ \A i \in 0..Len(log), t \in Tasks :
          /\ h[i][t] # NoRow => h[i][t].assignee # 0
          /\ h[i][t].deadline # 0 => Said(i, t, h[i][t].assignee, h[i][t].deadline)

Unharmed(t) == \A i \in lost : log[i].task # t

\* The first n events have an update that carried no status.
StatusDropped(n, t) ==
    \E i \in 1..n : /\ log[i].task = t
                    /\ log[i].kind = "updated"
                    /\ log[i].says.status = 0

Agrees(r, known, n, t) ==
    /\ r.assignee = known.assignee
    /\ r.deadline = known.deadline
    /\ \/ r.status = known.status
       \/ r.status = 0 /\ StatusDropped(n, t)

\* How many events the rows have seen: the first statement of a handler is
\* the one that stores.
StoredEvents == IF step = "store" THEN handled ELSE handled + 1

RowsKeepUp(h) ==
    \A t \in Tasks : Unharmed(t) => Agrees(row[t], h[StoredEvents][t], StoredEvents, t)

\* What the scheduler has listed was said of the task.
ListTrue ==
    \A x \in scheduler.list :
        Unharmed(x.task) =>
            Said(Len(log), x.task, x.says.assignee, x.says.deadline)

CopiesInv ==
    /\ \E h : History(h) /\ RowsKeepUp(h)
    /\ ListTrue
    /\ RemindersWereTrue

LEMMA MergeFields ==
    ASSUME NEW f \in Facts, NEW g \in Facts
    PROVE  /\ Merge(f, g).assignee = IF f.assignee # 0 THEN f.assignee ELSE g.assignee
           /\ Merge(f, g).deadline = IF f.deadline # 0 THEN f.deadline ELSE g.deadline
           /\ Merge(f, g).status = IF f.status # 0 THEN f.status ELSE g.status
<1>1. DOMAIN NoRow = {"assignee", "deadline", "status"}
  BY DEF NoRow
<1>2. \A k \in {"assignee", "deadline", "status"} :
          Merge(f, g)[k] = Given(f[k], g[k])
  BY <1>1 DEF Merge
<1>3. /\ f.assignee \in Nat
      /\ f.deadline \in Nat
      /\ f.status \in Nat
  <2>1. /\ f.assignee \in Users \cup {0}
        /\ f.deadline \in Deadlines \cup {0}
        /\ f.status \in Statuses \cup {0}
    BY DEF Facts
  <2>2. /\ Users \cup {0} \subseteq Nat
        /\ Deadlines \cup {0} \subseteq Nat
        /\ Statuses \cup {0} \subseteq Nat
    BY ConstantFacts
  <2> QED
    BY <2>1, <2>2
<1>4. \A x \in Nat : x > 0 <=> x # 0
  OBVIOUS
<1> QED
  BY <1>2, <1>3, <1>4 DEF Given

\* A row that agreed with what was known agrees again once it has taken the
\* event in.
LEMMA StoredAgrees ==
    ASSUME NEW e \in Events, NEW known \in Facts, NEW r \in Facts,
           NEW n \in Nat, NEW t \in Tasks,
           e = log[n + 1], e.task = t, e.kind # "member_added",
           e.says.assignee # 0,
           known # NoRow => known.assignee # 0,
           SaysWhatWasTold(e, known),
           Agrees(r, known, n, t)
    PROVE  Agrees(Stored(e, r), Merge(e.says, known), n + 1, t)
<1> DEFINE stored == Stored(e, r)
           merged == Merge(e.says, known)
<1>1. e.says \in Facts
  BY DEF Events
<1>2. /\ merged.assignee = e.says.assignee
      /\ merged.deadline = IF e.says.deadline # 0 THEN e.says.deadline
                           ELSE known.deadline
      /\ merged.status = IF e.says.status # 0 THEN e.says.status
                         ELSE known.status
  BY <1>1, MergeFields
<1>3. StatusDropped(n, t) => StatusDropped(n + 1, t)
  BY DEF StatusDropped
<1>4. CASE e.kind \in {"created", "assigned", "updated"}
  <2>1. Merge(e.says, r) \in Facts
    BY <1>1, MergeType
  <2>2. stored = [Merge(e.says, r) EXCEPT !.status = e.says.status]
    BY <1>4 DEF Stored
  <2>3. /\ stored.assignee = e.says.assignee
        /\ stored.deadline = IF e.says.deadline # 0 THEN e.says.deadline
                             ELSE known.deadline
        /\ stored.status = e.says.status
    BY <1>1, <2>1, <2>2, MergeFields DEF Facts, Agrees
  <2>4. CASE e.says.status # 0
    BY <1>2, <2>3, <2>4 DEF Agrees
  <2>5. CASE e.says.status = 0 /\ e.kind = "updated"
    <3>1. StatusDropped(n + 1, t)
      BY <2>5 DEF StatusDropped
    <3> QED
      BY <1>2, <2>3, <2>5, <3>1 DEF Agrees
  <2>6. CASE e.says.status = 0 /\ e.kind = "assigned"
    BY <1>2, <2>3, <2>6 DEF Agrees, SaysWhatWasTold
  <2>7. CASE e.says.status = 0 /\ e.kind = "created"
    BY <2>7 DEF SaysWhatWasTold, TODO
  <2> QED
    BY <1>4, <2>4, <2>5, <2>6, <2>7
<1>5. ASSUME e.kind \in {"deadline_changed", "status_changed"}
      PROVE  r # NoRow /\ e.says.assignee = known.assignee
  <2>1. known.assignee # 0 /\ e.says.assignee = known.assignee
    BY <1>5 DEF SaysWhatWasTold
  <2> QED
    BY <2>1 DEF Agrees, NoRow
<1>6. CASE e.kind = "deadline_changed"
  <2>1. stored = [r EXCEPT !.assignee = e.says.assignee,
                           !.deadline = e.says.deadline]
    BY <1>5, <1>6 DEF Stored
  <2>2. /\ stored.assignee = e.says.assignee
        /\ stored.deadline = e.says.deadline
        /\ stored.status = r.status
    BY <2>1 DEF Facts
  <2>3. e.says.deadline # 0 /\ e.says.status = 0
    BY <1>6 DEF SaysWhatWasTold
  <2> QED
    BY <1>2, <1>3, <2>2, <2>3 DEF Agrees
<1>7. CASE e.kind = "status_changed"
  <2>1. stored = [r EXCEPT !.status = e.says.status]
    BY <1>5, <1>7 DEF Stored
  <2>2. /\ stored.assignee = known.assignee
        /\ stored.deadline = known.deadline
        /\ stored.status = e.says.status
    BY <2>1 DEF Facts, Agrees
  <2>3. e.says.deadline = known.deadline /\ e.says.status # 0
    BY <1>7 DEF SaysWhatWasTold
  <2> QED
    BY <1>2, <1>5, <1>7, <2>2, <2>3 DEF Agrees
<1> QED
  BY <1>4, <1>6, <1>7 DEF Events, EventKinds

\* One event more lengthens the history by what is known after it.
LEMMA HistoryGoesOn ==
    ASSUME Inv, NEW h, History(h), NEW e \in Events,
           log' = Append(log, e), told' \in [Tasks -> Facts],
           Tells(e, told, told'), e.says.assignee # 0
    PROVE  \E g : History(g)' /\ \A i \in 0..Len(log) : g[i] = h[i]
<1> DEFINE SaidNow(n, t, u, d) ==
             \E i \in 1..n : /\ log'[i].task = t
                             /\ log'[i].says.assignee = u
                             /\ log'[i].says.deadline = d
<1>1. /\ log \in Seq(Events)
      /\ told \in [Tasks -> Facts]
      /\ Len(log) \in Nat
  BY LenProperties DEF Inv, TypeOK
<1>2. /\ Len(log') = Len(log) + 1
      /\ \A i \in 1..Len(log) : log'[i] = log[i]
      /\ log'[Len(log) + 1] = e
  BY <1>1, AppendProperties
<1>3. PICK g : g = [i \in 0..(Len(log) + 1) |->
                       IF i \in 0..Len(log) THEN h[i] ELSE told']
  OBVIOUS
<1>4. /\ \A i \in 0..Len(log) : g[i] = h[i]
      /\ g[Len(log) + 1] = told'
      /\ g[Len(log)] = told
  BY <1>1, <1>3 DEF History
<1>5. g \in [0..Len(log') -> [Tasks -> Facts]]
  <2>1. \A i \in 0..Len(log) : h[i] \in [Tasks -> Facts]
    BY DEF History
  <2> QED
    BY <1>1, <1>2, <1>3, <2>1
<1>6. g[0] = [t \in Tasks |-> NoRow] /\ g[Len(log')] = told'
  BY <1>1, <1>2, <1>4 DEF History
<1>7. ASSUME NEW i \in 1..Len(log')
      PROVE  Tells(log'[i], g[i - 1], g[i])
  <2>1. CASE i \in 1..Len(log)
    <3>1. g[i] = h[i] /\ g[i - 1] = h[i - 1] /\ log'[i] = log[i]
      BY <1>1, <1>2, <1>4, <2>1
    <3> QED
      BY <2>1, <3>1 DEF History
  <2>2. CASE i = Len(log) + 1
    BY <1>1, <1>2, <1>4, <2>2
  <2> QED
    BY <1>1, <1>2, <2>1, <2>2
<1>8. ASSUME NEW i \in 0..Len(log), NEW t \in Tasks, NEW u, NEW d, Said(i, t, u, d)
      PROVE  \A n \in i..Len(log') : SaidNow(n, t, u, d)
  BY <1>1, <1>2, <1>8 DEF Said
<1>9. ASSUME NEW t \in Tasks
      PROVE  /\ told'[t] # NoRow => told'[t].assignee # 0
             /\ told'[t].deadline # 0 =>
                   SaidNow(Len(log'), t, told'[t].assignee, told'[t].deadline)
  <2>1. /\ told[t] # NoRow => told[t].assignee # 0
        /\ told[t].deadline # 0 =>
              Said(Len(log), t, told[t].assignee, told[t].deadline)
    BY <1>1 DEF History
  <2>2. told[t].deadline # 0 =>
            SaidNow(Len(log'), t, told[t].assignee, told[t].deadline)
    BY <1>1, <1>2, <1>8, <2>1
  <2>3. CASE e.task # t
    <3>1. told'[t] = told[t]
      BY <1>1, <2>3 DEF Tells
    <3> QED
      BY <2>1, <2>2, <3>1
  <2>4. CASE e.task = t
    <3>1. e.says \in Facts /\ told[t] \in Facts
      BY <1>1 DEF Events
    <3>2. told'[t] = Merge(e.says, told[t]) /\ SaysWhatWasTold(e, told[t])
      BY <1>1, <2>4 DEF Tells
    <3>3. /\ told'[t].assignee = e.says.assignee
          /\ told'[t].deadline = IF e.says.deadline # 0 THEN e.says.deadline
                                 ELSE told[t].deadline
      BY <3>1, <3>2, MergeFields
    <3>4. CASE e.says.deadline # 0
      <4>1. SaidNow(Len(log'), t, e.says.assignee, e.says.deadline)
        BY <1>1, <1>2, <2>4 DEF Said
      <4> QED
        BY <3>3, <3>4, <4>1
    <3>5. CASE e.says.deadline = 0 /\ told[t].deadline # 0
      <4>1. e.says.assignee = told[t].assignee
        BY <3>2, <3>5 DEF SaysWhatWasTold, NoRow
      <4> QED
        BY <2>2, <3>3, <3>5, <4>1
    <3> QED
      BY <3>3, <3>4, <3>5
  <2> QED
    BY <2>3, <2>4
<1>10. ASSUME NEW i \in 0..Len(log'), NEW t \in Tasks
       PROVE  /\ g[i][t] # NoRow => g[i][t].assignee # 0
              /\ g[i][t].deadline # 0 =>
                    SaidNow(i, t, g[i][t].assignee, g[i][t].deadline)
  <2>1. CASE i \in 0..Len(log)
    BY <1>1, <1>2, <1>4, <2>1 DEF History, Said
  <2>2. CASE i = Len(log) + 1
    BY <1>2, <1>4, <1>9, <2>2
  <2> QED
    BY <1>1, <1>2, <2>1, <2>2
<1>11. History(g)'
  BY <1>5, <1>6, <1>7, <1>10 DEF History, Said
<1> QED
  BY <1>4, <1>11

-----------------------------------------------------------------------------
(* The steps keep the second invariant.  Most change nothing it speaks of.  *)

LEMMA SaidLater ==
    ASSUME Inv, NEW n \in 0..Len(log), NEW t, NEW u, NEW d, Said(n, t, u, d)
    PROVE  Said(Len(log), t, u, d)
<1>1. Len(log) \in Nat
  BY LenProperties DEF Inv, TypeOK
<1> QED
  BY <1>1 DEF Said

LEMMA StoredEventsType == Inv => StoredEvents \in 0..Len(log) /\ handled \in Nat
<1> SUFFICES ASSUME Inv PROVE StoredEvents \in 0..Len(log) /\ handled \in Nat
  OBVIOUS
<1>1. Len(log) \in Nat /\ handled \in 0..Len(log)
      /\ (step # "store" => handled < Len(log))
  BY LenProperties DEF Inv, TypeOK
<1> QED
  BY <1>1 DEF StoredEvents

\* The row of a task that no fault has hit holds what was said.
LEMMA RowWasSaid ==
    ASSUME Inv, CopiesInv, NEW t \in Tasks, Unharmed(t), row[t].deadline # 0
    PROVE  Said(Len(log), t, row[t].assignee, row[t].deadline)
<1>1. PICK h : History(h) /\ RowsKeepUp(h)
  BY DEF CopiesInv
<1>2. /\ row[t].assignee = h[StoredEvents][t].assignee
      /\ row[t].deadline = h[StoredEvents][t].deadline
  BY <1>1 DEF RowsKeepUp, Agrees
<1>3. Said(StoredEvents, t, row[t].assignee, row[t].deadline)
  BY <1>1, <1>2, StoredEventsType DEF History
<1> QED
  BY <1>3, StoredEventsType, SaidLater

LEMMA DueIsTrue ==
    ASSUME Inv, CopiesInv, NEW kind, NEW day,
           NEW x \in Due(kind, day), Unharmed(x.task)
    PROVE  Said(Len(log), x.task, x.says.assignee, x.says.deadline)
<1>1. PICK t \in Tasks : x = [task |-> t, says |-> row[t]]
  BY DEF Due
<1>2. x.task = t /\ x.says = row[t] /\ x.says.deadline # 0
  BY <1>1 DEF Due
<1> QED
  BY <1>2, RowWasSaid

\* A step of the consumer after which the event in hand is stored, or its task
\* is one that a fault has hit.
LEMMA RowsGoOn ==
    ASSUME Inv, handled < Len(log), NEW h, History(h), RowsKeepUp(h),
           log' = log, lost \subseteq lost', StoredEvents' = handled + 1,
           \A t \in Tasks :
               Unharmed(t)' =>
                   row'[t] = IF t = Event.task /\ step = "store"
                             THEN Stored(Event, row[t]) ELSE row[t]
    PROVE  RowsKeepUp(h)'
<1>1. SUFFICES ASSUME NEW t \in Tasks, Unharmed(t)'
               PROVE  Agrees(row[t], h[StoredEvents][t], StoredEvents, t)'
  BY DEF RowsKeepUp
<1>2. Unharmed(t)
  BY <1>1 DEF Unharmed
<1>3. Agrees(row[t], h[StoredEvents][t], StoredEvents, t)
  BY <1>2 DEF RowsKeepUp
<1>4. \A n : StatusDropped(n, t)' <=> StatusDropped(n, t)
  BY DEF StatusDropped
<1>5. SUFFICES Agrees(row'[t], h[handled + 1][t], handled + 1, t)
  BY <1>4 DEF Agrees
<1>6. /\ handled + 1 \in 1..Len(log)
      /\ handled \in 0..Len(log)
      /\ handled \in Nat
      /\ Event \in Events
  BY EventFacts
<1>7. Tells(Event, h[handled], h[handled + 1])
  <2>1. Tells(log[handled + 1], h[(handled + 1) - 1], h[handled + 1])
    BY <1>6 DEF History
  <2> QED
    BY <1>6, <2>1 DEF Event
<1>8. h[handled] \in [Tasks -> Facts]
  BY <1>6 DEF History
<1>9. CASE t # Event.task
  <2>1. row'[t] = row[t]
    BY <1>1, <1>9
  <2>2. h[handled + 1][t] = h[handled][t]
    BY <1>7, <1>8, <1>9 DEF Tells
  <2>3. StatusDropped(StoredEvents, t) => StatusDropped(handled + 1, t)
    BY <1>6 DEF StatusDropped, StoredEvents
  <2>4. h[StoredEvents][t] = h[handled + 1][t]
    BY <2>2 DEF StoredEvents
  <2> QED
    BY <1>3, <2>1, <2>3, <2>4 DEF Agrees
<1>10. CASE t = Event.task /\ step # "store"
  BY <1>1, <1>3, <1>10 DEF StoredEvents
<1>11. CASE t = Event.task /\ step = "store"
  <2>1. row'[t] = Stored(Event, row[t])
    BY <1>1, <1>11
  <2>2. SaysWhatWasTold(Event, h[handled][t])
    BY <1>7, <1>11 DEF Tells
  <2>3. h[handled + 1][t] = Merge(Event.says, h[handled][t])
    BY <1>7, <1>8, <1>11 DEF Tells
  <2>4. Agrees(row[t], h[handled][t], handled, t)
    BY <1>3, <1>11 DEF StoredEvents
  <2>5. h[handled][t] # NoRow => h[handled][t].assignee # 0
    BY <1>6 DEF History
  <2>6. /\ Event.kind # "member_added"
        /\ Event.says.assignee # 0
    BY <1>11, EventFacts, ConstantFacts
  <2>7. row[t] \in Facts /\ h[handled][t] \in Facts
    BY <1>8 DEF Inv, TypeOK
  <2>8. Event = log[handled + 1]
    BY DEF Event
  <2> HIDE DEF Event
  <2>9. Agrees(Stored(Event, row[t]), Merge(Event.says, h[handled][t]), handled + 1, t)
    BY <1>6, <1>11, <2>2, <2>4, <2>5, <2>6, <2>7, <2>8, StoredAgrees
  <2> QED
    BY <2>1, <2>3, <2>9
<1> QED
  BY <1>9, <1>10, <1>11

\* What is said of the past stays said.
LEMMA PastStays ==
    ASSUME Inv, CopiesInv, log' = log, told' = told, lost \subseteq lost',
           \A x \in scheduler'.list \ scheduler.list :
               Unharmed(x.task) =>
                   Said(Len(log), x.task, x.says.assignee, x.says.deadline),
           \A n \in notifications' \ notifications :
               /\ n.source \in {"overdue", "upcoming"}
               /\ Unharmed(n.task)
               => Said(Len(log), n.task, n.to, n.about)
    PROVE  /\ \A h : History(h) => History(h)'
           /\ ListTrue'
           /\ RemindersWereTrue'
<1>1. \A h : History(h) => History(h)'
  BY DEF History, Said
<1>2. \A t : Unharmed(t)' => Unharmed(t)
  BY DEF Unharmed
<1>3. ListTrue'
  BY <1>2 DEF CopiesInv, ListTrue, Said
<1>4. \A n \in notifications :
          /\ n.source \in {"overdue", "upcoming"}
          /\ Unharmed(n.task)
          => Said(Len(log), n.task, n.to, n.about)
  BY DEF CopiesInv, RemindersWereTrue, Unharmed, Said
<1>5. \A n \in notifications' :
          /\ n.source \in {"overdue", "upcoming"}
          /\ Unharmed(n.task)'
          => Said(Len(log), n.task, n.to, n.about)
  BY <1>2, <1>4
<1>6. RemindersWereTrue'
  BY <1>5 DEF RemindersWereTrue, Unharmed, Said
<1> QED
  BY <1>1, <1>3, <1>6

LEMMA StatementKeepsPast ==
    ASSUME Inv, CopiesInv, handled < Len(log),
           RunStatement \/ UNCHANGED noteVars,
           log' = log, told' = told, lost \subseteq lost', scheduler' = scheduler
    PROVE  /\ \A h : History(h) => History(h)'
           /\ ListTrue'
           /\ RemindersWereTrue'
<1>1. ASSUME NEW n \in notifications' \ notifications,
             n.source \in {"overdue", "upcoming"}
      PROVE  Said(Len(log), n.task, n.to, n.about)
  <2>1. NewReminder(n) \/ NewEventNote(n)
    BY <1>1, StatementEffect DEF noteVars
  <2>2. ~NewEventNote(n)
    BY <1>1, EventFacts DEF NewEventNote, EventKinds
  <2>3. /\ n.task = Event.task
        /\ n.to = Event.says.assignee
        /\ n.about = Event.says.deadline
    BY <2>1, <2>2 DEF NewReminder
  <2> QED
    BY <2>3, EventFacts DEF Said, Event
<1> QED
  BY <1>1, PastStays

LEMMA HandleEventKeepsCopies ==
    ASSUME Inv, CopiesInv, HandleEvent
    PROVE  CopiesInv'
<1>1. /\ handled < Len(log)
      /\ RunStatement
      /\ UNCHANGED <<log, told, scheduler, lost>>
  BY DEF HandleEvent, sourceVars
<1>2. PICK h : History(h) /\ RowsKeepUp(h)
  BY DEF CopiesInv
<1>3. row \in [Tasks -> Facts] /\ step \in {"store", "remind", "notify"}
  BY DEF Inv, TypeOK
<1>4. StoredEvents' = handled + 1
  <2>1. CASE step = LastStep(Event.kind)
    BY <2>1 DEF HandleEvent, EndEvent, StoredEvents
  <2>2. CASE step # LastStep(Event.kind)
    <3>1. handled' = handled /\ step' \in {"remind", "notify"}
      BY <2>2 DEF HandleEvent, StepAfter
    <3> QED
      BY <3>1 DEF StoredEvents
  <2> QED
    BY <2>1, <2>2
<1>5. ASSUME NEW t \in Tasks
      PROVE  row'[t] = IF t = Event.task /\ step = "store"
                       THEN Stored(Event, row[t]) ELSE row[t]
  <2>1. CASE StoreTask
    BY <1>3, <2>1 DEF StoreTask
  <2>2. CASE SyncDeadlineReminders \/ NotifyRecipient
    <3>1. row' = row
      BY <2>2 DEF SyncDeadlineReminders, NotifyRecipient
    <3>2. step = "store" => Event.task = NoTask
      BY <1>1, <2>2, EventFacts DEF SyncDeadlineReminders, NotifyRecipient
    <3> QED
      BY <3>1, <3>2, ConstantFacts
  <2> QED
    BY <1>1, <2>1, <2>2 DEF RunStatement
<1>6. RowsKeepUp(h)'
  BY <1>1, <1>2, <1>4, <1>5, RowsGoOn
<1>7. (\A k : History(k) => History(k)') /\ ListTrue' /\ RemindersWereTrue'
  BY <1>1, StatementKeepsPast
<1> QED
  BY <1>2, <1>6, <1>7 DEF CopiesInv

\* A handler cut short, by a fault or by a crash.
LEMMA CutShortKeepsRows ==
    ASSUME Inv, handled < Len(log), NEW h, History(h), RowsKeepUp(h),
           log' = log, EndEvent, lost' = lost \cup {handled + 1},
           \A t \in Tasks : t # Event.task => row'[t] = row[t]
    PROVE  RowsKeepUp(h)'
<1>1. StoredEvents' = handled + 1
  BY DEF EndEvent, StoredEvents
<1>2. ASSUME NEW t \in Tasks, Unharmed(t)'
      PROVE  t # Event.task
  BY <1>2 DEF Unharmed, Event
<1> QED
  BY <1>1, <1>2, RowsGoOn

LEMMA FailEventKeepsCopies ==
    ASSUME Inv, CopiesInv, FailEvent
    PROVE  CopiesInv'
<1>1. /\ handled < Len(log)
      /\ RunStatement \/ UNCHANGED <<row, noteVars>>
      /\ EndEvent
      /\ lost' = lost \cup {handled + 1}
      /\ UNCHANGED <<log, told, scheduler>>
  BY DEF FailEvent, sourceVars
<1>2. PICK h : History(h) /\ RowsKeepUp(h)
  BY DEF CopiesInv
<1>3. \A t \in Tasks : t # Event.task => row'[t] = row[t]
  BY <1>1 DEF RunStatement, StoreTask, SyncDeadlineReminders, NotifyRecipient,
              Inv, TypeOK
<1>4. RowsKeepUp(h)'
  BY <1>1, <1>2, <1>3, CutShortKeepsRows
<1>5. (\A k : History(k) => History(k)') /\ ListTrue' /\ RemindersWereTrue'
  BY <1>1, StatementKeepsPast
<1> QED
  BY <1>2, <1>4, <1>5 DEF CopiesInv

\* A step that leaves the consumer alone.
LEMMA RowsStay ==
    ASSUME UNCHANGED <<log, consumerVars>>
    PROVE  \A h : RowsKeepUp(h) => RowsKeepUp(h)'
BY DEF consumerVars, RowsKeepUp, Agrees, StatusDropped, Unharmed, StoredEvents

LEMMA CrashKeepsCopies ==
    ASSUME Inv, CopiesInv, Crash
    PROVE  CopiesInv'
<1>1. UNCHANGED <<log, told, row, notifications>> /\ scheduler' = Idle
  BY DEF Crash, sourceVars, noteVars
<1>2. lost \subseteq lost'
  BY DEF Crash
<1>3. (\A k : History(k) => History(k)') /\ ListTrue' /\ RemindersWereTrue'
  BY <1>1, <1>2, PastStays DEF Idle
<1>4. PICK h : History(h) /\ RowsKeepUp(h)
  BY DEF CopiesInv
<1>5. CASE step = "store"
  <2>1. RowsKeepUp(h)'
    BY <1>1, <1>4, <1>5, RowsStay DEF Crash, consumerVars
  <2> QED
    BY <1>3, <1>4, <2>1 DEF CopiesInv
<1>6. CASE step # "store"
  <2>1. EndEvent /\ lost' = lost \cup {handled + 1} /\ handled < Len(log)
    BY <1>6 DEF Crash, Inv, TypeOK
  <2>2. RowsKeepUp(h)'
    BY <1>1, <1>4, <2>1, CutShortKeepsRows
  <2> QED
    BY <1>3, <1>4, <2>2 DEF CopiesInv
<1> QED
  BY <1>5, <1>6

\* A step of the scheduler, of a reader or of the clock.
LEMMA OtherStepsKeepCopies ==
    ASSUME Inv, CopiesInv,
           UNCHANGED <<sourceVars, consumerVars>>,
           \/ scheduler'.list \subseteq scheduler.list
           \/ \E kind, day : scheduler'.list = Due(kind, day),
           \/ notifications' = notifications
           \/ \E x \in scheduler.list :
                 CreateNotification(Reminder(scheduler.step, x.task, x.says))
    PROVE  CopiesInv'
<1>1. UNCHANGED <<log, told, lost>>
  BY DEF sourceVars, consumerVars
<1>2. ASSUME NEW x \in scheduler'.list \ scheduler.list, Unharmed(x.task)
      PROVE  Said(Len(log), x.task, x.says.assignee, x.says.deadline)
  BY <1>2, DueIsTrue
<1>3. ASSUME NEW n \in notifications' \ notifications, Unharmed(n.task)
      PROVE  Said(Len(log), n.task, n.to, n.about)
  <2>1. PICK x \in scheduler.list :
            CreateNotification(Reminder(scheduler.step, x.task, x.says))
    BY <1>3
  <2>2. n = Reminder(scheduler.step, x.task, x.says)
    BY <1>3, <2>1 DEF CreateNotification
  <2>3. n.task = x.task /\ n.to = x.says.assignee /\ n.about = x.says.deadline
    BY <2>2 DEF Reminder
  <2> QED
    BY <1>3, <2>3 DEF CopiesInv, ListTrue
<1>4. (\A k : History(k) => History(k)') /\ ListTrue' /\ RemindersWereTrue'
  BY <1>1, <1>2, <1>3, PastStays
<1> QED
  BY <1>1, <1>4, RowsStay DEF CopiesInv

\* Each call publishes one event, which says what was told of its task.
LEMMA CallTells ==
    ASSUME Inv, NEW a \in Actors, Call(a)
    PROVE  \E e \in Events :
              /\ log' = Append(log, e)
              /\ Tells(e, told, told')
              /\ e.says.assignee \in Users
              /\ UNCHANGED <<consumerVars, scheduler, notifications>>
<1>1. ASSUME NEW kind \in EventKinds, NEW t \in Tasks \cup {NoTask},
             NEW says \in Facts, says.assignee \in Users,
             Publish(kind, t, a, says),
             t \in Tasks =>
                SaysWhatWasTold([kind |-> kind, task |-> t, actor |-> a,
                                 says |-> says], told[t])
      PROVE  \E e \in Events :
                /\ log' = Append(log, e)
                /\ Tells(e, told, told')
                /\ e.says.assignee \in Users
                /\ UNCHANGED <<consumerVars, scheduler, notifications>>
  <2> DEFINE e == [kind |-> kind, task |-> t, actor |-> a, says |-> says]
  <2>1. e \in Events
    BY DEF Events
  <2>2. log' = Append(log, e) /\ UNCHANGED <<consumerVars, scheduler, notifications>>
    BY <1>1 DEF Publish, noteVars
  <2>3. Tells(e, told, told')
    BY <1>1 DEF Tells, Publish
  <2> QED
    BY <1>1, <2>1, <2>2, <2>3
<1>2. ASSUME NEW t \in Tasks, told[t] # NoRow
      PROVE  told[t] \in Facts /\ told[t].assignee \in Users
  BY <1>2 DEF Inv, TypeOK, EventShape
<1>3. 0 \notin Users /\ 0 \notin Deadlines /\ 0 \notin Statuses
  BY RemindersAssumption
<1> DEFINE Goal == \E e \in Events :
                      /\ log' = Append(log, e)
                      /\ Tells(e, told, told')
                      /\ e.says.assignee \in Users
                      /\ UNCHANGED <<consumerVars, scheduler, notifications>>
<1> HIDE DEF Goal
<1>4. ASSUME NEW t \in Tasks, NEW u \in Users, NEW d \in Deadlines \cup {0},
             CreateTask(a, t, u, d)
      PROVE  Goal
  <2> DEFINE says == [assignee |-> u, deadline |-> d, status |-> TODO]
             e == [kind |-> "created", task |-> t, actor |-> a, says |-> says]
  <2>1. says \in Facts /\ says.assignee \in Users
    BY <1>2, <1>3, <1>4, ConstantFacts DEF Facts, CreateTask
  <2>2. SaysWhatWasTold(e, told[t])
    BY <1>2, <1>3, <1>4 DEF SaysWhatWasTold, Facts, NoRow, CreateTask
  <2>3. Publish("created", t, a, says)
    BY <1>4 DEF CreateTask
  <2> HIDE DEF says
  <2> QED
    BY <1>1, <2>1, <2>2, <2>3 DEF EventKinds, Goal
<1>5. ASSUME NEW t \in Tasks, NEW u \in Users, AssignTask(a, t, u)
      PROVE  Goal
  <2> DEFINE says == [told[t] EXCEPT !.assignee = u]
             e == [kind |-> "assigned", task |-> t, actor |-> a, says |-> says]
  <2>1. says \in Facts /\ says.assignee \in Users
    BY <1>2, <1>3, <1>5, ConstantFacts DEF Facts, AssignTask
  <2>2. SaysWhatWasTold(e, told[t])
    BY <1>2, <1>3, <1>5 DEF SaysWhatWasTold, Facts, NoRow, AssignTask
  <2>3. Publish("assigned", t, a, says)
    BY <1>5 DEF AssignTask
  <2> HIDE DEF says
  <2> QED
    BY <1>1, <2>1, <2>2, <2>3 DEF EventKinds, Goal
<1>6. ASSUME NEW t \in Tasks, NEW d \in Deadlines, ChangeDeadline(a, t, d)
      PROVE  Goal
  <2> DEFINE says == [told[t] EXCEPT !.deadline = d, !.status = 0]
             e == [kind |-> "deadline_changed", task |-> t, actor |-> a, says |-> says]
  <2>1. says \in Facts /\ says.assignee \in Users
    BY <1>2, <1>3, <1>6, ConstantFacts DEF Facts, ChangeDeadline
  <2>2. SaysWhatWasTold(e, told[t])
    BY <1>2, <1>3, <1>6 DEF SaysWhatWasTold, Facts, NoRow, ChangeDeadline
  <2>3. Publish("deadline_changed", t, a, says)
    BY <1>6 DEF ChangeDeadline
  <2> HIDE DEF says
  <2> QED
    BY <1>1, <2>1, <2>2, <2>3 DEF EventKinds, Goal
<1>7. ASSUME NEW t \in Tasks, NEW s \in Statuses, UpdateTaskStatus(a, t, s)
      PROVE  Goal
  <2> DEFINE says == [told[t] EXCEPT !.status = s]
             e == [kind |-> "status_changed", task |-> t, actor |-> a, says |-> says]
  <2>1. says \in Facts /\ says.assignee \in Users
    BY <1>2, <1>3, <1>7, ConstantFacts DEF Facts, UpdateTaskStatus
  <2>2. SaysWhatWasTold(e, told[t])
    BY <1>2, <1>3, <1>7 DEF SaysWhatWasTold, Facts, NoRow, UpdateTaskStatus
  <2>3. Publish("status_changed", t, a, says)
    BY <1>7 DEF UpdateTaskStatus
  <2> HIDE DEF says
  <2> QED
    BY <1>1, <2>1, <2>2, <2>3 DEF EventKinds, Goal
<1>8. ASSUME NEW t \in Tasks, UpdateTaskLabor(a, t)
      PROVE  Goal
  <2> DEFINE says == told[t]
             e == [kind |-> "updated", task |-> t, actor |-> a, says |-> says]
  <2>1. says \in Facts /\ says.assignee \in Users
    BY <1>2, <1>3, <1>8, ConstantFacts DEF Facts, UpdateTaskLabor
  <2>2. SaysWhatWasTold(e, told[t])
    BY <1>2, <1>3, <1>8 DEF SaysWhatWasTold, Facts, NoRow, UpdateTaskLabor
  <2>3. Publish("updated", t, a, says)
    BY <1>8 DEF UpdateTaskLabor
  <2> HIDE DEF says
  <2> QED
    BY <1>1, <2>1, <2>2, <2>3 DEF EventKinds, Goal
<1>9. ASSUME NEW t \in Tasks, UpdatePlannedHours(a, t)
      PROVE  Goal
  <2> DEFINE says == [told[t] EXCEPT !.deadline = 0, !.status = 0]
             e == [kind |-> "updated", task |-> t, actor |-> a, says |-> says]
  <2>1. says \in Facts /\ says.assignee \in Users
    BY <1>2, <1>3, <1>9, ConstantFacts DEF Facts, UpdatePlannedHours
  <2>2. SaysWhatWasTold(e, told[t])
    BY <1>2, <1>3, <1>9 DEF SaysWhatWasTold, Facts, NoRow, UpdatePlannedHours
  <2>3. Publish("updated", t, a, says)
    BY <1>9 DEF UpdatePlannedHours
  <2> HIDE DEF says
  <2> QED
    BY <1>1, <2>1, <2>2, <2>3 DEF EventKinds, Goal
<1>10. ASSUME NEW u \in Users, AddMember(a, u)
       PROVE  Goal
  <2> DEFINE says == [NoRow EXCEPT !.assignee = u]
  <2>1. says \in Facts /\ says.assignee \in Users
    BY DEF NoRow, Facts
  <2>2. Publish("member_added", NoTask, a, says)
    BY <1>10 DEF AddMember
  <2> HIDE DEF says
  <2> QED
    BY <1>1, <2>1, <2>2, ConstantFacts DEF EventKinds, Goal
<1>11. Goal
  BY <1>4, <1>5, <1>6, <1>7, <1>8, <1>9, <1>10 DEF Call
<1> QED
  BY <1>11 DEF Goal

LEMMA CallKeepsCopies ==
    ASSUME Inv, CopiesInv, NEW a \in Actors, Call(a)
    PROVE  CopiesInv'
<1>1. PICK e \in Events :
          /\ log' = Append(log, e)
          /\ Tells(e, told, told')
          /\ e.says.assignee \in Users
          /\ UNCHANGED <<consumerVars, scheduler, notifications>>
  BY CallTells
<1>2. UNCHANGED <<row, handled, step, lost, scheduler, notifications>>
  BY <1>1 DEF consumerVars
<1>3. /\ log \in Seq(Events)
      /\ Len(log) \in Nat
      /\ handled \in 0..Len(log)
      /\ lost \in SUBSET (1..handled)
  BY LenProperties DEF Inv, TypeOK
<1>4. /\ Len(log') = Len(log) + 1
      /\ \A i \in 1..Len(log) : log'[i] = log[i]
  BY <1>1, <1>3, AppendProperties
<1>5. PICK h : History(h) /\ RowsKeepUp(h)
  BY DEF CopiesInv
<1>6. told' \in [Tasks -> Facts]
  BY CallKeepsInv DEF Inv, TypeOK
<1>7. PICK g : History(g)' /\ \A i \in 0..Len(log) : g[i] = h[i]
  BY <1>1, <1>5, <1>6, ConstantFacts, HistoryGoesOn
<1>8. \A t : Unharmed(t)' <=> Unharmed(t)
  BY <1>2, <1>3, <1>4 DEF Unharmed
<1>9. \A n \in 0..Len(log), t \in Tasks :
          StatusDropped(n, t) => StatusDropped(n, t)'
  BY <1>3, <1>4 DEF StatusDropped
<1>10. RowsKeepUp(g)'
  <2>1. StoredEvents' = StoredEvents
    BY <1>2 DEF StoredEvents
  <2>2. g[StoredEvents] = h[StoredEvents] /\ StoredEvents \in 0..Len(log)
    BY <1>7, StoredEventsType
  <2>3. ASSUME NEW t \in Tasks, Unharmed(t)'
        PROVE  Agrees(row[t], g[StoredEvents][t], StoredEvents, t)'
    <3>1. Agrees(row[t], h[StoredEvents][t], StoredEvents, t)
      BY <1>5, <1>8, <2>3 DEF RowsKeepUp
    <3> QED
      BY <1>2, <1>9, <2>1, <2>2, <3>1 DEF Agrees
  <2> QED
    BY <2>3 DEF RowsKeepUp
<1>11. \A t, u, d : Said(Len(log), t, u, d) => Said(Len(log), t, u, d)'
  BY <1>3, <1>4 DEF Said
<1>12. ListTrue'
  BY <1>2, <1>8, <1>11 DEF CopiesInv, ListTrue
<1>13. RemindersWereTrue'
  <2> DEFINE True == \A n \in notifications :
                        /\ n.source \in {"overdue", "upcoming"}
                        /\ Unharmed(n.task)
                        => Said(Len(log), n.task, n.to, n.about)
  <2>1. /\ RemindersWereTrue <=> True
        /\ RemindersWereTrue' <=> True'
    BY DEF RemindersWereTrue, Unharmed, Said
  <2>2. True => True'
    BY <1>2, <1>8, <1>11
  <2> HIDE DEF True
  <2> QED
    BY <2>1, <2>2 DEF CopiesInv
<1> QED
  BY <1>7, <1>10, <1>12, <1>13 DEF CopiesInv

LEMMA NextKeepsCopies == Inv /\ CopiesInv /\ [Next]_vars => CopiesInv'
<1> SUFFICES ASSUME Inv, CopiesInv, [Next]_vars PROVE CopiesInv'
  OBVIOUS
<1>1. ASSUME NEW a \in Actors, Call(a)
      PROVE  CopiesInv'
  BY <1>1, CallKeepsCopies
<1>2. CASE RunOnce \/ EndRun
  <2>1. /\ UNCHANGED <<sourceVars, consumerVars, notifications>>
        /\ \/ scheduler' = [Idle EXCEPT !.step = "list", !.now = today]
           \/ scheduler' = Idle
    BY <1>2 DEF RunOnce, EndRun, noteVars
  <2>2. scheduler'.list = {}
    <3>1. CASE scheduler' = [Idle EXCEPT !.step = "list", !.now = today]
      <4>1. scheduler' = [step |-> "list", now |-> today, list |-> {}]
        BY <3>1 DEF Idle
      <4> QED
        BY <4>1
    <3>2. CASE scheduler' = Idle
      BY <3>2 DEF Idle
    <3> QED
      BY <2>1, <3>1, <3>2
  <2> QED
    BY <2>1, <2>2, OtherStepsKeepCopies
<1>3. CASE ListUpcoming \/ ListOverdue
  <2>1. /\ UNCHANGED <<sourceVars, consumerVars, notifications>>
        /\ \E kind : scheduler'.list = Due(kind, scheduler.now)
    BY <1>3 DEF ListUpcoming, ListOverdue, noteVars, Inv, TypeOK
  <2> QED
    BY <2>1, OtherStepsKeepCopies
<1>4. ASSUME NEW x \in Listed, CreateDeadlineReminder(x)
      PROVE  CopiesInv'
  <2>1. /\ UNCHANGED <<sourceVars, consumerVars>>
        /\ scheduler'.list \subseteq scheduler.list
    BY <1>4 DEF CreateDeadlineReminder, Inv, TypeOK
  <2> QED
    BY <1>4, <2>1, OtherStepsKeepCopies DEF CreateDeadlineReminder
<1>5. CASE FailRun
  <2>1. /\ UNCHANGED <<sourceVars, consumerVars>>
        /\ scheduler'.list = {}
        /\ \/ notifications' = notifications
           \/ \E x \in scheduler.list :
                 CreateNotification(Reminder(scheduler.step, x.task, x.says))
    BY <1>5 DEF FailRun, noteVars, Idle
  <2> QED
    BY <2>1, OtherStepsKeepCopies
<1>6. CASE NextDay
  <2>1. UNCHANGED <<sourceVars, consumerVars, scheduler, notifications>>
    BY <1>6 DEF NextDay, noteVars
  <2> QED
    BY <2>1, OtherStepsKeepCopies
<1>7. ASSUME NEW u \in Readers,
             \/ \E n \in notifications : MarkAsRead(u, n)
             \/ MarkAllAsRead(u)
      PROVE  CopiesInv'
  <2>1. UNCHANGED <<sourceVars, consumerVars, scheduler, notifications>>
    BY <1>7 DEF MarkAsRead, MarkAllAsRead
  <2> QED
    BY <2>1, OtherStepsKeepCopies
<1>8. CASE UNCHANGED vars
  <2>1. UNCHANGED <<sourceVars, consumerVars, scheduler, notifications>>
    BY <1>8 DEF vars, noteVars
  <2> QED
    BY <2>1, OtherStepsKeepCopies
<1> QED
  BY <1>1, <1>2, <1>3, <1>4, <1>5, <1>6, <1>7, <1>8, HandleEventKeepsCopies,
     FailEventKeepsCopies, CrashKeepsCopies DEF Next

LEMMA InitCopies == Init => CopiesInv
<1> SUFFICES ASSUME Init PROVE CopiesInv
  OBVIOUS
<1>1. /\ log = <<>> /\ Len(log) = 0
      /\ told = [t \in Tasks |-> NoRow]
      /\ row = [t \in Tasks |-> NoRow]
      /\ handled = 0 /\ step = "store"
      /\ scheduler.list = {} /\ notifications = {}
  BY EmptySeq DEF Init, Idle
<1>2. PICK h : h = [i \in 0..0 |-> told]
  OBVIOUS
<1>3. h[0] = told /\ h \in [0..Len(log) -> [Tasks -> Facts]]
  BY <1>1, <1>2, NoRowIsFacts
<1>4. NoRow.deadline = 0
  BY DEF NoRow
<1>5. History(h)
  BY <1>1, <1>3, <1>4 DEF History
<1>6. RowsKeepUp(h)
  BY <1>1, <1>3 DEF RowsKeepUp, StoredEvents, Agrees
<1> QED
  BY <1>1, <1>5, <1>6 DEF CopiesInv, ListTrue, RemindersWereTrue

\* There is always a history that the rows keep up with, and lists and
\* reminders name users and days that it holds together.
THEOREM CopiesInvariant == Spec => []CopiesInv
BY InitCopies, NextKeepsCopies, RemindersInvariant, PTL DEF Spec

\* Once the events of a task have all been handled without a fault, its row
\* has the assignee and the deadline project-service told of, and its status
\* unless an update came without one.
THEOREM CopiesAgree == Spec => []RowFollowsEvents
<1>1. Inv /\ CopiesInv => RowFollowsEvents
  <2> SUFFICES ASSUME Inv, CopiesInv, NEW t \in Tasks, UpToDate(t)
               PROVE  Agrees(row[t], told[t], Len(log), t)
    BY DEF RowFollowsEvents, Agrees, StatusDropped
  <2>1. PICK h : History(h) /\ RowsKeepUp(h)
    BY DEF CopiesInv
  <2>2. Unharmed(t) /\ handled = Len(log)
    BY DEF UpToDate, Unharmed
  <2>3. StoredEvents = Len(log)
    BY <2>2, StoredEventsType DEF StoredEvents, Inv, TypeOK
  <2> QED
    BY <2>1, <2>2, <2>3 DEF RowsKeepUp, History
<1> QED
  BY <1>1, RemindersInvariant, CopiesInvariant, PTL

\* Every reminder of a task that no fault has hit was true: its recipient was
\* the assignee while the deadline was the day it names, although list, row
\* and event are read at different times.
THEOREM RemindersAreTrue == Spec => []RemindersWereTrue
<1>1. CopiesInv => RemindersWereTrue
  BY DEF CopiesInv
<1> QED
  BY <1>1, CopiesInvariant, PTL
=============================================================================
