---------------------------- MODULE TaskService ----------------------------
(***************************************************************************)
(* project-service's task handlers.  Every gRPC call runs in a goroutine   *)
(* of its own and talks to the table tasks in single statements: it reads  *)
(* the row, works out what to write, writes it, in most handlers reads it  *)
(* again, and only then publishes what changed.  Nothing locks the row and *)
(* no transaction spans two statements, so calls on one task interleave at *)
(* each of those points.  An event that cannot be published is dropped:    *)
(* the handlers ignore the error and the publisher never reconnects.       *)
(*                                                                         *)
(* A row is a function from columns to numbers, and 0 stands for NULL, for *)
(* a request field left out, and for a field an event does not carry.      *)
(* "planned" stands for planned_hours and activity_type_id, which every    *)
(* statement treats alike.  Title, description and priority, which no      *)
(* event depends on, and the permission check, which only reads, are left  *)
(* out.                                                                    *)
(***************************************************************************)
EXTENDS Naturals, Sequences

CONSTANTS
    Tasks,          \* task ids the database may hand out
    NoTask,
    Calls,          \* the gRPC calls that are made, one goroutine each
    Users,          \* users a task may be assigned to
    Deadlines,      \* deadlines a client may ask for
    Hours,          \* hours a client may report or plan
    StatusesAsked   \* statuses clients ask for

TODO == 1
COMPLETED == 3
TaskStatuses == 1..4

ASSUME TaskServiceAssumption ==
    /\ NoTask \notin Tasks
    /\ Users \cup Deadlines \cup Hours \subseteq Nat \ {0}
    /\ StatusesAsked \subseteq TaskStatuses

Columns == {"status", "assignee", "deadline", "planned", "actual"}
Rows == [Columns -> Nat]
Blank == [k \in Columns |-> 0]

\* What a request may hold in each of its fields.
FieldValues == [status |-> StatusesAsked, assignee |-> Users,
                deadline |-> Deadlines, planned |-> Hours, actual |-> Hours]

\* Fields a handler insists on, and fields it takes if they are there.
Required ==
    [create |-> {"assignee"}, update |-> {}, status |-> {"status"},
     assign |-> {"assignee"}, labor |-> {}]
Optional ==
    [create |-> {"deadline", "planned"}, update |-> {"deadline", "planned"},
     status |-> {"actual"}, assign |-> {}, labor |-> {"planned", "actual"}]

Asked == {0} \cup StatusesAsked \cup Users \cup Deadlines \cup Hours

Requests ==
    [op \in DOMAIN Required |->
        {r \in [Columns -> Asked] : \A k \in Columns :
            /\ k \in Required[op] => r[k] # 0
            /\ r[k] # 0 => /\ k \in Required[op] \cup Optional[op]
                          /\ r[k] \in FieldValues[k]}]

\* The calls that read a task before they write it.
ReadingOps == {"update", "status", "assign", "labor"}

VARIABLES
    life,        \* life[t]: has the table a row for t
    row,         \* row[t]: that row
    call,        \* call[c]: the local variables of a handler
    told,        \* told[t]: what the events published so far say of t
    link,        \* the publisher's channel: "up" or "broken"
    disturbed    \* history: tasks hit by overlapping calls or by a fault

vars == <<life, row, call, told, link, disturbed>>

CallStates ==
    [step : {"fresh", "write", "reread", "publish", "done"},
     op : ReadingOps \cup {"create", "none"},
     task : Tasks \cup {NoTask},
     request : Rows,
     existing : Rows,
     pending : Seq(Rows)]

Fresh == [step |-> "fresh", op |-> "none", task |-> NoTask,
          request |-> Blank, existing |-> Blank, pending |-> <<>>]
Returned == [Fresh EXCEPT !.step = "done"]

Exists(t) == life[t] = "alive"
Busy(t) == {c \in Calls : call[c].task = t}

\* Types, and events at hand exactly while a call is publishing.
TypeOK ==
    /\ life \in [Tasks -> {"unborn", "alive", "deleted"}]
    /\ row \in [Tasks -> Rows]
    /\ call \in [Calls -> CallStates]
    /\ \A c \in Calls : call[c].step = "publish" <=> call[c].pending # <<>>
    /\ told \in [Tasks -> Rows]
    /\ link \in {"up", "broken"}
    /\ disturbed \in SUBSET Tasks

Init ==
    /\ life = [t \in Tasks |-> "unborn"]
    /\ row = [t \in Tasks |-> Blank]
    /\ call = [c \in Calls |-> Fresh]
    /\ told = [t \in Tasks |-> Blank]
    /\ link = "up"
    /\ disturbed = {}

-----------------------------------------------------------------------------
(* What the handlers compute. *)

\* A value asked for replaces the old one; 0 keeps it.
Given(asked, old) == IF asked > 0 THEN asked ELSE old
Merge(asked, old) == [k \in Columns |-> Given(asked[k], old[k])]
Only(r, columns) == [k \in Columns |-> IF k \in columns THEN r[k] ELSE 0]

\* A completed task reports the hours it had if the request brings none.
HoursReported(c) ==
    IF call[c].request["status"] = COMPLETED
    THEN Given(call[c].request["actual"], call[c].existing["actual"])
    ELSE call[c].request["actual"]

\* Variant: UpdateTask writes the whole row, status included.
StatementWritesStatus(c) ==
    CASE call[c].op = "update" -> {"status", "assignee", "deadline", "planned"}
      [] call[c].op = "status" ->
            {"status"} \cup (IF HoursReported(c) > 0 THEN {"actual"} ELSE {})
      [] call[c].op = "assign" -> {"assignee"}
      [] call[c].op = "labor" -> {"planned", "actual"}

\* The columns the UPDATE statement of the call sets.  UpdateTask writes the
\* whole row but for status and actual_hours.
StatementColumns(c) ==
    CASE call[c].op = "update" -> {"assignee", "deadline", "planned"}
      [] call[c].op = "status" ->
            {"status"} \cup (IF HoursReported(c) > 0 THEN {"actual"} ELSE {})
      [] call[c].op = "assign" -> {"assignee"}
      [] call[c].op = "labor" -> {"planned", "actual"}

\* Variant: fields left out of the request are written as NULL.
WrittenAsAsked(c) ==
    [k \in Columns |->
        IF k \in StatementColumns(c)
        THEN call[c].request[k]
        ELSE row[call[c].task][k]]

\* The row after that statement: the values come from the request and from
\* the row the call read at its start.
Written(c) ==
    [k \in Columns |->
        IF k \in StatementColumns(c)
        THEN Given(call[c].request[k], call[c].existing[k])
        ELSE row[call[c].task][k]]

\* Variant: task.updated stands for the new deadline as well.
UpdateEventsOnce(c) ==
    LET old == call[c].existing
        new == Merge(call[c].request, old)
    IN  IF new # old
        THEN <<Only(new, {"assignee", "planned", "actual"})>> ELSE <<>>

\* task.updated if planned hours or activity type changed, without status
\* and deadline, then task.deadline_changed if the deadline did.
UpdateEvents(c) ==
    LET old == call[c].existing
        new == Merge(call[c].request, old)
    IN  (IF new["planned"] # old["planned"]
         THEN <<Only(new, {"assignee", "planned", "actual"})>> ELSE <<>>)
        \o
        (IF new["deadline"] # old["deadline"]
         THEN <<Only(new, {"assignee", "deadline"})>> ELSE <<>>)

\* task.status_changed, if the status read back is not the one read first.
StatusEvents(c, updated) ==
    IF call[c].existing["status"] # updated["status"]
    THEN <<[updated EXCEPT !["actual"] = Given(HoursReported(c), @)]>>
    ELSE <<>>

\* task.assigned, if the assignee read first is not the one asked for.
AssignEvents(c, updated) ==
    LET to == call[c].request["assignee"]
    IN  IF call[c].existing["assignee"] # to
        THEN <<[Only(updated, {"status", "deadline"}) EXCEPT !["assignee"] = to]>>
        ELSE <<>>

-----------------------------------------------------------------------------
(* The handlers. *)

At(c, op, step) == call[c].op = op /\ call[c].step = step

\* Variant: the handler goes on to publish whatever it has found.
PublishAnyway(c, events) ==
    call' = [call EXCEPT ![c] =
                [@ EXCEPT !.step = "publish", !.pending = events]]

\* A handler with nothing left to publish returns.
PublishNext(c, events) ==
    call' = [call EXCEPT ![c] =
                IF events = <<>> THEN Returned
                ELSE [@ EXCEPT !.step = "publish", !.pending = events]]

Return(c) == call' = [call EXCEPT ![c] = Returned]

\* INSERT INTO tasks; the database draws a new id.
Insert(t, created) ==
    /\ life[t] = "unborn"
    /\ life' = [life EXCEPT ![t] = "alive"]
    /\ row' = [row EXCEPT ![t] = created]

CreateTask(c, t, r) ==
    LET created == [r EXCEPT !["status"] = TODO]
    IN  /\ call[c].step = "fresh"
        /\ Insert(t, created)
        /\ call' = [call EXCEPT ![c] =
              [@ EXCEPT !.step = "publish", !.op = "create", !.task = t,
                        !.pending = <<created>>]]
        /\ UNCHANGED <<told, link, disturbed>>

\* FindByID at the start of the four handlers that change a row.  The calls
\* overlap from here on.
ReadTask(c, op, t, r) ==
    /\ call[c].step = "fresh"
    /\ Exists(t)
    /\ call' = [call EXCEPT ![c] =
          [step |-> "write", op |-> op, task |-> t, request |-> r,
           existing |-> row[t], pending |-> <<>>]]
    /\ disturbed' = IF Busy(t) = {} THEN disturbed ELSE disturbed \cup {t}
    /\ UNCHANGED <<life, row, told, link>>

\* UPDATE tasks SET ... WHERE id, when the row is still there.
WriteRow(c) ==
    /\ Exists(call[c].task)
    /\ row' = [row EXCEPT ![call[c].task] = Written(c)]
    /\ UNCHANGED life

\* UpdateTask publishes what it computed and does not read the row again.
UpdateTask(c) ==
    /\ At(c, "update", "write")
    /\ WriteRow(c)
    /\ PublishNext(c, UpdateEvents(c))
    /\ UNCHANGED <<told, link, disturbed>>

\* UpdateTaskStatus, AssignTask and UpdateTaskLabor read it again.
WriteThenReread(c, op) ==
    /\ At(c, op, "write")
    /\ WriteRow(c)
    /\ call' = [call EXCEPT ![c].step = "reread"]
    /\ UNCHANGED <<told, link, disturbed>>

UpdateTaskStatus(c) == WriteThenReread(c, "status")
AssignTask(c) == WriteThenReread(c, "assign")
UpdateTaskLabor(c) == WriteThenReread(c, "labor")

Reread(c, op, events) ==
    /\ At(c, op, "reread")
    /\ Exists(call[c].task)
    /\ PublishNext(c, events)
    /\ UNCHANGED <<life, row, told, link, disturbed>>

AnnounceStatus(c) == Reread(c, "status", StatusEvents(c, row[call[c].task]))
AnnounceAssignment(c) == Reread(c, "assign", AssignEvents(c, row[call[c].task]))
AnnounceLabor(c) == Reread(c, "labor", <<row[call[c].task]>>)

\* Publish.  On a broken channel the error is logged and ignored.
PublishEvent(c) ==
    /\ call[c].step = "publish"
    /\ LET t == call[c].task
       IN  IF link = "up"
           THEN /\ told' = [told EXCEPT ![t] = Merge(Head(call[c].pending), @)]
                /\ UNCHANGED disturbed
           ELSE /\ disturbed' = disturbed \cup {t}
                /\ UNCHANGED told
    /\ PublishNext(c, Tail(call[c].pending))
    /\ UNCHANGED <<life, row, link>>

Remove(t) ==
    /\ Exists(t)
    /\ life' = [life EXCEPT ![t] = "deleted"]
    /\ row' = [row EXCEPT ![t] = Blank]

\* DELETE FROM tasks; nothing is published.
DeleteTask(c, t) ==
    /\ call[c].step = "fresh"
    /\ Remove(t)
    /\ Return(c)
    /\ UNCHANGED <<told, link, disturbed>>

\* The project or the parent task is deleted, and the row with it.
Cascade(t) ==
    /\ Remove(t)
    /\ UNCHANGED <<call, told, link, disturbed>>

-----------------------------------------------------------------------------
(* Errors and faults. *)

\* The call returns an error before its UPDATE had an effect: a statement
\* failed, or the row was gone.
FailBeforeWrite(c) ==
    /\ call[c].step = "write"
    /\ Return(c)
    /\ UNCHANGED <<life, row, told, link, disturbed>>

\* The row is written and the call returns an error without an event: the
\* connection broke before the answer came, or the row cannot be read again.
FailAfterWrite(c) ==
    /\ \/ call[c].step = "write" /\ WriteRow(c)
       \/ call[c].step = "reread" /\ UNCHANGED <<life, row>>
    /\ Return(c)
    /\ disturbed' = disturbed \cup {call[c].task}
    /\ UNCHANGED <<told, link>>

\* The same for the INSERT: nobody has seen the id of the new row.
FailAfterInsert(c, t, r) ==
    /\ call[c].step = "fresh"
    /\ Insert(t, [r EXCEPT !["status"] = TODO])
    /\ Return(c)
    /\ disturbed' = disturbed \cup {t}
    /\ UNCHANGED <<told, link>>

BreakLink ==
    /\ link = "up"
    /\ link' = "broken"
    /\ UNCHANGED <<life, row, call, told, disturbed>>

\* The process dies with every call in it; the next one connects anew.
Crash ==
    /\ call' = [c \in Calls |->
                  IF call[c].step = "fresh" THEN Fresh ELSE Returned]
    /\ disturbed' = disturbed \cup {t \in Tasks : Busy(t) # {}}
    /\ link' = "up"
    /\ UNCHANGED <<life, row, told>>

-----------------------------------------------------------------------------
Next ==
    \/ \E c \in Calls, t \in Tasks :
          \/ \E r \in Requests["create"] :
                CreateTask(c, t, r) \/ FailAfterInsert(c, t, r)
          \/ \E op \in ReadingOps : \E r \in Requests[op] :
                ReadTask(c, op, t, r)
          \/ DeleteTask(c, t)
    \/ \E c \in Calls :
          \/ UpdateTask(c)
          \/ UpdateTaskStatus(c)
          \/ AssignTask(c)
          \/ UpdateTaskLabor(c)
          \/ AnnounceStatus(c)
          \/ AnnounceAssignment(c)
          \/ AnnounceLabor(c)
          \/ PublishEvent(c)
          \/ FailBeforeWrite(c)
          \/ FailAfterWrite(c)
    \/ \E t \in Tasks : Cascade(t)
    \/ BreakLink
    \/ Crash

Spec == Init /\ [][Next]_vars

-----------------------------------------------------------------------------
(* Properties. *)

\* Once the calls on a task have returned, the events published about it add
\* up to its row, unless two calls overlapped or a fault struck: what the
\* event consumers rely on when they never ask project-service.
EventsTellTheTask ==
    \A t \in Tasks \ disturbed :
        Exists(t) /\ Busy(t) = {} =>
            \A k \in Columns \ {"actual"} : told[t][k] = row[t][k]

\* The same for the hours spent on the task.
EventsTellTheHours ==
    \A t \in Tasks \ disturbed :
        Exists(t) /\ Busy(t) = {} => told[t]["actual"] = row[t]["actual"]

\* The handlers whose business a column is.
OwnersOf(k) ==
    CASE k = "status" -> {"status"}
      [] k = "assignee" -> {"assign"}
      [] k = "deadline" -> {"update"}
      [] k = "planned" -> {"update", "labor"}
      [] k = "actual" -> {"labor", "status"}

\* A column is moved only by a handler whose business it is, although calls
\* write back what they read before another call's write.  The assignee is
\* the exception: an UpdateTask that overlaps an AssignTask undoes it.
ColumnsMoveByTheirOwnCalls ==
    [][\A t \in Tasks, k \in Columns :
          Exists(t) /\ Exists(t)' /\ row'[t][k] # row[t][k] =>
              \/ \E c \in Busy(t) :
                    /\ call[c].op \in OwnersOf(k)
                    /\ call[c].step = "write"
                    /\ call'[c].step # "write"
              \/ k = "assignee" /\ t \in disturbed]_vars

\* Hours once reported are not erased, unless calls overlapped.
HoursSurvive ==
    [][\A t \in Tasks :
          /\ Exists(t) /\ Exists(t)'
          /\ row[t]["actual"] > 0
          /\ row'[t]["actual"] = 0
          => t \in disturbed]_vars

\* A late write does not bring a deleted task back.
DeletedForGood ==
    [][\A t \in Tasks : life[t] = "deleted" => life'[t] = "deleted"]_vars

\* The columns of an event that repeat what is known, and those it leaves out.
IsSame(e, old, columns) == \A k \in columns : e[k] = old[k]
IsSilent(e, columns) == \A k \in columns : e[k] = 0

\* What a reader who knows `old` of a task may take for granted of the next
\* event a handler publishes about it: the columns that change, those that
\* do not, and those that come empty.
GoesOnFrom(op, e, old) ==
    CASE op = "create" ->
            /\ old = Blank
            /\ e["status"] = TODO /\ e["assignee"] # 0 /\ e["actual"] = 0
      [] op = "status" ->
            /\ e["status"] \notin {old["status"], 0}
            /\ IsSame(e, old, {"assignee", "deadline", "planned"})
            /\ old["actual"] # 0 => e["actual"] # 0
      [] op = "assign" ->
            /\ e["assignee"] \notin {old["assignee"], 0}
            /\ IsSame(e, old, {"status", "deadline"})
            /\ IsSilent(e, {"planned", "actual"})
      [] op = "labor" ->
            /\ IsSame(e, old, {"status", "assignee", "deadline"})
            /\ \A k \in {"planned", "actual"} : old[k] # 0 => e[k] # 0
      [] op = "update" ->
            /\ IsSame(e, old, {"assignee"})
            /\ IsSilent(e, {"status"})
            /\ \/ /\ IsSilent(e, {"deadline"})
                  /\ e["planned"] \notin {old["planned"], 0}
                  /\ old["actual"] # 0 => e["actual"] # 0
               \/ /\ e["deadline"] \notin {old["deadline"], 0}
                  /\ IsSilent(e, {"planned", "actual"})

\* Each event of a task goes on from the one before, unless two calls
\* overlapped or a fault struck: what the models of the event consumers take
\* project-service to publish.
ToldInTurn ==
    [][\A c \in Calls :
          LET t == call[c].task IN
          call[c].step = "publish" /\ call'[c] # call[c] /\ t \notin disturbed' =>
              /\ GoesOnFrom(call[c].op, Head(call[c].pending), told[t])
              /\ told' = [told EXCEPT ![t] = Merge(Head(call[c].pending), @)]]_vars

=============================================================================
