------------------------------ MODULE Projects ------------------------------
(***************************************************************************)
(* project-service's project and timeline handlers.  Each runs in a        *)
(* goroutine of its own and talks to the tables projects and               *)
(* project_timeline in single statements, without a transaction around     *)
(* them.  UpdateProject and UpdateTimeline read a row, put the fields of   *)
(* the request into it and write all of it back, so that what another call *)
(* wrote meanwhile is undone; ChangeProjectStatus writes one column and    *)
(* reads the row again; the events come last, and one that cannot be sent  *)
(* is dropped.                                                             *)
(*                                                                         *)
(* A row is a function from fields to numbers, those of both tables        *)
(* together, 0 standing for NULL, for a field a request leaves out and for *)
(* one an event does not carry.  "name" stands for name, description,      *)
(* address and customer.  Members are left out, and the permission check,  *)
(* which only reads.                                                       *)
(***************************************************************************)
EXTENDS Naturals

CONSTANTS
    ProjectIds,     \* ids the database may hand out
    NoProject,
    Calls,          \* the gRPC calls that are made, one goroutine each
    Names,
    Dates,
    Milestones,     \* the columns of project_timeline that hold dates
    StatusesAsked   \* statuses clients ask for

ACTIVE == 1
ProjectStatuses == 1..4

Columns == {"name", "start", "end", "status"}
Fields == Columns \cup Milestones
Rows == [Fields -> Nat]
Blank == [k \in Fields |-> 0]

ASSUME ProjectsAssumption ==
    /\ NoProject \notin ProjectIds
    /\ Names \cup Dates \subseteq Nat \ {0}
    /\ StatusesAsked \subseteq ProjectStatuses
    /\ Milestones \cap Columns = {}

\* Fields a handler insists on, and fields it takes if they are there.
Required ==
    [create |-> {"name", "start"}, update |-> {}, status |-> {"status"},
     timeline |-> {}]
Optional ==
    [create |-> {"end"}, update |-> {"name", "end"}, status |-> {},
     timeline |-> Milestones]

FieldValues ==
    [k \in Fields |-> CASE k = "name" -> Names
                        [] k = "status" -> StatusesAsked
                        [] OTHER -> Dates]

Requests ==
    [op \in DOMAIN Required |->
        {r \in [Fields -> {0} \cup Names \cup Dates \cup StatusesAsked] :
            \A k \in Fields :
               /\ k \in Required[op] => r[k] # 0
               /\ r[k] # 0 => /\ k \in Required[op] \cup Optional[op]
                             /\ r[k] \in FieldValues[k]}]

ReadingOps == {"update", "status", "timeline"}

\* The table a handler writes, and a field is in.
Tables == {"projects", "project_timeline"}
TableOf(op) == IF op = "timeline" THEN "project_timeline" ELSE "projects"
TableWith(k) == IF k \in Milestones THEN "project_timeline" ELSE "projects"

VARIABLES
    life,        \* life[p]: has the table a row for p
    row,         \* row[p]: that row, and the timeline's
    timelines,   \* the projects with a row in project_timeline
    call,        \* call[c]: the local variables of a handler
    told,        \* told[p]: what the events published so far say of p
    disturbed    \* history: <<p, table>> of rows hit by overlapping calls
                 \* or by a fault

vars == <<life, row, timelines, call, told, disturbed>>

CallStates ==
    [step : {"fresh", "write", "empty", "reread", "publish", "done"},
     op : ReadingOps \cup {"create", "none"},
     project : ProjectIds \cup {NoProject},
     request : Rows,
     existing : Rows,
     event : Rows]

Fresh == [step |-> "fresh", op |-> "none", project |-> NoProject,
          request |-> Blank, existing |-> Blank, event |-> Blank]
Returned == [Fresh EXCEPT !.step = "done"]

Exists(p) == life[p] = "alive"
Busy(p, table) ==
    {c \in Calls : call[c].project = p /\ TableOf(call[c].op) = table}

\* Types, and no timeline of a project that is not there.
TypeOK ==
    /\ life \in [ProjectIds -> {"unborn", "alive", "deleted"}]
    /\ row \in [ProjectIds -> Rows]
    /\ timelines \in SUBSET {p \in ProjectIds : Exists(p)}
    /\ call \in [Calls -> CallStates]
    /\ told \in [ProjectIds -> Rows]
    /\ disturbed \in SUBSET (ProjectIds \X Tables)

Init ==
    /\ life = [p \in ProjectIds |-> "unborn"]
    /\ row = [p \in ProjectIds |-> Blank]
    /\ timelines = {}
    /\ call = [c \in Calls |-> Fresh]
    /\ told = [p \in ProjectIds |-> Blank]
    /\ disturbed = {}

-----------------------------------------------------------------------------
(* What the handlers compute. *)

\* NonEmpty, FirstNonNil, and the nil checks of UpdateTimeline.
Given(asked, old) == IF asked > 0 THEN asked ELSE old
Merge(asked, old) == [k \in Fields |-> Given(asked[k], old[k])]
Only(r, fields) == [k \in Fields |-> IF k \in fields THEN r[k] ELSE 0]

\* A row may end on the day it starts, or have no end.
InOrder(r) == r["end"] = 0 \/ r["end"] >= r["start"]

\* Variant: the end asked for is compared with the end known.
InOrderWithOldEnd(c) ==
    LET end == call[c].request["end"]
    IN  end = 0 \/ end >= call[c].existing["end"]

\* The end asked for is compared with the start read.
EndInOrder(c) ==
    LET end == call[c].request["end"]
    IN  end = 0 \/ end >= call[c].existing["start"]

\* The columns the statement of a handler sets.
StatementColumns(op) ==
    CASE op = "update" -> Columns
      [] op = "status" -> {"status"}
      [] op = "timeline" -> Milestones

\* Variant: what the request leaves out becomes NULL.
WrittenAsAsked(c) ==
    [k \in Fields |->
        IF k \in StatementColumns(call[c].op)
        THEN call[c].request[k]
        ELSE row[call[c].project][k]]

\* The row after it.
Written(c) ==
    [k \in Fields |->
        IF k \in StatementColumns(call[c].op)
        THEN Given(call[c].request[k], call[c].existing[k])
        ELSE row[call[c].project][k]]

-----------------------------------------------------------------------------
(* The handlers. *)

At(c, op, step) == call[c].op = op /\ call[c].step = step

Return(c) == call' = [call EXCEPT ![c] = Returned]

AnnounceNext(c, e) ==
    call' = [call EXCEPT ![c] = [@ EXCEPT !.step = "publish", !.event = e]]

\* INSERT INTO projects; the database draws a new id.
Insert(p, created) ==
    /\ life[p] = "unborn"
    /\ InOrder(created)
    /\ life' = [life EXCEPT ![p] = "alive"]
    /\ row' = [row EXCEPT ![p] = created]
    /\ UNCHANGED timelines

Created(r) == [r EXCEPT !["status"] = ACTIVE]

CreateProject(c, p, r) ==
    /\ call[c].step = "fresh"
    /\ Insert(p, Created(r))
    /\ call' = [call EXCEPT ![c] =
          [@ EXCEPT !.step = "empty", !.op = "create", !.project = p,
                    !.event = Created(r)]]
    /\ UNCHANGED <<told, disturbed>>

\* The timeline is inserted, unless it is there already, the project is gone
\* or the statement fails: errors are logged, and the handler goes on.
CreateEmpty(c) ==
    /\ At(c, "create", "empty")
    /\ \/ UNCHANGED timelines
       \/ /\ Exists(call[c].project)
          /\ timelines' = timelines \cup {call[c].project}
    /\ call' = [call EXCEPT ![c].step = "publish"]
    /\ UNCHANGED <<life, row, told, disturbed>>

\* FindByID, or Exists and Get, at the start of a handler that changes a row.
\* The calls overlap from here on.  A timeline without a row reads as empty.
ReadProject(c, op, p, r) ==
    /\ call[c].step = "fresh"
    /\ Exists(p)
    /\ call' = [call EXCEPT ![c] =
          [step |-> "write", op |-> op, project |-> p, request |-> r,
           existing |-> row[p], event |-> Blank]]
    /\ disturbed' = IF Busy(p, TableOf(op)) = {} THEN disturbed
                    ELSE disturbed \cup {<<p, TableOf(op)>>}
    /\ UNCHANGED <<life, row, timelines, told>>

\* Variant: project_timeline has no foreign key.
WriteRowAnyway(c) ==
    LET p == call[c].project IN
    /\ Exists(p) \/ call[c].op = "timeline"
    /\ row' = [row EXCEPT ![p] = Written(c)]
    /\ timelines' =
          IF call[c].op = "timeline" THEN timelines \cup {p} ELSE timelines
    /\ UNCHANGED life

\* UPDATE projects finds the row, or INSERT INTO project_timeline ON CONFLICT
\* DO UPDATE the project its foreign key names.
WriteRow(c) ==
    LET p == call[c].project IN
    /\ Exists(p)
    /\ row' = [row EXCEPT ![p] = Written(c)]
    /\ timelines' =
          IF call[c].op = "timeline" THEN timelines \cup {p} ELSE timelines
    /\ UNCHANGED life

\* UpdateProject publishes what it wrote.
UpdateProject(c) ==
    /\ At(c, "update", "write")
    /\ EndInOrder(c)
    /\ WriteRow(c)
    /\ AnnounceNext(c, Only(Written(c), Columns))
    /\ UNCHANGED <<told, disturbed>>

ChangeProjectStatus(c) ==
    /\ At(c, "status", "write")
    /\ WriteRow(c)
    /\ call' = [call EXCEPT ![c].step = "reread"]
    /\ UNCHANGED <<told, disturbed>>

\* Variant: the status read at first is announced.
StatusEventBefore(c) == Only(call[c].existing, {"name", "status"})

\* project.status_changed holds the name read back and the status asked for.
StatusEvent(c) ==
    [Only(row[call[c].project], {"name"})
        EXCEPT !["status"] = call[c].request["status"]]

RereadProject(c) ==
    /\ At(c, "status", "reread")
    /\ Exists(call[c].project)
    /\ AnnounceNext(c, StatusEvent(c))
    /\ UNCHANGED <<life, row, timelines, told, disturbed>>

\* Nothing is published.
UpdateTimeline(c) ==
    /\ At(c, "timeline", "write")
    /\ WriteRow(c)
    /\ Return(c)
    /\ UNCHANGED <<told, disturbed>>

PublishEvent(c) ==
    /\ call[c].step = "publish"
    /\ told' = [told EXCEPT ![call[c].project] = Merge(call[c].event, @)]
    /\ Return(c)
    /\ UNCHANGED <<life, row, timelines, disturbed>>

\* DELETE FROM projects, the timeline with it; nothing is published.
DeleteProject(c, p) ==
    /\ call[c].step = "fresh"
    /\ Exists(p)
    /\ life' = [life EXCEPT ![p] = "deleted"]
    /\ row' = [row EXCEPT ![p] = Blank]
    /\ timelines' = timelines \ {p}
    /\ Return(c)
    /\ UNCHANGED <<told, disturbed>>

-----------------------------------------------------------------------------
(* Errors and faults. *)

\* The call returns an error before its statement had an effect: it failed,
\* the row was gone, or the end asked for was too early.
FailBeforeWrite(c) ==
    /\ call[c].step = "write"
    /\ Return(c)
    /\ UNCHANGED <<life, row, timelines, told, disturbed>>

Disturb(c) ==
    disturbed' = disturbed \cup {<<call[c].project, TableOf(call[c].op)>>}

\* The row is written and the call returns an error without an event: the
\* connection broke before the answer came, or the row cannot be read again.
FailAfterWrite(c) ==
    /\ \/ call[c].step = "write" /\ EndInOrder(c) /\ WriteRow(c)
       \/ call[c].step = "reread" /\ UNCHANGED <<life, row, timelines>>
    /\ Return(c)
    /\ Disturb(c)
    /\ UNCHANGED told

\* The same for the INSERT: nobody has seen the id of the new row.
FailAfterInsert(c, p, r) ==
    /\ call[c].step = "fresh"
    /\ Insert(p, Created(r))
    /\ Return(c)
    /\ disturbed' = disturbed \cup {<<p, "projects">>}
    /\ UNCHANGED told

\* The publisher's channel is closed, and never opened again while the
\* process lives; the error is ignored.
LoseEvent(c) ==
    /\ call[c].step = "publish"
    /\ Return(c)
    /\ Disturb(c)
    /\ UNCHANGED <<life, row, timelines, told>>

\* The process dies with every call in it.
Crash ==
    /\ call' = [c \in Calls |->
                  IF call[c].step = "fresh" THEN Fresh ELSE Returned]
    /\ disturbed' = disturbed \cup
          {x \in ProjectIds \X Tables : Busy(x[1], x[2]) # {}}
    /\ UNCHANGED <<life, row, timelines, told>>

-----------------------------------------------------------------------------

Next ==
    \/ \E c \in Calls, p \in ProjectIds :
          \/ \E r \in Requests["create"] :
                CreateProject(c, p, r) \/ FailAfterInsert(c, p, r)
          \/ \E op \in ReadingOps : \E r \in Requests[op] :
                ReadProject(c, op, p, r)
          \/ DeleteProject(c, p)
    \/ \E c \in Calls :
          \/ CreateEmpty(c)
          \/ UpdateProject(c)
          \/ ChangeProjectStatus(c)
          \/ RereadProject(c)
          \/ UpdateTimeline(c)
          \/ PublishEvent(c)
          \/ FailBeforeWrite(c)
          \/ FailAfterWrite(c)
          \/ LoseEvent(c)
    \/ Crash

Spec == Init /\ [][Next]_vars

-----------------------------------------------------------------------------
(* Properties. *)

\* A project never ends before it starts, whichever calls overlapped: the
\* check of UpdateProject compares the request with what it read, not with
\* the row it writes.
NeverEndsBeforeStart == \A p \in ProjectIds : InOrder(row[p])

\* Once the calls on a project have returned, the events published about it
\* add up to its row, unless two calls overlapped or a fault struck.
EventsTellTheProject ==
    \A p \in ProjectIds :
        /\ Exists(p)
        /\ Busy(p, "projects") = {}
        /\ <<p, "projects">> \notin disturbed
        => \A k \in Columns : told[p][k] = row[p][k]

\* Although UpdateProject and UpdateTimeline write every column of their row,
\* a call moves only what it was asked to, and to the value asked for, unless
\* it overlaps another on the same row: then a status changed meanwhile, or a
\* date of the timeline, may be undone.
CallsMoveWhatTheyAreAsked ==
    [][\A p \in ProjectIds, k \in Fields :
          Exists(p) /\ Exists(p)' /\ row'[p][k] # row[p][k] =>
              \/ <<p, TableWith(k)>> \in disturbed
              \/ \E c \in Busy(p, TableWith(k)) :
                    /\ call[c].step = "write" /\ call'[c].step # "write"
                    /\ call[c].request[k] # 0
                    /\ call[c].request[k] = row'[p][k]]_vars

=============================================================================
