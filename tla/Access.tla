------------------------------- MODULE Access -------------------------------
(***************************************************************************)
(* Who may do what in project-service: the permission checks of            *)
(* internal/authz, and the handlers that change what those checks read --  *)
(* departments and their users, members of projects, tasks' assignees,     *)
(* attachments.                                                            *)
(*                                                                         *)
(* A check is a series of SELECTs, one after the other and in no           *)
(* transaction; the handler then reads and writes, in statements of their  *)
(* own.  Between any two of them other calls change roles, departments,    *)
(* members and tasks.  Every call is made once: it is not begun, at one of *)
(* its steps, or ended.                                                    *)
(*                                                                         *)
(* What the handlers write beside these tables, and the events they        *)
(* publish, is in TaskService and Projects.                                *)
(***************************************************************************)
CONSTANTS
    Users, Departments, Projects, Tasks, Files, \* ids
    Roles,   \* the roles users may have in an instance
    Calls,   \* the calls ever made
    None,    \* NULL, the empty string, no such row
    Absent   \* no row in project_members

Privileged == {"admin", "director"}

ASSUME AccessAssumption ==
    /\ Roles \subseteq {"worker", "gip", "project_manager",
                        "department_manager"} \cup Privileged
    /\ None \notin Users \cup Departments \cup Projects \cup Tasks \cup Files
                   \cup Roles
    /\ Absent \notin Departments \cup {None}

VARIABLES
    role,        \* users.role, a copy that user events fill
    belongs,     \* users.department_id, or None
    head,        \* departments.head_user_id; None: there is no such row
    creator,     \* projects.created_by; None: no such row
    row,         \* project_members.department_id (may be None), or Absent
    task,        \* tasks: [project, assignee, by], or Missing
    file,        \* attachments: [task, by], or Missing
    used,        \* ids handed out
    call,        \* call[c]: where call c is
    since,       \* history: since[c], what has held of the caller and of
                 \* what he asked for, at some time during call c
    once,        \* history: once[u], the departments u has been in
    raced,       \* history: users assigned to a department being deleted
    unjoined,    \* history: projects whose creator was not added, or removed
    foreign      \* history: members given a department that was not theirs

tables == <<role, belongs, head, creator, row, task, file, used>>
faults == <<raced, unjoined, foreign>>
vars == <<tables, call, since, once, faults>>

Missing == [by |-> None]
TaskRows == [project : Projects, assignee : Users, by : Users]
FileRows == [task : Tasks, by : Users]

MemberOps == {"add_member", "update_member", "remove_member"}
ProjectOps == MemberOps \cup {"view_project", "edit_project",
                              "delete_project", "create_task"}
TaskOps == {"view_task", "edit_task", "delete_task", "change_status",
            "update_labor", "assign_task", "add_file"}
FileOps == {"view_file", "delete_file"}
DepartmentOps == {"view_department", "edit_department", "delete_department",
                  "assign_user"}
\* What these ask for has no id yet, or is found through a user.
OtherOps == {"create_project", "create_activity", "create_department",
             "remove_user"}
\* A request that says of whom it speaks before that is read or written.
AboutSomeone == MemberOps \cup {"assign_user", "remove_user"}

Operations == ProjectOps \cup TaskOps \cup FileOps \cup DepartmentOps
              \cup OtherOps
Things == Projects \cup Tasks \cup Files \cup Departments \cup {None}

\* What, and of whom, an operation can be asked for.
Targets(op) ==
    CASE op \in ProjectOps -> Projects
      [] op \in TaskOps -> Tasks
      [] op \in FileOps -> Files
      [] op \in DepartmentOps -> Departments
      [] OTHER -> {None}

People(op) == IF op \in AboutSomeone THEN Users ELSE {None}

Steps == {"find", "check", "file", "uploader", "task", "project", "own",
          "head", "granted", "join", "drop", "insert", "sync", "read", "write"}

NotBegun == [step |-> "not begun"]
Ended == [step |-> "ended"]

CallRecords ==
    [op : Operations, by : Users, on : Things, to : Users \cup {None},
     step : Steps, role : Roles \cup {None}, dept : Departments \cup {None},
     task : Tasks \cup {None}, project : Projects \cup {None},
     found : Users \cup Departments \cup {None}]

\* What can hold of a caller and of what he asks for.
Facts == ({"role"} \X Roles) \cup ({"of", "in"} \X Departments)
         \cup ({"is"} \X {"member", "assignee", "creator", "uploader", "head"})

\* Types, and the foreign keys.
TypeOK ==
    /\ role \in [Users -> Roles]
    /\ belongs \in [Users -> Departments \cup {None}]
    /\ head \in [Departments -> Users \cup {None}]
    /\ creator \in [Projects -> Users \cup {None}]
    /\ row \in [Projects -> [Users -> Departments \cup {None, Absent}]]
    /\ task \in [Tasks -> TaskRows \cup {Missing}]
    /\ file \in [Files -> FileRows \cup {Missing}]
    /\ used \subseteq Departments \cup Projects \cup Tasks \cup Files
    /\ call \in [Calls -> CallRecords \cup {NotBegun, Ended}]
    /\ since \in [Calls -> SUBSET Facts]
    /\ once \in [Users -> SUBSET Departments]
    /\ raced \subseteq Users
    /\ unjoined \subseteq Projects
    /\ foreign \subseteq Projects \X Users
    /\ \A p \in Projects, u \in Users :
          creator[p] = None => row[p][u] = Absent
    /\ \A t \in Tasks : task[t] # Missing => creator[task[t].project] # None
    /\ \A f \in Files : file[f] # Missing => task[file[f].task] # Missing

\* IsProjectMember and IsManagerOfProject
Member(p, u) == row[p][u] # Absent

\* IsProjectInDepartment goes by the users' departments, not the members'.
InDepartment(p, d) == \E u \in Users : Member(p, u) /\ belongs[u] = d

Own(u) == {belongs[u]} \ {None}

\* What now holds of the caller of c and of what c is known to be about.
Now(c) ==
    LET k == call[c] IN
    {<<"role", role[k.by]>>}
    \cup {<<"of", d>> : d \in Own(k.by)}
    \cup {<<"in", d>> : d \in {e \in Departments :
                                   k.project # None /\ InDepartment(k.project, e)}}
    \cup {<<"is", x>> : x \in
            {y \in {"member", "assignee", "creator", "uploader", "head"} :
                \/ y = "member" /\ k.project # None /\ Member(k.project, k.by)
                \/ y = "assignee" /\ k.task # None /\ task[k.task] # Missing
                                  /\ task[k.task].assignee = k.by
                \/ y = "creator" /\ k.task # None /\ task[k.task].by = k.by
                \/ y = "uploader" /\ k.on \in Files /\ file[k.on].by = k.by
                \/ y = "head" /\ k.on \in Departments /\ head[k.on] = k.by}}

Running(c) == call[c].step \in Steps

Remember ==
    /\ since' = [c \in Calls |-> IF Running(c)' THEN since[c] \cup Now(c)'
                                                ELSE {}]
    /\ once' = [u \in Users |-> once[u] \cup Own(u)']

\* Earlier calls have left any tables that agree with each other.
Init ==
    /\ role \in [Users -> Roles]
    /\ head \in [Departments -> Users \cup {None}]
    /\ belongs \in [Users -> {d \in Departments : head[d] # None} \cup {None}]
    /\ creator \in [Projects -> Users \cup {None}]
    /\ row \in [Projects -> [Users -> Departments \cup {None, Absent}]]
    /\ \A p \in Projects : \A u \in Users :
          /\ creator[p] = None => row[p][u] = Absent
          /\ creator[p] = u => row[p][u] # Absent
          /\ row[p][u] \in {None, Absent, belongs[u]}
    /\ task \in [Tasks -> TaskRows \cup {Missing}]
    /\ \A t \in Tasks : task[t] # Missing => creator[task[t].project] # None
    /\ file \in [Files -> FileRows \cup {Missing}]
    /\ \A f \in Files : file[f] # Missing => task[file[f].task] # Missing
    /\ used = {d \in Departments : head[d] # None}
              \cup {p \in Projects : creator[p] # None}
              \cup {t \in Tasks : task[t] # Missing}
              \cup {f \in Files : file[f] # Missing}
    /\ call = [c \in Calls |-> NotBegun]
    /\ since = [c \in Calls |-> {}]
    /\ once = [u \in Users |-> Own(u)]
    /\ raced = {}
    /\ unjoined = {}
    /\ foreign = {}

-----------------------------------------------------------------------------
(* The check.  FindCaller starts it for every operation of a service that   *)
(* asks for permission; the member handlers do not.                         *)

At(c, step) == call[c].step = step

\* Call c goes on at this step; no table changes.
Goes(c, step) ==
    /\ call' = [call EXCEPT ![c].step = step]
    /\ UNCHANGED <<tables, faults>>

Ends(c) == call' = [call EXCEPT ![c] = Ended]

Refuse(c) == Ends(c) /\ UNCHANGED <<tables, faults>>

Decide(c, ok) == IF ok THEN Goes(c, "granted") ELSE Refuse(c)

Begin(c, u, op, on, to) ==
    /\ At(c, "not begun")
    /\ call' = [call EXCEPT ![c] =
          [op |-> op, by |-> u, on |-> on, to |-> to,
           step |-> IF op \in MemberOps \cup {"add_file", "remove_user"}
                    THEN "find" ELSE "check",
           role |-> None, dept |-> None,
           task |-> IF op \in TaskOps THEN on ELSE None,
           project |-> IF op \in ProjectOps THEN on ELSE None,
           found |-> None]]
    /\ UNCHANGED <<tables, faults>>

\* AddAttachment looks its task up before it asks.
FindTask(c) ==
    /\ At(c, "find") /\ call[c].op = "add_file"
    /\ IF task[call[c].on] = Missing THEN Refuse(c) ELSE Goes(c, "check")

\* RemoveUserFromDepartment asks about the department it finds the user in.
FindDepartment(c) ==
    LET d == belongs[call[c].to] IN
    /\ At(c, "find") /\ call[c].op = "remove_user"
    /\ IF d = None
       THEN Refuse(c)
       ELSE /\ call' = [call EXCEPT ![c].on = d, ![c].step = "check"]
            /\ UNCHANGED <<tables, faults>>

\* What Check looks at next for a caller of role r, or its answer.
Route(op, r) ==
    IF r \in Privileged THEN "granted" ELSE
    CASE op \in ProjectOps \ {"delete_project"} -> "project"
      [] op \in TaskOps \ {"add_file"} -> "task"
      [] op \in FileOps -> "file"
      [] op = "create_project" /\ r \in {"gip", "project_manager"} -> "granted"
      [] op = "create_activity" /\ r = "gip" -> "granted"
      [] op \in {"view_department", "edit_department", "assign_user",
                 "remove_user"} /\ r = "department_manager" -> "head"
      [] op \in {"view_department", "assign_user", "remove_user"}
         /\ r = "project_manager" -> "granted"
      [] OTHER -> "refused"

\* Check reads role and department of the caller.
FindCaller(c) ==
    LET r == role[call[c].by]
        step == Route(call[c].op, r)
    IN
    /\ At(c, "check")
    /\ IF step = "refused"
       THEN Refuse(c)
       ELSE /\ call' = [call EXCEPT ![c].step = step, ![c].role = r,
                                    ![c].dept = belongs[call[c].by]]
            /\ UNCHANGED <<tables, faults>>

\* checkAttachment: GetTaskID.  AddAttachment passes the id of a task where
\* the id of an attachment is expected, so only Route lets it pass.
ReadFile(c) ==
    LET f == file[call[c].on] IN
    /\ At(c, "file")
    /\ IF f = Missing
       THEN Refuse(c)
       ELSE /\ call' = [call EXCEPT ![c].task = f.task,
                           ![c].step = IF call[c].op = "delete_file"
                                       THEN "uploader" ELSE "task"]
            /\ UNCHANGED <<tables, faults>>

\* The error of GetUploadedBy is ignored.
ReadUploader(c) ==
    /\ At(c, "uploader")
    /\ Goes(c, IF file[call[c].on].by = call[c].by THEN "granted" ELSE "task")

\* checkTask: GetProjectID
ReadTask(c) ==
    LET t == task[call[c].task]
        step == IF call[c].op # "delete_task" THEN "project" ELSE
                CASE call[c].role = "gip" -> "granted"
                  [] call[c].role = "worker" -> "own"
                  [] OTHER -> "project"
    IN
    /\ At(c, "task")
    /\ IF t = Missing
       THEN Refuse(c)
       ELSE /\ call' = [call EXCEPT ![c].project = t.project, ![c].step = step]
            /\ UNCHANGED <<tables, faults>>

Viewing(op) == op \in {"view_project", "view_task", "view_file"}

\* Variant: members of any role may edit.
MayEnterAsMember(k) ==
    CASE k.role = "department_manager" ->
            k.dept # None /\ InDepartment(k.project, k.dept)
      [] OTHER -> Member(k.project, k.by)

\* checkProject, with its one query.
MayEnter(k) ==
    CASE k.role = "department_manager" ->
            k.dept # None /\ InDepartment(k.project, k.dept)
      [] k.role = "worker" -> Viewing(k.op) /\ Member(k.project, k.by)
      [] OTHER -> Member(k.project, k.by)

CheckProject(c) ==
    /\ At(c, "project")
    /\ IF MayEnter(call[c])
       THEN Goes(c, "granted")
       ELSE IF call[c].op \in {"view_task", "view_file", "change_status",
                               "update_labor"}
       THEN Goes(c, "own")
       ELSE Refuse(c)

\* IsAssignee; the creator for a worker who deletes.
CheckOwn(c) ==
    LET t == task[call[c].task] IN
    /\ At(c, "own")
    /\ Decide(c, t # Missing /\ IF call[c].op = "delete_task"
                                THEN t.by = call[c].by
                                ELSE t.assignee = call[c].by)

\* checkDepartment
CheckHead(c) ==
    /\ At(c, "head")
    /\ Decide(c, head[call[c].on] = call[c].by)

-----------------------------------------------------------------------------
(* The handlers, once they may. *)

Granted(c, ops) == At(c, "granted") /\ call[c].op \in ops

\* These leave the tables of this module alone.
Serve(c) ==
    /\ Granted(c, {"view_project", "edit_project", "view_task", "change_status",
                   "update_labor", "view_file", "view_department",
                   "create_activity"})
    /\ Refuse(c)

Fresh(x) == x \notin used

CreateProject(c, p) ==
    /\ Granted(c, {"create_project"})
    /\ Fresh(p)
    /\ used' = used \cup {p}
    /\ creator' = [creator EXCEPT ![p] = call[c].by]
    /\ call' = [call EXCEPT ![c].step = "join", ![c].on = p]
    /\ UNCHANGED <<role, belongs, head, row, task, file, faults>>

\* Add, for the creator: without a department.
Joins(c, p) ==
    /\ At(c, "join")
    /\ row' = [row EXCEPT ![p][call[c].by] = None]
    /\ Ends(c)
    /\ UNCHANGED <<role, belongs, head, creator, task, file, used, faults>>

\* Variant: project_members does not refer to projects.
JoinAnyway(c) == Joins(c, call[c].on)

Join(c) ==
    LET p == call[c].on IN
    /\ At(c, "join")
    /\ creator[p] # None /\ ~Member(p, call[c].by)
    /\ Joins(c, p)

\* The error is logged, and the caller told of success.
JoinFails(c) ==
    /\ At(c, "join")
    /\ unjoined' = unjoined \cup {call[c].on}
    /\ Ends(c)
    /\ UNCHANGED <<tables, raced, foreign>>

\* Tasks and attachments go with the rows they refer to, and members too.
Without(ts) ==
    /\ task' = [t \in Tasks |-> IF t \in ts THEN Missing ELSE task[t]]
    /\ file' = [f \in Files |->
                   IF file[f] # Missing /\ file[f].task \in ts
                   THEN Missing ELSE file[f]]

DeleteProject(c) ==
    LET p == call[c].on IN
    /\ Granted(c, {"delete_project"})
    /\ creator' = [creator EXCEPT ![p] = None]
    /\ row' = [row EXCEPT ![p] = [u \in Users |-> Absent]]
    /\ Without({t \in Tasks : task[t] # Missing /\ task[t].project = p})
    /\ Ends(c)
    /\ UNCHANGED <<role, belongs, head, used, faults>>

CreateTask(c, t, u) ==
    LET p == call[c].on IN
    /\ Granted(c, {"create_task"})
    /\ creator[p] # None
    /\ Fresh(t)
    /\ used' = used \cup {t}
    /\ task' = [task EXCEPT ![t] = [project |-> p, assignee |-> u,
                                    by |-> call[c].by]]
    /\ Ends(c)
    /\ UNCHANGED <<role, belongs, head, creator, row, file, faults>>

\* The row UpdateTask and AssignTask read first.
FindRow(c) ==
    LET t == call[c].on IN
    /\ Granted(c, {"edit_task", "assign_task"})
    /\ task[t] # Missing
    /\ call' = [call EXCEPT ![c].step = "write", ![c].found = task[t].assignee]
    /\ UNCHANGED <<tables, faults>>

\* UpdateTask writes back the assignee it read.
WriteAssignee(c, u) ==
    LET t == call[c].on IN
    /\ At(c, "write")
    /\ \/ call[c].op = "assign_task"
       \/ call[c].op = "edit_task" /\ u = call[c].found
    /\ task[t] # Missing
    /\ task' = [task EXCEPT ![t].assignee = u]
    /\ Ends(c)
    /\ UNCHANGED <<role, belongs, head, creator, row, file, used, faults>>

\* ts are the task and its subtasks, which these tables do not show.
DeleteTask(c, ts) ==
    /\ Granted(c, {"delete_task"})
    /\ call[c].on \in ts
    /\ Without(ts)
    /\ Ends(c)
    /\ UNCHANGED <<role, belongs, head, creator, row, used, faults>>

AddFile(c, f) ==
    LET t == call[c].on IN
    /\ Granted(c, {"add_file"})
    /\ task[t] # Missing
    /\ Fresh(f)
    /\ used' = used \cup {f}
    /\ file' = [file EXCEPT ![f] = [task |-> t, by |-> call[c].by]]
    /\ Ends(c)
    /\ UNCHANGED <<role, belongs, head, creator, row, task, faults>>

DeleteFile(c) ==
    /\ Granted(c, {"delete_file"})
    /\ file' = [file EXCEPT ![call[c].on] = Missing]
    /\ Ends(c)
    /\ UNCHANGED <<role, belongs, head, creator, row, task, used, faults>>

-----------------------------------------------------------------------------
(* Departments: internal/departmnet. *)

CreateDepartment(c, d, u) ==
    /\ Granted(c, {"create_department"})
    /\ Fresh(d)
    /\ used' = used \cup {d}
    /\ head' = [head EXCEPT ![d] = u]
    /\ Ends(c)
    /\ UNCHANGED <<role, belongs, creator, row, task, file, faults>>

\* UpdateDepartment and AssignUserToDepartment find the department first.
FindHead(c) ==
    LET d == call[c].on IN
    /\ Granted(c, {"edit_department", "assign_user"})
    /\ head[d] # None
    /\ call' = [call EXCEPT ![c].step = "write", ![c].found = head[d]]
    /\ UNCHANGED <<tables, faults>>

\* u is the head the request names, or the one that was read.
WriteHead(c, u) ==
    LET d == call[c].on IN
    /\ At(c, "write") /\ call[c].op = "edit_department"
    /\ head[d] # None
    /\ head' = [head EXCEPT ![d] = u]
    /\ Ends(c)
    /\ UNCHANGED <<role, belongs, creator, row, task, file, used, faults>>

\* A department whose deletion has let its users go already.
Closing(d) == \E c \in Calls : At(c, "drop") /\ call[c].on = d

AssignUser(c) ==
    LET d == call[c].on
        u == call[c].to
    IN
    /\ At(c, "write") /\ call[c].op = "assign_user"
    /\ belongs' = [belongs EXCEPT ![u] = d]
    /\ raced' = IF head[d] = None \/ Closing(d) THEN raced \cup {u}
                                                ELSE raced \ {u}
    /\ Ends(c)
    /\ UNCHANGED <<role, head, creator, row, task, file, used, unjoined, foreign>>

\* From the department he is in by now, whichever was asked about.
RemoveUser(c) ==
    /\ Granted(c, {"remove_user"})
    /\ belongs' = [belongs EXCEPT ![call[c].to] = None]
    /\ Ends(c)
    /\ UNCHANGED <<role, head, creator, row, task, file, used, faults>>

\* Variant: the users of a deleted department stay in it.
DetachNobody(c) ==
    /\ Granted(c, {"delete_department"})
    /\ Goes(c, "drop")

Detach(c) ==
    /\ Granted(c, {"delete_department"})
    /\ belongs' = [u \in Users |-> IF belongs[u] = call[c].on THEN None
                                                             ELSE belongs[u]]
    /\ call' = [call EXCEPT ![c].step = "drop"]
    /\ UNCHANGED <<role, head, creator, row, task, file, used, faults>>

Drop(c) ==
    /\ At(c, "drop")
    /\ head' = [head EXCEPT ![call[c].on] = None]
    /\ Ends(c)
    /\ UNCHANGED <<role, belongs, creator, row, task, file, used, faults>>

-----------------------------------------------------------------------------
(* Members: internal/member, which asks for no permission. *)

\* AddMember reads the department of user u.
ReadsDepartmentOf(c, u) ==
    /\ At(c, "find") /\ call[c].op = "add_member"
    /\ call' = [call EXCEPT ![c].step = "insert", ![c].dept = belongs[u]]
    /\ UNCHANGED <<tables, faults>>

\* Variant: the department of the caller.
FindCallersDepartment(c) == ReadsDepartmentOf(c, call[c].by)

FindUsersDepartment(c) == ReadsDepartmentOf(c, call[c].to)

InsertMember(c) ==
    LET p == call[c].on
        u == call[c].to
    IN
    /\ At(c, "insert")
    /\ creator[p] # None /\ ~Member(p, u)
    /\ row' = [row EXCEPT ![p][u] = call[c].dept]
    /\ call' = [call EXCEPT ![c] = IF call[c].dept = None
                                   THEN [@ EXCEPT !.step = "sync"] ELSE Ended]
    /\ unjoined' = IF creator[p] = u THEN unjoined \ {p} ELSE unjoined
    /\ UNCHANGED <<role, belongs, head, creator, task, file, used, raced,
                   foreign>>

\* SyncDepartmentFromUser joins members and users without saying whose user:
\* the department is that of any user v who has one.
Sync(c, v) ==
    LET p == call[c].on
        u == call[c].to
        d == belongs[v]
    IN
    /\ At(c, "sync")
    /\ row[p][u] = None /\ d # None
    /\ row' = [row EXCEPT ![p][u] = d]
    /\ foreign' = IF belongs[u] = d THEN foreign ELSE foreign \cup {<<p, u>>}
    /\ Ends(c)
    /\ UNCHANGED <<role, belongs, head, creator, task, file, used, raced,
                   unjoined>>

\* UpdateMember and RemoveMember find the project first.
FindProject(c) ==
    /\ At(c, "find") /\ call[c].op \in {"update_member", "remove_member"}
    /\ creator[call[c].on] # None
    /\ Goes(c, IF call[c].op = "update_member" THEN "read" ELSE "write")

\* memberRepo.FindByID takes a row of the user in any project, and fails to
\* scan one without a department.
ReadMember(c, q) ==
    LET p == call[c].on
        u == call[c].to
    IN
    /\ At(c, "read")
    /\ row[q][u] \in Departments
    /\ call' = [call EXCEPT ![c].step = "write", ![c].found = row[q][u]]
    /\ foreign' = IF <<q, u>> \in foreign THEN foreign \cup {<<p, u>>}
                                          ELSE foreign
    /\ UNCHANGED <<tables, raced, unjoined>>

\* The department it read, or one that the request names.
WriteMember(c, d) ==
    LET p == call[c].on
        u == call[c].to
    IN
    /\ At(c, "write") /\ call[c].op = "update_member"
    /\ Member(p, u)
    /\ row' = [row EXCEPT ![p][u] = d]
    /\ foreign' = IF d = call[c].found THEN foreign ELSE foreign \cup {<<p, u>>}
    /\ Ends(c)
    /\ UNCHANGED <<role, belongs, head, creator, task, file, used, raced,
                   unjoined>>

RemoveMember(c) ==
    LET p == call[c].on
        u == call[c].to
    IN
    /\ At(c, "write") /\ call[c].op = "remove_member"
    /\ Member(p, u)
    /\ row' = [row EXCEPT ![p][u] = Absent]
    /\ unjoined' = IF creator[p] = u THEN unjoined \cup {p} ELSE unjoined
    /\ Ends(c)
    /\ UNCHANGED <<role, belongs, head, creator, task, file, used, raced,
                   foreign>>

-----------------------------------------------------------------------------

\* A statement fails or finds no row, or the process dies: the call ends.
Fail(c) ==
    /\ Running(c) /\ ~At(c, "join")
    /\ Refuse(c)

\* A user event; it leaves the department as it is.
ConsumeUserEvent(u, r) ==
    /\ r # role[u]
    /\ role' = [role EXCEPT ![u] = r]
    /\ UNCHANGED <<belongs, head, creator, row, task, file, used, call, faults>>

CheckStep(c) ==
    \/ FindTask(c)
    \/ FindDepartment(c)
    \/ FindCaller(c)
    \/ ReadFile(c)
    \/ ReadUploader(c)
    \/ ReadTask(c)
    \/ CheckProject(c)
    \/ CheckOwn(c)
    \/ CheckHead(c)

ProjectStep(c) ==
    \/ \E p \in Projects : CreateProject(c, p)
    \/ Join(c)
    \/ JoinFails(c)
    \/ DeleteProject(c)
    \/ \E t \in Tasks, u \in Users : CreateTask(c, t, u)
    \/ FindRow(c)
    \/ \E u \in Users : WriteAssignee(c, u)
    \/ \E ts \in SUBSET Tasks : DeleteTask(c, ts)
    \/ \E f \in Files : AddFile(c, f)
    \/ DeleteFile(c)

DepartmentStep(c) ==
    \/ \E d \in Departments, u \in Users : CreateDepartment(c, d, u)
    \/ FindHead(c)
    \/ \E u \in Users : WriteHead(c, u)
    \/ AssignUser(c)
    \/ RemoveUser(c)
    \/ Detach(c)
    \/ Drop(c)

MemberStep(c) ==
    \/ FindUsersDepartment(c)
    \/ InsertMember(c)
    \/ \E v \in Users : Sync(c, v)
    \/ FindProject(c)
    \/ \E q \in Projects : ReadMember(c, q)
    \/ \E d \in Departments : WriteMember(c, d)
    \/ RemoveMember(c)

Step(c) ==
    \/ \E u \in Users, op \in Operations :
          \E on \in Targets(op), to \in People(op) : Begin(c, u, op, on, to)
    \/ CheckStep(c)
    \/ Serve(c)
    \/ ProjectStep(c)
    \/ DepartmentStep(c)
    \/ MemberStep(c)
    \/ Fail(c)

Next ==
    /\ \/ \E c \in Calls : Step(c)
       \/ \E u \in Users, r \in Roles : ConsumeUserEvent(u, r)
    /\ Remember

Spec == Init /\ [][Next]_vars

-----------------------------------------------------------------------------
(* Properties. *)

\* The rights of the roles, for facts that held when op was asked for.
Deserves(op, facts) ==
    LET Role(rs) == \E r \in rs : <<"role", r>> \in facts
        Is(x) == <<"is", x>> \in facts
        SameDepartment == \E d \in Departments :
                             {<<"of", d>>, <<"in", d>>} \subseteq facts
        Leads == \/ Role({"gip", "project_manager"}) /\ Is("member")
                 \/ Role({"department_manager"}) /\ SameDepartment
    IN
    \/ Role(Privileged)
    \/ op \in MemberOps
    \/ Leads /\ op \in (ProjectOps \cup TaskOps \cup FileOps)
                       \ {"delete_project", "add_file"}
    \/ Role({"worker"}) /\ Is("member") /\ Viewing(op)
    \/ Is("assignee") /\ op \in {"view_task", "view_file", "change_status",
                                 "update_labor"}
    \/ Role({"worker"}) /\ Is("creator") /\ op = "delete_task"
    \/ Is("uploader") /\ op = "delete_file"
    \/ Role({"gip"}) /\ op \in {"delete_task", "create_activity"}
    \/ Role({"gip", "project_manager"}) /\ op = "create_project"
    \/ Role({"project_manager"}) /\ op \in {"view_department", "assign_user",
                                            "remove_user"}
    \/ /\ Role({"department_manager"}) /\ Is("head")
       /\ op \in {"view_department", "edit_department", "assign_user",
                  "remove_user"}

Allowed(c) == call[c].step \in {"granted", "join", "drop", "insert", "sync",
                                "read", "write"}

\* Whoever passed the check, however roles, members, assignees and
\* departments changed between its queries, had the role, and what the role
\* needs, at some time since the call began.
WritesWereDeserved ==
    \A c \in Calls : Allowed(c) => Deserves(call[c].op, since[c])

\* A user's department exists, unless he was assigned to it while it was
\* being deleted.
NobodyIsLeftBehind ==
    \A u \in Users \ raced : belongs[u] # None => head[belongs[u]] # None

\* The creator of a project is a member of it -- or could not edit it --
\* unless Add failed, or he was removed.
CreatorsBelong ==
    \A p \in Projects : creator[p] # None =>
        \/ Member(p, creator[p])
        \/ p \in unjoined
        \/ \E c \in Calls : At(c, "join") /\ call[c].on = p

\* A member's department was his own at some time, unless
\* SyncDepartmentFromUser took another user's, or UpdateMember was told.
DepartmentsWereOwn ==
    \A p \in Projects, u \in Users :
        row[p][u] \in Departments =>
            row[p][u] \in once[u] \/ <<p, u>> \in foreign

MembersInOrder == CreatorsBelong /\ DepartmentsWereOwn
=============================================================================
