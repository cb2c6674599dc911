------------------------------ MODULE MCAccess ------------------------------
(***************************************************************************)
(* Instances of Access for TLC.  Two users, each with one call, which      *)
(* overlap: u2 is the director, u1 has every other role in turn.  The      *)
(* tables they find, and what they ask for, belong to one of four scenes.  *)
(***************************************************************************)
EXTENDS Access, FiniteSets, Naturals, TLC

CONSTANTS u1, u2, d1, d2, p1, p2, t1, f1

MCUsers == {u1, u2}
MCDepartments == {d1, d2}
MCProjects == {p1, p2}
MCTasks == {t1}
MCFiles == {f1}
MCRoles == {"worker", "gip", "project_manager", "department_manager",
            "director"}

Interchangeable == Permutations(Calls)

\* Departments only.
DepartmentTables ==
    /\ used \subseteq Departments
    /\ role[u1] \in {"project_manager", "department_manager"}
    /\ head[d1] # None /\ head[d2] # u2
    /\ belongs[u2] = None

\* A project of u2 with a task and an attachment, and one department.
ProjectTables ==
    /\ used = {d1, p1, t1, f1}
    /\ head[d1] = u2 /\ belongs[u2] = d1
    /\ creator[p1] = u2
    /\ row[p1][u1] \in {None, Absent} /\ row[p1][u2] = None
    /\ file[f1].by = task[t1].by /\ task[t1].by # task[t1].assignee

\* A project in which u1 creates the first task, and u2 its first attachment.
NewTables ==
    /\ used = {d1, p1}
    /\ role[u1] \in {"project_manager", "department_manager"}
    /\ head[d1] = u2 /\ belongs[u2] = d1
    /\ creator[p1] = u2
    /\ row[p1][u1] = None /\ row[p1][u2] = None

\* Two projects and their members, and two departments.
MemberTables ==
    /\ used = {d1, d2, p1, p2}
    /\ role[u1] = "gip"
    /\ head[d1] = u2 /\ head[d2] = u2 /\ belongs[u2] # d2
    /\ creator[p1] = u2 /\ creator[p2] = u1
    /\ row[p1][u2] # None /\ row[p2][u1] = None /\ row[p2][u2] = Absent

MCInit ==
    /\ role \in [Users -> Roles]
    /\ role[u2] = "director" /\ role[u1] # "director"
    /\ used \in {{d1}, {d1, d2}, {d1, p1, t1, f1}, {d1, p1}, {d1, d2, p1, p2}}
    /\ Init
    /\ DepartmentTables \/ ProjectTables \/ NewTables \/ MemberTables

\* What u may ask for in the scene of these tables.
MayAsk(u) ==
    CASE used \cap Projects = {} ->
            DepartmentOps \cup {"create_department", "remove_user"}
      [] f1 \in used ->
            IF u = u2
            THEN {"delete_project", "assign_task", "delete_task",
                  "remove_member", "remove_user", "add_file"}
            ELSE (ProjectOps \ MemberOps) \cup TaskOps \cup FileOps
                 \cup {"create_project", "create_activity", "update_member"}
      [] p1 \in used /\ f1 \notin used /\ d2 \notin used ->
            IF u = u2 THEN {"add_file", "delete_project"} ELSE {"create_task"}
      [] OTHER ->
            IF u = u2
            THEN MemberOps \cup {"create_project", "delete_project",
                                 "assign_user"}
            ELSE MemberOps \cup {"create_project"}

RolesIn(facts) == {r \in Roles : <<"role", r>> \in facts}

OneScene ==
    /\ \A c \in Calls : Running(c) =>
          /\ call[c].op \in MayAsk(call[c].by)
          /\ call[c].on \in used \cup {None}
          /\ call[c].to # u2
          /\ Cardinality(RolesIn(since[c]) \ {"worker"}) <= 1
          /\ \A e \in Calls \ {c} : Running(e) => call[e].by # call[c].by
    /\ role[u2] = "director" /\ role[u1] # "director"

MCSpec == MCInit /\ [][Next /\ OneScene']_vars
=============================================================================
