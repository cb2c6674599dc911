----------------------------- MODULE AccessProofs -----------------------------
(***************************************************************************)
(* Permissions, departments and members, for any number of users and of    *)
(* overlapping calls.                                                      *)
(*                                                                         *)
(* A check is several reads, and what it read may be false when the next   *)
(* one runs.  So the invariant keeps, for a call at each step, what it has *)
(* found out already (EarnedOK) and which operations can be at that step   *)
(* (PlaceOK): every answer "granted" follows from facts that held at some  *)
(* time since the call began.                                              *)
(***************************************************************************)
EXTENDS Access, TLAPS

\* TypeOK without the two histories every step adds to.
RowsOK ==
    /\ role \in [Users -> Roles]
    /\ belongs \in [Users -> Departments \cup {None}]
    /\ head \in [Departments -> Users \cup {None}]
    /\ creator \in [Projects -> Users \cup {None}]
    /\ row \in [Projects -> [Users -> Departments \cup {None, Absent}]]
    /\ task \in [Tasks -> TaskRows \cup {Missing}]
    /\ file \in [Files -> FileRows \cup {Missing}]
    /\ used \subseteq Departments \cup Projects \cup Tasks \cup Files
    /\ call \in [Calls -> CallRecords \cup {NotBegun, Ended}]
    /\ raced \subseteq Users
    /\ unjoined \subseteq Projects
    /\ foreign \subseteq Projects \X Users

\* No row refers to one that is not there.
KeysOK ==
    /\ \A p \in Projects, u \in Users :
          creator[p] = None => row[p][u] = Absent
    /\ \A t \in Tasks : task[t] # Missing => creator[task[t].project] # None
    /\ \A f \in Files : file[f] # Missing => task[file[f].task] # Missing

HistoryOK ==
    /\ since \in [Calls -> SUBSET Facts]
    /\ once \in [Users -> SUBSET Departments]
    /\ \A u \in Users : Own(u) \subseteq once[u]

CheckSteps == {"file", "uploader", "task", "project", "own", "head"}
AllowedSteps == {"granted", "join", "drop", "insert", "sync", "read", "write"}

\* What a project lets those who lead it do.
LedOps == (ProjectOps \cup TaskOps \cup FileOps)
             \ {"delete_project", "add_file"}
OwnOps == {"view_task", "view_file", "change_status", "update_labor"}
HeadOps == {"view_department", "edit_department", "assign_user", "remove_user"}

\* Which operations can be at a step, and what for.
PlaceOK(k) ==
    /\ k.op \in ProjectOps => k.on \in Projects /\ k.project = k.on
    /\ k.op \in TaskOps => k.on \in Tasks /\ k.task = k.on
    /\ k.op \in FileOps => k.on \in Files
    /\ k.op \in DepartmentOps => k.on \in Departments
    /\ k.op = "remove_user" /\ k.step # "find" => k.on \in Departments
    /\ k.op \in AboutSomeone => k.to \in Users
    /\ k.step = "find" => k.op \in MemberOps \cup {"add_file", "remove_user"}
    /\ k.step = "file" => k.op \in FileOps
    /\ k.step = "uploader" => k.op = "delete_file"
    /\ k.step = "task" => k.op \in LedOps \cap (TaskOps \cup FileOps)
    /\ k.step = "project" => k.op \in LedOps
    /\ k.step = "own" => \/ k.op \in OwnOps
                         \/ k.op = "delete_task" /\ k.role = "worker"
    /\ k.step = "head" => k.op \in HeadOps /\ k.role = "department_manager"
    /\ k.step = "join" => k.on \in Projects
    /\ k.step = "drop" => k.op = "delete_department"
    /\ k.step \in {"insert", "sync"} => k.op = "add_member"
    /\ k.step = "read" => k.op = "update_member"
    /\ k.step \in CheckSteps => k.role \in Roles
    /\ k.step = "project" => k.project \in Projects
    /\ k.step \in {"uploader", "task", "project", "own"}
          /\ k.op \notin ProjectOps => k.task \in Tasks

PlaceInv == \A c \in Calls : Running(c) => PlaceOK(call[c])

\* What a call at step k has found out, as far as its next step goes by it.
EarnedOK(k, facts) ==
    /\ k.step \in CheckSteps =>
          /\ <<"role", k.role>> \in facts
          /\ k.dept # None => <<"of", k.dept>> \in facts
    /\ k.step \in AllowedSteps => Deserves(k.op, facts)

EarnedInv == \A c \in Calls : Running(c) => EarnedOK(call[c], since[c])

\* Nobody is in a department about to be dropped but by a race.
DropInv ==
    \A c \in Calls : At(c, "drop") =>
        \A u \in Users \ raced : belongs[u] # call[c].on

\* Only the creator of a project joins it, and ids are not used again.
JoinInv ==
    /\ \A p \in Projects : creator[p] # None => p \in used
    /\ \A c \in Calls : At(c, "join") =>
          /\ call[c].on \in used
          /\ creator[call[c].on] \in {call[c].by, None}

\* The department a member is about to be given was his.
GivenInv ==
    \A c \in Calls :
        LET k == call[c] IN
        /\ k.step = "insert" /\ k.dept # None => k.dept \in once[k.to]
        /\ k.step = "write" /\ k.op = "update_member" =>
              k.found \in once[k.to] \/ <<k.on, k.to>> \in foreign

IInv == RowsOK /\ KeysOK /\ HistoryOK /\ PlaceInv /\ EarnedInv
          /\ NobodyIsLeftBehind /\ DropInv /\ CreatorsBelong /\ JoinInv
          /\ DepartmentsWereOwn /\ GivenInv

-----------------------------------------------------------------------------
(* Calls and facts. *)

LEMMA Nobody ==
    /\ None \notin Users /\ None \notin Departments /\ None \notin Projects
    /\ None \notin Tasks /\ None \notin Files /\ None \notin Roles
    /\ Absent \notin Departments /\ Absent # None
  BY AccessAssumption

LEMMA RunningCalls ==
    ASSUME RowsOK, NEW c \in Calls
    PROVE  /\ Running(c) <=> call[c] \in CallRecords
           /\ ~Running(c) <=> call[c] \in {NotBegun, Ended}
           /\ \A s \in Steps : At(c, s) => Running(c)
           /\ At(c, "not begun") => ~Running(c)
<1>1. call[c] \in CallRecords \cup {NotBegun, Ended}
  BY DEF RowsOK
<1>2. /\ NotBegun.step = "not begun" /\ Ended.step = "ended"
      /\ "not begun" \notin Steps /\ "ended" \notin Steps
  BY DEF NotBegun, Ended, Steps
<1>3. \A k \in CallRecords : k.step \in Steps
  BY DEF CallRecords
<1>4. \A s \in Steps : At(c, s) => Running(c)
  BY DEF At, Running
<1>5. QED  BY <1>1, <1>2, <1>3, <1>4 DEF At, Running

\* Rows that are there have the fields of a row.
LEMMA Rows ==
    ASSUME RowsOK
    PROVE  /\ \A t \in Tasks : task[t] # Missing <=> task[t] \in TaskRows
           /\ \A f \in Files : file[f] # Missing <=> file[f] \in FileRows
           /\ Missing.by = None
  BY Nobody DEF RowsOK, TaskRows, FileRows, Missing

LEMMA NowTypes ==
    ASSUME RowsOK', NEW c \in Calls, Running(c)', call'[c] \in CallRecords
    PROVE  Now(c)' \subseteq Facts
<1>1. call'[c].by \in Users
  BY DEF CallRecords
<1>2. role'[call'[c].by] \in Roles /\ Own(call[c].by)' \subseteq Departments
  BY <1>1 DEF RowsOK, Own
<1>3. QED  BY <1>2 DEF Now, Facts

\* Every step remembers what holds after it.
LEMMA Remembered ==
    ASSUME NEW c \in Calls, Remember, Running(c)',
           since \in [Calls -> SUBSET Facts]
    PROVE  /\ since'[c] = since[c] \cup Now(c)'
           /\ since[c] \subseteq since'[c]
           /\ Now(c)' \subseteq since'[c]
  BY DEF Remember

LEMMA HistoryKept ==
    ASSUME RowsOK', HistoryOK, Remember
    PROVE  /\ HistoryOK'
           /\ \A u \in Users : once[u] \subseteq once'[u]
           /\ \A u \in Users : belongs'[u] # None => belongs'[u] \in once'[u]
<1>1. \A u \in Users : Own(u)' \subseteq Departments
  BY DEF RowsOK, Own
<1>2. /\ once' \in [Users -> SUBSET Departments]
      /\ \A u \in Users : /\ once[u] \subseteq once'[u]
                          /\ Own(u)' \subseteq once'[u]
  BY <1>1 DEF HistoryOK, Remember
<1>3. ASSUME NEW c \in Calls, Running(c)'
      PROVE  Now(c)' \subseteq Facts
  <2>1. call'[c] \in CallRecords \cup {NotBegun, Ended}
    BY DEF RowsOK
  <2>2. call'[c] \in CallRecords
    <3>1. call'[c].step \in Steps
      BY <1>3 DEF Running
    <3>2. /\ NotBegun.step = "not begun" /\ Ended.step = "ended"
          /\ "not begun" \notin Steps /\ "ended" \notin Steps
      BY DEF NotBegun, Ended, Steps
    <3>3. QED  BY <2>1, <3>1, <3>2
  <2>3. QED  BY <1>3, <2>2, NowTypes
<1>4. since' \in [Calls -> SUBSET Facts]
  BY <1>3 DEF HistoryOK, Remember
<1>5. QED  BY <1>2, <1>4 DEF HistoryOK, Own

\* What is known of the caller and of the things a call is about.
Known(c) ==
    LET k == call[c] IN
    /\ <<"role", role[k.by]>> \in Now(c)
    /\ belongs[k.by] # None => <<"of", belongs[k.by]>> \in Now(c)
    /\ \A d \in Departments :
          k.project # None /\ InDepartment(k.project, d) => <<"in", d>> \in Now(c)
    /\ k.project # None /\ Member(k.project, k.by) => <<"is", "member">> \in Now(c)
    /\ k.task # None /\ task[k.task] # Missing /\ task[k.task].assignee = k.by
          => <<"is", "assignee">> \in Now(c)
    /\ k.task # None /\ task[k.task].by = k.by => <<"is", "creator">> \in Now(c)
    /\ k.on \in Files /\ file[k.on].by = k.by => <<"is", "uploader">> \in Now(c)
    /\ k.on \in Departments /\ head[k.on] = k.by => <<"is", "head">> \in Now(c)

LEMMA NowHas ==
    ASSUME NEW c \in Calls
    PROVE  Known(c)
<1> DEFINE k == call[c]
<1>1. /\ <<"role", role[k.by]>> \in Now(c)
      /\ belongs[k.by] # None => <<"of", belongs[k.by]>> \in Now(c)
  BY DEF Now, Own
<1>2. ASSUME NEW d \in Departments, k.project # None, InDepartment(k.project, d)
      PROVE  <<"in", d>> \in Now(c)
  BY <1>2 DEF Now
<1>3. ASSUME NEW x \in {"member", "assignee", "creator", "uploader", "head"},
             \/ x = "member" /\ k.project # None /\ Member(k.project, k.by)
             \/ x = "assignee" /\ k.task # None /\ task[k.task] # Missing
                               /\ task[k.task].assignee = k.by
             \/ x = "creator" /\ k.task # None /\ task[k.task].by = k.by
             \/ x = "uploader" /\ k.on \in Files /\ file[k.on].by = k.by
             \/ x = "head" /\ k.on \in Departments /\ head[k.on] = k.by
      PROVE  <<"is", x>> \in Now(c)
  BY <1>3 DEF Now
<1>4. QED  BY <1>1, <1>2, <1>3 DEF Known

LEMMA NowHasLater ==
    ASSUME NEW c \in Calls
    PROVE  Known(c)'
<1>1. Known(c)
  BY NowHas
<1>2. QED  BY <1>1, PTL

\* More facts give no fewer rights.
LEMMA MoreFacts ==
    ASSUME NEW op, NEW fs, NEW gs, fs \subseteq gs
    PROVE  Deserves(op, fs) => Deserves(op, gs)
  BY DEF Deserves

LEMMA MoreEarned ==
    ASSUME NEW k, NEW fs, NEW gs, fs \subseteq gs, EarnedOK(k, fs)
    PROVE  EarnedOK(k, gs)
  BY MoreFacts DEF EarnedOK

-----------------------------------------------------------------------------
(* What a step leaves alone. *)

\* A call that takes its next step.
LEMMA StepsOn ==
    ASSUME RowsOK, NEW c \in Calls, Running(c), NEW s \in Steps,
           call' = [call EXCEPT ![c].step = s]
    PROVE  /\ call' \in [Calls -> CallRecords \cup {NotBegun, Ended}]
           /\ call'[c].step = s
           /\ call'[c].op = call[c].op /\ call'[c].by = call[c].by
           /\ call'[c].on = call[c].on /\ call'[c].to = call[c].to
           /\ call'[c].role = call[c].role /\ call'[c].dept = call[c].dept
           /\ call'[c].task = call[c].task
           /\ call'[c].project = call[c].project
           /\ call'[c].found = call[c].found
           /\ call[c] \in CallRecords /\ Running(c)'
           /\ \A d \in Calls \ {c} : call'[d] = call[d]
<1>1. call[c] \in CallRecords
  BY RunningCalls
<1>2. [call[c] EXCEPT !.step = s] \in CallRecords
  BY <1>1 DEF CallRecords
<1>3. call'[c] = [call[c] EXCEPT !.step = s]
        /\ \A d \in Calls \ {c} : call'[d] = call[d]
  BY DEF RowsOK
<1>4. call' \in [Calls -> CallRecords \cup {NotBegun, Ended}]
  BY <1>2 DEF RowsOK
<1>5. QED  BY <1>1, <1>3, <1>4 DEF CallRecords, Running

LEMMA CallEnds ==
    ASSUME RowsOK, NEW c \in Calls, Ends(c)
    PROVE  /\ call' \in [Calls -> CallRecords \cup {NotBegun, Ended}]
           /\ call'[c].step = "ended" /\ ~Running(c)'
           /\ \A d \in Calls \ {c} : call'[d] = call[d]
<1>1. call'[c] = Ended /\ \A d \in Calls \ {c} : call'[d] = call[d]
  BY DEF RowsOK, Ends
<1>2. call' \in [Calls -> CallRecords \cup {NotBegun, Ended}]
  BY DEF RowsOK, Ends
<1>3. Ended.step = "ended" /\ "ended" \notin Steps
  BY DEF Ended, Steps
<1>4. QED  BY <1>1, <1>2, <1>3 DEF Running

\* The calls that do not move go on deserving what they were granted.
LEMMA OthersKeep ==
    ASSUME IInv, Remember,
           \A d \in Calls : Running(d)' =>
              \/ call'[d] = call[d]
              \/ PlaceOK(call[d])' /\ EarnedOK(call[d], since[d])'
    PROVE  PlaceInv' /\ EarnedInv'
<1> SUFFICES ASSUME NEW d \in Calls, Running(d)'
             PROVE  PlaceOK(call[d])' /\ EarnedOK(call[d], since[d])'
  BY DEF PlaceInv, EarnedInv
<1>1. CASE call'[d] = call[d]
  <2>1. Running(d)
    BY <1>1 DEF Running
  <2>2. PlaceOK(call[d]) /\ EarnedOK(call[d], since[d])
    BY <2>1 DEF IInv, PlaceInv, EarnedInv
  <2>3. since[d] \subseteq since'[d]
    BY Remembered DEF IInv, HistoryOK
  <2>4. EarnedOK(call[d], since'[d])
    BY <2>2, <2>3, MoreEarned
  <2>5. QED  BY <1>1, <2>2, <2>4 DEF PlaceOK
<1>2. QED  BY <1>1

\* A call that was granted something keeps the grant.
LEMMA GrantKept ==
    ASSUME IInv, Remember, NEW c \in Calls, Running(c), Running(c)',
           call[c].step \in AllowedSteps, call'[c].step \in AllowedSteps,
           call'[c].op = call[c].op
    PROVE  EarnedOK(call[c], since[c])'
<1>1. Deserves(call[c].op, since[c])
  BY DEF IInv, EarnedInv, EarnedOK
<1>2. Deserves(call[c].op, since'[c])
  BY <1>1, Remembered, MoreFacts DEF IInv, HistoryOK
<1>3. call'[c].step \notin CheckSteps
  BY DEF AllowedSteps, CheckSteps
<1>4. QED  BY <1>2, <1>3 DEF EarnedOK

\* So does a call about members, which nobody checks.
LEMMA MemberGrant ==
    ASSUME NEW c \in Calls, call'[c].op \in MemberOps,
           call'[c].step \notin CheckSteps
    PROVE  EarnedOK(call[c], since[c])'
  BY DEF EarnedOK, Deserves

\* The invariants about tables that a step does not touch.
LEMMA DepartmentsKept ==
    ASSUME IInv,
           UNCHANGED <<belongs, head, raced>>,
           \A d \in Calls : At(d, "drop")' => call'[d] = call[d]
    PROVE  NobodyIsLeftBehind' /\ DropInv'
  BY DEF IInv, NobodyIsLeftBehind, DropInv, At

LEMMA CreatorsKept ==
    ASSUME IInv,
           UNCHANGED <<creator, row, unjoined>>, used \subseteq used',
           \A d \in Calls : \/ call'[d] = call[d]
                            \/ ~At(d, "join") /\ ~At(d, "join")'
    PROVE  CreatorsBelong' /\ JoinInv'
<1>1. CreatorsBelong'
  BY DEF IInv, CreatorsBelong, Member, At
<1>2. JoinInv'
  BY DEF IInv, JoinInv, At
<1>3. QED  BY <1>1, <1>2

LEMMA OwnKept ==
    ASSUME IInv, Remember, HistoryOK', foreign \subseteq foreign',
           \A p \in Projects, u \in Users :
              row'[p][u] \in Departments => row'[p][u] = row[p][u],
           \A u \in Users : once[u] \subseteq once'[u],
           \A d \in Calls :
              \/ call'[d] = call[d]
              \/ call'[d].step \notin {"insert", "write"}
              \/ call'[d].step = "write" /\ call'[d].op # "update_member"
    PROVE  DepartmentsWereOwn' /\ GivenInv'
<1>1. DepartmentsWereOwn'
  BY DEF IInv, DepartmentsWereOwn
<1>2. ASSUME NEW d \in Calls, call'[d] = call[d]
      PROVE  /\ call'[d].step = "insert" /\ call'[d].dept # None =>
                   call'[d].dept \in once'[call'[d].to]
             /\ call'[d].step = "write" /\ call'[d].op = "update_member" =>
                   \/ call'[d].found \in once'[call'[d].to]
                   \/ <<call'[d].on, call'[d].to>> \in foreign'
  <2>1. call[d].step \in {"insert", "write"} => Running(d)
    BY DEF Running, Steps
  <2>2. /\ call[d].step = "insert" => call[d].to \in Users
        /\ call[d].step = "write" /\ call[d].op = "update_member" =>
              call[d].to \in Users
    BY <2>1 DEF IInv, PlaceInv, PlaceOK, AboutSomeone, MemberOps
  <2>3. QED  BY <1>2, <2>2 DEF IInv, GivenInv
<1>3. GivenInv'
  <2>1. "insert" # "write"
    OBVIOUS
  <2>2. QED  BY <1>2, <2>1 DEF GivenInv
<1>4. QED  BY <1>1, <1>3

\* A step that changes no table.
LEMMA Quiet ==
    ASSUME IInv, Remember, NEW c \in Calls, UNCHANGED <<tables, faults>>,
           call' \in [Calls -> CallRecords \cup {NotBegun, Ended}],
           \A d \in Calls \ {c} : call'[d] = call[d],
           ~At(c, "join"), call'[c].step \notin {"join", "drop"},
           Running(c)' => PlaceOK(call[c])' /\ EarnedOK(call[c], since[c])',
           call'[c].step = "insert" /\ call'[c].dept # None =>
              call'[c].dept \in once'[call'[c].to],
           ~(call'[c].step = "write" /\ call'[c].op = "update_member")
    PROVE  IInv'
<1>1. UNCHANGED <<role, belongs, head, creator, row, task, file, used, raced,
                  unjoined, foreign>>
  BY DEF tables, faults
<1>2. RowsOK'
  BY <1>1 DEF IInv, RowsOK
<1>3. KeysOK'
  BY <1>1 DEF IInv, KeysOK
<1>4. /\ HistoryOK'
      /\ \A u \in Users : once[u] \subseteq once'[u]
  BY <1>2, HistoryKept DEF IInv
<1>5. PlaceInv' /\ EarnedInv'
  BY OthersKeep
<1>6. NobodyIsLeftBehind' /\ DropInv'
  <2>1. \A d \in Calls : At(d, "drop")' => call'[d] = call[d]
    BY DEF At
  <2>2. QED  BY <1>1, <2>1, DepartmentsKept
<1>7. CreatorsBelong' /\ JoinInv'
  <2>1. \A d \in Calls : \/ call'[d] = call[d]
                         \/ ~At(d, "join") /\ ~At(d, "join")'
    BY DEF At
  <2>2. QED  BY <1>1, <2>1, CreatorsKept
<1>8. DepartmentsWereOwn'
  BY <1>1, <1>4 DEF IInv, DepartmentsWereOwn
<1>9. GivenInv'
  <2>1. ASSUME NEW d \in Calls, d # c
        PROVE  /\ call[d].step = "insert" /\ call[d].dept # None =>
                     call[d].dept \in once'[call[d].to]
               /\ call[d].step = "write" /\ call[d].op = "update_member" =>
                     \/ call[d].found \in once'[call[d].to]
                     \/ <<call[d].on, call[d].to>> \in foreign'
    <3>1. call[d].step \in {"insert", "write"} => Running(d)
      BY DEF Running, Steps
    <3>2. /\ call[d].step = "insert" => call[d].to \in Users
          /\ call[d].step = "write" /\ call[d].op = "update_member" =>
                call[d].to \in Users
      BY <3>1 DEF IInv, PlaceInv, PlaceOK, AboutSomeone, MemberOps
    <3>3. QED  BY <1>1, <1>4, <3>2 DEF IInv, GivenInv
  <2>2. QED  BY <2>1 DEF GivenInv
<1>10. QED
  BY <1>2, <1>3, <1>4, <1>5, <1>6, <1>7, <1>8, <1>9 DEF IInv

LEMMA QuietEnd ==
    ASSUME IInv, Remember, NEW c \in Calls, Refuse(c), ~At(c, "join")
    PROVE  IInv'
<1>1. RowsOK /\ Ends(c) /\ UNCHANGED <<tables, faults>>
  BY DEF IInv, Refuse
<1>2. /\ call' \in [Calls -> CallRecords \cup {NotBegun, Ended}]
      /\ call'[c].step = "ended" /\ ~Running(c)'
      /\ \A d \in Calls \ {c} : call'[d] = call[d]
  BY <1>1, CallEnds
<1>3. QED  BY <1>1, <1>2, Quiet

\* A check that goes on, to a step that is none of those that write.
LEMMA QuietGoes ==
    ASSUME IInv, Remember, NEW c \in Calls, Running(c),
           NEW s \in Steps \ {"join", "drop", "insert", "write"},
           Goes(c, s), ~At(c, "join"),
           PlaceOK(call[c])', EarnedOK(call[c], since[c])'
    PROVE  IInv'
<1>1. RowsOK /\ call' = [call EXCEPT ![c].step = s]
        /\ UNCHANGED <<tables, faults>>
  BY DEF IInv, Goes
<1>2. /\ call' \in [Calls -> CallRecords \cup {NotBegun, Ended}]
      /\ call'[c].step = s /\ Running(c)'
      /\ \A d \in Calls \ {c} : call'[d] = call[d]
  BY <1>1, StepsOn
<1>3. QED  BY <1>1, <1>2, Quiet

-----------------------------------------------------------------------------
(* The check. *)

LEMMA BeginStep ==
    ASSUME IInv, Remember, NEW c \in Calls, NEW u \in Users,
           NEW op \in Operations, NEW on \in Targets(op), NEW to \in People(op),
           Begin(c, u, op, on, to)
    PROVE  IInv'
<1> DEFINE s == IF op \in MemberOps \cup {"add_file", "remove_user"}
                THEN "find" ELSE "check"
           k == [op |-> op, by |-> u, on |-> on, to |-> to, step |-> s,
                 role |-> None, dept |-> None,
                 task |-> IF op \in TaskOps THEN on ELSE None,
                 project |-> IF op \in ProjectOps THEN on ELSE None,
                 found |-> None]
<1>1. /\ op \in ProjectOps => on \in Projects
      /\ op \in TaskOps => on \in Tasks
      /\ op \in FileOps => on \in Files
      /\ op \in DepartmentOps => on \in Departments
      /\ op \in AboutSomeone => to \in Users
      /\ on \in Things /\ to \in Users \cup {None}
  <2>1. on \in Targets(op) /\ to \in People(op)
    OBVIOUS
  <2>2. on \in Projects \cup Tasks \cup Files \cup Departments \cup {None}
    BY <2>1 DEF Targets
  <2>3. /\ op \in ProjectOps => op \notin TaskOps \cup FileOps \cup DepartmentOps
        /\ op \in TaskOps => op \notin FileOps \cup DepartmentOps
        /\ op \in FileOps => op \notin DepartmentOps
    BY DEF ProjectOps, MemberOps, TaskOps, FileOps, DepartmentOps
  <2>4. QED  BY <2>1, <2>2, <2>3 DEF Targets, People, Things
<1>2. s \in {"find", "check"} /\ s \in Steps
        /\ (s = "find" => op \in MemberOps \cup {"add_file", "remove_user"})
        /\ (op = "remove_user" => s = "find")
  BY DEF Steps
<1>3. k \in CallRecords
  BY <1>1, <1>2 DEF CallRecords
<1>4. /\ call' \in [Calls -> CallRecords \cup {NotBegun, Ended}]
      /\ call'[c] = k /\ \A d \in Calls \ {c} : call'[d] = call[d]
      /\ UNCHANGED <<tables, faults>>
  BY <1>3 DEF IInv, RowsOK, Begin
<1>5. PlaceOK(k)
  <2>1. /\ k.op = op /\ k.on = on /\ k.to = to /\ k.step = s
        /\ op \in ProjectOps => k.project = on
        /\ op \in TaskOps => k.task = on
    OBVIOUS
  <2>2. s \notin CheckSteps /\ s \notin {"join", "insert", "sync", "read"}
    BY <1>2 DEF CheckSteps
  <2>3. QED  BY <1>1, <1>2, <2>1, <2>2 DEF PlaceOK, CheckSteps
<1>6. PlaceOK(call[c])'
  BY <1>4, <1>5 DEF PlaceOK
<1>7. EarnedOK(call[c], since[c])'
  BY <1>2, <1>4 DEF EarnedOK, CheckSteps, AllowedSteps
<1>8. ~At(c, "join")
  BY DEF Begin, At
<1>9. call'[c].step \in {"find", "check"}
  BY <1>2, <1>4
<1>10. QED  BY <1>4, <1>6, <1>7, <1>8, <1>9, Quiet

LEMMA FindStep ==
    ASSUME IInv, Remember, NEW c \in Calls, FindTask(c) \/ FindDepartment(c)
    PROVE  IInv'
<1>1. RowsOK /\ At(c, "find") /\ Running(c) /\ ~At(c, "join")
        /\ PlaceOK(call[c]) /\ call[c] \in CallRecords
  BY RunningCalls
     DEF IInv, PlaceInv, FindTask, FindDepartment, At, Running, Steps
<1>2. CASE Refuse(c)
  BY <1>1, <1>2, QuietEnd
<1>3. CASE FindTask(c) /\ Goes(c, "check")
  <2>1. call' = [call EXCEPT ![c].step = "check"] /\ "check" \in Steps
    BY <1>3 DEF Goes, Steps
  <2>2. /\ call'[c].step = "check" /\ call'[c].op = "add_file"
        /\ call'[c].on = call[c].on /\ call'[c].task = call[c].task
        /\ call[c].op = "add_file"
    BY <1>1, <1>3, <2>1, StepsOn DEF FindTask
  <2>3. PlaceOK(call[c])'
    BY <1>1, <2>2
       DEF PlaceOK, CheckSteps, ProjectOps, MemberOps, TaskOps, FileOps,
           DepartmentOps, AboutSomeone
  <2>4. EarnedOK(call[c], since[c])'
    BY <2>2 DEF EarnedOK, CheckSteps, AllowedSteps
  <2>5. QED  BY <1>1, <1>3, <2>1, <2>3, <2>4, QuietGoes
<1>4. ASSUME FindDepartment(c), belongs[call[c].to] # None
      PROVE  IInv'
  <2> DEFINE d == belongs[call[c].to]
             k == [call[c] EXCEPT !.on = d, !.step = "check"]
  <2>1. call[c].op = "remove_user" /\ d \in Departments
          /\ call[c].to \in Users
    BY <1>1, <1>4 DEF FindDepartment, PlaceOK, AboutSomeone, RowsOK
  <2>2. k \in CallRecords
    BY <1>1, <2>1 DEF CallRecords, Things, Steps
  <2>3. call' = [call EXCEPT ![c] = k] /\ UNCHANGED <<tables, faults>>
    BY <1>1, <1>4 DEF FindDepartment, CallRecords, RowsOK
  <2>4. /\ call' \in [Calls -> CallRecords \cup {NotBegun, Ended}]
        /\ call'[c] = k /\ \A e \in Calls \ {c} : call'[e] = call[e]
    BY <2>2, <2>3 DEF IInv, RowsOK
  <2>5. /\ call'[c].step = "check" /\ call'[c].op = "remove_user"
        /\ call'[c].on = d /\ call'[c].to = call[c].to
    BY <1>1, <2>1, <2>4 DEF CallRecords
  <2>6. PlaceOK(call[c])'
    BY <2>1, <2>5
       DEF PlaceOK, CheckSteps, ProjectOps, MemberOps, TaskOps, FileOps,
           DepartmentOps, AboutSomeone
  <2>7. EarnedOK(call[c], since[c])'
    BY <2>5 DEF EarnedOK, CheckSteps, AllowedSteps
  <2>8. QED  BY <1>1, <2>3, <2>4, <2>5, <2>6, <2>7, Quiet
<1>5. QED  BY <1>2, <1>3, <1>4 DEF FindTask, FindDepartment

LEMMA Routes ==
    ASSUME NEW op \in Operations, NEW r \in Roles
    PROVE  LET s == Route(op, r) IN
           /\ s \in {"granted", "project", "task", "file", "head", "refused"}
           /\ s = "project" => op \in ProjectOps \ {"delete_project"}
           /\ s = "task" => op \in TaskOps \ {"add_file"}
           /\ s = "file" => op \in FileOps
           /\ s = "head" => op \in HeadOps /\ r = "department_manager"
           /\ s = "granted" =>
                 \/ r \in Privileged
                 \/ op = "create_project" /\ r \in {"gip", "project_manager"}
                 \/ op = "create_activity" /\ r = "gip"
                 \/ /\ op \in {"view_department", "assign_user", "remove_user"}
                    /\ r = "project_manager"
  BY DEF Route, HeadOps

\* The operations of each kind are none of the others.
LEMMA Kinds ==
    /\ \A op \in ProjectOps \ {"delete_project"} : op \in LedOps
    /\ \A op \in TaskOps \ {"add_file"} : op \in LedOps /\ op \notin ProjectOps
    /\ \A op \in FileOps : op \in LedOps /\ op \notin ProjectOps
    /\ \A op \in OwnOps : op \in TaskOps \cup FileOps
    /\ LedOps \subseteq ProjectOps \cup TaskOps \cup FileOps
    /\ "delete_file" \in FileOps /\ "delete_task" \in TaskOps
  BY DEF LedOps, ProjectOps, MemberOps, TaskOps, FileOps, OwnOps

\* Every role gives the rights of Route.
LEMMA RouteDeserves ==
    ASSUME NEW op, NEW r, NEW fs, <<"role", r>> \in fs,
           \/ r \in Privileged
           \/ op = "create_project" /\ r \in {"gip", "project_manager"}
           \/ op \in {"create_activity", "delete_task"} /\ r = "gip"
           \/ /\ op \in {"view_department", "assign_user", "remove_user"}
              /\ r = "project_manager"
    PROVE  Deserves(op, fs)
<1>1. CASE r \in Privileged
  BY <1>1 DEF Deserves
<1>2. CASE op = "create_project" /\ r \in {"gip", "project_manager"}
  BY <1>2 DEF Deserves
<1>3. CASE op \in {"create_activity", "delete_task"} /\ r = "gip"
  BY <1>3 DEF Deserves
<1>4. CASE /\ op \in {"view_department", "assign_user", "remove_user"}
           /\ r = "project_manager"
  BY <1>4 DEF Deserves
<1>5. QED  BY <1>1, <1>2, <1>3, <1>4

LEMMA FindCallerStep ==
    ASSUME IInv, Remember, NEW c \in Calls, FindCaller(c)
    PROVE  IInv'
<1> DEFINE r == role[call[c].by]
           s == Route(call[c].op, r)
           k == [call[c] EXCEPT !.step = s, !.role = r,
                                !.dept = belongs[call[c].by]]
<1>1. RowsOK /\ At(c, "check") /\ Running(c) /\ ~At(c, "join")
        /\ PlaceOK(call[c]) /\ call[c] \in CallRecords
        /\ call[c].step = "check"
  BY RunningCalls DEF IInv, PlaceInv, FindCaller, At, Running, Steps
<1>2. /\ call[c].by \in Users /\ call[c].op \in Operations /\ r \in Roles
      /\ belongs[call[c].by] \in Departments \cup {None}
  BY <1>1 DEF CallRecords, RowsOK
<1>3. CASE s = "refused"
  BY <1>1, <1>3, QuietEnd DEF FindCaller
<1>4. CASE s # "refused"
  <2>1. s \in {"granted", "project", "task", "file", "head"}
    BY <1>2, <1>4, Routes
  <2>2. s \in Steps /\ s \notin {"join", "drop", "insert", "write", "find"}
    BY <2>1 DEF Steps
  <2>3. k \in CallRecords
    BY <1>1, <1>2, <2>2 DEF CallRecords
  <2>4. call' = [call EXCEPT ![c] = k] /\ UNCHANGED <<tables, faults>>
    BY <1>1, <1>4 DEF FindCaller, RowsOK, CallRecords
  <2>5. /\ call' \in [Calls -> CallRecords \cup {NotBegun, Ended}]
        /\ call'[c] = k /\ \A e \in Calls \ {c} : call'[e] = call[e]
    BY <1>1, <2>3, <2>4 DEF RowsOK
  <2>6. /\ call'[c].step = s /\ call'[c].op = call[c].op
        /\ call'[c].by = call[c].by /\ call'[c].on = call[c].on
        /\ call'[c].to = call[c].to /\ call'[c].role = r
        /\ call'[c].dept = belongs[call[c].by]
        /\ call'[c].task = call[c].task
        /\ call'[c].project = call[c].project
    BY <1>1, <2>5 DEF CallRecords
  <2>7. PlaceOK(call[c])'
    <3>1. /\ s = "project" => call[c].op \in ProjectOps /\ call[c].op \in LedOps
          /\ s = "task" => call[c].op \in LedOps \cap TaskOps
          /\ s = "file" => call[c].op \in FileOps
          /\ s = "head" => call[c].op \in HeadOps /\ r = "department_manager"
      BY <1>2, Routes, Kinds
    <3>2. /\ s = "project" => call[c].project \in Projects
          /\ s = "task" => call[c].task \in Tasks
      BY <1>1, <3>1 DEF PlaceOK
    <3>3. s \notin {"uploader", "own", "join", "insert", "sync", "read",
                     "find", "drop"}
      BY <2>1
    <3>4. QED  BY <1>1, <1>2, <2>6, <3>1, <3>2, <3>3 DEF PlaceOK
  <2>8. EarnedOK(call[c], since[c])'
    <3>1. Running(c)'
      BY <2>2, <2>6 DEF Running
    <3>2. Known(c)' /\ Now(c)' \subseteq since'[c]
      BY <3>1, NowHasLater, Remembered DEF IInv, HistoryOK
    <3>3. role' = role /\ belongs' = belongs
      BY <2>4 DEF tables
    <3>4. /\ <<"role", r>> \in since'[c]
          /\ belongs[call[c].by] # None =>
                <<"of", belongs[call[c].by]>> \in since'[c]
      BY <2>6, <3>2, <3>3 DEF Known
    <3>5. s = "granted" => Deserves(call[c].op, since'[c])
      BY <1>2, <3>4, Routes, RouteDeserves
    <3>6. s \in AllowedSteps => s = "granted"
      BY <2>1 DEF AllowedSteps
    <3>7. QED  BY <2>6, <3>4, <3>5, <3>6 DEF EarnedOK
  <2>9. QED  BY <1>1, <2>2, <2>4, <2>5, <2>6, <2>7, <2>8, Quiet
<1>5. QED  BY <1>3, <1>4

\* What a call at a step of its check has to go by.
LEMMA Checking ==
    ASSUME IInv, Remember, NEW c \in Calls, call[c].step \in CheckSteps
    PROVE  /\ RowsOK /\ HistoryOK /\ Running(c) /\ ~At(c, "join")
           /\ call[c] \in CallRecords /\ PlaceOK(call[c])
           /\ call[c].by \in Users /\ call[c].role \in Roles
           /\ Running(c)' =>
                 /\ Known(c)'
                 /\ Now(c)' \subseteq since'[c]
                 /\ <<"role", call[c].role>> \in since'[c]
                 /\ call[c].dept # None => <<"of", call[c].dept>> \in since'[c]
<1>1. Running(c) /\ ~At(c, "join")
  BY DEF CheckSteps, Running, Steps, At
<1>2. RowsOK /\ HistoryOK /\ PlaceOK(call[c]) /\ EarnedOK(call[c], since[c])
        /\ call[c] \in CallRecords
  BY <1>1, RunningCalls DEF IInv, PlaceInv, EarnedInv
<1>3. call[c].by \in Users /\ call[c].role \in Roles
  BY <1>2 DEF CallRecords, PlaceOK
<1>4. Running(c)' => /\ Known(c)'
                     /\ since[c] \subseteq since'[c]
                     /\ Now(c)' \subseteq since'[c]
  BY <1>2, NowHasLater, Remembered DEF HistoryOK
<1>5. QED  BY <1>1, <1>2, <1>3, <1>4 DEF EarnedOK

\* From a step of the check to the next, or to the grant it deserves.
LEMMA CheckGoes ==
    ASSUME IInv, Remember, NEW c \in Calls, call[c].step \in CheckSteps,
           NEW s \in CheckSteps \cup {"granted"}, Goes(c, s),
           s # "granted" => PlaceOK([call[c] EXCEPT !.step = s]),
           s = "granted" => Deserves(call[c].op, since'[c])
    PROVE  IInv'
<1>1. /\ RowsOK /\ Running(c) /\ ~At(c, "join") /\ call[c] \in CallRecords
      /\ PlaceOK(call[c])
      /\ Running(c)' =>
            /\ <<"role", call[c].role>> \in since'[c]
            /\ call[c].dept # None => <<"of", call[c].dept>> \in since'[c]
  BY Checking
<1>2. s \in Steps /\ s \notin {"join", "drop", "insert", "write"}
  BY DEF CheckSteps, Steps
<1>3. /\ call'[c].step = s /\ Running(c)'
      /\ call'[c].op = call[c].op /\ call'[c].on = call[c].on
      /\ call'[c].to = call[c].to /\ call'[c].role = call[c].role
      /\ call'[c].dept = call[c].dept /\ call'[c].task = call[c].task
      /\ call'[c].project = call[c].project
  BY <1>1, <1>2, StepsOn DEF Goes
<1>4. PlaceOK(call[c])'
  <2>1. CASE s = "granted"
    <3>1. call[c].step # "find"
      BY DEF CheckSteps
    <3>2. QED  BY <1>1, <1>3, <2>1, <3>1 DEF PlaceOK, CheckSteps
  <2>2. CASE s # "granted"
    <3> DEFINE k == [call[c] EXCEPT !.step = s]
    <3>1. /\ k.step = s /\ k.op = call[c].op /\ k.on = call[c].on
          /\ k.to = call[c].to /\ k.role = call[c].role
          /\ k.task = call[c].task /\ k.project = call[c].project
      BY <1>1 DEF CallRecords
    <3>2. PlaceOK(k)
      BY <2>2
    <3>3. QED  BY <1>3, <3>1, <3>2 DEF PlaceOK
  <2>3. QED  BY <2>1, <2>2
<1>5. EarnedOK(call[c], since[c])'
  <2>1. s \in AllowedSteps => s = "granted"
    BY DEF CheckSteps, AllowedSteps
  <2>2. QED  BY <1>1, <1>3, <2>1 DEF EarnedOK
<1>6. QED  BY <1>1, <1>2, <1>4, <1>5, QuietGoes

LEMMA ReadFileStep ==
    ASSUME IInv, Remember, NEW c \in Calls, ReadFile(c)
    PROVE  IInv'
<1> DEFINE f == file[call[c].on]
           s == IF call[c].op = "delete_file" THEN "uploader" ELSE "task"
           k == [call[c] EXCEPT !.task = f.task, !.step = s]
<1>1. call[c].step = "file" /\ call[c].step \in CheckSteps
  BY DEF ReadFile, At, CheckSteps
<1>2. /\ RowsOK /\ Running(c) /\ ~At(c, "join") /\ call[c] \in CallRecords
      /\ PlaceOK(call[c]) /\ call[c].op \in FileOps /\ call[c].on \in Files
      /\ call[c].role \in Roles
      /\ Running(c)' =>
            /\ <<"role", call[c].role>> \in since'[c]
            /\ call[c].dept # None => <<"of", call[c].dept>> \in since'[c]
  BY <1>1, Checking DEF PlaceOK
<1>3. CASE f = Missing
  BY <1>2, <1>3, QuietEnd DEF ReadFile
<1>4. CASE f # Missing
  <2>1. f.task \in Tasks
    BY <1>2, <1>4, Rows DEF FileRows
  <2>2. s \in Steps /\ s \in CheckSteps /\ s \in {"uploader", "task"}
    BY DEF Steps, CheckSteps
  <2>3. k \in CallRecords
    BY <1>2, <2>1, <2>2 DEF CallRecords
  <2>4. call' = [call EXCEPT ![c] = k] /\ UNCHANGED <<tables, faults>>
    BY <1>2, <1>4 DEF ReadFile, RowsOK, CallRecords
  <2>5. /\ call' \in [Calls -> CallRecords \cup {NotBegun, Ended}]
        /\ call'[c] = k /\ \A e \in Calls \ {c} : call'[e] = call[e]
    BY <1>2, <2>3, <2>4 DEF RowsOK
  <2>6. /\ call'[c].step = s /\ call'[c].op = call[c].op
        /\ call'[c].on = call[c].on /\ call'[c].to = call[c].to
        /\ call'[c].role = call[c].role /\ call'[c].dept = call[c].dept
        /\ call'[c].task = f.task /\ call'[c].project = call[c].project
    BY <1>2, <2>5 DEF CallRecords
  <2>7. PlaceOK(call[c])'
    <3>1. call[c].op \in LedOps /\ call[c].op \notin ProjectOps
            /\ call[c].op \notin TaskOps
            /\ (s = "uploader" => call[c].op = "delete_file")
      BY <1>2, Kinds DEF FileOps, TaskOps
    <3>2. call[c].step # "find" /\ s \notin {"find", "file", "project", "own",
             "head", "join", "insert", "sync", "read"}
      BY <1>1
    <3>3. QED  BY <1>2, <2>1, <2>2, <2>6, <3>1, <3>2 DEF PlaceOK
  <2>8. EarnedOK(call[c], since[c])'
    <3>1. Running(c)' /\ s \notin AllowedSteps
      BY <2>2, <2>6 DEF Running, AllowedSteps
    <3>2. QED  BY <1>2, <2>6, <3>1 DEF EarnedOK
  <2>9. s \notin {"join", "drop", "insert", "write"}
    OBVIOUS
  <2>10. QED  BY <1>2, <2>4, <2>5, <2>6, <2>7, <2>8, <2>9, Quiet
<1>5. QED  BY <1>3, <1>4

\* PlaceOK looks at these fields only.
LEMMA SamePlace ==
    ASSUME NEW k \in CallRecords, PlaceOK(k), k.step \in CheckSteps,
           NEW s \in CheckSteps
    PROVE  LET n == [k EXCEPT !.step = s] IN
           PlaceOK(n) <=>
              /\ s = "file" => k.op \in FileOps
              /\ s = "uploader" => k.op = "delete_file"
              /\ s = "task" => k.op \in LedOps \cap (TaskOps \cup FileOps)
              /\ s = "project" => k.op \in LedOps /\ k.project \in Projects
              /\ s = "own" => \/ k.op \in OwnOps
                              \/ k.op = "delete_task" /\ k.role = "worker"
              /\ s = "head" => k.op \in HeadOps /\ k.role = "department_manager"
              /\ s \in {"uploader", "task", "project", "own"}
                    /\ k.op \notin ProjectOps => k.task \in Tasks
<1> DEFINE n == [k EXCEPT !.step = s]
<1>1. /\ n.step = s /\ n.op = k.op /\ n.on = k.on /\ n.to = k.to
      /\ n.role = k.role /\ n.task = k.task /\ n.project = k.project
  BY DEF CallRecords
<1>2. /\ s \notin {"find", "join", "drop", "insert", "sync", "read"}
      /\ k.step # "find"
  BY DEF CheckSteps
<1>3. QED  BY <1>1, <1>2 DEF PlaceOK

LEMMA ReadUploaderStep ==
    ASSUME IInv, Remember, NEW c \in Calls, ReadUploader(c)
    PROVE  IInv'
<1>1. call[c].step = "uploader" /\ call[c].step \in CheckSteps
  BY DEF ReadUploader, At, CheckSteps
<1>2. /\ RowsOK /\ Running(c) /\ call[c] \in CallRecords
      /\ PlaceOK(call[c]) /\ call[c].op = "delete_file"
      /\ call[c].on \in Files /\ call[c].task \in Tasks
  BY <1>1, Checking, Kinds DEF PlaceOK
<1>3. CASE file[call[c].on].by = call[c].by
  <2>1. Goes(c, "granted")
    BY <1>3 DEF ReadUploader
  <2>2. /\ call'[c].step = "granted" /\ call'[c].by = call[c].by
        /\ call'[c].on = call[c].on /\ Running(c)' /\ file' = file
    BY <1>2, <2>1, StepsOn DEF Goes, Steps, tables
  <2>3. <<"is", "uploader">> \in since'[c]
    BY <1>1, <1>2, <1>3, <2>2, Checking DEF Known
  <2>4. Deserves("delete_file", since'[c])
    BY <2>3 DEF Deserves
  <2>5. QED  BY <1>1, <1>2, <2>1, <2>4, CheckGoes
<1>4. CASE file[call[c].on].by # call[c].by
  <2>1. Goes(c, "task") /\ "task" \in CheckSteps
    BY <1>4 DEF ReadUploader, CheckSteps
  <2>2. "delete_file" \in LedOps /\ "delete_file" \in FileOps
    BY Kinds
  <2>3. PlaceOK([call[c] EXCEPT !.step = "task"])
    BY <1>1, <1>2, <2>1, <2>2, SamePlace
  <2>4. QED  BY <1>1, <2>1, <2>3, CheckGoes
<1>5. QED  BY <1>3, <1>4

LEMMA ReadTaskStep ==
    ASSUME IInv, Remember, NEW c \in Calls, ReadTask(c)
    PROVE  IInv'
<1> DEFINE t == task[call[c].task]
           s == IF call[c].op # "delete_task" THEN "project" ELSE
                CASE call[c].role = "gip" -> "granted"
                  [] call[c].role = "worker" -> "own"
                  [] OTHER -> "project"
           k == [call[c] EXCEPT !.project = t.project, !.step = s]
<1>1. call[c].step = "task" /\ call[c].step \in CheckSteps
  BY DEF ReadTask, At, CheckSteps
<1>2. /\ RowsOK /\ Running(c) /\ ~At(c, "join") /\ call[c] \in CallRecords
      /\ PlaceOK(call[c]) /\ call[c].op \in LedOps
      /\ call[c].op \in TaskOps \cup FileOps /\ call[c].op \notin ProjectOps
      /\ call[c].task \in Tasks /\ call[c].role \in Roles
      /\ Running(c)' =>
            /\ <<"role", call[c].role>> \in since'[c]
            /\ call[c].dept # None => <<"of", call[c].dept>> \in since'[c]
  <2>1. PlaceOK(call[c])
    BY <1>1, Checking
  <2>2. call[c].op \in LedOps /\ call[c].op \in TaskOps \cup FileOps
    BY <1>1, <2>1 DEF PlaceOK
  <2>3. call[c].op \notin ProjectOps
    BY <2>2, Kinds DEF LedOps
  <2>4. QED  BY <1>1, <2>1, <2>2, <2>3, Checking DEF PlaceOK
<1>3. CASE t = Missing
  BY <1>2, <1>3, QuietEnd DEF ReadTask
<1>4. CASE t # Missing
  <2>1. t.project \in Projects
    BY <1>2, <1>4, Rows DEF TaskRows
  <2>2. /\ s \in {"project", "granted", "own"}
        /\ s = "granted" => call[c].op = "delete_task" /\ call[c].role = "gip"
        /\ s = "own" => call[c].op = "delete_task" /\ call[c].role = "worker"
    OBVIOUS
  <2>3. k \in CallRecords
    <3>1. s \in Steps
      BY <2>2 DEF Steps
    <3>2. QED  BY <1>2, <2>1, <3>1 DEF CallRecords
  <2>4. call' = [call EXCEPT ![c] = k] /\ UNCHANGED <<tables, faults>>
    BY <1>2, <1>4 DEF ReadTask, RowsOK, CallRecords
  <2>5. /\ call' \in [Calls -> CallRecords \cup {NotBegun, Ended}]
        /\ call'[c] = k /\ \A e \in Calls \ {c} : call'[e] = call[e]
    BY <1>2, <2>3, <2>4 DEF RowsOK
  <2>6. /\ call'[c].step = s /\ call'[c].op = call[c].op
        /\ call'[c].on = call[c].on /\ call'[c].to = call[c].to
        /\ call'[c].role = call[c].role /\ call'[c].dept = call[c].dept
        /\ call'[c].task = call[c].task /\ call'[c].project = t.project
    BY <1>2, <2>5 DEF CallRecords
  <2>7. PlaceOK(call[c])'
    <3>1. call[c].step # "find"
      BY <1>1
    <3>2. s \notin {"find", "file", "uploader", "task", "head", "join",
                    "insert", "sync", "read"}
      BY <2>2
    <3>3. QED  BY <1>2, <2>1, <2>2, <2>6, <3>1, <3>2 DEF PlaceOK
  <2>8. EarnedOK(call[c], since[c])'
    <3>1. Running(c)' /\ (s \in AllowedSteps => s = "granted")
      BY <2>2, <2>6 DEF Running, AllowedSteps, Steps
    <3>2. s = "granted" => Deserves(call[c].op, since'[c])
      BY <1>2, <2>2, <3>1, RouteDeserves
    <3>3. QED  BY <1>2, <2>6, <3>1, <3>2 DEF EarnedOK
  <2>9. s \notin {"join", "drop", "insert", "write"}
    BY <2>2
  <2>10. QED  BY <1>2, <2>4, <2>5, <2>6, <2>7, <2>8, <2>9, Quiet
<1>5. QED  BY <1>3, <1>4

\* Whoever may enter leads the project, or is a worker who looks at it.
LEMMA EnteringDeserves ==
    ASSUME NEW op \in LedOps, NEW r \in Roles, NEW fs, <<"role", r>> \in fs,
           \/ r = "department_manager" /\ \E d \in Departments :
                 <<"of", d>> \in fs /\ <<"in", d>> \in fs
           \/ r = "worker" /\ Viewing(op) /\ <<"is", "member">> \in fs
           \/ r \notin {"department_manager", "worker"}
                 /\ <<"is", "member">> \in fs
    PROVE  Deserves(op, fs)
<1>1. op \in (ProjectOps \cup TaskOps \cup FileOps)
                \ {"delete_project", "add_file"}
  BY DEF LedOps
<1>2. CASE r = "department_manager" /\ \E d \in Departments :
              <<"of", d>> \in fs /\ <<"in", d>> \in fs
  <2>1. PICK d \in Departments : {<<"of", d>>, <<"in", d>>} \subseteq fs
    BY <1>2
  <2>2. QED  BY <1>1, <1>2, <2>1 DEF Deserves
<1>3. CASE r = "worker" /\ Viewing(op) /\ <<"is", "member">> \in fs
  BY <1>3 DEF Deserves
<1>4. CASE r \notin {"department_manager", "worker"} /\ <<"is", "member">> \in fs
  <2>1. r \in Privileged \/ r \in {"gip", "project_manager"}
    BY <1>4, AccessAssumption
  <2>2. QED  BY <1>1, <1>4, <2>1 DEF Deserves
<1>5. QED  BY <1>2, <1>3, <1>4

LEMMA CheckProjectStep ==
    ASSUME IInv, Remember, NEW c \in Calls, CheckProject(c)
    PROVE  IInv'
<1> DEFINE k == call[c]
<1>1. k.step = "project" /\ k.step \in CheckSteps
  BY DEF CheckProject, At, CheckSteps
<1>2. /\ RowsOK /\ Running(c) /\ ~At(c, "join") /\ k \in CallRecords
      /\ PlaceOK(k) /\ k.op \in LedOps /\ k.project \in Projects
      /\ k.role \in Roles /\ k.by \in Users /\ k.project # None
      /\ k.dept \in Departments \cup {None}
  BY <1>1, Checking, Nobody DEF PlaceOK, CallRecords
<1>3. CASE MayEnter(k)
  <2>1. Goes(c, "granted")
    BY <1>3 DEF CheckProject
  <2>2. /\ call'[c].step = "granted" /\ call'[c].by = k.by
        /\ call'[c].project = k.project /\ Running(c)'
        /\ belongs' = belongs /\ row' = row
    BY <1>2, <2>1, StepsOn DEF Goes, Steps, tables
  <2>3. Known(c)' /\ Now(c)' \subseteq since'[c]
          /\ <<"role", k.role>> \in since'[c]
          /\ (k.dept # None => <<"of", k.dept>> \in since'[c])
    BY <1>1, <2>2, Checking
  <2>4. /\ Member(k.project, k.by) => <<"is", "member">> \in since'[c]
        /\ \A d \in Departments :
              InDepartment(k.project, d) => <<"in", d>> \in since'[c]
    BY <1>2, <2>2, <2>3 DEF Known, Member, InDepartment
  <2>5. \/ k.role = "department_manager" /\ \E d \in Departments :
              <<"of", d>> \in since'[c] /\ <<"in", d>> \in since'[c]
        \/ k.role = "worker" /\ Viewing(k.op) /\ <<"is", "member">> \in since'[c]
        \/ k.role \notin {"department_manager", "worker"}
              /\ <<"is", "member">> \in since'[c]
    BY <1>2, <1>3, <2>3, <2>4 DEF MayEnter
  <2>6. Deserves(k.op, since'[c])
    BY <1>2, <2>3, <2>5, EnteringDeserves
  <2>7. QED  BY <1>1, <2>1, <2>6, CheckGoes
<1>4. CASE ~MayEnter(k) /\ k.op \in OwnOps
  <2>1. Goes(c, "own") /\ "own" \in CheckSteps
    BY <1>4 DEF CheckProject, CheckSteps, OwnOps
  <2>2. k.task \in Tasks
    BY <1>1, <1>2, <1>4 DEF PlaceOK, OwnOps, ProjectOps, MemberOps
  <2>3. PlaceOK([k EXCEPT !.step = "own"])
    BY <1>1, <1>2, <1>4, <2>1, <2>2, SamePlace
  <2>4. QED  BY <1>1, <2>1, <2>3, CheckGoes
<1>5. CASE ~MayEnter(k) /\ k.op \notin OwnOps
  BY <1>2, <1>5, QuietEnd DEF CheckProject, OwnOps
<1>6. QED  BY <1>3, <1>4, <1>5

LEMMA CheckOwnStep ==
    ASSUME IInv, Remember, NEW c \in Calls, CheckOwn(c)
    PROVE  IInv'
<1> DEFINE k == call[c]
           t == task[k.task]
           ok == t # Missing /\ IF k.op = "delete_task" THEN t.by = k.by
                                                       ELSE t.assignee = k.by
<1>1. k.step = "own" /\ k.step \in CheckSteps
  BY DEF CheckOwn, At, CheckSteps
<1>2. /\ RowsOK /\ Running(c) /\ ~At(c, "join") /\ k \in CallRecords
      /\ PlaceOK(k) /\ k.by \in Users
      /\ \/ k.op \in OwnOps
         \/ k.op = "delete_task" /\ k.role = "worker"
  BY <1>1, Checking DEF PlaceOK
<1>3. k.task \in Tasks /\ k.task # None
  BY <1>1, <1>2, Nobody DEF PlaceOK, OwnOps, ProjectOps, MemberOps
<1>4. CASE ok
  <2>1. Goes(c, "granted")
    BY <1>4 DEF CheckOwn, Decide
  <2>2. /\ call'[c].step = "granted" /\ call'[c].by = k.by
        /\ call'[c].task = k.task /\ Running(c)' /\ task' = task
    BY <1>2, <2>1, StepsOn DEF Goes, Steps, tables
  <2>3. Known(c)' /\ Now(c)' \subseteq since'[c]
          /\ <<"role", k.role>> \in since'[c]
    BY <1>1, <2>2, Checking
  <2>4. CASE k.op = "delete_task"
    <3>1. <<"is", "creator">> \in since'[c]
      BY <1>3, <1>4, <2>2, <2>3, <2>4 DEF Known
    <3>2. k.role = "worker"
      BY <1>2, <2>4 DEF OwnOps
    <3>3. Deserves("delete_task", since'[c])
      BY <2>3, <3>1, <3>2 DEF Deserves
    <3>4. QED  BY <1>1, <2>1, <2>4, <3>3, CheckGoes
  <2>5. CASE k.op # "delete_task"
    <3>1. <<"is", "assignee">> \in since'[c]
      BY <1>3, <1>4, <2>2, <2>3, <2>5 DEF Known
    <3>2. Deserves(k.op, since'[c])
      BY <1>2, <2>5, <3>1 DEF Deserves, OwnOps
    <3>3. QED  BY <1>1, <2>1, <3>2, CheckGoes
  <2>6. QED  BY <2>4, <2>5
<1>5. CASE ~ok
  BY <1>2, <1>5, QuietEnd DEF CheckOwn, Decide
<1>6. QED  BY <1>4, <1>5

LEMMA CheckHeadStep ==
    ASSUME IInv, Remember, NEW c \in Calls, CheckHead(c)
    PROVE  IInv'
<1> DEFINE k == call[c]
<1>1. k.step = "head" /\ k.step \in CheckSteps
  BY DEF CheckHead, At, CheckSteps
<1>2. /\ RowsOK /\ Running(c) /\ ~At(c, "join") /\ k \in CallRecords
      /\ PlaceOK(k) /\ k.by \in Users /\ k.op \in HeadOps
      /\ k.role = "department_manager" /\ k.on \in Departments
  <2>1. PlaceOK(k)
    BY <1>1, Checking
  <2>2. k.op \in HeadOps /\ k.on \in Departments
    BY <1>1, <2>1 DEF PlaceOK, HeadOps, DepartmentOps
  <2>3. QED  BY <1>1, <2>1, <2>2, Checking DEF PlaceOK
<1>3. CASE head[k.on] = k.by
  <2>1. Goes(c, "granted")
    BY <1>3 DEF CheckHead, Decide
  <2>2. /\ call'[c].step = "granted" /\ call'[c].by = k.by
        /\ call'[c].on = k.on /\ Running(c)' /\ head' = head
    BY <1>2, <2>1, StepsOn DEF Goes, Steps, tables
  <2>3. <<"is", "head">> \in since'[c] /\ <<"role", k.role>> \in since'[c]
    BY <1>1, <1>2, <1>3, <2>2, Checking DEF Known
  <2>4. Deserves(k.op, since'[c])
    BY <1>2, <2>3 DEF Deserves, HeadOps
  <2>5. QED  BY <1>1, <2>1, <2>4, CheckGoes
<1>4. CASE head[k.on] # k.by
  BY <1>2, <1>4, QuietEnd DEF CheckHead, Decide
<1>5. QED  BY <1>3, <1>4

LEMMA CheckStepStep ==
    ASSUME IInv, Remember, NEW c \in Calls, CheckStep(c)
    PROVE  IInv'
  BY FindStep, FindCallerStep, ReadFileStep, ReadUploaderStep, ReadTaskStep,
     CheckProjectStep, CheckOwnStep, CheckHeadStep DEF CheckStep

LEMMA ServeFailStep ==
    ASSUME IInv, Remember, NEW c \in Calls, Serve(c) \/ Fail(c)
    PROVE  IInv'
  BY QuietEnd DEF Serve, Fail, Granted, At

-----------------------------------------------------------------------------
(* The handlers. *)

\* A call that was granted something, and what is known of it.
LEMMA Granted0 ==
    ASSUME IInv, NEW c \in Calls, call[c].step \in AllowedSteps \cup {"find"}
    PROVE  /\ RowsOK /\ KeysOK /\ HistoryOK /\ Running(c)
           /\ call[c] \in CallRecords /\ PlaceOK(call[c])
           /\ call[c].by \in Users /\ call[c].dept \in Departments \cup {None}
           /\ call[c].found \in Users \cup Departments \cup {None}
<1>1. Running(c)
  BY DEF AllowedSteps, Running, Steps
<1>2. RowsOK /\ PlaceOK(call[c]) /\ call[c] \in CallRecords
  BY <1>1, RunningCalls DEF IInv, PlaceInv
<1>3. QED  BY <1>1, <1>2 DEF IInv, CallRecords

\* Statements that only read, and remember what they found.
LEMMA ReadStep ==
    ASSUME IInv, Remember, NEW c \in Calls,
           call[c].step \in {"granted", "find"},
           call[c].step = "find" => call[c].op \in MemberOps,
           UNCHANGED <<tables, faults>>,
           call' \in [Calls -> CallRecords \cup {NotBegun, Ended}],
           \A e \in Calls \ {c} : call'[e] = call[e],
           call'[c].step \in {"write", "read", "insert"},
           call'[c].op = call[c].op, call'[c].on = call[c].on,
           call'[c].to = call[c].to, call'[c].task = call[c].task,
           call'[c].project = call[c].project,
           call'[c].step = "insert" =>
              /\ call[c].op = "add_member"
              /\ call'[c].dept # None => call'[c].dept \in once[call[c].to],
           call'[c].step = "read" => call[c].op = "update_member",
           call'[c].step = "write" => call[c].op # "update_member"
    PROVE  IInv'
<1> DEFINE s == call'[c].step
<1>1. call[c].step \in AllowedSteps \cup {"find"}
  BY DEF AllowedSteps
<1>2. /\ RowsOK /\ HistoryOK /\ Running(c) /\ call[c] \in CallRecords
      /\ PlaceOK(call[c])
  BY <1>1, Granted0
<1>3. Running(c)' /\ s \in AllowedSteps /\ s \notin CheckSteps
  BY DEF Running, Steps, AllowedSteps, CheckSteps
<1>4. PlaceOK(call[c])'
  <2>1. call[c].op = "remove_user" => call[c].step # "find"
    BY DEF MemberOps
  <2>2. QED  BY <1>2, <1>3, <2>1 DEF PlaceOK, CheckSteps
<1>5. EarnedOK(call[c], since[c])'
  <2>1. CASE call[c].step = "granted"
    BY <1>2, <1>3, <2>1, GrantKept DEF AllowedSteps
  <2>2. CASE call[c].step = "find"
    BY <1>3, <2>2, MemberGrant
  <2>3. QED  BY <2>1, <2>2
<1>6. s = "insert" /\ call'[c].dept # None =>
         call'[c].dept \in once'[call[c].to]
  <2>1. UNCHANGED <<role, belongs, head, creator, row, task, file, used,
                    raced, unjoined, foreign>>
    BY DEF tables, faults
  <2>2. RowsOK'
    BY <1>2, <2>1 DEF RowsOK
  <2>3. \A u \in Users : once[u] \subseteq once'[u]
    BY <1>2, <2>2, HistoryKept
  <2>4. s = "insert" => call[c].to \in Users
    BY <1>2 DEF PlaceOK, AboutSomeone, MemberOps
  <2>5. QED  BY <2>3, <2>4
<1>7. ~At(c, "join")
  BY DEF At
<1>8. QED  BY <1>4, <1>5, <1>6, <1>7, Quiet

\* Its new step, and the value it found, are all that changes of a call.
LEMMA Found ==
    ASSUME RowsOK, NEW c \in Calls, call[c] \in CallRecords,
           NEW s \in {"write", "read", "insert"},
           \/ call' = [call EXCEPT ![c].step = s]
           \/ \E x \in Users \cup Departments \cup {None} :
                 call' = [call EXCEPT ![c].step = s, ![c].found = x]
           \/ \E d \in Departments \cup {None} :
                 call' = [call EXCEPT ![c].step = s, ![c].dept = d]
    PROVE  /\ call' \in [Calls -> CallRecords \cup {NotBegun, Ended}]
           /\ \A e \in Calls \ {c} : call'[e] = call[e]
           /\ call'[c].step = s /\ call'[c].op = call[c].op
           /\ call'[c].on = call[c].on /\ call'[c].to = call[c].to
           /\ call'[c].task = call[c].task
           /\ call'[c].project = call[c].project
<1>1. s \in Steps
  BY DEF Steps
<1>2. ASSUME NEW x \in Users \cup Departments \cup {None},
             NEW d \in Departments \cup {None},
             call' = [call EXCEPT ![c] = [call[c] EXCEPT !.step = s, !.found = x,
                                                         !.dept = d]]
      PROVE  /\ call' \in [Calls -> CallRecords \cup {NotBegun, Ended}]
             /\ \A e \in Calls \ {c} : call'[e] = call[e]
             /\ call'[c].step = s /\ call'[c].op = call[c].op
             /\ call'[c].on = call[c].on /\ call'[c].to = call[c].to
             /\ call'[c].task = call[c].task
             /\ call'[c].project = call[c].project
  <2> DEFINE k == [call[c] EXCEPT !.step = s, !.found = x, !.dept = d]
  <2>1. k \in CallRecords
    BY <1>1 DEF CallRecords
  <2>2. call'[c] = k /\ \A e \in Calls \ {c} : call'[e] = call[e]
    BY <1>2 DEF RowsOK
  <2>3. call' \in [Calls -> CallRecords \cup {NotBegun, Ended}]
    BY <1>2, <2>1 DEF RowsOK
  <2>4. QED  BY <2>2, <2>3 DEF CallRecords
<1>3. call[c].found \in Users \cup Departments \cup {None}
        /\ call[c].dept \in Departments \cup {None}
  BY DEF CallRecords
<1>4. CASE call' = [call EXCEPT ![c].step = s]
  <2>1. call' = [call EXCEPT ![c] =
                    [call[c] EXCEPT !.step = s, !.found = call[c].found,
                                    !.dept = call[c].dept]]
    BY <1>4 DEF RowsOK, CallRecords
  <2>2. QED  BY <1>2, <1>3, <2>1
<1>5. ASSUME NEW x \in Users \cup Departments \cup {None},
             call' = [call EXCEPT ![c].step = s, ![c].found = x]
      PROVE  call' = [call EXCEPT ![c] =
                         [call[c] EXCEPT !.step = s, !.found = x,
                                         !.dept = call[c].dept]]
  BY <1>5 DEF RowsOK, CallRecords
<1>6. ASSUME NEW d \in Departments \cup {None},
             call' = [call EXCEPT ![c].step = s, ![c].dept = d]
      PROVE  call' = [call EXCEPT ![c] =
                         [call[c] EXCEPT !.step = s, !.found = call[c].found,
                                         !.dept = d]]
  BY <1>6 DEF RowsOK, CallRecords
<1>7. QED  BY <1>2, <1>3, <1>4, <1>5, <1>6

LEMMA FindRowStep ==
    ASSUME IInv, Remember, NEW c \in Calls,
           FindRow(c) \/ FindHead(c) \/ FindProject(c) \/ FindUsersDepartment(c)
    PROVE  IInv'
<1>1. /\ call[c].step \in {"granted", "find"}
      /\ call[c].step \in AllowedSteps \cup {"find"}
  BY DEF FindRow, FindHead, FindProject, FindUsersDepartment,
         ReadsDepartmentOf, Granted, At, AllowedSteps
<1>2. /\ RowsOK /\ HistoryOK /\ call[c] \in CallRecords /\ PlaceOK(call[c])
  BY <1>1, Granted0
<1>3. CASE FindRow(c)
  <2> DEFINE x == task[call[c].on].assignee
  <2>1. /\ call[c].step = "granted" /\ call[c].op \in {"edit_task", "assign_task"}
        /\ call' = [call EXCEPT ![c].step = "write", ![c].found = x]
        /\ UNCHANGED <<tables, faults>> /\ task[call[c].on] # Missing
    BY <1>3 DEF FindRow, Granted, At
  <2>2. x \in Users
    BY <1>2, <2>1, Rows DEF PlaceOK, TaskOps, TaskRows
  <2>3. /\ call' \in [Calls -> CallRecords \cup {NotBegun, Ended}]
        /\ \A e \in Calls \ {c} : call'[e] = call[e]
        /\ call'[c].step = "write" /\ call'[c].op = call[c].op
        /\ call'[c].on = call[c].on /\ call'[c].to = call[c].to
        /\ call'[c].task = call[c].task
        /\ call'[c].project = call[c].project
    BY <1>2, <2>1, <2>2, Found
  <2>4. QED  BY <2>1, <2>3, ReadStep
<1>4. CASE FindHead(c)
  <2> DEFINE x == head[call[c].on]
  <2>1. /\ call[c].step = "granted"
        /\ call[c].op \in {"edit_department", "assign_user"}
        /\ call' = [call EXCEPT ![c].step = "write", ![c].found = x]
        /\ UNCHANGED <<tables, faults>>
    BY <1>4 DEF FindHead, Granted, At
  <2>2. x \in Users \cup {None}
    BY <1>2, <2>1 DEF PlaceOK, DepartmentOps, RowsOK
  <2>3. /\ call' \in [Calls -> CallRecords \cup {NotBegun, Ended}]
        /\ \A e \in Calls \ {c} : call'[e] = call[e]
        /\ call'[c].step = "write" /\ call'[c].op = call[c].op
        /\ call'[c].on = call[c].on /\ call'[c].to = call[c].to
        /\ call'[c].task = call[c].task
        /\ call'[c].project = call[c].project
    BY <1>2, <2>1, <2>2, Found
  <2>4. QED  BY <2>1, <2>3, ReadStep
<1>5. ASSUME FindProject(c), NEW s \in {"read", "write"},
             s = IF call[c].op = "update_member" THEN "read" ELSE "write"
      PROVE  IInv'
  <2>1. /\ call[c].step = "find"
        /\ call[c].op \in {"update_member", "remove_member"}
        /\ call' = [call EXCEPT ![c].step = s]
        /\ UNCHANGED <<tables, faults>>
    BY <1>5 DEF FindProject, At, Goes
  <2>2. call[c].op \in MemberOps
    BY <2>1 DEF MemberOps
  <2>3. /\ call' \in [Calls -> CallRecords \cup {NotBegun, Ended}]
        /\ \A e \in Calls \ {c} : call'[e] = call[e]
        /\ call'[c].step = s /\ call'[c].op = call[c].op
        /\ call'[c].on = call[c].on /\ call'[c].to = call[c].to
        /\ call'[c].task = call[c].task
        /\ call'[c].project = call[c].project
    BY <1>2, <2>1, Found
  <2>4. QED  BY <1>5, <2>1, <2>2, <2>3, ReadStep
<1>6. CASE FindUsersDepartment(c)
  <2> DEFINE d == belongs[call[c].to]
  <2>1. /\ call[c].step = "find" /\ call[c].op = "add_member"
        /\ call' = [call EXCEPT ![c].step = "insert", ![c].dept = d]
        /\ UNCHANGED <<tables, faults>>
    BY <1>6 DEF FindUsersDepartment, ReadsDepartmentOf, At
  <2>2. call[c].op \in MemberOps /\ call[c].to \in Users
    BY <1>2, <2>1 DEF MemberOps, PlaceOK, AboutSomeone
  <2>3. d \in Departments \cup {None}
          /\ (d # None => d \in once[call[c].to])
    BY <1>2, <2>2 DEF RowsOK, HistoryOK, Own
  <2>4. /\ call' \in [Calls -> CallRecords \cup {NotBegun, Ended}]
        /\ \A e \in Calls \ {c} : call'[e] = call[e]
        /\ call'[c].step = "insert" /\ call'[c].op = call[c].op
        /\ call'[c].on = call[c].on /\ call'[c].to = call[c].to
        /\ call'[c].task = call[c].task
        /\ call'[c].project = call[c].project
    BY <1>2, <2>1, <2>3, Found
  <2>5. call'[c].dept = d
    BY <1>2, <2>1 DEF RowsOK, CallRecords
  <2>6. QED  BY <2>1, <2>2, <2>3, <2>4, <2>5, ReadStep
<1>7. QED  BY <1>3, <1>4, <1>5, <1>6 DEF FindProject

\* What is left to see of a handler that writes: the tables it wrote, and
\* where it goes on.
LEMMA MovesWith ==
    ASSUME IInv, Remember, NEW c \in Calls, RowsOK', KeysOK',
           \A d \in Calls \ {c} : call'[d] = call[d],
           Running(c)' => PlaceOK(call[c])' /\ EarnedOK(call[c], since[c])',
           NobodyIsLeftBehind' /\ DropInv', CreatorsBelong' /\ JoinInv',
           foreign \subseteq foreign',
           \A p \in Projects, u \in Users :
              row'[p][u] \in Departments =>
                 \/ row'[p][u] = row[p][u]
                 \/ row'[p][u] \in once'[u]
                 \/ <<p, u>> \in foreign',
           call'[c].step # "insert",
           call'[c].step = "write" =>
              \/ call'[c].found \in once'[call'[c].to]
              \/ <<call'[c].on, call'[c].to>> \in foreign'
    PROVE  IInv'
<1>1. HistoryOK' /\ \A u \in Users : once[u] \subseteq once'[u]
  BY HistoryKept DEF IInv
<1>2. PlaceInv' /\ EarnedInv'
  BY OthersKeep
<1>3. DepartmentsWereOwn'
  BY <1>1 DEF IInv, DepartmentsWereOwn
<1>4. GivenInv'
  <2>1. ASSUME NEW d \in Calls, d # c
        PROVE  /\ call[d].step = "insert" /\ call[d].dept # None =>
                     call[d].dept \in once'[call[d].to]
               /\ call[d].step = "write" /\ call[d].op = "update_member" =>
                     \/ call[d].found \in once'[call[d].to]
                     \/ <<call[d].on, call[d].to>> \in foreign'
    <3>1. call[d].step \in {"insert", "write"} => Running(d)
      BY DEF Running, Steps
    <3>2. /\ call[d].step = "insert" => call[d].to \in Users
          /\ call[d].step = "write" /\ call[d].op = "update_member" =>
                call[d].to \in Users
      BY <3>1 DEF IInv, PlaceInv, PlaceOK, AboutSomeone, MemberOps
    <3>3. QED  BY <1>1, <3>2 DEF IInv, GivenInv
  <2>2. QED  BY <2>1 DEF GivenInv
<1>5. QED  BY <1>1, <1>2, <1>3, <1>4 DEF IInv

LEMMA EndsWith ==
    ASSUME IInv, Remember, NEW c \in Calls, Ends(c), RowsOK', KeysOK',
           NobodyIsLeftBehind' /\ DropInv', CreatorsBelong' /\ JoinInv',
           foreign \subseteq foreign',
           \A p \in Projects, u \in Users :
              row'[p][u] \in Departments =>
                 \/ row'[p][u] = row[p][u]
                 \/ row'[p][u] \in once'[u]
                 \/ <<p, u>> \in foreign'
    PROVE  IInv'
<1>1. /\ call'[c].step = "ended" /\ ~Running(c)'
      /\ \A d \in Calls \ {c} : call'[d] = call[d]
  BY CallEnds DEF IInv
<1>2. QED  BY <1>1, MovesWith

LEMMA EndsOthers ==
    ASSUME IInv, NEW c \in Calls, Ends(c), ~At(c, "join")
    PROVE  /\ \A d \in Calls : At(d, "drop")' => call'[d] = call[d]
           /\ \A d \in Calls : \/ call'[d] = call[d]
                               \/ ~At(d, "join") /\ ~At(d, "join")'
  BY CallEnds DEF IInv, At

\* Tasks and attachments.
LEMMA TaskSide ==
    ASSUME IInv, Remember, NEW c \in Calls, Ends(c), ~At(c, "join"),
           UNCHANGED <<role, belongs, head, creator, row, faults>>,
           task' \in [Tasks -> TaskRows \cup {Missing}],
           file' \in [Files -> FileRows \cup {Missing}],
           used \subseteq used',
           used' \subseteq Departments \cup Projects \cup Tasks \cup Files,
           \A t \in Tasks : task'[t] # Missing => creator[task'[t].project] # None,
           \A f \in Files : file'[f] # Missing => task'[file'[f].task] # Missing
    PROVE  IInv'
<1>1. UNCHANGED <<raced, unjoined, foreign>>
  BY DEF faults
<1>2. RowsOK'
  BY <1>1, CallEnds DEF IInv, RowsOK
<1>3. KeysOK'
  BY DEF IInv, KeysOK
<1>4. NobodyIsLeftBehind' /\ DropInv'
  BY <1>1, EndsOthers, DepartmentsKept
<1>5. CreatorsBelong' /\ JoinInv'
  BY <1>1, EndsOthers, CreatorsKept
<1>6. QED  BY <1>1, <1>2, <1>3, <1>4, <1>5, EndsWith

LEMMA CreateTaskStep ==
    ASSUME IInv, Remember, NEW c \in Calls, NEW t \in Tasks, NEW u \in Users,
           CreateTask(c, t, u)
    PROVE  IInv'
<1> DEFINE p == call[c].on
           r == [project |-> p, assignee |-> u, by |-> call[c].by]
<1>1. /\ call[c].step = "granted" /\ call[c].op = "create_task"
      /\ call[c].step \in AllowedSteps \cup {"find"} /\ ~At(c, "join")
  BY DEF CreateTask, Granted, At, AllowedSteps
<1>2. RowsOK /\ KeysOK /\ PlaceOK(call[c]) /\ call[c].by \in Users
  BY <1>1, Granted0
<1>3. p \in Projects /\ r \in TaskRows
  BY <1>1, <1>2 DEF PlaceOK, ProjectOps, TaskRows
<1>4. /\ task' \in [Tasks -> TaskRows \cup {Missing}]
      /\ task'[t] = r /\ r # Missing
      /\ \A s \in Tasks \ {t} : task'[s] = task[s]
  <2>1. r.by # Missing.by
    BY <1>2, <1>3, Nobody DEF TaskRows, Missing
  <2>2. QED  BY <1>2, <1>3, <2>1 DEF CreateTask, RowsOK
<1>5. \A s \in Tasks : task'[s] # Missing => creator[task'[s].project] # None
  BY <1>2, <1>4 DEF KeysOK, CreateTask
<1>6. \A f \in Files : file[f] # Missing => task'[file[f].task] # Missing
  <2> SUFFICES ASSUME NEW f \in Files, file[f] # Missing
               PROVE  task'[file[f].task] # Missing
    OBVIOUS
  <2>1. file[f].task \in Tasks /\ task[file[f].task] # Missing
    BY <1>2, Rows DEF KeysOK, FileRows
  <2>2. QED  BY <1>4, <2>1
<1>7. UNCHANGED <<role, belongs, head, creator, row, file, faults>>
        /\ Ends(c) /\ used' = used \cup {t}
  BY DEF CreateTask
<1>8. QED  BY <1>1, <1>2, <1>4, <1>5, <1>6, <1>7, TaskSide DEF RowsOK

LEMMA WriteAssigneeStep ==
    ASSUME IInv, Remember, NEW c \in Calls, NEW u \in Users,
           WriteAssignee(c, u)
    PROVE  IInv'
<1> DEFINE t == call[c].on
           r == [task[t] EXCEPT !.assignee = u]
<1>1. /\ call[c].step = "write" /\ call[c].op \in {"assign_task", "edit_task"}
      /\ call[c].step \in AllowedSteps \cup {"find"} /\ ~At(c, "join")
  BY DEF WriteAssignee, At, AllowedSteps
<1>2. RowsOK /\ KeysOK /\ PlaceOK(call[c])
  BY <1>1, Granted0
<1>3. t \in Tasks /\ task[t] \in TaskRows
  BY <1>1, <1>2, Rows DEF PlaceOK, TaskOps, WriteAssignee
<1>4. r \in TaskRows /\ r.project = task[t].project
  BY <1>3 DEF TaskRows
<1>5. /\ task' \in [Tasks -> TaskRows \cup {Missing}]
      /\ task'[t] = r /\ r # Missing /\ task[t] # Missing
      /\ \A s \in Tasks \ {t} : task'[s] = task[s]
  <2>1. task' = [task EXCEPT ![t] = r] /\ task[t] # Missing
    BY <1>2, <1>3 DEF WriteAssignee, RowsOK
  <2>2. r.by # Missing.by
    BY <1>4, Nobody DEF TaskRows, Missing
  <2>3. QED  BY <1>2, <1>3, <1>4, <2>1, <2>2 DEF RowsOK
<1>6. \A s \in Tasks : task'[s] # Missing => creator[task'[s].project] # None
  BY <1>2, <1>3, <1>4, <1>5 DEF KeysOK
<1>7. \A f \in Files : file[f] # Missing => task'[file[f].task] # Missing
  <2> SUFFICES ASSUME NEW f \in Files, file[f] # Missing
               PROVE  task'[file[f].task] # Missing
    OBVIOUS
  <2>1. file[f].task \in Tasks /\ task[file[f].task] # Missing
    BY <1>2, Rows DEF KeysOK, FileRows
  <2>2. QED  BY <1>5, <2>1
<1>8. UNCHANGED <<role, belongs, head, creator, row, file, used, faults>>
        /\ Ends(c)
  BY DEF WriteAssignee
<1>9. QED  BY <1>1, <1>2, <1>5, <1>6, <1>7, <1>8, TaskSide DEF RowsOK

\* A deletion takes the attachments along.
LEMMA Cascade ==
    ASSUME RowsOK, KeysOK, NEW ts \in SUBSET Tasks, Without(ts)
    PROVE  /\ task' \in [Tasks -> TaskRows \cup {Missing}]
           /\ file' \in [Files -> FileRows \cup {Missing}]
           /\ \A t \in Tasks : task'[t] # Missing => t \notin ts
                                                   /\ task'[t] = task[t]
           /\ \A f \in Files : file'[f] # Missing => task'[file'[f].task] # Missing
<1>1. /\ task' \in [Tasks -> TaskRows \cup {Missing}]
      /\ \A t \in Tasks : task'[t] = IF t \in ts THEN Missing ELSE task[t]
  BY DEF RowsOK, Without
<1>2. /\ file' \in [Files -> FileRows \cup {Missing}]
      /\ \A f \in Files : file'[f] =
            IF file[f] # Missing /\ file[f].task \in ts
            THEN Missing ELSE file[f]
  BY DEF RowsOK, Without
<1>3. ASSUME NEW f \in Files, file'[f] # Missing
      PROVE  task'[file'[f].task] # Missing
  <2>1. file'[f] = file[f] /\ file[f].task \notin ts
    BY <1>2, <1>3
  <2>2. file[f].task \in Tasks /\ task[file[f].task] # Missing
    BY <1>3, <2>1, Rows DEF KeysOK, FileRows
  <2>3. QED  BY <1>1, <2>1, <2>2
<1>4. QED  BY <1>1, <1>2, <1>3

LEMMA DeleteTaskStep ==
    ASSUME IInv, Remember, NEW c \in Calls, NEW ts \in SUBSET Tasks,
           DeleteTask(c, ts)
    PROVE  IInv'
<1>1. RowsOK /\ KeysOK /\ Without(ts) /\ Ends(c) /\ ~At(c, "join")
        /\ UNCHANGED <<role, belongs, head, creator, row, used, faults>>
  BY DEF IInv, DeleteTask, Granted, At
<1>2. /\ task' \in [Tasks -> TaskRows \cup {Missing}]
      /\ file' \in [Files -> FileRows \cup {Missing}]
      /\ \A t \in Tasks : task'[t] # Missing => task'[t] = task[t]
      /\ \A f \in Files : file'[f] # Missing => task'[file'[f].task] # Missing
  BY <1>1, Cascade
<1>3. \A t \in Tasks : task'[t] # Missing => creator[task'[t].project] # None
  BY <1>1, <1>2 DEF KeysOK
<1>4. QED  BY <1>1, <1>2, <1>3, TaskSide DEF RowsOK

LEMMA FileStep ==
    ASSUME IInv, Remember, NEW c \in Calls,
           DeleteFile(c) \/ \E f \in Files : AddFile(c, f)
    PROVE  IInv'
<1>1. RowsOK /\ KeysOK
  BY DEF IInv
<1>2. CASE DeleteFile(c)
  <2>1. /\ file' \in [Files -> FileRows \cup {Missing}]
        /\ \A f \in Files : file'[f] # Missing => file'[f] = file[f]
    BY <1>1, <1>2 DEF RowsOK, DeleteFile
  <2>2. /\ UNCHANGED <<role, belongs, head, creator, row, task, used, faults>>
        /\ Ends(c) /\ ~At(c, "join")
    BY <1>2 DEF DeleteFile, Granted, At
  <2>3. QED  BY <1>1, <2>1, <2>2, TaskSide DEF RowsOK, KeysOK
<1>3. ASSUME NEW f \in Files, AddFile(c, f)
      PROVE  IInv'
  <2> DEFINE t == call[c].on
             r == [task |-> t, by |-> call[c].by]
  <2>1. /\ call[c].step = "granted" /\ call[c].op = "add_file"
        /\ call[c].step \in AllowedSteps \cup {"find"} /\ ~At(c, "join")
        /\ task[t] # Missing
    BY <1>3 DEF AddFile, Granted, At, AllowedSteps
  <2>2. PlaceOK(call[c]) /\ call[c].by \in Users
    BY <2>1, Granted0
  <2>3. t \in Tasks /\ r \in FileRows
    BY <2>1, <2>2 DEF PlaceOK, TaskOps, FileRows
  <2>4. /\ file' \in [Files -> FileRows \cup {Missing}]
        /\ file'[f] = r
        /\ \A g \in Files \ {f} : file'[g] = file[g]
    BY <1>1, <1>3, <2>3 DEF AddFile, RowsOK
  <2>5. \A g \in Files : file'[g] # Missing => task[file'[g].task] # Missing
    BY <1>1, <2>1, <2>4 DEF KeysOK
  <2>6. UNCHANGED <<role, belongs, head, creator, row, task, faults>>
          /\ Ends(c) /\ used' = used \cup {f}
    BY <1>3 DEF AddFile
  <2>7. QED  BY <1>1, <2>1, <2>4, <2>5, <2>6, TaskSide DEF RowsOK, KeysOK
<1>4. QED  BY <1>2, <1>3

-----------------------------------------------------------------------------
(* Departments. *)

LEMMA DepartmentSide ==
    ASSUME IInv, Remember, NEW c \in Calls, Ends(c), ~At(c, "join"),
           UNCHANGED <<role, creator, row, task, file, unjoined, foreign>>,
           belongs' \in [Users -> Departments \cup {None}],
           head' \in [Departments -> Users \cup {None}],
           raced' \subseteq Users, used \subseteq used',
           used' \subseteq Departments \cup Projects \cup Tasks \cup Files,
           NobodyIsLeftBehind', DropInv'
    PROVE  IInv'
<1>1. RowsOK'
  BY CallEnds DEF IInv, RowsOK
<1>2. KeysOK'
  BY DEF IInv, KeysOK
<1>3. CreatorsBelong' /\ JoinInv'
  BY EndsOthers, CreatorsKept
<1>4. QED  BY <1>1, <1>2, <1>3, EndsWith

LEMMA HeadStep ==
    ASSUME IInv, Remember, NEW c \in Calls, NEW u \in Users,
           WriteHead(c, u) \/ \E d \in Departments : CreateDepartment(c, d, u)
    PROVE  IInv'
<1>1. RowsOK
  BY DEF IInv
<1>2. /\ Ends(c) /\ ~At(c, "join")
      /\ UNCHANGED <<role, belongs, creator, row, task, file, faults>>
  BY DEF WriteHead, CreateDepartment, Granted, At
<1>3. /\ head' \in [Departments -> Users \cup {None}]
      /\ \A e \in Departments : head[e] # None => head'[e] # None
      /\ \E d \in Departments : used' \in {used, used \cup {d}}
  <2>1. CASE WriteHead(c, u)
    <3>1. call[c].step = "write" /\ call[c].op = "edit_department"
      BY <2>1 DEF WriteHead, At
    <3>2. call[c].on \in Departments
      BY <3>1, Granted0 DEF AllowedSteps, PlaceOK, DepartmentOps
    <3>3. QED  BY <1>1, <2>1, <3>2, Nobody DEF WriteHead, RowsOK
  <2>2. CASE \E d \in Departments : CreateDepartment(c, d, u)
    BY <1>1, <2>2, Nobody DEF CreateDepartment, RowsOK
  <2>3. QED  BY <2>1, <2>2
<1>4. NobodyIsLeftBehind'
  BY <1>1, <1>2, <1>3 DEF IInv, NobodyIsLeftBehind, RowsOK, faults
<1>5. DropInv'
  BY <1>2, EndsOthers DEF IInv, DropInv, At, faults
<1>6. QED  BY <1>1, <1>2, <1>3, <1>4, <1>5, DepartmentSide DEF RowsOK, faults

LEMMA AssignUserStep ==
    ASSUME IInv, Remember, NEW c \in Calls, AssignUser(c)
    PROVE  IInv'
<1> DEFINE d == call[c].on
           u == call[c].to
<1>1. call[c].step = "write" /\ call[c].op = "assign_user"
  BY DEF AssignUser, At
<1>2. RowsOK /\ PlaceOK(call[c])
  BY <1>1, Granted0 DEF AllowedSteps
<1>3. d \in Departments /\ u \in Users
  BY <1>1, <1>2 DEF PlaceOK, DepartmentOps, AboutSomeone
<1>4. /\ Ends(c) /\ ~At(c, "join")
      /\ UNCHANGED <<role, head, creator, row, task, file, used, unjoined,
                     foreign>>
      /\ belongs'[u] = d /\ \A v \in Users \ {u} : belongs'[v] = belongs[v]
      /\ belongs' \in [Users -> Departments \cup {None}]
  BY <1>1, <1>2, <1>3 DEF AssignUser, At, RowsOK
<1>5. /\ raced' \subseteq Users
      /\ raced \ {u} \subseteq raced'
      /\ u \notin raced' => head[d] # None /\ ~Closing(d)
  BY <1>2, <1>3 DEF AssignUser, RowsOK
<1>6. NobodyIsLeftBehind'
  BY <1>4, <1>5 DEF IInv, NobodyIsLeftBehind
<1>7. DropInv'
  <2> SUFFICES ASSUME NEW e \in Calls, At(e, "drop")',
                      NEW v \in Users, v \notin raced'
               PROVE  belongs'[v] # call'[e].on
    BY DEF DropInv
  <2>1. call'[e] = call[e] /\ At(e, "drop")
    BY <1>4, EndsOthers DEF At
  <2>2. CASE v = u
    BY <1>4, <1>5, <2>1, <2>2 DEF Closing
  <2>3. CASE v # u
    BY <1>4, <1>5, <2>1, <2>3 DEF IInv, DropInv
  <2>4. QED  BY <2>2, <2>3
<1>8. QED  BY <1>2, <1>4, <1>5, <1>6, <1>7, DepartmentSide DEF RowsOK

\* A department being dropped is a department.
LEMMA Dropping ==
    ASSUME IInv, NEW c \in Calls, At(c, "drop")
    PROVE  call[c].on \in Departments /\ call[c].on # None
<1>1. PlaceOK(call[c])
  BY Granted0 DEF AllowedSteps, At
<1>2. QED  BY <1>1, Nobody DEF PlaceOK, DepartmentOps, At

LEMMA RemoveUserStep ==
    ASSUME IInv, Remember, NEW c \in Calls, RemoveUser(c)
    PROVE  IInv'
<1>1. /\ RowsOK /\ Ends(c) /\ ~At(c, "join")
      /\ UNCHANGED <<role, head, creator, row, task, file, used, faults>>
  BY DEF IInv, RemoveUser, Granted, At
<1>2. /\ belongs' \in [Users -> Departments \cup {None}]
      /\ \A v \in Users : belongs'[v] \in {belongs[v], None}
  BY <1>1 DEF RemoveUser, RowsOK
<1>3. NobodyIsLeftBehind'
  BY <1>1, <1>2 DEF IInv, NobodyIsLeftBehind, faults
<1>4. DropInv'
  <2> SUFFICES ASSUME NEW e \in Calls, At(e, "drop")',
                      NEW v \in Users, v \notin raced'
               PROVE  belongs'[v] # call'[e].on
    BY DEF DropInv
  <2>1. call'[e] = call[e] /\ At(e, "drop")
    BY <1>1, EndsOthers DEF At
  <2>2. QED  BY <1>1, <1>2, <2>1, Dropping DEF IInv, DropInv, faults
<1>5. QED  BY <1>1, <1>2, <1>3, <1>4, DepartmentSide DEF RowsOK, faults

\* Whoever is in the department by then was assigned since Detach.
LEMMA DropStep ==
    ASSUME IInv, Remember, NEW c \in Calls, Drop(c)
    PROVE  IInv'
<1> DEFINE d == call[c].on
<1>1. /\ RowsOK /\ Ends(c) /\ ~At(c, "join") /\ At(c, "drop")
      /\ UNCHANGED <<role, belongs, creator, row, task, file, used, faults>>
  BY DEF IInv, Drop, At
<1>2. /\ head' \in [Departments -> Users \cup {None}]
      /\ \A e \in Departments \ {d} : head'[e] = head[e]
  BY <1>1 DEF Drop, RowsOK
<1>3. \A u \in Users \ raced : belongs[u] # d
  BY <1>1 DEF IInv, DropInv
<1>4. NobodyIsLeftBehind'
  BY <1>1, <1>2, <1>3 DEF IInv, NobodyIsLeftBehind, RowsOK, faults
<1>5. DropInv'
  BY <1>1, EndsOthers DEF IInv, DropInv, At, faults
<1>6. QED  BY <1>1, <1>2, <1>4, <1>5, DepartmentSide DEF RowsOK, faults

LEMMA DetachStep ==
    ASSUME IInv, Remember, NEW c \in Calls, Detach(c)
    PROVE  IInv'
<1> DEFINE d == call[c].on
<1>1. /\ call[c].step = "granted" /\ call[c].op = "delete_department"
      /\ call[c].step \in AllowedSteps
      /\ call' = [call EXCEPT ![c].step = "drop"]
      /\ UNCHANGED <<role, head, creator, row, task, file, used, faults>>
  BY DEF Detach, Granted, At, AllowedSteps
<1>2. RowsOK /\ PlaceOK(call[c]) /\ Running(c) /\ d \in Departments
  BY <1>1, Granted0 DEF PlaceOK, DepartmentOps
<1>3. /\ call' \in [Calls -> CallRecords \cup {NotBegun, Ended}]
      /\ call'[c].step = "drop" /\ call'[c].op = call[c].op
      /\ call'[c].on = d /\ call'[c].to = call[c].to
      /\ call'[c].task = call[c].task /\ call'[c].project = call[c].project
      /\ Running(c)' /\ \A e \in Calls \ {c} : call'[e] = call[e]
  BY <1>1, <1>2, StepsOn DEF Steps
<1>4. \A u \in Users : /\ belongs'[u] \in {belongs[u], None}
                       /\ belongs'[u] # d
  BY <1>2, Nobody DEF Detach, RowsOK
<1>5. RowsOK'
  BY <1>1, <1>2, <1>3, <1>4 DEF RowsOK, Detach, faults
<1>6. KeysOK'
  BY <1>1 DEF IInv, KeysOK
<1>7. PlaceOK(call[c])'
  BY <1>1, <1>2, <1>3 DEF PlaceOK, CheckSteps
<1>8. EarnedOK(call[c], since[c])'
  BY <1>1, <1>2, <1>3, GrantKept DEF AllowedSteps
<1>9. NobodyIsLeftBehind'
  BY <1>1, <1>4 DEF IInv, NobodyIsLeftBehind, faults
<1>10. DropInv'
  <2> SUFFICES ASSUME NEW e \in Calls, At(e, "drop")',
                      NEW v \in Users, v \notin raced'
               PROVE  belongs'[v] # call'[e].on
    BY DEF DropInv
  <2>1. CASE e = c
    BY <1>3, <1>4, <2>1
  <2>2. CASE e # c
    <3>1. call'[e] = call[e] /\ At(e, "drop")
      BY <1>3, <2>2 DEF At
    <3>2. QED  BY <1>1, <1>4, <3>1, Dropping DEF IInv, DropInv, faults
  <2>3. QED  BY <2>1, <2>2
<1>11. CreatorsBelong' /\ JoinInv'
  <2>1. \A e \in Calls : \/ call'[e] = call[e]
                         \/ ~At(e, "join") /\ ~At(e, "join")'
    BY <1>1, <1>3 DEF At
  <2>2. QED  BY <1>1, <2>1, CreatorsKept DEF faults
<1>12. QED
  BY <1>1, <1>3, <1>5, <1>6, <1>7, <1>8, <1>9, <1>10, <1>11, MovesWith
     DEF faults


-----------------------------------------------------------------------------
(* Projects and members. *)

\* Only the creator joins, and the project is still there when he does.
LEMMA JoinStep ==
    ASSUME IInv, Remember, NEW c \in Calls, Join(c) \/ JoinFails(c)
    PROVE  IInv'
<1> DEFINE p == call[c].on
           b == call[c].by
<1>1. /\ call[c].step = "join" /\ At(c, "join") /\ Ends(c)
      /\ UNCHANGED <<role, belongs, head, creator, task, file, used, raced,
                     foreign>>
  BY DEF Join, Joins, JoinFails, At, tables, faults
<1>2. RowsOK /\ KeysOK /\ PlaceOK(call[c]) /\ b \in Users
  BY <1>1, Granted0 DEF AllowedSteps
<1>3. p \in Projects /\ creator[p] \in {b, None}
  BY <1>1, <1>2 DEF PlaceOK, IInv, JoinInv
<1>4. /\ call' \in [Calls -> CallRecords \cup {NotBegun, Ended}]
      /\ call'[c].step = "ended"
      /\ \A d \in Calls \ {c} : call'[d] = call[d]
  BY <1>1, <1>2, CallEnds
<1>5. /\ row' \in [Projects -> [Users -> Departments \cup {None, Absent}]]
      /\ \A q \in Projects, u \in Users :
            \/ row'[q][u] = row[q][u]
            \/ row'[q][u] = None /\ q = p /\ u = b /\ creator[p] = b
      /\ unjoined \subseteq unjoined' /\ unjoined' \subseteq Projects
      /\ creator[p] # None => row'[p][b] # Absent \/ p \in unjoined'
  <2>1. CASE Join(c)
    <3>1. /\ row' = [row EXCEPT ![p][b] = None] /\ unjoined' = unjoined
          /\ creator[p] = b
      BY <1>2, <1>3, <2>1, Nobody DEF Join, Joins, faults
    <3>2. QED  BY <1>2, <1>3, <3>1, Nobody DEF RowsOK
  <2>2. CASE JoinFails(c)
    BY <1>2, <1>3, <2>2 DEF JoinFails, tables, RowsOK
  <2>3. QED  BY <2>1, <2>2
<1>6. RowsOK'
  BY <1>1, <1>2, <1>4, <1>5 DEF RowsOK
<1>7. KeysOK'
  BY <1>1, <1>2, <1>3, <1>5, Nobody DEF KeysOK
<1>8. NobodyIsLeftBehind' /\ DropInv'
  <2>1. \A d \in Calls : At(d, "drop")' => call'[d] = call[d]
    BY <1>4 DEF At
  <2>2. QED  BY <1>1, <2>1, DepartmentsKept
<1>9. CreatorsBelong'
  <2> SUFFICES ASSUME NEW q \in Projects, creator[q] # None
               PROVE  \/ row'[q][creator[q]] # Absent
                      \/ q \in unjoined'
                      \/ \E d \in Calls : At(d, "join")' /\ call'[d].on = q
    BY <1>1 DEF CreatorsBelong, Member
  <2>1. CASE q = p
    BY <1>3, <1>5, <2>1
  <2>2. CASE q # p
    <3>1. \/ row[q][creator[q]] # Absent
          \/ q \in unjoined
          \/ \E d \in Calls : At(d, "join") /\ call[d].on = q
      BY DEF IInv, CreatorsBelong, Member
    <3>2. row'[q][creator[q]] = row[q][creator[q]]
      BY <1>2, <1>5, <2>2 DEF RowsOK
    <3>3. QED  BY <1>4, <1>5, <2>2, <3>1, <3>2 DEF At
  <2>3. QED  BY <2>1, <2>2
<1>10. JoinInv'
  BY <1>1, <1>4 DEF IInv, JoinInv, At
<1>11. QED
  BY <1>1, <1>5, <1>6, <1>7, <1>8, <1>9, <1>10, Nobody, EndsWith

LEMMA DeleteProjectStep ==
    ASSUME IInv, Remember, NEW c \in Calls, DeleteProject(c)
    PROVE  IInv'
<1> DEFINE p == call[c].on
           ts == {t \in Tasks : task[t] # Missing /\ task[t].project = p}
<1>1. /\ call[c].step = "granted" /\ call[c].op = "delete_project"
      /\ Ends(c) /\ ~At(c, "join") /\ Without(ts)
      /\ UNCHANGED <<role, belongs, head, used, raced, unjoined, foreign>>
  BY DEF DeleteProject, Granted, At, faults
<1>2. RowsOK /\ KeysOK /\ p \in Projects
  BY <1>1, Granted0 DEF AllowedSteps, PlaceOK, ProjectOps
<1>3. /\ creator' \in [Projects -> Users \cup {None}]
      /\ creator'[p] = None
      /\ \A q \in Projects \ {p} : creator'[q] = creator[q]
  BY <1>2 DEF DeleteProject, RowsOK
<1>4. /\ row' \in [Projects -> [Users -> Departments \cup {None, Absent}]]
      /\ \A u \in Users : row'[p][u] = Absent
      /\ \A q \in Projects \ {p} : row'[q] = row[q]
  BY <1>2 DEF DeleteProject, RowsOK
<1>5. /\ task' \in [Tasks -> TaskRows \cup {Missing}]
      /\ file' \in [Files -> FileRows \cup {Missing}]
      /\ \A t \in Tasks : task'[t] # Missing => t \notin ts
                                              /\ task'[t] = task[t]
      /\ \A f \in Files : file'[f] # Missing => task'[file'[f].task] # Missing
  <2> HIDE DEF ts
  <2>1. ts \in SUBSET Tasks
    BY DEF ts
  <2>2. QED  BY <1>1, <1>2, <2>1, Cascade
<1>6. /\ call' \in [Calls -> CallRecords \cup {NotBegun, Ended}]
      /\ call'[c].step = "ended"
      /\ \A d \in Calls \ {c} : call'[d] = call[d]
  BY <1>1, <1>2, CallEnds
<1>7. RowsOK'
  BY <1>1, <1>2, <1>3, <1>4, <1>5, <1>6 DEF RowsOK
<1>8. KeysOK'
  <2>1. ASSUME NEW t \in Tasks, task'[t] # Missing
        PROVE  creator'[task'[t].project] # None
    <3>1. task'[t] = task[t] /\ task[t].project # p
      BY <1>5, <2>1
    <3>2. task[t].project \in Projects /\ creator[task[t].project] # None
      BY <1>2, <2>1, <3>1, Rows DEF KeysOK, TaskRows
    <3>3. QED  BY <1>3, <3>1, <3>2
  <2>2. \A q \in Projects, u \in Users :
           creator'[q] = None => row'[q][u] = Absent
    BY <1>2, <1>3, <1>4 DEF KeysOK
  <2>3. QED  BY <1>5, <2>1, <2>2 DEF KeysOK
<1>9. NobodyIsLeftBehind' /\ DropInv'
  BY <1>1, EndsOthers, DepartmentsKept
<1>10. CreatorsBelong'
  <2> SUFFICES ASSUME NEW q \in Projects, creator'[q] # None
               PROVE  \/ row'[q][creator'[q]] # Absent
                      \/ q \in unjoined'
                      \/ \E d \in Calls : At(d, "join")' /\ call'[d].on = q
    BY DEF CreatorsBelong, Member
  <2>1. /\ q # p /\ creator'[q] = creator[q] /\ row'[q] = row[q]
        /\ unjoined' = unjoined
    BY <1>1, <1>3, <1>4
  <2>2. \/ row[q][creator[q]] # Absent
        \/ q \in unjoined
        \/ \E d \in Calls : At(d, "join") /\ call[d].on = q
    BY <2>1 DEF IInv, CreatorsBelong, Member
  <2>3. QED  BY <1>1, <1>6, <2>1, <2>2 DEF At
<1>11. JoinInv'
  <2>1. \A q \in Projects : creator'[q] # None => q \in used'
    BY <1>1, <1>3 DEF IInv, JoinInv
  <2>2. ASSUME NEW d \in Calls, At(d, "join")'
        PROVE  call'[d].on \in used' /\ creator'[call'[d].on] \in {call'[d].by, None}
    <3>1. call'[d] = call[d] /\ At(d, "join")
      BY <1>6, <2>2 DEF At
    <3>2. call[d].on \in Projects
      BY <3>1, Granted0 DEF AllowedSteps, At, PlaceOK
    <3>3. QED  BY <1>1, <1>3, <3>1, <3>2 DEF IInv, JoinInv
  <2>3. QED  BY <2>1, <2>2 DEF JoinInv
<1>12. \A q \in Projects, u \in Users :
          row'[q][u] \in Departments => row'[q][u] = row[q][u]
  BY <1>4, Nobody
<1>13. QED
  BY <1>1, <1>7, <1>8, <1>9, <1>10, <1>11, <1>12, EndsWith


\* A new project has an id of its own, so no call is still joining it.
LEMMA CreateProjectStep ==
    ASSUME IInv, Remember, NEW c \in Calls, NEW p \in Projects,
           CreateProject(c, p)
    PROVE  IInv'
<1> DEFINE b == call[c].by
           k == [call[c] EXCEPT !.step = "join", !.on = p]
<1>1. /\ call[c].step = "granted" /\ call[c].op = "create_project"
      /\ call[c].step \in AllowedSteps /\ p \notin used
      /\ UNCHANGED <<role, belongs, head, row, task, file, raced, unjoined,
                     foreign>>
      /\ used' = used \cup {p}
  BY DEF CreateProject, Granted, At, AllowedSteps, Fresh, faults
<1>2. /\ RowsOK /\ KeysOK /\ PlaceOK(call[c]) /\ b \in Users /\ Running(c)
      /\ call[c] \in CallRecords
  BY <1>1, Granted0
<1>3. creator[p] = None
  BY <1>1 DEF IInv, JoinInv
<1>4. k \in CallRecords
  BY <1>2 DEF CallRecords, Things, Steps
<1>5. /\ call' \in [Calls -> CallRecords \cup {NotBegun, Ended}]
      /\ call'[c] = k /\ \A d \in Calls \ {c} : call'[d] = call[d]
  <2>1. call' = [call EXCEPT ![c] = k]
    BY <1>2 DEF CreateProject, RowsOK, CallRecords
  <2>2. QED  BY <1>2, <1>4, <2>1 DEF RowsOK
<1>6. /\ call'[c].step = "join" /\ call'[c].op = "create_project"
      /\ call'[c].by = b /\ call'[c].on = p
  BY <1>1, <1>2, <1>5 DEF CallRecords
<1>7. /\ creator' \in [Projects -> Users \cup {None}]
      /\ creator'[p] = b
      /\ \A q \in Projects \ {p} : creator'[q] = creator[q]
  BY <1>2 DEF CreateProject, RowsOK
<1>8. RowsOK'
  BY <1>1, <1>2, <1>5, <1>7 DEF RowsOK
<1>9. KeysOK'
  <2>1. \A q \in Projects : creator'[q] = None => creator[q] = None
    BY <1>3, <1>7
  <2>2. ASSUME NEW t \in Tasks, task[t] # Missing
        PROVE  creator'[task[t].project] # None
    <3>1. task[t].project \in Projects /\ creator[task[t].project] # None
      BY <1>2, <2>2, Rows DEF KeysOK, TaskRows
    <3>2. QED  BY <1>3, <1>7, <3>1
  <2>3. QED  BY <1>1, <1>2, <2>1, <2>2 DEF KeysOK
<1>10. PlaceOK(call[c])'
  BY <1>6 DEF PlaceOK, CheckSteps, ProjectOps, MemberOps, TaskOps, FileOps,
              DepartmentOps, AboutSomeone
<1>11. EarnedOK(call[c], since[c])'
  <2>1. call'[c].step \in AllowedSteps /\ Running(c)'
    BY <1>6 DEF AllowedSteps, Running, Steps
  <2>2. QED  BY <1>1, <1>2, <1>6, <2>1, GrantKept
<1>12. NobodyIsLeftBehind' /\ DropInv'
  <2>1. \A d \in Calls : At(d, "drop")' => call'[d] = call[d]
    BY <1>5, <1>6 DEF At
  <2>2. QED  BY <1>1, <2>1, DepartmentsKept
<1>13. CreatorsBelong'
  <2> SUFFICES ASSUME NEW q \in Projects, creator'[q] # None
               PROVE  \/ row'[q][creator'[q]] # Absent
                      \/ q \in unjoined'
                      \/ \E d \in Calls : At(d, "join")' /\ call'[d].on = q
    BY DEF CreatorsBelong, Member
  <2>1. CASE q = p
    BY <1>6, <2>1 DEF At
  <2>2. CASE q # p
    <3>1. \/ row[q][creator[q]] # Absent
          \/ q \in unjoined
          \/ \E d \in Calls : At(d, "join") /\ call[d].on = q
      BY <1>7, <2>2 DEF IInv, CreatorsBelong, Member
    <3>2. \A d \in Calls : At(d, "join") => call'[d] = call[d] /\ At(d, "join")'
      BY <1>1, <1>5 DEF At
    <3>3. QED  BY <1>1, <1>7, <2>2, <3>1, <3>2
  <2>3. QED  BY <2>1, <2>2
<1>14. JoinInv'
  <2>1. \A q \in Projects : creator'[q] # None => q \in used'
    BY <1>1, <1>7 DEF IInv, JoinInv
  <2>2. ASSUME NEW d \in Calls, At(d, "join")'
        PROVE  call'[d].on \in used' /\ creator'[call'[d].on] \in {call'[d].by, None}
    <3>1. CASE d = c
      BY <1>1, <1>6, <1>7, <3>1
    <3>2. CASE d # c
      <4>1. call'[d] = call[d] /\ At(d, "join")
        BY <1>5, <2>2, <3>2 DEF At
      <4>2. call[d].on \in Projects /\ call[d].on \in used
        BY <4>1, Granted0 DEF AllowedSteps, At, PlaceOK, IInv, JoinInv
      <4>3. QED  BY <1>1, <1>7, <4>1, <4>2 DEF IInv, JoinInv
    <3>3. QED  BY <3>1, <3>2
  <2>3. QED  BY <2>1, <2>2 DEF JoinInv
<1>15. QED
  BY <1>1, <1>5, <1>6, <1>8, <1>9, <1>10, <1>11, <1>12, <1>13, <1>14, MovesWith

\* A handler that writes one row of project_members.
LEMMA MemberSide ==
    ASSUME IInv, Remember, NEW c \in Calls, NEW p \in Projects, NEW u \in Users,
           NEW x \in Departments \cup {None, Absent},
           ~At(c, "join"),
           call'[c].step \notin {"join", "drop", "insert", "write"},
           call' \in [Calls -> CallRecords \cup {NotBegun, Ended}],
           \A d \in Calls \ {c} : call'[d] = call[d],
           Running(c)' => PlaceOK(call[c])' /\ EarnedOK(call[c], since[c])',
           UNCHANGED <<role, belongs, head, creator, task, file, used, raced>>,
           row' = [row EXCEPT ![p][u] = x],
           x # Absent => creator[p] # None,
           unjoined' \subseteq Projects, unjoined \ {p} \subseteq unjoined',
           creator[p] # u => unjoined \subseteq unjoined',
           creator[p] = u => x # Absent \/ p \in unjoined',
           foreign' \subseteq Projects \X Users, foreign \subseteq foreign',
           x \in Departments => x \in once'[u] \/ <<p, u>> \in foreign'
    PROVE  IInv'
<1>1. RowsOK /\ KeysOK
  BY DEF IInv
<1>2. /\ row' \in [Projects -> [Users -> Departments \cup {None, Absent}]]
      /\ row'[p][u] = x
      /\ \A q \in Projects, v \in Users :
            q # p \/ v # u => row'[q][v] = row[q][v]
  BY <1>1 DEF RowsOK
<1>3. RowsOK'
  BY <1>1, <1>2 DEF RowsOK
<1>4. KeysOK'
  BY <1>1, <1>2 DEF KeysOK
<1>5. NobodyIsLeftBehind' /\ DropInv'
  <2>1. \A d \in Calls : At(d, "drop")' => call'[d] = call[d]
    BY DEF At
  <2>2. QED  BY <2>1, DepartmentsKept
<1>6. CreatorsBelong'
  <2> SUFFICES ASSUME NEW q \in Projects, creator[q] # None
               PROVE  \/ row'[q][creator[q]] # Absent
                      \/ q \in unjoined'
                      \/ \E d \in Calls : At(d, "join")' /\ call'[d].on = q
    BY DEF CreatorsBelong, Member
  <2>1. \/ row[q][creator[q]] # Absent
        \/ q \in unjoined
        \/ \E d \in Calls : At(d, "join") /\ call[d].on = q
    BY DEF IInv, CreatorsBelong, Member
  <2>2. \A d \in Calls : At(d, "join") => call'[d] = call[d] /\ At(d, "join")'
    BY DEF At
  <2>3. creator[q] \in Users
    BY <1>1 DEF RowsOK
  <2>4. CASE q = p /\ creator[p] = u
    BY <1>2, <2>4
  <2>5. CASE q # p \/ creator[p] # u
    <3>1. row'[q][creator[q]] = row[q][creator[q]]
      BY <1>2, <2>3, <2>5
    <3>2. q \in unjoined => q \in unjoined'
      BY <2>5
    <3>3. QED  BY <2>1, <2>2, <3>1, <3>2
  <2>6. QED  BY <2>4, <2>5
<1>7. JoinInv'
  BY DEF IInv, JoinInv, At
<1>8. \A q \in Projects, v \in Users :
         row'[q][v] \in Departments =>
            \/ row'[q][v] = row[q][v]
            \/ row'[q][v] \in once'[v]
            \/ <<q, v>> \in foreign'
  BY <1>2
<1>9. QED  BY <1>3, <1>4, <1>5, <1>6, <1>7, <1>8, MovesWith


\* A call about a member that writes, and the row it is about.
LEMMA OfMember ==
    ASSUME IInv, Remember, NEW c \in Calls,
           call[c].step \in {"insert", "sync", "write", "read"},
           call[c].op \in MemberOps
    PROVE  /\ RowsOK /\ HistoryOK /\ PlaceOK(call[c]) /\ Running(c)
           /\ call[c] \in CallRecords
           /\ call[c].on \in Projects /\ call[c].to \in Users
           /\ creator[call[c].on] = None => ~Member(call[c].on, call[c].to)
           /\ ~At(c, "join") /\ call[c].step \in AllowedSteps
<1>1. call[c].step \in AllowedSteps /\ ~At(c, "join")
  BY DEF AllowedSteps, At
<1>2. RowsOK /\ KeysOK /\ HistoryOK /\ PlaceOK(call[c]) /\ Running(c)
        /\ call[c] \in CallRecords
  BY <1>1, Granted0
<1>3. call[c].on \in Projects /\ call[c].to \in Users
  BY <1>2 DEF PlaceOK, ProjectOps, AboutSomeone
<1>4. QED  BY <1>1, <1>2, <1>3 DEF KeysOK, Member

LEMMA InsertMemberStep ==
    ASSUME IInv, Remember, NEW c \in Calls, InsertMember(c)
    PROVE  IInv'
<1> DEFINE p == call[c].on
           u == call[c].to
           x == call[c].dept
           k == [call[c] EXCEPT !.step = "sync"]
<1>1. /\ call[c].step = "insert" /\ creator[p] # None
      /\ row' = [row EXCEPT ![p][u] = x]
      /\ UNCHANGED <<role, belongs, head, creator, task, file, used, raced,
                     foreign>>
      /\ unjoined' = IF creator[p] = u THEN unjoined \ {p} ELSE unjoined
  BY DEF InsertMember, At
<1>2. call[c].op = "add_member" /\ call[c].op \in MemberOps
  BY <1>1, Granted0 DEF AllowedSteps, PlaceOK, MemberOps
<1>3. /\ RowsOK /\ HistoryOK /\ PlaceOK(call[c]) /\ Running(c)
      /\ call[c] \in CallRecords /\ p \in Projects /\ u \in Users
      /\ ~At(c, "join")
  BY <1>1, <1>2, OfMember
<1>4. x \in Departments \cup {None} /\ x # Absent
        /\ (x \in Departments => x \in once[u])
  BY <1>1, <1>3, Nobody DEF CallRecords, IInv, GivenInv
<1>5. /\ call' \in [Calls -> CallRecords \cup {NotBegun, Ended}]
      /\ call'[c] = IF x = None THEN k ELSE Ended
      /\ \A d \in Calls \ {c} : call'[d] = call[d]
  <2>1. k \in CallRecords
    BY <1>3 DEF CallRecords, Steps
  <2>2. call' = [call EXCEPT ![c] = IF x = None THEN k ELSE Ended]
    BY <1>3 DEF InsertMember, RowsOK
  <2>3. QED  BY <1>3, <2>1, <2>2 DEF RowsOK
<1>6. Ended.step = "ended" /\ "ended" \notin Steps
  BY DEF Ended, Steps
<1>7. /\ x # None => call'[c].step = "ended" /\ ~Running(c)'
      /\ x = None => /\ call'[c].step = "sync" /\ call'[c].op = call[c].op
                     /\ call'[c].on = p /\ call'[c].to = u
                     /\ call'[c].task = call[c].task
                     /\ call'[c].project = call[c].project
  BY <1>3, <1>5, <1>6 DEF CallRecords, Running
<1>8. x = None => PlaceOK(call[c])' /\ EarnedOK(call[c], since[c])'
  BY <1>2, <1>3, <1>7, MemberGrant DEF PlaceOK, CheckSteps
<1>9. HistoryOK' /\ once[u] \subseteq once'[u]
  <2>1. RowsOK'
    BY <1>1, <1>3, <1>4, <1>5 DEF RowsOK
  <2>2. QED  BY <1>3, <2>1, HistoryKept
<1>10. call'[c].step \in {"sync", "ended"}
  BY <1>7
<1>11. foreign' = foreign /\ foreign \subseteq Projects \X Users
         /\ unjoined \subseteq Projects
  BY <1>1, <1>3 DEF RowsOK
<1>12. QED
  BY <1>1, <1>3, <1>4, <1>5, <1>7, <1>8, <1>9, <1>10, <1>11, MemberSide

\* The member has no department, and takes that of any user.
LEMMA SyncStep ==
    ASSUME IInv, Remember, NEW c \in Calls, NEW v \in Users, Sync(c, v)
    PROVE  IInv'
<1> DEFINE p == call[c].on
           u == call[c].to
           x == belongs[v]
<1>1. /\ call[c].step = "sync" /\ Ends(c)
      /\ row[p][u] = None /\ x # None
      /\ row' = [row EXCEPT ![p][u] = x]
      /\ foreign' = IF belongs[u] = x THEN foreign ELSE foreign \cup {<<p, u>>}
      /\ UNCHANGED <<role, belongs, head, creator, task, file, used, raced,
                     unjoined>>
  BY DEF Sync, At
<1>2. call[c].op \in MemberOps
  BY <1>1, Granted0 DEF AllowedSteps, PlaceOK, MemberOps
<1>3. /\ RowsOK /\ HistoryOK /\ p \in Projects /\ u \in Users
      /\ creator[p] # None /\ ~At(c, "join")
  BY <1>1, <1>2, OfMember, Nobody DEF Member
<1>4. x \in Departments /\ x # Absent /\ (belongs[u] = x => x \in once[u])
  BY <1>1, <1>3, Nobody DEF RowsOK, HistoryOK, Own
<1>5. /\ call' \in [Calls -> CallRecords \cup {NotBegun, Ended}]
      /\ call'[c].step = "ended" /\ ~Running(c)'
      /\ \A d \in Calls \ {c} : call'[d] = call[d]
  BY <1>1, <1>3, CallEnds
<1>6. /\ unjoined' = unjoined /\ unjoined \subseteq Projects
      /\ foreign' \subseteq Projects \X Users /\ foreign \subseteq foreign'
      /\ belongs[u] = x \/ <<p, u>> \in foreign'
  BY <1>1, <1>3 DEF RowsOK
<1>7. once[u] \subseteq once'[u]
  <2>1. RowsOK'
    BY <1>1, <1>3, <1>4, <1>5, <1>6 DEF RowsOK
  <2>2. QED  BY <1>3, <2>1, HistoryKept
<1>8. QED
  BY <1>1, <1>3, <1>4, <1>5, <1>6, <1>7, MemberSide

LEMMA WriteMemberStep ==
    ASSUME IInv, Remember, NEW c \in Calls, NEW x \in Departments,
           WriteMember(c, x)
    PROVE  IInv'
<1> DEFINE p == call[c].on
           u == call[c].to
<1>1. /\ call[c].step = "write" /\ call[c].op = "update_member" /\ Ends(c)
      /\ Member(p, u)
      /\ row' = [row EXCEPT ![p][u] = x]
      /\ foreign' = IF x = call[c].found THEN foreign
                                         ELSE foreign \cup {<<p, u>>}
      /\ UNCHANGED <<role, belongs, head, creator, task, file, used, raced,
                     unjoined>>
  BY DEF WriteMember, At
<1>2. call[c].op \in MemberOps
  BY <1>1 DEF MemberOps
<1>3. /\ RowsOK /\ HistoryOK /\ p \in Projects /\ u \in Users
      /\ creator[p] # None /\ ~At(c, "join")
  BY <1>1, <1>2, OfMember
<1>4. x # Absent
        /\ (x = call[c].found => x \in once[u] \/ <<p, u>> \in foreign)
  BY <1>1, Nobody DEF IInv, GivenInv
<1>5. /\ call' \in [Calls -> CallRecords \cup {NotBegun, Ended}]
      /\ call'[c].step = "ended" /\ ~Running(c)'
      /\ \A d \in Calls \ {c} : call'[d] = call[d]
  BY <1>1, <1>3, CallEnds
<1>6. /\ unjoined' = unjoined /\ unjoined \subseteq Projects
      /\ foreign' \subseteq Projects \X Users /\ foreign \subseteq foreign'
      /\ x \in once[u] \/ <<p, u>> \in foreign'
  BY <1>1, <1>3, <1>4 DEF RowsOK
<1>7. once[u] \subseteq once'[u]
  <2>1. RowsOK'
    BY <1>1, <1>3, <1>5, <1>6 DEF RowsOK
  <2>2. QED  BY <1>3, <2>1, HistoryKept
<1>8. QED
  BY <1>1, <1>3, <1>4, <1>5, <1>6, <1>7, MemberSide

LEMMA RemoveMemberStep ==
    ASSUME IInv, Remember, NEW c \in Calls, RemoveMember(c)
    PROVE  IInv'
<1> DEFINE p == call[c].on
           u == call[c].to
<1>1. /\ call[c].step = "write" /\ call[c].op = "remove_member" /\ Ends(c)
      /\ row' = [row EXCEPT ![p][u] = Absent]
      /\ unjoined' = IF creator[p] = u THEN unjoined \cup {p} ELSE unjoined
      /\ UNCHANGED <<role, belongs, head, creator, task, file, used, raced,
                     foreign>>
  BY DEF RemoveMember, At
<1>2. call[c].op \in MemberOps
  BY <1>1 DEF MemberOps
<1>3. /\ RowsOK /\ p \in Projects /\ u \in Users /\ ~At(c, "join")
  BY <1>1, <1>2, OfMember
<1>4. /\ call' \in [Calls -> CallRecords \cup {NotBegun, Ended}]
      /\ call'[c].step = "ended" /\ ~Running(c)'
      /\ \A d \in Calls \ {c} : call'[d] = call[d]
  BY <1>1, <1>3, CallEnds
<1>5. /\ foreign' = foreign /\ foreign \subseteq Projects \X Users
      /\ unjoined' \subseteq Projects
  BY <1>1, <1>3 DEF RowsOK
<1>6. QED
  BY <1>1, <1>3, <1>4, <1>5, Nobody, MemberSide

\* What UpdateMember reads may be of another project, but is of the user.
LEMMA ReadMemberStep ==
    ASSUME IInv, Remember, NEW c \in Calls, NEW q \in Projects,
           ReadMember(c, q)
    PROVE  IInv'
<1> DEFINE p == call[c].on
           u == call[c].to
           x == row[q][u]
           k == [call[c] EXCEPT !.step = "write", !.found = x]
<1>1. /\ call[c].step = "read" /\ x \in Departments
      /\ call' = [call EXCEPT ![c].step = "write", ![c].found = x]
      /\ foreign' = IF <<q, u>> \in foreign THEN foreign \cup {<<p, u>>}
                                            ELSE foreign
      /\ UNCHANGED <<role, belongs, head, creator, row, task, file, used,
                     raced, unjoined>>
  BY DEF ReadMember, At, tables
<1>2. call[c].op = "update_member" /\ call[c].op \in MemberOps
  BY <1>1, Granted0 DEF AllowedSteps, PlaceOK, MemberOps
<1>3. /\ RowsOK /\ HistoryOK /\ PlaceOK(call[c]) /\ Running(c)
      /\ call[c] \in CallRecords /\ p \in Projects /\ u \in Users
      /\ ~At(c, "join")
  BY <1>1, <1>2, OfMember
<1>4. k \in CallRecords
  BY <1>1, <1>3 DEF CallRecords, Steps
<1>5. /\ call' \in [Calls -> CallRecords \cup {NotBegun, Ended}]
      /\ call'[c] = k /\ \A d \in Calls \ {c} : call'[d] = call[d]
  <2>1. call' = [call EXCEPT ![c] = k]
    BY <1>1, <1>3 DEF RowsOK, CallRecords
  <2>2. QED  BY <1>3, <1>4, <2>1 DEF RowsOK
<1>6. /\ call'[c].step = "write" /\ call'[c].op = call[c].op
      /\ call'[c].on = p /\ call'[c].to = u /\ call'[c].found = x
      /\ call'[c].task = call[c].task /\ call'[c].project = call[c].project
  BY <1>3, <1>5 DEF CallRecords
<1>7. /\ foreign \subseteq foreign' /\ foreign' \subseteq Projects \X Users
      /\ <<q, u>> \in foreign => <<p, u>> \in foreign'
  BY <1>1, <1>3 DEF RowsOK
<1>8. RowsOK'
  BY <1>1, <1>3, <1>5, <1>7 DEF RowsOK
<1>9. KeysOK'
  BY <1>1 DEF IInv, KeysOK
<1>10. \A v \in Users : once[v] \subseteq once'[v]
  BY <1>3, <1>8, HistoryKept
<1>11. x \in once'[u] \/ <<p, u>> \in foreign'
  BY <1>1, <1>3, <1>7, <1>10 DEF IInv, DepartmentsWereOwn
<1>12. PlaceOK(call[c])' /\ EarnedOK(call[c], since[c])'
  BY <1>2, <1>3, <1>6, MemberGrant DEF PlaceOK, CheckSteps
<1>13. NobodyIsLeftBehind' /\ DropInv'
  <2>1. \A d \in Calls : At(d, "drop")' => call'[d] = call[d]
    BY <1>5, <1>6 DEF At
  <2>2. QED  BY <1>1, <2>1, DepartmentsKept
<1>14. CreatorsBelong' /\ JoinInv'
  <2>1. \A d \in Calls : \/ call'[d] = call[d]
                         \/ ~At(d, "join") /\ ~At(d, "join")'
    BY <1>3, <1>5, <1>6 DEF At
  <2>2. QED  BY <1>1, <2>1, CreatorsKept
<1>15. QED
  BY <1>1, <1>5, <1>6, <1>7, <1>8, <1>9, <1>11, <1>12, <1>13, <1>14, MovesWith


LEMMA MemberStepStep ==
    ASSUME IInv, Remember, NEW c \in Calls, MemberStep(c)
    PROVE  IInv'
  BY FindRowStep, InsertMemberStep, SyncStep, ReadMemberStep, WriteMemberStep,
     RemoveMemberStep DEF MemberStep

LEMMA ProjectStepStep ==
    ASSUME IInv, Remember, NEW c \in Calls, ProjectStep(c)
    PROVE  IInv'
  BY CreateProjectStep, JoinStep, DeleteProjectStep, CreateTaskStep,
     FindRowStep, WriteAssigneeStep, DeleteTaskStep, FileStep DEF ProjectStep

LEMMA DepartmentStepStep ==
    ASSUME IInv, Remember, NEW c \in Calls, DepartmentStep(c)
    PROVE  IInv'
  BY HeadStep, FindRowStep, AssignUserStep, RemoveUserStep, DetachStep,
     DropStep DEF DepartmentStep

-----------------------------------------------------------------------------
(* The invariant. *)

LEMMA ConsumeUserEventStep ==
    ASSUME IInv, Remember, NEW u \in Users, NEW r \in Roles,
           ConsumeUserEvent(u, r)
    PROVE  IInv'
<1>1. UNCHANGED <<belongs, head, creator, row, task, file, used, call, raced,
                  unjoined, foreign>>
  BY DEF ConsumeUserEvent, faults
<1>2. RowsOK'
  BY <1>1 DEF IInv, RowsOK, ConsumeUserEvent
<1>3. KeysOK'
  BY <1>1 DEF IInv, KeysOK
<1>4. HistoryOK' /\ \A v \in Users : once[v] \subseteq once'[v]
  BY <1>2, HistoryKept DEF IInv
<1>5. PlaceInv' /\ EarnedInv'
  BY <1>1, OthersKeep
<1>6. NobodyIsLeftBehind' /\ DropInv' /\ CreatorsBelong' /\ JoinInv'
  BY <1>1, DepartmentsKept, CreatorsKept
<1>7. DepartmentsWereOwn' /\ GivenInv'
  BY <1>1, <1>4, OwnKept
<1>8. QED  BY <1>2, <1>3, <1>4, <1>5, <1>6, <1>7 DEF IInv

LEMMA InitIInv == Init => IInv
<1> SUFFICES ASSUME Init
             PROVE  IInv
  OBVIOUS
<1>1. /\ \A c \in Calls : call[c] = NotBegun
      /\ NotBegun.step = "not begun" /\ "not begun" \notin Steps
  BY DEF Init, NotBegun, Steps
<1>2. \A c \in Calls : ~Running(c) /\ \A s \in Steps : ~At(c, s)
  BY <1>1 DEF Running, At
<1>3. RowsOK
  BY DEF Init, RowsOK
<1>4. KeysOK
  BY DEF Init, KeysOK
<1>5. HistoryOK
  BY DEF Init, HistoryOK, Own
<1>6. PlaceInv /\ EarnedInv
  BY <1>2 DEF PlaceInv, EarnedInv
<1>7. NobodyIsLeftBehind
  BY <1>3, Nobody DEF Init, NobodyIsLeftBehind, RowsOK
<1>8. DropInv
  BY <1>2 DEF DropInv, Steps
<1>9. CreatorsBelong
  <2> SUFFICES ASSUME NEW p \in Projects, creator[p] # None
               PROVE  Member(p, creator[p])
    BY DEF CreatorsBelong
  <2>1. creator[p] \in Users
    BY <1>3 DEF RowsOK
  <2>2. QED  BY <2>1 DEF Init, Member
<1>10. JoinInv
  BY <1>2 DEF Init, JoinInv, Steps
<1>11. DepartmentsWereOwn
  BY Nobody DEF Init, DepartmentsWereOwn, Own
<1>12. GivenInv
  BY <1>1 DEF GivenInv
<1>13. QED
  BY <1>3, <1>4, <1>5, <1>6, <1>7, <1>8, <1>9, <1>10, <1>11, <1>12 DEF IInv

LEMMA StutterIInv == IInv /\ UNCHANGED vars => IInv'
<1> SUFFICES ASSUME IInv, UNCHANGED vars
             PROVE  IInv'
  OBVIOUS
<1>1. UNCHANGED <<role, belongs, head, creator, row, task, file, used, call,
                  since, once, raced, unjoined, foreign>>
  BY DEF vars, tables, faults
<1>2. RowsOK' /\ KeysOK' /\ HistoryOK'
  BY <1>1 DEF IInv, RowsOK, KeysOK, HistoryOK, Own
<1>3. PlaceInv' /\ EarnedInv'
  BY <1>1 DEF IInv, PlaceInv, PlaceOK, EarnedInv, EarnedOK, Running
<1>4. NobodyIsLeftBehind' /\ DropInv' /\ CreatorsBelong' /\ JoinInv'
  BY <1>1, DepartmentsKept, CreatorsKept
<1>5. DepartmentsWereOwn' /\ GivenInv'
  BY <1>1 DEF IInv, DepartmentsWereOwn, GivenInv
<1>6. QED  BY <1>2, <1>3, <1>4, <1>5 DEF IInv

LEMMA NextIInv == IInv /\ [Next]_vars => IInv'
<1> SUFFICES ASSUME IInv, [Next]_vars
             PROVE  IInv'
  OBVIOUS
<1>1. CASE UNCHANGED vars
  BY <1>1, StutterIInv
<1>2. ASSUME Remember, NEW c \in Calls, Step(c)
      PROVE  IInv'
  <2>1. ASSUME NEW u \in Users, NEW op \in Operations,
               NEW on \in Targets(op), NEW to \in People(op),
               Begin(c, u, op, on, to)
        PROVE  IInv'
    BY <1>2, <2>1, BeginStep
  <2>2. QED
    BY <1>2, <2>1, CheckStepStep, ServeFailStep, ProjectStepStep,
       DepartmentStepStep, MemberStepStep DEF Step
<1>3. ASSUME Remember, NEW u \in Users, NEW r \in Roles, ConsumeUserEvent(u, r)
      PROVE  IInv'
  BY <1>3, ConsumeUserEventStep
<1>4. QED  BY <1>1, <1>2, <1>3 DEF Next

\* At every moment, whatever steps of other calls came between, each call has
\* found out what it goes by, and each row refers to one that is there.
THEOREM AccessInvariant == Spec => []IInv
<1>1. Init => IInv
  BY InitIInv
<1>2. IInv /\ [Next]_vars => IInv'
  BY NextIInv
<1>3. QED  BY <1>1, <1>2, PTL DEF Spec

\* Tables, calls and histories have their types, no member is of a project
\* that is gone, no task of such a project and no attachment of such a task.
THEOREM AccessTypeCorrect == Spec => []TypeOK
<1>1. IInv => TypeOK
  BY DEF IInv, RowsOK, KeysOK, HistoryOK, TypeOK
<1>2. QED  BY <1>1, AccessInvariant, PTL

\* Whoever passed a permission check, though its queries see the tables at
\* different times, had the role and the relation that the role needs at some
\* time since the call began.
THEOREM WritesAreDeserved == Spec => []WritesWereDeserved
<1>1. IInv => WritesWereDeserved
  <2> SUFFICES ASSUME IInv, NEW c \in Calls, Allowed(c)
               PROVE  Deserves(call[c].op, since[c])
    BY DEF WritesWereDeserved
  <2>1. Running(c) /\ call[c].step \in AllowedSteps
    BY DEF Allowed, AllowedSteps, Running, Steps
  <2>2. QED  BY <2>1 DEF IInv, EarnedInv, EarnedOK
<1>2. QED  BY <1>1, AccessInvariant, PTL

\* Deleting a department, in its two statements, leaves nobody in it who was
\* not assigned to it while it was being deleted.
THEOREM NobodyStaysBehind == Spec => []NobodyIsLeftBehind
<1>1. IInv => NobodyIsLeftBehind
  BY DEF IInv
<1>2. QED  BY <1>1, AccessInvariant, PTL

\* The creator of a project is its member unless joining failed or he was
\* removed, and members' departments were their own unless
\* SyncDepartmentFromUser or a request gave them others.
THEOREM MembersAreInOrder == Spec => []MembersInOrder
<1>1. IInv => MembersInOrder
  BY DEF IInv, MembersInOrder
<1>2. QED  BY <1>1, AccessInvariant, PTL
=============================================================================
