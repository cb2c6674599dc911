--------------------------- MODULE ProjectsProofs ---------------------------
(***************************************************************************)
(* The project and timeline handlers, for any number of projects and       *)
(* calls.  A call that has the row of a table to itself knows that row     *)
(* when it writes, and owes the readers of its events exactly what it      *)
(* changed; that a project does not end before it starts needs no such     *)
(* solitude, because UpdateProject writes the start it compared with.      *)
(***************************************************************************)
EXTENDS Projects, TLAPS

\* What a call owns between its first and its last statement.
On(c, p, table) == call[c].project = p /\ TableOf(call[c].op) = table

CallOK(c) ==
    /\ call[c].step \in {"fresh", "done"} => call[c].project = NoProject
    /\ call[c].step \notin {"fresh", "done"} =>
          call[c].project \in ProjectIds /\ life[call[c].project] # "unborn"
    /\ call[c].step = "write" =>
          /\ call[c].op \in ReadingOps
          /\ call[c].request \in Requests[call[c].op]
          /\ InOrder(call[c].existing)
    /\ call[c].step = "empty" => call[c].op = "create"
    /\ call[c].step = "reread" =>
          call[c].op = "status" /\ call[c].request \in Requests["status"]
    /\ call[c].step = "publish" =>
          call[c].op \in {"create", "update", "status"}

CallInv == \A c \in Calls : CallOK(c)

UnbornInv == \A p \in ProjectIds : life[p] = "unborn" => told[p] = Blank

\* Calls that share a row have disturbed it.
AloneInv ==
    \A c, d \in Calls :
       \A p \in ProjectIds : \A table \in Tables :
          On(c, p, table) /\ On(d, p, table) /\ <<p, table>> \notin disturbed
             => c = d

KnownBy(p) == \A k \in Columns : told[p][k] = row[p][k]

\* How far the call c has come with the row it has to itself.
Progress(c) ==
    LET p == call[c].project IN
    /\ call[c].step = "write" =>
          /\ \A k \in Fields : TableWith(k) = TableOf(call[c].op) =>
                call[c].existing[k] = row[p][k]
          /\ TableOf(call[c].op) = "projects" => KnownBy(p)
    /\ call[c].step = "reread" =>
          \A k \in Columns :
             row[p][k] = IF k = "status" THEN call[c].request[k]
                         ELSE told[p][k]
    /\ call[c].step \in {"empty", "publish"} =>
          \A k \in Columns : Given(call[c].event[k], told[p][k]) = row[p][k]

ProgressInv ==
    \A c \in Calls :
        /\ call[c].project \in ProjectIds
        /\ Exists(call[c].project)
        /\ <<call[c].project, TableOf(call[c].op)>> \notin disturbed
        => Progress(c)

IInv == TypeOK /\ CallInv /\ UnbornInv /\ AloneInv /\ NeverEndsBeforeStart
          /\ ProgressInv /\ EventsTellTheProject

-----------------------------------------------------------------------------
(* What the operators compute. *)

LEMMA FieldTables ==
    /\ Columns \subseteq Fields
    /\ \A k \in Fields : TableWith(k) = "projects" <=> k \in Columns
    /\ \A k \in Fields : TableWith(k) \in Tables
    /\ \A op : TableOf(op) \in Tables
    /\ TableOf("timeline") = "project_timeline"
    /\ \A op \in {"create", "update", "status", "none"} :
          TableOf(op) = "projects"
  BY ProjectsAssumption DEF Fields, TableWith, Tables, TableOf

LEMMA BlankType == /\ Blank \in Rows /\ InOrder(Blank)
                   /\ \A k \in Fields : Blank[k] = 0
  BY DEF Blank, Rows, InOrder, Fields, Columns

LEMMA GivenType ==
    \A a \in Nat, b \in Nat : /\ Given(a, b) \in Nat
                              /\ a # 0 => Given(a, b) = a
                              /\ a = 0 => Given(a, b) = b
  BY DEF Given

\* Which fields a request of each handler may carry.
LEMMA RequestFields ==
    /\ \A op \in DOMAIN Required : Requests[op] \subseteq Rows
    /\ \A op \in ReadingOps \cup {"create"} : op \in DOMAIN Required
    /\ \A r \in Requests["update"] : r["start"] = 0
    /\ \A r \in Requests["status"] : r["status"] # 0
<1>1. {0} \cup Names \cup Dates \cup StatusesAsked \subseteq Nat
  <2>1. StatusesAsked \subseteq Nat
    BY ProjectsAssumption DEF ProjectStatuses
  <2>2. Names \subseteq Nat /\ Dates \subseteq Nat
    BY ProjectsAssumption
  <2>3. QED  BY <2>1, <2>2
<1>2. \A op \in DOMAIN Required : Requests[op] \subseteq Rows
  BY <1>1 DEF Requests, Rows
<1>3. DOMAIN Required = {"create", "update", "status", "timeline"}
  BY DEF Required
<1>4. "start" \notin Milestones /\ "status" \in Fields /\ "start" \in Fields
  BY ProjectsAssumption DEF Columns, Fields
<1>5. \A r \in Requests["update"] : r["start"] = 0
  BY <1>3, <1>4 DEF Requests, Required, Optional
<1>6. \A r \in Requests["status"] : r["status"] # 0
  BY <1>3, <1>4 DEF Requests, Required
<1>7. QED  BY <1>2, <1>3, <1>5, <1>6 DEF ReadingOps

LEMMA CallTypes ==
    ASSUME TypeOK, NEW c \in Calls
    PROVE  /\ call[c] \in CallStates
           /\ call[c].existing \in Rows
           /\ call[c].request \in Rows
           /\ call[c].event \in Rows
           /\ call[c].project \in ProjectIds \cup {NoProject}
  BY DEF TypeOK, CallStates

LEMMA ReturnedType ==
    /\ Fresh \in CallStates /\ Fresh.step = "fresh"
    /\ Fresh.project = NoProject
    /\ Returned \in CallStates /\ Returned.step = "done"
    /\ Returned.project = NoProject
  BY BlankType DEF Fresh, Returned, CallStates

\* The row a statement leaves, and what it may differ in.
LEMMA WriteRowEffect ==
    ASSUME TypeOK, NEW c \in Calls, call[c].project \in ProjectIds,
           call[c].op \in ReadingOps, WriteRow(c)
    PROVE  LET p == call[c].project
           IN  /\ life' = life /\ Exists(p)
               /\ row' = [row EXCEPT ![p] = Written(c)]
               /\ Written(c) \in Rows
               /\ row' \in [ProjectIds -> Rows]
               /\ row'[p] = Written(c)
               /\ \A q \in ProjectIds \ {p} : row'[q] = row[q]
               /\ timelines' \in SUBSET {q \in ProjectIds : Exists(q)}
               /\ StatementColumns(call[c].op) \subseteq Fields
               /\ \A k \in StatementColumns(call[c].op) :
                     TableWith(k) = TableOf(call[c].op)
               /\ \A k \in Fields :
                     TableWith(k) # TableOf(call[c].op) =>
                        row'[p][k] = row[p][k]
<1> DEFINE p == call[c].project
<1>1. Written(c) \in Rows
  BY CallTypes DEF Written, Given, Rows, TypeOK
<1>2. /\ life' = life /\ Exists(p)
      /\ row' = [row EXCEPT ![p] = Written(c)]
      /\ timelines' \in SUBSET {q \in ProjectIds : Exists(q)}
  BY DEF WriteRow, TypeOK
<1>3. /\ StatementColumns(call[c].op) \subseteq Fields
      /\ \A k \in StatementColumns(call[c].op) :
            TableWith(k) = TableOf(call[c].op)
  BY ProjectsAssumption
     DEF StatementColumns, ReadingOps, Fields, TableWith, TableOf, Columns
<1>4. \A k \in Fields :
         TableWith(k) # TableOf(call[c].op) => Written(c)[k] = row[p][k]
  BY <1>3 DEF Written
<1>5. QED  BY <1>1, <1>2, <1>3, <1>4 DEF TypeOK

\* UpdateProject writes the start it compared the end with; the others write
\* neither.
LEMMA WriteRowInOrder ==
    ASSUME TypeOK, NeverEndsBeforeStart, NEW c \in Calls, CallOK(c),
           call[c].step = "write", WriteRow(c),
           call[c].op = "update" => EndInOrder(c)
    PROVE  InOrder(row'[call[c].project])
<1> DEFINE p == call[c].project
           old == call[c].existing
           asked == call[c].request
<1>1. /\ p \in ProjectIds /\ call[c].op \in ReadingOps
      /\ asked \in Requests[call[c].op] /\ InOrder(old) /\ InOrder(row[p])
  BY DEF CallOK, NeverEndsBeforeStart
<1>2. row'[p] = Written(c)
  BY <1>1, WriteRowEffect
<1>3. {"start", "end"} \subseteq Fields
  BY DEF Fields, Columns
<1>4. CASE call[c].op = "update"
  <2>1. StatementColumns("update") = Columns /\ asked["start"] = 0
    BY <1>1, <1>4, RequestFields DEF StatementColumns
  <2>2. /\ Written(c)["start"] = old["start"]
        /\ Written(c)["end"] = Given(asked["end"], old["end"])
    BY <1>3, <1>4, <2>1 DEF Written, Given, Columns
  <2>3. asked["end"] \in Nat /\ old["end"] \in Nat
    BY <1>3, CallTypes DEF Rows
  <2>4. QED
    BY <1>1, <1>2, <1>4, <2>2, <2>3 DEF InOrder, EndInOrder, Given
<1>5. CASE call[c].op # "update"
  <2>1. "start" \notin StatementColumns(call[c].op)
          /\ "end" \notin StatementColumns(call[c].op)
    BY <1>1, <1>5, ProjectsAssumption
       DEF StatementColumns, ReadingOps, Columns
  <2>2. Written(c)["start"] = row[p]["start"]
          /\ Written(c)["end"] = row[p]["end"]
    BY <1>3, <2>1 DEF Written
  <2>3. QED  BY <1>1, <1>2, <2>2 DEF InOrder
<1>6. QED  BY <1>4, <1>5

-----------------------------------------------------------------------------
(* The steps. *)

\* What a call waits with is the same when nothing it owns has changed.
LEMMA ProgressKept ==
    ASSUME NEW c \in Calls, CallOK(c),
           call'[c] = call[c],
           \A k \in Fields :
              TableWith(k) = TableOf(call[c].op) =>
                 row'[call[c].project][k] = row[call[c].project][k],
           TableOf(call[c].op) = "projects" =>
              told'[call[c].project] = told[call[c].project],
           Progress(c)
    PROVE  Progress(c)'
<1> DEFINE p == call[c].project
           table == TableOf(call[c].op)
<1>1. call[c].step \in {"reread", "empty", "publish"} => table = "projects"
  BY FieldTables DEF CallOK
<1>2. table = "projects" =>
         \A k \in Columns : /\ row'[p][k] = row[p][k]
                            /\ told'[p][k] = told[p][k]
  BY FieldTables
<1>3. call'[c].step = "write" =>
         /\ \A k \in Fields : TableWith(k) = table =>
               call'[c].existing[k] = row'[p][k]
         /\ table = "projects" => KnownBy(p)'
  BY <1>2 DEF Progress, KnownBy
<1>4. call'[c].step = "reread" =>
         \A k \in Columns :
            row'[p][k] = IF k = "status" THEN call'[c].request[k]
                         ELSE told'[p][k]
  BY <1>1, <1>2 DEF Progress
<1>5. call'[c].step \in {"empty", "publish"} =>
         \A k \in Columns : Given(call'[c].event[k], told'[p][k]) = row'[p][k]
  BY <1>1, <1>2 DEF Progress
<1>6. QED  BY <1>3, <1>4, <1>5 DEF Progress, KnownBy

\* Call c moves, on behalf of project p, and changes nothing outside `table`.
LEMMA OneCallMoves ==
    ASSUME IInv, TypeOK',
           NEW c \in Calls, NEW p \in ProjectIds, NEW table \in Tables,
           \A d \in Calls \ {c} : call'[d] = call[d],
           call[c].project = NoProject \/ On(c, p, table),
           call'[c].project = NoProject \/ On(c, p, table)',
           \A q \in ProjectIds \ {p} : /\ row'[q] = row[q]
                                        /\ told'[q] = told[q]
                                        /\ life'[q] = life[q],
           life'[p] # "unborn",
           life'[p] = "alive" =>
              \/ life[p] = "unborn"
              \/ /\ life[p] = "alive"
                 /\ \A k \in Fields :
                       TableWith(k) # table => row'[p][k] = row[p][k],
           table # "projects" => told'[p] = told[p] /\ life[p] # "unborn",
           disturbed' \in {disturbed, disturbed \cup {<<p, table>>}},
           CallOK(c)',
           InOrder(row'[p]),
           <<p, table>> \notin disturbed' =>
              \/ \A d \in Calls \ {c} : ~On(d, p, table)
              \/ call'[c].project = NoProject /\ life'[p] # "alive",
           <<p, table>> \notin disturbed' /\ life'[p] = "alive" =>
              /\ call'[c].project = p => Progress(c)'
              /\ call'[c].project = NoProject /\ table = "projects" =>
                    KnownBy(p)'
    PROVE  IInv'
<1>1. NoProject \notin ProjectIds
  BY ProjectsAssumption
<1>2. CallInv'
  <2> SUFFICES ASSUME NEW d \in Calls
               PROVE  CallOK(d)'
    BY DEF CallInv
  <2>1. CASE d = c
    BY <2>1
  <2>2. CASE d # c
    <3>1. CallOK(d) /\ call'[d] = call[d]
      BY <2>2 DEF IInv, CallInv
    <3>2. call[d].project \in ProjectIds /\ life[call[d].project] # "unborn"
             => life'[call[d].project] # "unborn"
      OBVIOUS
    <3>3. QED  BY <3>1, <3>2 DEF CallOK
  <2>3. QED  BY <2>1, <2>2
<1>3. UnbornInv'
  BY DEF IInv, UnbornInv
<1>4. AloneInv'
  <2> SUFFICES ASSUME NEW d \in Calls, NEW e \in Calls, d # e,
                      NEW q \in ProjectIds, NEW other \in Tables,
                      On(d, q, other)', On(e, q, other)',
                      <<q, other>> \notin disturbed'
               PROVE  FALSE
    BY DEF AloneInv
  <2>1. CASE d # c /\ e # c
    BY <2>1 DEF IInv, AloneInv, On
  <2>2. CASE d = c
    BY <1>1, <2>2 DEF On
  <2>3. CASE e = c
    BY <1>1, <2>3 DEF On
  <2>4. QED  BY <2>1, <2>2, <2>3
<1>5. NeverEndsBeforeStart'
  <2> SUFFICES ASSUME NEW q \in ProjectIds
               PROVE  InOrder(row'[q])
    BY DEF NeverEndsBeforeStart
  <2>1. QED  BY DEF IInv, NeverEndsBeforeStart
<1>6. ProgressInv'
  <2> SUFFICES ASSUME NEW d \in Calls,
                      call'[d].project \in ProjectIds,
                      life'[call'[d].project] = "alive",
                      <<call'[d].project, TableOf(call'[d].op)>>
                         \notin disturbed'
               PROVE  Progress(d)'
    BY DEF ProgressInv, Exists
  <2>1. CASE d = c
    BY <1>1, <2>1 DEF On
  <2>2. CASE d # c
    <3> DEFINE q == call[d].project
               other == TableOf(call[d].op)
    <3>1. call'[d] = call[d] /\ CallOK(d) /\ other \in Tables
      BY <2>2, FieldTables DEF IInv, CallInv
    <3>2. CASE q = p /\ other = table
      <4>1. FALSE
        BY <2>2, <3>1, <3>2, <1>1 DEF On
      <4>2. QED  BY <4>1
    <3>3. CASE q # p
      <4>1. Progress(d)
        BY <3>1, <3>3 DEF IInv, ProgressInv, Exists
      <4>2. QED  BY <3>1, <3>3, <4>1, ProgressKept
    <3>4. CASE q = p /\ other # table
      <4>1. /\ life[p] = "alive"
            /\ \A k \in Fields :
                  TableWith(k) # table => row'[p][k] = row[p][k]
        BY <1>1, <2>2, <3>1, <3>4 DEF CallOK
      <4>2. Progress(d)
        BY <3>1, <3>4, <4>1 DEF IInv, ProgressInv, Exists
      <4>3. other = "projects" => told'[p] = told[p]
        BY <3>1, <3>4
      <4>4. QED  BY <3>1, <3>4, <4>1, <4>2, <4>3, ProgressKept
    <3>5. QED  BY <3>2, <3>3, <3>4
  <2>3. QED  BY <2>1, <2>2
<1>7. EventsTellTheProject'
  <2> SUFFICES ASSUME NEW q \in ProjectIds,
                      life'[q] = "alive",
                      \A d \in Calls : ~On(d, q, "projects")',
                      <<q, "projects">> \notin disturbed'
               PROVE  KnownBy(q)'
    BY DEF EventsTellTheProject, KnownBy, Exists, Busy, On
  <2>1. "projects" \in Tables
    BY DEF Tables
  <2>2. CASE q = p /\ table = "projects"
    <3>1. call'[c].project = NoProject
      BY <2>2 DEF On
    <3>2. QED  BY <2>2, <3>1
  <2>3. CASE q # p \/ table # "projects"
    <3>1. \A d \in Calls : ~On(d, q, "projects")
      BY <1>1, <2>3 DEF On
    <3>2. life[q] = "alive" => KnownBy(q)
      BY <3>1, <2>3 DEF IInv, EventsTellTheProject, KnownBy, Exists, Busy, On
    <3>3. CASE q # p
      BY <3>2, <3>3 DEF KnownBy
    <3>4. CASE q = p /\ table # "projects"
      <4>1. life[p] = "alive" /\ told'[p] = told[p]
        BY <3>4
      <4>2. \A k \in Columns : row'[p][k] = row[p][k]
        BY <3>4, <4>1, FieldTables
      <4>3. QED  BY <3>2, <3>4, <4>1, <4>2 DEF KnownBy
    <3>5. QED  BY <2>3, <3>3, <3>4
  <2>4. QED  BY <2>2, <2>3
<1>8. QED  BY <1>2, <1>3, <1>4, <1>5, <1>6, <1>7 DEF IInv

\* A call that returns.
LEMMA ReturnType ==
    ASSUME TypeOK, NEW c \in Calls, Return(c)
    PROVE  /\ call' \in [Calls -> CallStates]
           /\ \A d \in Calls \ {c} : call'[d] = call[d]
           /\ call'[c].project = NoProject
           /\ call'[c].step = "done"
           /\ CallOK(c)'
<1>1. /\ call' = [call EXCEPT ![c] = Returned]
      /\ call \in [Calls -> CallStates]
  BY DEF Return, TypeOK
<1>2. QED  BY <1>1, ReturnedType DEF CallOK

\* A call that goes on with another step.
LEMMA StepType ==
    ASSUME TypeOK, NEW c \in Calls, NEW next \in CallStates,
           call' = [call EXCEPT ![c] = next]
    PROVE  /\ call' \in [Calls -> CallStates]
           /\ \A d \in Calls \ {c} : call'[d] = call[d]
           /\ call'[c] = next
  BY DEF TypeOK

\* A handler is alone with its row as long as nothing disturbed it.
LEMMA AloneMeans ==
    ASSUME IInv, NEW c \in Calls, call[c].project \in ProjectIds,
           <<call[c].project, TableOf(call[c].op)>> \notin disturbed
    PROVE  \A d \in Calls \ {c} :
              ~On(d, call[c].project, TableOf(call[c].op))
  BY FieldTables DEF IInv, AloneInv, On

LEMMA CreatedType ==
    ASSUME NEW r \in Requests["create"]
    PROVE  Created(r) \in Rows
<1>1. r \in Rows
  BY RequestFields
<1>2. QED  BY <1>1 DEF Created, Rows, ACTIVE

\* The event a new project owes says all of its row.
LEMMA CreateIInv ==
    ASSUME IInv, NEW c \in Calls, NEW p \in ProjectIds,
           NEW r \in Requests["create"], CreateProject(c, p, r)
    PROVE  IInv'
<1> DEFINE created == Created(r)
           next == [call[c] EXCEPT !.step = "empty", !.op = "create",
                                   !.project = p, !.event = created]
<1>1. TypeOK /\ call[c].step = "fresh" /\ call[c].project = NoProject
  BY DEF IInv, CallInv, CallOK, CreateProject
<1>2. created \in Rows
  BY CreatedType
<1>3. /\ life[p] = "unborn" /\ InOrder(created)
      /\ life' = [life EXCEPT ![p] = "alive"]
      /\ row' = [row EXCEPT ![p] = created]
      /\ call' = [call EXCEPT ![c] = next]
      /\ UNCHANGED <<timelines, told, disturbed>>
  BY <1>1 DEF CreateProject, Insert, TypeOK
<1>4. /\ next \in CallStates /\ next.step = "empty" /\ next.project = p
      /\ next.op = "create" /\ next.event = created
  BY <1>1, <1>2, CallTypes DEF CallStates
<1> HIDE DEF next, created
<1>5. /\ call' \in [Calls -> CallStates]
      /\ \A d \in Calls \ {c} : call'[d] = call[d]
      /\ call'[c] = next
  BY <1>1, <1>3, <1>4, StepType
<1>6. /\ life'[p] = "alive" /\ row'[p] = created
      /\ \A q \in ProjectIds \ {p} : row'[q] = row[q] /\ life'[q] = life[q]
  BY <1>1, <1>3 DEF TypeOK
<1>7. TypeOK'
  BY <1>1, <1>2, <1>3, <1>5 DEF TypeOK, Exists
<1>8. On(c, p, "projects")' /\ "projects" \in Tables
  BY <1>4, <1>5, FieldTables DEF On, Tables
<1>9. CallOK(c)'
  BY <1>4, <1>5, <1>6 DEF CallOK
<1>10. \A d \in Calls : ~On(d, p, "projects")
  BY <1>3, ProjectsAssumption DEF IInv, CallInv, CallOK, On, TypeOK, CallStates
<1>11. Progress(c)'
  <2>1. told'[p] = Blank
    BY <1>3 DEF IInv, UnbornInv
  <2>2. \A k \in Columns : Given(created[k], Blank[k]) = created[k]
    BY <1>2, BlankType, FieldTables DEF Given, Rows
  <2>3. QED  BY <1>4, <1>5, <1>6, <2>1, <2>2 DEF Progress
<1>12. call'[c].project # NoProject
  BY <1>4, <1>5, ProjectsAssumption
<1>13. /\ disturbed' \in {disturbed, disturbed \cup {<<p, "projects">>}}
       /\ \A q \in ProjectIds \ {p} : told'[q] = told[q]
  BY <1>3
<1>14. InOrder(row'[p]) /\ life'[p] # "unborn"
  BY <1>3, <1>6
<1>15. QED
  BY <1>1, <1>3, <1>5, <1>6, <1>7, <1>8, <1>9, <1>10, <1>11, <1>12, <1>13,
     <1>14, OneCallMoves

\* The timeline of a new project says nothing.
LEMMA CreateEmptyIInv ==
    ASSUME IInv, NEW c \in Calls, NEW p \in ProjectIds, call[c].project = p,
           CreateEmpty(c)
    PROVE  IInv'
<1> DEFINE next == [call[c] EXCEPT !.step = "publish"]
<1>1. /\ TypeOK /\ call[c].step = "empty" /\ call[c].op = "create"
      /\ life[p] # "unborn"
  BY DEF IInv, CallInv, CallOK, CreateEmpty, At
<1>2. /\ call' = [call EXCEPT ![c] = next]
      /\ timelines' \in SUBSET {q \in ProjectIds : Exists(q)}
      /\ UNCHANGED <<life, row, told, disturbed>>
  BY <1>1 DEF CreateEmpty, TypeOK
<1>3. /\ next \in CallStates /\ next.step = "publish" /\ next.project = p
      /\ next.op = "create" /\ next.event = call[c].event
  BY <1>1, CallTypes DEF CallStates
<1> HIDE DEF next
<1>4. /\ call' \in [Calls -> CallStates]
      /\ \A d \in Calls \ {c} : call'[d] = call[d]
      /\ call'[c] = next
  BY <1>1, <1>2, <1>3, StepType
<1>5. TypeOK'
  BY <1>1, <1>2, <1>4 DEF TypeOK, Exists
<1>6. On(c, p, "projects") /\ On(c, p, "projects")' /\ "projects" \in Tables
  BY <1>1, <1>3, <1>4, FieldTables DEF On, Tables
<1>7. CallOK(c)'
  BY <1>1, <1>2, <1>3, <1>4 DEF CallOK
<1>8. <<p, "projects">> \notin disturbed' =>
         \A d \in Calls \ {c} : ~On(d, p, "projects")
  BY <1>1, <1>2, <1>6, AloneMeans DEF On
<1>9. <<p, "projects">> \notin disturbed' /\ life'[p] = "alive" =>
         Progress(c)'
  BY <1>1, <1>2, <1>3, <1>4, <1>6
     DEF IInv, ProgressInv, Progress, Exists, On
<1>10. InOrder(row'[p])
  BY <1>1, <1>2 DEF IInv, NeverEndsBeforeStart
<1>11. life'[p] = "alive" => life[p] = "alive" /\ row'[p] = row[p]
  BY <1>2
<1>12. call'[c].project # NoProject
  BY <1>1, <1>3, <1>4, ProjectsAssumption
<1>13. /\ disturbed' \in {disturbed, disturbed \cup {<<p, "projects">>}}
       /\ life'[p] # "unborn"
       /\ \A q \in ProjectIds \ {p} : /\ row'[q] = row[q]
                                       /\ told'[q] = told[q]
                                       /\ life'[q] = life[q]
  BY <1>1, <1>2
<1>14. QED
  BY <1>1, <1>4, <1>5, <1>6, <1>7, <1>8, <1>9, <1>10, <1>11, <1>12, <1>13,
     OneCallMoves

\* A call starts to work on a row nobody else works on, or disturbs it.
LEMMA ReadIInv ==
    ASSUME IInv, NEW c \in Calls, NEW p \in ProjectIds, NEW op \in ReadingOps,
           NEW r \in Requests[op], ReadProject(c, op, p, r)
    PROVE  IInv'
<1> DEFINE next == [step |-> "write", op |-> op, project |-> p, request |-> r,
                    existing |-> row[p], event |-> Blank]
           table == TableOf(op)
<1>1. /\ TypeOK /\ call[c].step = "fresh" /\ call[c].project = NoProject
      /\ life[p] = "alive" /\ InOrder(row[p]) /\ row[p] \in Rows
  BY DEF IInv, CallInv, CallOK, ReadProject, Exists, NeverEndsBeforeStart,
         TypeOK
<1>2. /\ call' = [call EXCEPT ![c] = next]
      /\ disturbed' = IF Busy(p, table) = {} THEN disturbed
                      ELSE disturbed \cup {<<p, table>>}
      /\ UNCHANGED <<life, row, timelines, told>>
  BY DEF ReadProject
<1>3. next \in CallStates
  <2>1. r \in Rows
    BY RequestFields
  <2>2. QED  BY <1>1, <2>1, BlankType DEF CallStates
<1>4. /\ call' \in [Calls -> CallStates]
      /\ \A d \in Calls \ {c} : call'[d] = call[d]
      /\ call'[c] = next
  BY <1>1, <1>2, <1>3, StepType
<1>5. table \in Tables
  BY FieldTables
<1>6. TypeOK'
  <2>1. disturbed' \in SUBSET (ProjectIds \X Tables)
    BY <1>1, <1>2, <1>5 DEF TypeOK
  <2>2. QED  BY <1>1, <1>2, <1>4, <2>1 DEF TypeOK, Exists
<1>7. On(c, p, table)'
  BY <1>4 DEF On
<1>8. CallOK(c)'
  BY <1>1, <1>2, <1>4 DEF CallOK
<1>9. <<p, table>> \notin disturbed' =>
         /\ disturbed' = disturbed
         /\ \A d \in Calls : ~On(d, p, table)
  BY <1>2 DEF Busy, On
<1>10. ASSUME <<p, table>> \notin disturbed'
       PROVE  Progress(c)'
  <2>1. table = "projects" => KnownBy(p)
    BY <1>1, <1>2, <1>9, <1>10
       DEF IInv, EventsTellTheProject, KnownBy, Exists, Busy
  <2>2. QED  BY <1>2, <1>4, <2>1 DEF Progress, KnownBy
<1>11. QED
  BY <1>1, <1>2, <1>4, <1>5, <1>6, <1>7, <1>8, <1>9, <1>10,
     ProjectsAssumption, OneCallMoves

\* UpdateProject, alone with its row, publishes the row it wrote.
LEMMA UpdateIInv ==
    ASSUME IInv, NEW c \in Calls, NEW p \in ProjectIds, call[c].project = p,
           UpdateProject(c)
    PROVE  IInv'
<1> DEFINE event == Only(Written(c), Columns)
           next == [call[c] EXCEPT !.step = "publish", !.event = event]
<1>1. /\ TypeOK /\ CallOK(c) /\ NeverEndsBeforeStart
      /\ call[c].step = "write" /\ call[c].op = "update"
      /\ WriteRow(c) /\ EndInOrder(c) /\ call[c].op \in ReadingOps
      /\ call' = [call EXCEPT ![c] = next]
      /\ UNCHANGED <<told, disturbed>>
  <2>1. /\ TypeOK /\ CallOK(c) /\ NeverEndsBeforeStart
        /\ call[c].step = "write" /\ call[c].op = "update"
        /\ WriteRow(c) /\ EndInOrder(c) /\ AnnounceNext(c, event)
        /\ UNCHANGED <<told, disturbed>>
    BY DEF IInv, CallInv, UpdateProject, At
  <2>2. call' = [call EXCEPT ![c] = next]
    BY <2>1 DEF AnnounceNext, TypeOK
  <2>3. QED  BY <2>1, <2>2 DEF ReadingOps
<1>2. /\ life' = life /\ life[p] = "alive"
      /\ Written(c) \in Rows
      /\ row' \in [ProjectIds -> Rows]
      /\ row'[p] = Written(c)
      /\ \A q \in ProjectIds \ {p} : row'[q] = row[q]
      /\ timelines' \in SUBSET {q \in ProjectIds : Exists(q)}
      /\ \A k \in Fields :
            TableWith(k) # "projects" => row'[p][k] = row[p][k]
  BY <1>1, WriteRowEffect, FieldTables DEF Exists
<1>3. InOrder(row'[p])
  BY <1>1, WriteRowInOrder
<1>4. event \in Rows /\ \A k \in Columns : event[k] = Written(c)[k]
  BY <1>2, FieldTables DEF Only, Rows
<1>5. /\ next \in CallStates /\ next.step = "publish" /\ next.project = p
      /\ next.op = "update" /\ next.event = event
  BY <1>1, <1>4, CallTypes DEF CallStates
<1> HIDE DEF next, event
<1>6. /\ call' \in [Calls -> CallStates]
      /\ \A d \in Calls \ {c} : call'[d] = call[d]
      /\ call'[c] = next
  BY <1>1, <1>5, StepType
<1>7. TypeOK'
  BY <1>1, <1>2, <1>6 DEF TypeOK, Exists
<1>8. On(c, p, "projects") /\ On(c, p, "projects")' /\ "projects" \in Tables
  BY <1>1, <1>5, <1>6, FieldTables DEF On, Tables
<1>9. CallOK(c)'
  BY <1>2, <1>5, <1>6 DEF CallOK
<1>10. <<p, "projects">> \notin disturbed' =>
          \A d \in Calls \ {c} : ~On(d, p, "projects")
  BY <1>1, <1>8, AloneMeans DEF On
<1>11. ASSUME <<p, "projects">> \notin disturbed'
       PROVE  Progress(c)'
  <2>1. \A k \in Columns :
           /\ call[c].existing[k] = row[p][k]
           /\ told[p][k] = row[p][k]
    BY <1>1, <1>2, <1>8, <1>11, FieldTables
       DEF IInv, ProgressInv, Progress, KnownBy, Exists, On
  <2>2. \A k \in Columns :
           Written(c)[k] = Given(call[c].request[k], row[p][k])
    BY <1>1, <2>1, FieldTables DEF Written, StatementColumns
  <2>3. \A k \in Columns : call[c].request[k] \in Nat /\ row[p][k] \in Nat
    BY <1>1, CallTypes, FieldTables DEF TypeOK, Rows
  <2>4. \A k \in Columns :
           Given(Written(c)[k], told[p][k]) = Written(c)[k]
    BY <2>1, <2>2, <2>3 DEF Given
  <2>5. QED  BY <1>1, <1>2, <1>4, <1>5, <1>6, <2>4 DEF Progress
<1>12. call'[c].project # NoProject
  BY <1>5, <1>6, ProjectsAssumption
<1>13. /\ disturbed' \in {disturbed, disturbed \cup {<<p, "projects">>}}
       /\ life'[p] # "unborn"
       /\ \A q \in ProjectIds \ {p} : told'[q] = told[q] /\ life'[q] = life[q]
  BY <1>1, <1>2
<1>14. QED
  BY <1>2, <1>3, <1>6, <1>7, <1>8, <1>9, <1>10, <1>11, <1>12, <1>13,
     OneCallMoves

\* ChangeProjectStatus writes the status asked for and nothing else.
LEMMA StatusIInv ==
    ASSUME IInv, NEW c \in Calls, NEW p \in ProjectIds, call[c].project = p,
           ChangeProjectStatus(c)
    PROVE  IInv'
<1> DEFINE next == [call[c] EXCEPT !.step = "reread"]
<1>1. /\ TypeOK /\ CallOK(c) /\ NeverEndsBeforeStart
      /\ call[c].step = "write" /\ call[c].op = "status"
      /\ WriteRow(c) /\ call[c].op \in ReadingOps
      /\ call[c].request \in Requests["status"]
      /\ call' = [call EXCEPT ![c] = next]
      /\ UNCHANGED <<told, disturbed>>
  BY DEF IInv, CallInv, CallOK, ChangeProjectStatus, At, ReadingOps, TypeOK
<1>2. /\ life' = life /\ life[p] = "alive"
      /\ row' \in [ProjectIds -> Rows]
      /\ row'[p] = Written(c)
      /\ \A q \in ProjectIds \ {p} : row'[q] = row[q]
      /\ timelines' \in SUBSET {q \in ProjectIds : Exists(q)}
      /\ \A k \in Fields :
            TableWith(k) # "projects" => row'[p][k] = row[p][k]
  BY <1>1, WriteRowEffect, FieldTables DEF Exists
<1>3. InOrder(row'[p])
  BY <1>1, WriteRowInOrder
<1>4. /\ next \in CallStates /\ next.step = "reread" /\ next.project = p
      /\ next.op = "status" /\ next.request = call[c].request
  BY <1>1, CallTypes DEF CallStates
<1> HIDE DEF next
<1>5. /\ call' \in [Calls -> CallStates]
      /\ \A d \in Calls \ {c} : call'[d] = call[d]
      /\ call'[c] = next
  BY <1>1, <1>4, StepType
<1>6. TypeOK'
  BY <1>1, <1>2, <1>5 DEF TypeOK, Exists
<1>7. On(c, p, "projects") /\ On(c, p, "projects")' /\ "projects" \in Tables
  BY <1>1, <1>4, <1>5, FieldTables DEF On, Tables
<1>8. CallOK(c)'
  BY <1>1, <1>2, <1>4, <1>5 DEF CallOK
<1>9. <<p, "projects">> \notin disturbed' =>
         \A d \in Calls \ {c} : ~On(d, p, "projects")
  BY <1>1, <1>7, AloneMeans DEF On
<1>10. ASSUME <<p, "projects">> \notin disturbed'
       PROVE  Progress(c)'
  <2>1. \A k \in Columns : told[p][k] = row[p][k]
    BY <1>1, <1>2, <1>7, <1>10, FieldTables
       DEF IInv, ProgressInv, Progress, KnownBy, Exists, On
  <2>2. call[c].request["status"] \in Nat /\ call[c].request["status"] # 0
    BY <1>1, CallTypes, RequestFields, FieldTables DEF Rows, Columns
  <2>3. \A k \in Columns :
           Written(c)[k] = IF k = "status" THEN call[c].request[k]
                           ELSE told[p][k]
    BY <1>1, <2>1, <2>2, FieldTables DEF Written, StatementColumns, Given
  <2>4. QED  BY <1>1, <1>2, <1>4, <1>5, <2>3 DEF Progress
<1>11. call'[c].project # NoProject
  BY <1>4, <1>5, ProjectsAssumption
<1>12. /\ disturbed' \in {disturbed, disturbed \cup {<<p, "projects">>}}
       /\ life'[p] # "unborn"
       /\ \A q \in ProjectIds \ {p} : told'[q] = told[q] /\ life'[q] = life[q]
  BY <1>1, <1>2
<1>13. QED
  BY <1>2, <1>3, <1>5, <1>6, <1>7, <1>8, <1>9, <1>10, <1>11, <1>12,
     OneCallMoves

\* project.status_changed carries what is new about the row.
LEMMA RereadIInv ==
    ASSUME IInv, NEW c \in Calls, NEW p \in ProjectIds, call[c].project = p,
           RereadProject(c)
    PROVE  IInv'
<1> DEFINE event == StatusEvent(c)
           next == [call[c] EXCEPT !.step = "publish", !.event = event]
<1>1. /\ TypeOK /\ CallOK(c)
      /\ call[c].step = "reread" /\ call[c].op = "status"
      /\ life[p] = "alive"
      /\ call[c].request \in Requests["status"]
      /\ call' = [call EXCEPT ![c] = next]
      /\ UNCHANGED <<life, row, timelines, told, disturbed>>
  <2>1. /\ TypeOK /\ CallOK(c)
        /\ call[c].step = "reread" /\ call[c].op = "status"
        /\ life[p] = "alive"
        /\ AnnounceNext(c, event)
        /\ UNCHANGED <<life, row, timelines, told, disturbed>>
    BY DEF IInv, CallInv, RereadProject, At, Exists
  <2>2. call' = [call EXCEPT ![c] = next]
    BY <2>1 DEF AnnounceNext, TypeOK
  <2>3. QED  BY <2>1, <2>2 DEF CallOK
<1>2. /\ \A k \in Fields : row[p][k] \in Nat /\ call[c].request[k] \in Nat
      /\ call[c].request["status"] # 0
      /\ row[p] \in Rows
  BY <1>1, CallTypes, RequestFields DEF TypeOK, Rows
<1>3. /\ event \in Rows
      /\ \A k \in Columns :
            event[k] = IF k = "status" THEN call[c].request[k]
                       ELSE IF k = "name" THEN row[p][k] ELSE 0
  <2>1. Only(row[p], {"name"}) \in Rows
          /\ \A k \in Fields :
                Only(row[p], {"name"})[k] = IF k = "name" THEN row[p][k] ELSE 0
    BY <1>2 DEF Only, Rows
  <2>2. "status" \in Columns /\ Columns \subseteq Fields
    BY FieldTables DEF Columns
  <2>3. QED  BY <1>2, <2>1, <2>2 DEF StatusEvent, Rows
<1>4. /\ next \in CallStates /\ next.step = "publish" /\ next.project = p
      /\ next.op = "status" /\ next.event = event
  BY <1>1, <1>3, CallTypes DEF CallStates
<1> HIDE DEF next, event
<1>5. /\ call' \in [Calls -> CallStates]
      /\ \A d \in Calls \ {c} : call'[d] = call[d]
      /\ call'[c] = next
  BY <1>1, <1>4, StepType
<1>6. TypeOK'
  BY <1>1, <1>5 DEF TypeOK, Exists
<1>7. On(c, p, "projects") /\ On(c, p, "projects")' /\ "projects" \in Tables
  BY <1>1, <1>4, <1>5, FieldTables DEF On, Tables
<1>8. CallOK(c)'
  BY <1>1, <1>4, <1>5 DEF CallOK
<1>9. <<p, "projects">> \notin disturbed' =>
         \A d \in Calls \ {c} : ~On(d, p, "projects")
  BY <1>1, <1>7, AloneMeans DEF On
<1>10. ASSUME <<p, "projects">> \notin disturbed'
       PROVE  Progress(c)'
  <2>1. \A k \in Columns :
           row[p][k] = IF k = "status" THEN call[c].request[k]
                       ELSE told[p][k]
    BY <1>1, <1>7, <1>10 DEF IInv, ProgressInv, Progress, Exists, On
  <2>2. \A k \in Columns : Given(event[k], told[p][k]) = row[p][k]
    BY <1>2, <1>3, <2>1, FieldTables DEF Given
  <2>3. QED  BY <1>1, <1>4, <1>5, <2>2 DEF Progress
<1>11. call'[c].project # NoProject
  BY <1>4, <1>5, ProjectsAssumption
<1>12. /\ disturbed' \in {disturbed, disturbed \cup {<<p, "projects">>}}
       /\ life'[p] # "unborn"
       /\ InOrder(row'[p])
       /\ row' = row /\ told' = told /\ life' = life
  BY <1>1 DEF IInv, NeverEndsBeforeStart
<1>13. QED
  BY <1>1, <1>5, <1>6, <1>7, <1>8, <1>9, <1>10, <1>11, <1>12, OneCallMoves

\* A call that leaves the row it worked on: it has told all it wrote, or the
\* row counts as disturbed.
LEMMA LeaveIInv ==
    ASSUME IInv, NEW c \in Calls, NEW p \in ProjectIds, call[c].project = p,
           NEW table \in Tables, table = TableOf(call[c].op),
           Return(c), life' = life, timelines' \in SUBSET {q \in ProjectIds : Exists(q)},
           row' \in [ProjectIds -> Rows], told' \in [ProjectIds -> Rows],
           \A q \in ProjectIds \ {p} : row'[q] = row[q] /\ told'[q] = told[q],
           life[p] = "alive" =>
              \A k \in Fields : TableWith(k) # table => row'[p][k] = row[p][k],
           table # "projects" => told'[p] = told[p],
           InOrder(row'[p]),
           \/ disturbed' = disturbed \cup {<<p, table>>}
           \/ /\ disturbed' = disturbed
              /\ <<p, table>> \notin disturbed /\ life[p] = "alive"
                    /\ table = "projects" => KnownBy(p)'
    PROVE  IInv'
<1>1. TypeOK /\ CallOK(c)
  BY DEF IInv, CallInv
<1>2. /\ call' \in [Calls -> CallStates]
      /\ \A d \in Calls \ {c} : call'[d] = call[d]
      /\ call'[c].project = NoProject
      /\ CallOK(c)'
  BY <1>1, ReturnType
<1>3. call[c].project # NoProject /\ life[p] # "unborn"
  BY <1>1, CallTypes, ProjectsAssumption DEF CallOK, TypeOK, CallStates
<1>4. TypeOK'
  <2>1. disturbed' \in SUBSET (ProjectIds \X Tables)
    BY <1>1 DEF TypeOK
  <2>2. QED  BY <1>1, <1>2, <2>1 DEF TypeOK, Exists
<1>5. On(c, p, table)
  BY DEF On
<1>6. <<p, table>> \notin disturbed' =>
         \A d \in Calls \ {c} : ~On(d, p, table)
  BY <1>5, AloneMeans
<1>7. life[p] \in {"unborn", "alive", "deleted"}
  BY <1>1 DEF TypeOK
<1>8. <<p, table>> \notin disturbed' /\ life'[p] = "alive" =>
         /\ call'[c].project # p
         /\ table = "projects" => KnownBy(p)'
  BY <1>2, ProjectsAssumption
<1>9. disturbed' \in {disturbed, disturbed \cup {<<p, table>>}}
  OBVIOUS
<1>10. QED
  BY <1>2, <1>3, <1>4, <1>5, <1>6, <1>8, <1>9, OneCallMoves

\* UpdateTimeline changes nothing that is published.
LEMMA TimelineIInv ==
    ASSUME IInv, NEW c \in Calls, NEW p \in ProjectIds, call[c].project = p,
           UpdateTimeline(c)
    PROVE  IInv'
<1>1. /\ TypeOK /\ CallOK(c) /\ NeverEndsBeforeStart
      /\ call[c].step = "write" /\ call[c].op = "timeline"
      /\ WriteRow(c) /\ Return(c) /\ call[c].op \in ReadingOps
      /\ UNCHANGED <<told, disturbed>>
  BY DEF IInv, CallInv, UpdateTimeline, At, ReadingOps
<1>2. /\ life' = life /\ life[p] = "alive"
      /\ row' \in [ProjectIds -> Rows]
      /\ \A q \in ProjectIds \ {p} : row'[q] = row[q]
      /\ timelines' \in SUBSET {q \in ProjectIds : Exists(q)}
      /\ \A k \in Fields :
            TableWith(k) # TableOf(call[c].op) => row'[p][k] = row[p][k]
  BY <1>1, WriteRowEffect DEF Exists
<1>3. InOrder(row'[p])
  BY <1>1, WriteRowInOrder
<1>4. /\ TableOf(call[c].op) = "project_timeline"
      /\ TableOf(call[c].op) \in Tables
      /\ told \in [ProjectIds -> Rows]
  BY <1>1, FieldTables DEF TypeOK
<1>5. QED  BY <1>1, <1>2, <1>3, <1>4, LeaveIInv

\* Once its event is published, what is known of the row is the row.
LEMMA PublishIInv ==
    ASSUME IInv, NEW c \in Calls, NEW p \in ProjectIds, call[c].project = p,
           PublishEvent(c)
    PROVE  IInv'
<1>1. /\ TypeOK /\ CallOK(c) /\ NeverEndsBeforeStart
      /\ call[c].step = "publish" /\ Return(c)
      /\ told' = [told EXCEPT ![p] = Merge(call[c].event, @)]
      /\ UNCHANGED <<life, row, timelines, disturbed>>
  BY DEF IInv, CallInv, PublishEvent
<1>2. TableOf(call[c].op) = "projects" /\ "projects" \in Tables
  BY <1>1, FieldTables DEF CallOK, Tables
<1>3. /\ Merge(call[c].event, told[p]) \in Rows
      /\ \A k \in Columns :
            Merge(call[c].event, told[p])[k] =
               Given(call[c].event[k], told[p][k])
  <2>1. call[c].event \in Rows /\ told[p] \in Rows
    BY <1>1, CallTypes DEF TypeOK
  <2>2. QED  BY <2>1, FieldTables DEF Merge, Given, Rows
<1>4. /\ told' \in [ProjectIds -> Rows]
      /\ told'[p] = Merge(call[c].event, told[p])
      /\ \A q \in ProjectIds \ {p} : told'[q] = told[q]
  BY <1>1, <1>3 DEF TypeOK
<1>5. ASSUME <<p, "projects">> \notin disturbed, life[p] = "alive"
      PROVE  KnownBy(p)'
  <2>1. \A k \in Columns : Given(call[c].event[k], told[p][k]) = row[p][k]
    BY <1>1, <1>2, <1>5 DEF IInv, ProgressInv, Progress, Exists
  <2>2. QED  BY <1>1, <1>3, <1>4, <2>1 DEF KnownBy
<1>6. /\ InOrder(row'[p]) /\ row' \in [ProjectIds -> Rows]
      /\ timelines' \in SUBSET {q \in ProjectIds : Exists(q)}
      /\ life' = life /\ row' = row /\ disturbed' = disturbed
  BY <1>1 DEF NeverEndsBeforeStart, TypeOK
<1>7. QED  BY <1>1, <1>2, <1>4, <1>5, <1>6, LeaveIInv

\* A call that failed before its statement has nothing to tell.
LEMMA FailBeforeIInv ==
    ASSUME IInv, NEW c \in Calls, NEW p \in ProjectIds, call[c].project = p,
           FailBeforeWrite(c)
    PROVE  IInv'
<1> DEFINE table == TableOf(call[c].op)
<1>1. /\ TypeOK /\ CallOK(c) /\ NeverEndsBeforeStart
      /\ call[c].step = "write" /\ Return(c)
      /\ UNCHANGED <<life, row, timelines, told, disturbed>>
  BY DEF IInv, CallInv, FailBeforeWrite
<1>2. table \in Tables /\ call[c].project \in ProjectIds
  BY FieldTables
<1>3. ASSUME <<p, table>> \notin disturbed, life[p] = "alive"
      PROVE  table = "projects" => KnownBy(p)'
  BY <1>1, <1>3 DEF IInv, ProgressInv, Progress, Exists, KnownBy
<1>4. /\ InOrder(row'[p]) /\ row' \in [ProjectIds -> Rows]
      /\ timelines' \in SUBSET {q \in ProjectIds : Exists(q)}
      /\ life' = life /\ row' = row /\ told' = told /\ disturbed' = disturbed
      /\ told \in [ProjectIds -> Rows]
  BY <1>1 DEF NeverEndsBeforeStart, TypeOK
<1>5. QED  BY <1>1, <1>2, <1>3, <1>4, LeaveIInv

\* A call that failed after its statement, or whose event is lost, has
\* disturbed its row.
LEMMA FailAfterIInv ==
    ASSUME IInv, NEW c \in Calls, NEW p \in ProjectIds, call[c].project = p,
           FailAfterWrite(c) \/ LoseEvent(c)
    PROVE  IInv'
<1> DEFINE table == TableOf(call[c].op)
<1>1. /\ TypeOK /\ CallOK(c) /\ NeverEndsBeforeStart /\ Return(c)
      /\ disturbed' = disturbed \cup {<<p, table>>}
      /\ told' = told /\ told \in [ProjectIds -> Rows]
      /\ table \in Tables
  BY FieldTables
     DEF IInv, CallInv, FailAfterWrite, LoseEvent, Disturb, TypeOK
<1>2. CASE call[c].step = "write" /\ EndInOrder(c) /\ WriteRow(c)
  <2>1. call[c].op \in ReadingOps
    BY <1>1, <1>2 DEF CallOK
  <2>2. /\ life' = life
        /\ row' \in [ProjectIds -> Rows]
        /\ \A q \in ProjectIds \ {p} : row'[q] = row[q]
        /\ timelines' \in SUBSET {q \in ProjectIds : Exists(q)}
        /\ \A k \in Fields : TableWith(k) # table => row'[p][k] = row[p][k]
    BY <1>1, <1>2, <2>1, WriteRowEffect
  <2>3. InOrder(row'[p])
    BY <1>1, <1>2, WriteRowInOrder
  <2>4. QED  BY <1>1, <2>2, <2>3, LeaveIInv
<1>3. CASE UNCHANGED <<life, row, timelines>>
  <2>1. /\ InOrder(row'[p]) /\ row' \in [ProjectIds -> Rows]
        /\ timelines' \in SUBSET {q \in ProjectIds : Exists(q)}
        /\ life' = life /\ row' = row
    BY <1>1, <1>3 DEF NeverEndsBeforeStart, TypeOK
  <2>2. QED  BY <1>1, <2>1, LeaveIInv
<1>4. QED  BY <1>2, <1>3 DEF FailAfterWrite, LoseEvent

\* A project nobody was told of.
LEMMA FailAfterInsertIInv ==
    ASSUME IInv, NEW c \in Calls, NEW p \in ProjectIds,
           NEW r \in Requests["create"], FailAfterInsert(c, p, r)
    PROVE  IInv'
<1> DEFINE created == Created(r)
<1>1. /\ TypeOK /\ call[c].step = "fresh" /\ call[c].project = NoProject
      /\ Return(c)
  BY DEF IInv, CallInv, CallOK, FailAfterInsert
<1>2. created \in Rows
  BY CreatedType
<1>3. /\ life[p] = "unborn" /\ InOrder(created)
      /\ life' = [life EXCEPT ![p] = "alive"]
      /\ row' = [row EXCEPT ![p] = created]
      /\ disturbed' = disturbed \cup {<<p, "projects">>}
      /\ UNCHANGED <<timelines, told>>
  BY DEF FailAfterInsert, Insert
<1> HIDE DEF created
<1>4. /\ call' \in [Calls -> CallStates]
      /\ \A d \in Calls \ {c} : call'[d] = call[d]
      /\ call'[c].project = NoProject
      /\ CallOK(c)'
  BY <1>1, ReturnType
<1>5. /\ life'[p] = "alive" /\ row'[p] = created /\ "projects" \in Tables
      /\ \A q \in ProjectIds \ {p} : row'[q] = row[q] /\ life'[q] = life[q]
  BY <1>1, <1>3 DEF TypeOK, Tables
<1>6. TypeOK'
  BY <1>1, <1>2, <1>3, <1>4, <1>5 DEF TypeOK, Exists
<1>7. /\ <<p, "projects">> \in disturbed'
      /\ InOrder(row'[p])
      /\ \A q \in ProjectIds \ {p} : told'[q] = told[q]
  BY <1>3, <1>5
<1>8. QED
  BY <1>1, <1>3, <1>4, <1>5, <1>6, <1>7, OneCallMoves

\* Calls that still work on a deleted project find no row.
LEMMA DeleteIInv ==
    ASSUME IInv, NEW c \in Calls, NEW p \in ProjectIds, DeleteProject(c, p)
    PROVE  IInv'
<1>1. /\ TypeOK /\ call[c].step = "fresh" /\ call[c].project = NoProject
      /\ life[p] = "alive" /\ Return(c)
      /\ life' = [life EXCEPT ![p] = "deleted"]
      /\ row' = [row EXCEPT ![p] = Blank]
      /\ timelines' = timelines \ {p}
      /\ UNCHANGED <<told, disturbed>>
  BY DEF IInv, CallInv, CallOK, DeleteProject, Exists
<1>2. /\ call' \in [Calls -> CallStates]
      /\ \A d \in Calls \ {c} : call'[d] = call[d]
      /\ call'[c].project = NoProject
      /\ CallOK(c)'
  BY <1>1, ReturnType
<1>3. /\ life'[p] = "deleted" /\ row'[p] = Blank /\ "projects" \in Tables
      /\ \A q \in ProjectIds \ {p} : /\ row'[q] = row[q]
                                      /\ life'[q] = life[q]
                                      /\ told'[q] = told[q]
  BY <1>1 DEF TypeOK, Tables
<1>4. TypeOK'
  <2>1. life' \in [ProjectIds -> {"unborn", "alive", "deleted"}]
          /\ row' \in [ProjectIds -> Rows]
    BY <1>1, BlankType DEF TypeOK
  <2>2. timelines' \in SUBSET {q \in ProjectIds : life'[q] = "alive"}
    BY <1>1, <1>3 DEF TypeOK, Exists
  <2>3. QED  BY <1>1, <1>2, <2>1, <2>2 DEF TypeOK, Exists
<1>5. InOrder(row'[p]) /\ disturbed' = disturbed
        /\ life'[p] # "alive" /\ life'[p] # "unborn"
  BY <1>1, <1>3, BlankType
<1>6. QED  BY <1>1, <1>2, <1>3, <1>4, <1>5, OneCallMoves

\* A crash disturbs every row a call was at work on.
LEMMA CrashIInv ==
    ASSUME IInv, Crash
    PROVE  IInv'
<1>1. /\ TypeOK
      /\ call' = [c \in Calls |->
                    IF call[c].step = "fresh" THEN Fresh ELSE Returned]
      /\ disturbed' = disturbed \cup
            {x \in ProjectIds \X Tables : Busy(x[1], x[2]) # {}}
      /\ UNCHANGED <<life, row, timelines, told>>
  BY DEF IInv, Crash
<1>2. \A c \in Calls : /\ call'[c] \in CallStates
                       /\ call'[c].project = NoProject
                       /\ call'[c].step \in {"fresh", "done"}
  BY <1>1, ReturnedType
<1>3. TypeOK'
  <2>1. call' \in [Calls -> CallStates]
    BY <1>1, <1>2
  <2>2. disturbed' \in SUBSET (ProjectIds \X Tables)
    BY <1>1 DEF TypeOK
  <2>3. QED  BY <1>1, <2>1, <2>2 DEF TypeOK, Exists
<1>4. CallInv'
  BY <1>2 DEF CallInv, CallOK
<1>5. UnbornInv' /\ NeverEndsBeforeStart'
  BY <1>1 DEF IInv, UnbornInv, NeverEndsBeforeStart
<1>6. AloneInv' /\ ProgressInv'
  BY <1>2, ProjectsAssumption DEF AloneInv, ProgressInv, On
<1>7. EventsTellTheProject'
  <2> SUFFICES ASSUME NEW q \in ProjectIds,
                      life'[q] = "alive",
                      <<q, "projects">> \notin disturbed'
               PROVE  KnownBy(q)'
    BY DEF EventsTellTheProject, KnownBy, Exists
  <2>1. <<q, "projects">> \in ProjectIds \X Tables
    BY DEF Tables
  <2>2. Busy(q, "projects") = {} /\ <<q, "projects">> \notin disturbed
    BY <1>1, <2>1
  <2>3. QED
    BY <1>1, <2>2 DEF IInv, EventsTellTheProject, KnownBy, Exists
<1>8. QED  BY <1>3, <1>4, <1>5, <1>6, <1>7 DEF IInv

-----------------------------------------------------------------------------
LEMMA InitIInv == Init => IInv
<1> SUFFICES ASSUME Init
             PROVE  IInv
  OBVIOUS
<1>1. \A c \in Calls : call[c] = Fresh /\ call[c] \in CallStates
                       /\ call[c].project = NoProject
                       /\ call[c].step = "fresh"
  BY ReturnedType DEF Init
<1>2. TypeOK
  <2>1. call \in [Calls -> CallStates]
    BY <1>1 DEF Init
  <2>2. QED  BY <2>1, BlankType DEF Init, TypeOK
<1>3. CallInv
  BY <1>1 DEF CallInv, CallOK
<1>4. UnbornInv /\ NeverEndsBeforeStart /\ EventsTellTheProject
  BY BlankType DEF Init, UnbornInv, NeverEndsBeforeStart,
                   EventsTellTheProject, Exists
<1>5. AloneInv /\ ProgressInv
  BY <1>1, ProjectsAssumption DEF AloneInv, ProgressInv, On
<1>6. QED  BY <1>2, <1>3, <1>4, <1>5 DEF IInv

\* A handler past its first statement works on a project.
LEMMA WorkingCall ==
    ASSUME IInv, NEW c \in Calls, call[c].step \notin {"fresh", "done"}
    PROVE  call[c].project \in ProjectIds
  BY DEF IInv, CallInv, CallOK

LEMMA NextIInv == IInv /\ [Next]_vars => IInv'
<1> SUFFICES ASSUME IInv, [Next]_vars
             PROVE  IInv'
  OBVIOUS
<1>1. ASSUME NEW c \in Calls, NEW p \in ProjectIds,
             NEW r \in Requests["create"],
             CreateProject(c, p, r) \/ FailAfterInsert(c, p, r)
      PROVE  IInv'
  BY <1>1, CreateIInv, FailAfterInsertIInv
<1>2. ASSUME NEW c \in Calls, NEW p \in ProjectIds, NEW op \in ReadingOps,
             NEW r \in Requests[op], ReadProject(c, op, p, r)
      PROVE  IInv'
  BY <1>2, ReadIInv
<1>3. ASSUME NEW c \in Calls, NEW p \in ProjectIds, DeleteProject(c, p)
      PROVE  IInv'
  BY <1>3, DeleteIInv
<1>4. ASSUME NEW c \in Calls, CreateEmpty(c)
      PROVE  IInv'
  <2>1. call[c].project \in ProjectIds
    BY <1>4, WorkingCall DEF CreateEmpty, At
  <2>2. QED  BY <1>4, <2>1, CreateEmptyIInv
<1>5. ASSUME NEW c \in Calls, UpdateProject(c)
      PROVE  IInv'
  <2>1. call[c].project \in ProjectIds
    BY <1>5, WorkingCall DEF UpdateProject, At
  <2>2. QED  BY <1>5, <2>1, UpdateIInv
<1>6. ASSUME NEW c \in Calls, ChangeProjectStatus(c)
      PROVE  IInv'
  <2>1. call[c].project \in ProjectIds
    BY <1>6, WorkingCall DEF ChangeProjectStatus, At
  <2>2. QED  BY <1>6, <2>1, StatusIInv
<1>7. ASSUME NEW c \in Calls, RereadProject(c)
      PROVE  IInv'
  <2>1. call[c].project \in ProjectIds
    BY <1>7, WorkingCall DEF RereadProject, At
  <2>2. QED  BY <1>7, <2>1, RereadIInv
<1>8. ASSUME NEW c \in Calls, UpdateTimeline(c)
      PROVE  IInv'
  <2>1. call[c].project \in ProjectIds
    BY <1>8, WorkingCall DEF UpdateTimeline, At
  <2>2. QED  BY <1>8, <2>1, TimelineIInv
<1>9. ASSUME NEW c \in Calls, PublishEvent(c)
      PROVE  IInv'
  <2>1. call[c].project \in ProjectIds
    BY <1>9, WorkingCall DEF PublishEvent
  <2>2. QED  BY <1>9, <2>1, PublishIInv
<1>10. ASSUME NEW c \in Calls, FailBeforeWrite(c)
       PROVE  IInv'
  <2>1. call[c].project \in ProjectIds
    BY <1>10, WorkingCall DEF FailBeforeWrite
  <2>2. QED  BY <1>10, <2>1, FailBeforeIInv
<1>11. ASSUME NEW c \in Calls, FailAfterWrite(c) \/ LoseEvent(c)
       PROVE  IInv'
  <2>1. call[c].project \in ProjectIds
    BY <1>11, WorkingCall DEF FailAfterWrite, LoseEvent
  <2>2. QED  BY <1>11, <2>1, FailAfterIInv
<1>12. CASE Crash
  BY <1>12, CrashIInv
<1>13. CASE UNCHANGED vars
  BY <1>13
     DEF IInv, vars, TypeOK, CallInv, CallOK, UnbornInv, AloneInv, On,
         NeverEndsBeforeStart, ProgressInv, Progress, KnownBy, Exists,
         EventsTellTheProject, Busy
<1>14. QED
  BY <1>1, <1>2, <1>3, <1>4, <1>5, <1>6, <1>7, <1>8, <1>9, <1>10, <1>11,
     <1>12, <1>13 DEF Next

\* The inductive invariant: how far each call has come with the row it works
\* on, and what its events still have to tell.
THEOREM ProjectsInvariant == Spec => []IInv
  BY InitIInv, NextIInv, PTL DEF Spec

\* The types of the project and timeline handlers.
THEOREM ProjectsTypeCorrect == Spec => []TypeOK
<1>1. IInv => TypeOK
  BY DEF IInv
<1>2. QED  BY <1>1, ProjectsInvariant, PTL

\* UpdateProject (service.go 208-227) checks the end against the start it
\* read, and still no project ever ends before it starts.
THEOREM NoProjectEndsBeforeItStarts == Spec => []NeverEndsBeforeStart
<1>1. IInv => NeverEndsBeforeStart
  BY DEF IInv
<1>2. QED  BY <1>1, ProjectsInvariant, PTL

\* What project-service publishes is what its table holds, for every project
\* whose calls came one after the other and that no fault struck.
THEOREM EventsTell == Spec => []EventsTellTheProject
<1>1. IInv => EventsTellTheProject
  BY DEF IInv
<1>2. QED  BY <1>1, ProjectsInvariant, PTL

\* The one statement of a call that writes a row.
LEMMA StatementMoves ==
    ASSUME IInv, NEW c \in Calls, call[c].step = "write", WriteRow(c),
           call'[c].step # "write",
           NEW p \in ProjectIds, NEW k \in Fields,
           row'[p][k] # row[p][k]
    PROVE  \/ <<p, TableWith(k)>> \in disturbed
           \/ \E d \in Busy(p, TableWith(k)) :
                 /\ call[d].step = "write" /\ call'[d].step # "write"
                 /\ call[d].request[k] # 0
                 /\ call[d].request[k] = row'[p][k]
<1> DEFINE columns == StatementColumns(call[c].op)
           asked == call[c].request[k]
<1>1. /\ TypeOK /\ call[c].op \in ReadingOps
      /\ call[c].project \in ProjectIds
  BY DEF IInv, CallInv, CallOK
<1>2. /\ p = call[c].project /\ Exists(p)
      /\ row'[p] = Written(c)
      /\ TableWith(k) = TableOf(call[c].op)
      /\ k \in columns
  <2>1. p = call[c].project /\ Exists(p) /\ row'[p] = Written(c)
    BY <1>1, WriteRowEffect
  <2>2. k \in columns
    BY <2>1 DEF Written
  <2>3. QED  BY <1>1, <2>1, <2>2, WriteRowEffect
<1>3. row'[p][k] = Given(asked, call[c].existing[k])
  BY <1>2 DEF Written
<1>4. ASSUME <<p, TableWith(k)>> \notin disturbed
      PROVE  asked # 0 /\ asked = row'[p][k]
  <2>1. call[c].existing[k] = row[p][k]
    BY <1>1, <1>2, <1>4 DEF IInv, ProgressInv, Progress
  <2>2. asked \in Nat
    BY <1>1, CallTypes DEF Rows
  <2>3. QED  BY <1>3, <2>1, <2>2 DEF Given
<1>5. c \in Busy(p, TableWith(k))
  BY <1>2 DEF Busy
<1>6. QED  BY <1>4, <1>5

\* UpdateProject and UpdateTimeline write back every column, and undo what
\* another call wrote only where two calls overlapped.
THEOREM CallsMoveOnlyWhatTheyAreAsked == Spec => CallsMoveWhatTheyAreAsked
<1> DEFINE Moves(p, k) ==
              \/ <<p, TableWith(k)>> \in disturbed
              \/ \E c \in Busy(p, TableWith(k)) :
                    /\ call[c].step = "write" /\ call'[c].step # "write"
                    /\ call[c].request[k] # 0
                    /\ call[c].request[k] = row'[p][k]
           Moved == \A p \in ProjectIds, k \in Fields :
              Exists(p) /\ Exists(p)' /\ row'[p][k] # row[p][k] => Moves(p, k)
<1>1. IInv /\ [Next]_vars => [Moved]_vars
  <2> SUFFICES ASSUME IInv, Next,
                      NEW p \in ProjectIds, NEW k \in Fields,
                      life[p] = "alive", life'[p] = "alive",
                      row'[p][k] # row[p][k]
               PROVE  Moves(p, k)
    BY DEF Exists
  <2>1. TypeOK
    BY DEF IInv
  <2>2. ASSUME NEW c \in Calls, NEW q \in ProjectIds,
               NEW r \in Requests["create"],
               CreateProject(c, q, r) \/ FailAfterInsert(c, q, r)
        PROVE  FALSE
    <3>1. life[q] = "unborn" /\ row' = [row EXCEPT ![q] = Created(r)]
      BY <2>2 DEF CreateProject, FailAfterInsert, Insert
    <3>2. q # p
      BY <3>1
    <3>3. QED  BY <2>1, <3>1, <3>2 DEF TypeOK
  <2>3. ASSUME NEW c \in Calls, NEW q \in ProjectIds, DeleteProject(c, q)
        PROVE  FALSE
    <3>1. /\ life' = [life EXCEPT ![q] = "deleted"]
          /\ row' = [row EXCEPT ![q] = Blank]
      BY <2>3 DEF DeleteProject
    <3>2. q # p
      BY <2>1, <3>1 DEF TypeOK
    <3>3. QED  BY <2>1, <3>1, <3>2 DEF TypeOK
  <2>4. PICK c \in Calls :
           \/ UpdateProject(c) \/ ChangeProjectStatus(c) \/ UpdateTimeline(c)
           \/ FailAfterWrite(c) /\ call[c].step = "write"
    BY <2>2, <2>3
       DEF Next, ReadProject, CreateEmpty, RereadProject, PublishEvent,
           FailBeforeWrite, FailAfterWrite, LoseEvent, Crash
  <2>5. call[c].step = "write" /\ WriteRow(c)
    BY <2>4 DEF UpdateProject, ChangeProjectStatus, UpdateTimeline,
                FailAfterWrite, At
  <2>6. call'[c].step # "write"
    <3>1. CASE UpdateProject(c)
      <4>1. call'[c].step = "publish"
        BY <2>1, <3>1, CallTypes
           DEF UpdateProject, AnnounceNext, TypeOK, CallStates
      <4>2. QED  BY <4>1
    <3>2. CASE ChangeProjectStatus(c)
      <4>1. call'[c].step = "reread"
        BY <2>1, <3>2, CallTypes DEF ChangeProjectStatus, TypeOK, CallStates
      <4>2. QED  BY <4>1
    <3>3. CASE UpdateTimeline(c) \/ FailAfterWrite(c)
      <4>1. call'[c].step = "done"
        BY <2>1, <3>3, ReturnType DEF UpdateTimeline, FailAfterWrite
      <4>2. QED  BY <4>1
    <3>4. QED  BY <2>4, <3>1, <3>2, <3>3
  <2>7. QED  BY <2>5, <2>6, StatementMoves
<1>2. QED
  BY <1>1, ProjectsInvariant, PTL DEF Spec, CallsMoveWhatTheyAreAsked

=============================================================================
