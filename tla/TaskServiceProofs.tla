------------------------- MODULE TaskServiceProofs -------------------------
(***************************************************************************)
(* The task handlers, for any number of tasks and calls.  The argument is  *)
(* that a call which has a task to itself keeps the books: at each of its  *)
(* steps the row is what the events told so far, merged with those it has  *)
(* still to publish, say it is.                                            *)
(***************************************************************************)
EXTENDS TaskService, SequenceTheorems, TLAPS

\* Equal but for the hours spent.
Agree(r, s) == \A k \in Columns \ {"actual"} : r[k] = s[k]

\* What a reader who knew `old` knows after the events still to publish.
Hear(events, old) ==
    IF Len(events) = 1 THEN Merge(events[1], old)
    ELSE Merge(events[2], Merge(events[1], old))

\* The row after the statement of call c, when nobody else wrote it.
After(c) ==
    [k \in Columns |->
        IF k \in StatementColumns(c)
        THEN Given(call[c].request[k], call[c].existing[k])
        ELSE call[c].existing[k]]

CallOK(c) ==
    /\ call[c].step \in {"fresh", "done"} => call[c].task = NoTask
    /\ call[c].step \in {"write", "reread", "publish"} =>
          call[c].task \in Tasks /\ life[call[c].task] # "unborn"
    /\ call[c].step \in {"write", "reread"} =>
          /\ call[c].op \in ReadingOps
          /\ call[c].request \in Requests[call[c].op]
    /\ call[c].step = "reread" => call[c].op # "update"
    /\ call[c].step = "publish" => Len(call[c].pending) \in {1, 2}

CallInv == \A c \in Calls : CallOK(c)

UnbornInv == \A t \in Tasks : life[t] = "unborn" => told[t] = Blank

\* Calls that share a task have disturbed it.
AloneInv ==
    \A c, d \in Calls :
        /\ call[c].task = call[d].task
        /\ call[c].task \in Tasks \ disturbed
        => c = d

\* How far the call c has come with the task it has to itself.
Progress(c) ==
    LET t == call[c].task IN
    /\ call[c].step = "write" =>
          call[c].existing = row[t] /\ Agree(told[t], row[t])
    /\ call[c].step = "reread" =>
          row[t] = After(c) /\ Agree(told[t], call[c].existing)
    /\ call[c].step = "publish" =>
          Agree(Hear(call[c].pending, told[t]), row[t])

ProgressInv ==
    \A c \in Calls :
        call[c].task \in Tasks \ disturbed /\ Exists(call[c].task) =>
            Progress(c)

IInv == TypeOK /\ CallInv /\ UnbornInv /\ AloneInv /\ ProgressInv
          /\ EventsTellTheTask

-----------------------------------------------------------------------------
(* What the operators compute. *)

LEMMA MergeType ==
    ASSUME NEW a \in Rows, NEW old \in Rows
    PROVE  /\ Merge(a, old) \in Rows
           /\ \A k \in Columns : Merge(a, old)[k] = Given(a[k], old[k])
  BY DEF Merge, Given, Rows

LEMMA MergeAgrees ==
    ASSUME NEW a \in Rows, NEW old \in Rows, NEW r,
           \A k \in Columns \ {"actual"} : Given(a[k], old[k]) = r[k]
    PROVE  Agree(Merge(a, old), r)
  BY MergeType DEF Agree

LEMMA TwoEvents ==
    ASSUME NEW a \in Rows, NEW b \in Rows
    PROVE  <<a>> \o <<b>> = <<a, b>>
<1>1. <<a>> \in Seq(Rows) /\ <<b>> \in Seq(Rows) /\ <<a, b>> \in Seq(Rows)
  OBVIOUS
<1>2. Len(<<a>>) = 1 /\ Len(<<b>>) = 1 /\ Len(<<a, b>>) = 2
  OBVIOUS
<1>3. /\ <<a>> \o <<b>> \in Seq(Rows)
      /\ Len(<<a>> \o <<b>>) = 2
      /\ (<<a>> \o <<b>>)[1] = a
      /\ (<<a>> \o <<b>>)[2] = b
  BY <1>1, <1>2, ConcatProperties
<1>4. \A i \in 1..2 : (<<a>> \o <<b>>)[i] = <<a, b>>[i]
  BY <1>3
<1>5. QED  BY <1>1, <1>2, <1>3, <1>4, SeqEqual

LEMMA OnlyType ==
    ASSUME NEW r \in Rows, NEW columns
    PROVE  /\ Only(r, columns) \in Rows
           /\ \A k \in Columns :
                 Only(r, columns)[k] = IF k \in columns THEN r[k] ELSE 0
  BY DEF Only, Rows

LEMMA AskedIsNat == Asked \subseteq Nat
<1>1. StatusesAsked \subseteq Nat
  BY TaskServiceAssumption DEF TaskStatuses
<1>2. Users \subseteq Nat /\ Deadlines \subseteq Nat /\ Hours \subseteq Nat
  BY TaskServiceAssumption
<1>3. QED  BY <1>1, <1>2 DEF Asked

\* Which fields a request of each handler may carry.
LEMMA RequestFields ==
    /\ \A op \in DOMAIN Required : Requests[op] \subseteq Rows
    /\ \A r \in Requests["create"] : r["status"] = 0 /\ r["actual"] = 0
    /\ \A r \in Requests["update"] :
          r["status"] = 0 /\ r["assignee"] = 0 /\ r["actual"] = 0
    /\ \A r \in Requests["status"] :
          /\ r["status"] > 0
          /\ r["assignee"] = 0 /\ r["deadline"] = 0 /\ r["planned"] = 0
    /\ \A r \in Requests["assign"] :
          /\ r["assignee"] > 0
          /\ r["status"] = 0 /\ r["deadline"] = 0
          /\ r["planned"] = 0 /\ r["actual"] = 0
    /\ \A r \in Requests["labor"] :
          r["status"] = 0 /\ r["assignee"] = 0 /\ r["deadline"] = 0
<1>1. \A op \in DOMAIN Required : Requests[op] \subseteq Rows
  BY AskedIsNat DEF Requests, Rows
<1>2. DOMAIN Required = {"create", "update", "status", "assign", "labor"}
  BY DEF Required
<1>3. \A r \in Requests["create"] : r["status"] = 0 /\ r["actual"] = 0
  BY <1>2 DEF Requests, Required, Optional, Columns
<1>4. \A r \in Requests["update"] :
          r["status"] = 0 /\ r["assignee"] = 0 /\ r["actual"] = 0
  BY <1>2 DEF Requests, Required, Optional, Columns
<1>5. \A r \in Requests["status"] :
          /\ r["status"] > 0
          /\ r["assignee"] = 0 /\ r["deadline"] = 0 /\ r["planned"] = 0
  <2> SUFFICES ASSUME NEW r \in Requests["status"]
               PROVE  /\ r["status"] > 0
                      /\ r["assignee"] = 0 /\ r["deadline"] = 0
                      /\ r["planned"] = 0
    OBVIOUS
  <2>1. r["status"] \in Nat
    BY <1>1, <1>2 DEF Rows, Columns
  <2>2. r["status"] # 0 /\ r["assignee"] = 0 /\ r["deadline"] = 0
          /\ r["planned"] = 0
    BY <1>2 DEF Requests, Required, Optional, Columns
  <2>3. QED  BY <2>1, <2>2
<1>6. \A r \in Requests["assign"] :
          /\ r["assignee"] > 0
          /\ r["status"] = 0 /\ r["deadline"] = 0
          /\ r["planned"] = 0 /\ r["actual"] = 0
  <2> SUFFICES ASSUME NEW r \in Requests["assign"]
               PROVE  /\ r["assignee"] > 0
                      /\ r["status"] = 0 /\ r["deadline"] = 0
                      /\ r["planned"] = 0 /\ r["actual"] = 0
    OBVIOUS
  <2>1. r["assignee"] \in Nat
    BY <1>1, <1>2 DEF Rows, Columns
  <2>2. r["assignee"] # 0 /\ r["status"] = 0 /\ r["deadline"] = 0
          /\ r["planned"] = 0 /\ r["actual"] = 0
    BY <1>2 DEF Requests, Required, Optional, Columns
  <2>3. QED  BY <2>1, <2>2
<1>7. \A r \in Requests["labor"] :
          r["status"] = 0 /\ r["assignee"] = 0 /\ r["deadline"] = 0
  BY <1>2 DEF Requests, Required, Optional, Columns
<1>8. QED  BY <1>1, <1>3, <1>4, <1>5, <1>6, <1>7

LEMMA AfterUpdate ==
    ASSUME NEW c \in Calls,
           call[c].op = "update",
           call[c].existing \in Rows,
           call[c].request \in Requests["update"]
    PROVE  After(c) = Merge(call[c].request, call[c].existing)
<1> DEFINE old == call[c].existing
           asked == call[c].request
<1>1. StatementColumns(c) = {"assignee", "deadline", "planned"}
  BY DEF StatementColumns
<1>2. asked["status"] = 0 /\ asked["actual"] = 0
  BY RequestFields
<1>3. \A k \in Columns : After(c)[k] = Given(asked[k], old[k])
  BY <1>1, <1>2 DEF After, Given, Columns
<1>4. QED  BY <1>3 DEF After, Merge

\* The events of UpdateTask bring a reader who knew the row read to the row
\* written.
LEMMA UpdateIsTold ==
    ASSUME NEW c \in Calls,
           call[c].existing \in Rows,
           call[c].request \in Requests["update"],
           NEW s \in Rows,
           Agree(s, call[c].existing)
    PROVE  LET new == Merge(call[c].request, call[c].existing)
               events == UpdateEvents(c)
           IN  /\ events \in Seq(Rows)
               /\ events = <<>> => Agree(s, new)
               /\ events # <<>> => /\ Len(events) \in {1, 2}
                                   /\ Agree(Hear(events, s), new)
<1> DEFINE old == call[c].existing
           asked == call[c].request
           new == Merge(asked, old)
           A == Only(new, {"assignee", "planned", "actual"})
           B == Only(new, {"assignee", "deadline"})
           P == new["planned"] # old["planned"]
           D == new["deadline"] # old["deadline"]
<1>1. asked \in Rows /\ asked["status"] = 0 /\ asked["assignee"] = 0
        /\ asked["actual"] = 0
  BY RequestFields DEF Required
<1>2. new \in Rows /\ \A k \in Columns : new[k] = Given(asked[k], old[k])
  BY <1>1, MergeType
<1>3. new["status"] = old["status"] /\ new["assignee"] = old["assignee"]
  BY <1>1, <1>2 DEF Given, Columns
<1>4. /\ A \in Rows /\ B \in Rows
      /\ \A k \in Columns :
            /\ A[k] = IF k \in {"assignee", "planned", "actual"}
                      THEN new[k] ELSE 0
            /\ B[k] = IF k \in {"assignee", "deadline"} THEN new[k] ELSE 0
  BY <1>2, OnlyType
<1>5. \A k \in Columns : new[k] \in Nat /\ old[k] \in Nat /\ s[k] \in Nat
  BY <1>2 DEF Rows
<1>6. \A k \in Columns : new[k] # old[k] => new[k] > 0
  BY <1>1, <1>2, <1>5 DEF Given, Rows
<1>7. CASE ~P /\ ~D
  <2>1. UpdateEvents(c) = <<>>
    BY <1>7 DEF UpdateEvents
  <2>2. Agree(s, new)
    BY <1>3, <1>7 DEF Agree, Columns
  <2>3. QED  BY <2>1, <2>2
<1>8. CASE P /\ ~D
  <2>1. UpdateEvents(c) = <<A>>
    BY <1>8 DEF UpdateEvents
  <2>2. Agree(Merge(A, s), new)
    BY <1>3, <1>4, <1>5, <1>6, <1>8, MergeType DEF Agree, Columns, Given
  <2>3. QED  BY <1>4, <2>1, <2>2 DEF Hear
<1>9. CASE ~P /\ D
  <2>1. UpdateEvents(c) = <<B>>
    BY <1>9 DEF UpdateEvents
  <2>2. Agree(Merge(B, s), new)
    BY <1>3, <1>4, <1>5, <1>6, <1>9, MergeType DEF Agree, Columns, Given
  <2>3. QED  BY <1>4, <2>1, <2>2 DEF Hear
<1>10. CASE P /\ D
  <2>1. UpdateEvents(c) = <<A, B>>
    <3>1. UpdateEvents(c) = <<A>> \o <<B>>
      BY <1>10 DEF UpdateEvents
    <3>2. QED  BY <1>4, <3>1, TwoEvents
  <2>2. Merge(A, s) \in Rows
    BY <1>4, MergeType
  <2>3. Agree(Merge(B, Merge(A, s)), new)
    BY <1>3, <1>4, <1>5, <1>6, <1>10, <2>2, MergeType
       DEF Agree, Columns, Given
  <2>4. QED  BY <1>4, <2>1, <2>3 DEF Hear
<1>11. QED  BY <1>7, <1>8, <1>9, <1>10

\* What a handler publishes of the row it read back brings a reader of the
\* row read first up to date.
LEMMA StatusIsTold ==
    ASSUME NEW c \in Calls,
           call[c].op = "status",
           call[c].existing \in Rows,
           call[c].request \in Requests["status"],
           NEW s \in Rows,
           Agree(s, call[c].existing)
    PROVE  LET events == StatusEvents(c, After(c))
           IN  /\ events \in Seq(Rows)
               /\ events = <<>> => Agree(s, After(c))
               /\ events # <<>> => /\ Len(events) \in {1, 2}
                                   /\ Agree(Hear(events, s), After(c))
<1> DEFINE old == call[c].existing
           asked == call[c].request
           E == [After(c) EXCEPT !["actual"] = Given(HoursReported(c), @)]
<1>1. asked \in Rows /\ asked["status"] > 0
  BY RequestFields DEF Required
<1>2. \A k \in Columns : asked[k] \in Nat /\ old[k] \in Nat /\ s[k] \in Nat
  BY <1>1 DEF Rows
<1>3. HoursReported(c) \in Nat
  BY <1>2 DEF HoursReported, Given, Columns
<1>4. "status" \in StatementColumns(c)
        /\ StatementColumns(c) \subseteq {"status", "actual"}
  BY DEF StatementColumns
<1>5. After(c) \in Rows
  BY <1>2 DEF After, Rows, Given
<1>6. /\ After(c)["status"] = asked["status"]
      /\ \A k \in {"assignee", "deadline", "planned"} : After(c)[k] = old[k]
  BY <1>1, <1>4 DEF After, Given, Columns
<1>7. E \in Rows /\ \A k \in Columns \ {"actual"} : E[k] = After(c)[k]
  BY <1>3, <1>5 DEF Rows, Given, Columns
<1>8. CASE old["status"] = After(c)["status"]
  <2>1. StatusEvents(c, After(c)) = <<>>
    BY <1>8 DEF StatusEvents
  <2>2. Agree(s, After(c))
    BY <1>6, <1>8 DEF Agree, Columns
  <2>3. QED  BY <2>1, <2>2
<1>9. CASE old["status"] # After(c)["status"]
  <2>1. StatusEvents(c, After(c)) = <<E>>
    BY <1>9 DEF StatusEvents
  <2>2. \A k \in Columns \ {"actual"} :
           Given(After(c)[k], s[k]) = After(c)[k]
    BY <1>1, <1>2, <1>6 DEF Agree, Columns, Given
  <2>3. Agree(Merge(E, s), After(c))
    <3> HIDE DEF E
    <3>1. \A k \in Columns \ {"actual"} : Given(E[k], s[k]) = After(c)[k]
      BY <1>7, <2>2
    <3>2. QED  BY <1>7, <3>1, MergeAgrees
  <2>4. QED  BY <1>7, <2>1, <2>3 DEF Hear
<1>10. QED  BY <1>8, <1>9

LEMMA AssignmentIsTold ==
    ASSUME NEW c \in Calls,
           call[c].op = "assign",
           call[c].existing \in Rows,
           call[c].request \in Requests["assign"],
           NEW s \in Rows,
           Agree(s, call[c].existing)
    PROVE  LET events == AssignEvents(c, After(c))
           IN  /\ events \in Seq(Rows)
               /\ events = <<>> => Agree(s, After(c))
               /\ events # <<>> => /\ Len(events) \in {1, 2}
                                   /\ Agree(Hear(events, s), After(c))
<1> DEFINE old == call[c].existing
           asked == call[c].request
           F == Only(After(c), {"status", "deadline"})
           E == [F EXCEPT !["assignee"] = asked["assignee"]]
<1>1. asked \in Rows /\ asked["assignee"] > 0
  BY RequestFields DEF Required
<1>2. \A k \in Columns : asked[k] \in Nat /\ old[k] \in Nat /\ s[k] \in Nat
  BY <1>1 DEF Rows
<1>3. StatementColumns(c) = {"assignee"}
  BY DEF StatementColumns
<1>4. After(c) \in Rows
  BY <1>2 DEF After, Rows, Given
<1>5. /\ After(c)["assignee"] = asked["assignee"]
      /\ \A k \in Columns \ {"assignee"} : After(c)[k] = old[k]
  BY <1>1, <1>3 DEF After, Given, Columns
<1>6. /\ F \in Rows
      /\ \A k \in Columns :
            F[k] = IF k \in {"status", "deadline"} THEN After(c)[k] ELSE 0
  BY <1>4, OnlyType
<1>7. /\ E \in Rows
      /\ E["assignee"] = asked["assignee"]
      /\ \A k \in Columns \ {"assignee"} : E[k] = F[k]
  BY <1>2, <1>6 DEF Rows, Columns
<1>8. CASE old["assignee"] = asked["assignee"]
  <2>1. AssignEvents(c, After(c)) = <<>>
    BY <1>8 DEF AssignEvents
  <2>2. Agree(s, After(c))
    BY <1>5, <1>8 DEF Agree, Columns
  <2>3. QED  BY <2>1, <2>2
<1>9. CASE old["assignee"] # asked["assignee"]
  <2>1. AssignEvents(c, After(c)) = <<E>>
    BY <1>9 DEF AssignEvents
  <2>2. \A k \in Columns \ {"actual"} : Given(E[k], s[k]) = After(c)[k]
    BY <1>1, <1>2, <1>5, <1>6, <1>7 DEF Agree, Columns, Given
  <2>3. Agree(Merge(E, s), After(c))
    BY <1>7, <2>2, MergeType DEF Agree
  <2>4. QED  BY <1>7, <2>1, <2>3 DEF Hear
<1>10. QED  BY <1>8, <1>9

LEMMA LaborIsTold ==
    ASSUME NEW c \in Calls,
           call[c].op = "labor",
           call[c].existing \in Rows,
           call[c].request \in Requests["labor"],
           NEW s \in Rows,
           Agree(s, call[c].existing)
    PROVE  LET events == <<After(c)>>
           IN  /\ events \in Seq(Rows)
               /\ Len(events) \in {1, 2}
               /\ Agree(Hear(events, s), After(c))
<1> DEFINE old == call[c].existing
           asked == call[c].request
<1>1. asked \in Rows
  BY RequestFields DEF Required
<1>2. \A k \in Columns : asked[k] \in Nat /\ old[k] \in Nat /\ s[k] \in Nat
  BY <1>1 DEF Rows
<1>3. StatementColumns(c) = {"planned", "actual"}
  BY DEF StatementColumns
<1>4. After(c) \in Rows
  BY <1>2 DEF After, Rows, Given
<1>5. /\ After(c)["planned"] = Given(asked["planned"], old["planned"])
      /\ \A k \in {"status", "assignee", "deadline"} : After(c)[k] = old[k]
  BY <1>3 DEF After, Columns
<1>6. \A k \in Columns \ {"actual"} : Given(After(c)[k], s[k]) = After(c)[k]
  BY <1>2, <1>5 DEF Agree, Columns, Given
<1>7. Agree(Merge(After(c), s), After(c))
  BY <1>4, <1>6, MergeType DEF Agree
<1>8. QED  BY <1>4, <1>7 DEF Hear

-----------------------------------------------------------------------------
(* The steps. *)

LEMMA BusyMeans ==
    \A t : Busy(t) = {} <=> \A c \in Calls : call[c].task # t
  BY DEF Busy

\* A call that has not moved, on a task that has not changed.
LEMMA ProgressKept ==
    ASSUME NEW c \in Calls,
           call'[c] = call[c],
           row'[call[c].task] = row[call[c].task],
           told'[call[c].task] = told[call[c].task],
           Progress(c)
    PROVE  Progress(c)'
  BY DEF Progress, After, StatementColumns, HoursReported

\* Call c moves, on behalf of task t.
LEMMA OneCallMoves ==
    ASSUME IInv, TypeOK',
           NEW c \in Calls, NEW t \in Tasks,
           \A d \in Calls \ {c} : call'[d] = call[d],
           call[c].task \in {t, NoTask},
           call'[c].task \in {t, NoTask},
           \A u \in Tasks \ {t} : /\ row'[u] = row[u]
                                  /\ told'[u] = told[u]
                                  /\ life'[u] = life[u],
           life'[t] # "unborn",
           disturbed' \in {disturbed, disturbed \cup {t}},
           CallOK(c)',
           t \notin disturbed' =>
              \/ \A d \in Calls \ {c} : call[d].task # t
              \/ call'[c].task = NoTask /\ life'[t] # "alive",
           t \notin disturbed' /\ life'[t] = "alive" =>
              /\ call'[c].task = t => Progress(c)'
              /\ call'[c].task # t => Agree(told'[t], row'[t])
    PROVE  IInv'
<1>1. NoTask \notin Tasks
  BY TaskServiceAssumption
<1>2. CallInv'
  <2> SUFFICES ASSUME NEW d \in Calls
               PROVE  CallOK(d)'
    BY DEF CallInv
  <2>1. CASE d = c
    BY <2>1
  <2>2. CASE d # c
    BY <2>2 DEF IInv, CallInv, CallOK
  <2>3. QED  BY <2>1, <2>2
<1>3. UnbornInv'
  BY DEF IInv, UnbornInv
<1>4. AloneInv'
  BY <1>1 DEF IInv, AloneInv
<1>5. ProgressInv'
  <2> SUFFICES ASSUME NEW d \in Calls,
                      call'[d].task \in Tasks \ disturbed',
                      life'[call'[d].task] = "alive"
               PROVE  Progress(d)'
    BY DEF ProgressInv, Exists
  <2>1. CASE d = c
    BY <1>1, <2>1
  <2>2. CASE d # c /\ call[d].task = t
    BY <1>1, <2>2
  <2>3. CASE d # c /\ call[d].task # t
    <3>1. Progress(d)
      BY <2>3 DEF IInv, ProgressInv, Exists
    <3>2. QED  BY <2>3, <3>1, ProgressKept
  <2>4. QED  BY <2>1, <2>2, <2>3
<1>6. EventsTellTheTask'
  <2> SUFFICES ASSUME NEW u \in Tasks,
                      u \notin disturbed',
                      life'[u] = "alive",
                      \A d \in Calls : call'[d].task # u
               PROVE  Agree(told'[u], row'[u])
    BY DEF EventsTellTheTask, Agree, Exists, Busy
  <2>1. CASE u = t
    BY <2>1
  <2>2. CASE u # t
    <3>1. \A d \in Calls : call[d].task # u
      BY <1>1, <2>2
    <3>2. Agree(told[u], row[u])
      BY <2>2, <3>1 DEF IInv, EventsTellTheTask, Agree, Exists, Busy
    <3>3. QED  BY <2>2, <3>2
  <2>3. QED  BY <2>1, <2>2
<1>7. QED  BY <1>2, <1>3, <1>4, <1>5, <1>6 DEF IInv

LEMMA CallTypes ==
    ASSUME TypeOK, NEW c \in Calls
    PROVE  /\ call[c] \in CallStates
           /\ call[c].existing \in Rows
           /\ call[c].request \in Rows
           /\ call[c].pending \in Seq(Rows)
           /\ call[c].task \in Tasks \cup {NoTask}
  BY DEF TypeOK, CallStates

LEMMA FreshType == Fresh \in CallStates /\ Returned \in CallStates
<1>1. Blank \in Rows
  BY DEF Blank, Rows
<1>2. <<>> \in Seq(Rows)
  OBVIOUS
<1>3. QED  BY <1>1, <1>2 DEF Fresh, Returned, CallStates

\* A call that returns.
LEMMA ReturnType ==
    ASSUME TypeOK, NEW c \in Calls, Return(c)
    PROVE  /\ call' \in [Calls -> CallStates]
           /\ \A d \in Calls :
                 call'[d].step = "publish" <=> call'[d].pending # <<>>
           /\ \A d \in Calls \ {c} : call'[d] = call[d]
           /\ call'[c].task = NoTask
           /\ call'[c].step = "done"
<1>1. call' = [call EXCEPT ![c] = Returned] /\ call \in [Calls -> CallStates]
  BY DEF Return, TypeOK
<1>2. Returned.step = "done" /\ Returned.task = NoTask
        /\ Returned.pending = <<>>
  BY DEF Returned, Fresh
<1>3. QED  BY <1>1, <1>2, FreshType DEF TypeOK

\* A call that turns to the events it has to publish.
LEMMA PublishNextType ==
    ASSUME TypeOK, NEW c \in Calls, NEW events \in Seq(Rows),
           PublishNext(c, events)
    PROVE  /\ call' \in [Calls -> CallStates]
           /\ \A d \in Calls :
                 call'[d].step = "publish" <=> call'[d].pending # <<>>
           /\ \A d \in Calls \ {c} : call'[d] = call[d]
           /\ events = <<>> => call'[c].task = NoTask /\ call'[c].step = "done"
           /\ events # <<>> => /\ call'[c].task = call[c].task
                               /\ call'[c].step = "publish"
                               /\ call'[c].pending = events
<1>1. CASE events = <<>>
  <2>1. Return(c)
    BY <1>1 DEF PublishNext, Return
  <2>2. QED  BY <1>1, <2>1, ReturnType
<1>2. CASE events # <<>>
  <2> DEFINE next == [call[c] EXCEPT !.step = "publish", !.pending = events]
  <2>1. call' = [call EXCEPT ![c] = next]
    BY <1>2 DEF PublishNext, TypeOK
  <2>2. /\ next \in CallStates
        /\ next.step = "publish"
        /\ next.pending = events
        /\ next.task = call[c].task
    BY CallTypes DEF CallStates
  <2>3. QED  BY <1>2, <2>1, <2>2 DEF TypeOK
<1>3. QED  BY <1>1, <1>2

\* The row an UPDATE statement leaves.
LEMMA WriteRowType ==
    ASSUME TypeOK, NEW c \in Calls, call[c].task \in Tasks, WriteRow(c)
    PROVE  /\ row' \in [Tasks -> Rows]
           /\ life' = life
           /\ life[call[c].task] = "alive"
           /\ row'[call[c].task] = Written(c)
           /\ \A u \in Tasks \ {call[c].task} : row'[u] = row[u]
<1>1. Written(c) \in Rows
  BY CallTypes DEF Written, Given, Rows, TypeOK
<1>2. QED  BY <1>1 DEF WriteRow, Exists, TypeOK

\* A call alone on its task writes what it computed from the row it read.
LEMMA WrittenIsAfter ==
    ASSUME NEW c \in Calls, call[c].existing = row[call[c].task]
    PROVE  Written(c) = After(c)
  BY DEF Written, After

\* The row of a new task is what task.created will say.
LEMMA CreateIInv ==
    ASSUME IInv, NEW c \in Calls, NEW t \in Tasks,
           NEW r \in Requests["create"], CreateTask(c, t, r)
    PROVE  IInv'
<1> DEFINE created == [r EXCEPT !["status"] = TODO]
           next == [call[c] EXCEPT !.step = "publish", !.op = "create",
                                   !.task = t, !.pending = <<created>>]
<1>1. TypeOK /\ call[c].step = "fresh" /\ call[c].task = NoTask
  BY DEF IInv, CallInv, CallOK, CreateTask
<1>2. created \in Rows
  BY RequestFields DEF Required, Rows, TODO
<1>3. /\ life[t] = "unborn"
      /\ life' = [life EXCEPT ![t] = "alive"]
      /\ row' = [row EXCEPT ![t] = created]
      /\ call' = [call EXCEPT ![c] = next]
      /\ UNCHANGED <<told, link, disturbed>>
  BY <1>1 DEF CreateTask, Insert, TypeOK
<1>4. /\ next \in CallStates /\ next.step = "publish" /\ next.task = t
      /\ next.pending = <<created>> /\ next.op = "create"
  <2> HIDE DEF created
  <2>1. <<created>> \in Seq(Rows)
    BY <1>2
  <2>2. QED  BY <1>1, <2>1, CallTypes DEF CallStates
<1>5. /\ call'[c] = next
      /\ \A d \in Calls \ {c} : call'[d] = call[d]
      /\ row'[t] = created /\ life'[t] = "alive"
      /\ \A u \in Tasks \ {t} : row'[u] = row[u] /\ life'[u] = life[u]
  BY <1>1, <1>3 DEF TypeOK
<1>6. TypeOK'
  <2>1. next.pending # <<>>
    BY <1>4
  <2>2. QED  BY <1>1, <1>2, <1>3, <1>4, <2>1 DEF TypeOK
<1>7. \A d \in Calls : call[d].task # t
  BY <1>3, CallTypes, TaskServiceAssumption
     DEF IInv, CallInv, CallOK, TypeOK, CallStates
<1>8. CallOK(c)'
  <2>1. Len(next.pending) = 1
    BY <1>4
  <2>2. QED  BY <1>4, <1>5, <2>1 DEF CallOK
<1>9. Progress(c)'
  <2>1. told[t] = Blank /\ told' = told
    BY <1>3 DEF IInv, UnbornInv
  <2>2. Blank \in Rows /\ \A k \in Columns : Blank[k] = 0
    BY DEF Blank, Rows
  <2>3. \A k \in Columns : created[k] \in Nat
    BY <1>2 DEF Rows
  <2>4. Agree(Merge(created, Blank), created)
    <3> HIDE DEF created
    <3>1. \A k \in Columns : Given(created[k], Blank[k]) = created[k]
      BY <2>2, <2>3 DEF Given
    <3>2. QED  BY <1>2, <2>2, <3>1, MergeAgrees
  <2>5. Hear(<<created>>, Blank) = Merge(created, Blank)
    BY DEF Hear
  <2>6. QED  BY <1>4, <1>5, <2>1, <2>4, <2>5 DEF Progress
<1>10. QED  BY <1>1, <1>3, <1>4, <1>5, <1>6, <1>7, <1>8, <1>9, OneCallMoves

\* A call starts to work on a row nobody else works on, or disturbs it.
LEMMA ReadIInv ==
    ASSUME IInv, NEW c \in Calls, NEW t \in Tasks, NEW op \in ReadingOps,
           NEW r \in Requests[op], ReadTask(c, op, t, r)
    PROVE  IInv'
<1> DEFINE next == [step |-> "write", op |-> op, task |-> t, request |-> r,
                    existing |-> row[t], pending |-> <<>>]
<1>1. TypeOK /\ call[c].step = "fresh" /\ call[c].task = NoTask
        /\ life[t] = "alive"
  BY DEF IInv, CallInv, CallOK, ReadTask, Exists
<1>2. r \in Rows
  BY RequestFields DEF Required, ReadingOps
<1>3. /\ call' = [call EXCEPT ![c] = next]
      /\ disturbed' = IF Busy(t) = {} THEN disturbed ELSE disturbed \cup {t}
      /\ UNCHANGED <<life, row, told, link>>
  BY DEF ReadTask
<1>4. next \in CallStates
  <2>1. <<>> \in Seq(Rows) /\ row[t] \in Rows
    BY <1>1 DEF TypeOK
  <2>2. QED  BY <1>2, <2>1 DEF CallStates
<1>5. /\ call'[c] = next
      /\ \A d \in Calls \ {c} : call'[d] = call[d]
  BY <1>1, <1>3 DEF TypeOK
<1>6. TypeOK'
  BY <1>1, <1>3, <1>4 DEF TypeOK
<1>7. CallOK(c)'
  BY <1>1, <1>3, <1>5 DEF CallOK
<1>8. ASSUME t \notin disturbed'
      PROVE  \A d \in Calls : call[d].task # t
  BY <1>3, <1>8, BusyMeans
<1>9. ASSUME t \notin disturbed'
      PROVE  Progress(c)'
  <2>1. Agree(told[t], row[t])
    BY <1>1, <1>3, <1>9 DEF IInv, EventsTellTheTask, Agree, Exists
  <2>2. QED  BY <1>3, <1>5, <2>1 DEF Progress
<1>10. QED
  BY <1>1, <1>3, <1>5, <1>6, <1>7, <1>8, <1>9, OneCallMoves

\* UpdateTask, alone on its task, leaves the row its events describe.
LEMMA UpdateIInv ==
    ASSUME IInv, NEW c \in Calls, UpdateTask(c)
    PROVE  IInv'
<1> DEFINE t == call[c].task
           new == Merge(call[c].request, call[c].existing)
           events == UpdateEvents(c)
<1>1. /\ TypeOK /\ t \in Tasks
      /\ call[c].op = "update" /\ call[c].step = "write"
      /\ call[c].request \in Requests["update"]
  BY DEF IInv, CallInv, CallOK, UpdateTask, At
<1>2. call[c].existing \in Rows
  BY <1>1, CallTypes
<1>3. /\ WriteRow(c) /\ PublishNext(c, events)
      /\ UNCHANGED <<told, link, disturbed>>
  BY DEF UpdateTask
<1>4. events \in Seq(Rows) /\ (events # <<>> => Len(events) \in {1, 2})
  <2>1. Agree(call[c].existing, call[c].existing)
    BY DEF Agree
  <2>2. QED  BY <1>1, <1>2, <2>1, UpdateIsTold
<1>5. /\ row' \in [Tasks -> Rows] /\ life' = life /\ life[t] = "alive"
      /\ row'[t] = Written(c)
      /\ \A u \in Tasks \ {t} : row'[u] = row[u]
  BY <1>1, <1>3, WriteRowType
<1>6. /\ call' \in [Calls -> CallStates]
      /\ \A d \in Calls :
            call'[d].step = "publish" <=> call'[d].pending # <<>>
      /\ \A d \in Calls \ {c} : call'[d] = call[d]
      /\ events = <<>> => call'[c].task = NoTask /\ call'[c].step = "done"
      /\ events # <<>> => /\ call'[c].task = t
                          /\ call'[c].step = "publish"
                          /\ call'[c].pending = events
  BY <1>1, <1>3, <1>4, PublishNextType
<1>7. TypeOK'
  BY <1>1, <1>3, <1>5, <1>6 DEF TypeOK
<1>8. CallOK(c)'
  BY <1>1, <1>4, <1>5, <1>6 DEF CallOK
<1>9. ASSUME t \notin disturbed'
      PROVE  /\ \A d \in Calls \ {c} : call[d].task # t
             /\ row'[t] = new
             /\ Agree(told[t], call[c].existing)
  <2>1. \A d \in Calls \ {c} : call[d].task # t
    BY <1>1, <1>3, <1>9 DEF IInv, AloneInv
  <2>2. call[c].existing = row[t] /\ Agree(told[t], row[t])
    BY <1>1, <1>3, <1>5, <1>9 DEF IInv, ProgressInv, Progress, Exists
  <2>3. QED
    BY <1>1, <1>2, <1>5, <2>1, <2>2, WrittenIsAfter, AfterUpdate
<1>10. ASSUME t \notin disturbed'
       PROVE  /\ call'[c].task = t => Progress(c)'
              /\ call'[c].task # t => Agree(told'[t], row'[t])
  <2>1. told[t] \in Rows
    BY <1>1 DEF TypeOK
  <2>2. /\ events = <<>> => Agree(told[t], new)
        /\ events # <<>> => Agree(Hear(events, told[t]), new)
    BY <1>1, <1>2, <1>9, <1>10, <2>1, UpdateIsTold
  <2>3. QED
    BY <1>1, <1>3, <1>6, <1>9, <1>10, <2>2, TaskServiceAssumption
       DEF Progress
<1>11. QED
  BY <1>1, <1>3, <1>5, <1>6, <1>7, <1>8, <1>9, <1>10, OneCallMoves

\* UpdateTaskStatus, AssignTask and UpdateTaskLabor write and read again.
LEMMA WriteThenRereadIInv ==
    ASSUME IInv, NEW c \in Calls, NEW op \in {"status", "assign", "labor"},
           WriteThenReread(c, op)
    PROVE  IInv'
<1> DEFINE t == call[c].task
           next == [call[c] EXCEPT !.step = "reread"]
<1>1. /\ TypeOK /\ t \in Tasks
      /\ call[c].op = op /\ call[c].step = "write"
      /\ call[c].request \in Requests[op]
  BY DEF IInv, CallInv, CallOK, WriteThenReread, At
<1>2. /\ WriteRow(c)
      /\ call' = [call EXCEPT ![c].step = "reread"]
      /\ UNCHANGED <<told, link, disturbed>>
  BY DEF WriteThenReread
<1>3. /\ row' \in [Tasks -> Rows] /\ life' = life /\ life[t] = "alive"
      /\ row'[t] = Written(c)
      /\ \A u \in Tasks \ {t} : row'[u] = row[u]
  BY <1>1, <1>2, WriteRowType
<1>4. /\ call' = [call EXCEPT ![c] = next]
      /\ call'[c] = next
      /\ \A d \in Calls \ {c} : call'[d] = call[d]
  BY <1>1, <1>2 DEF TypeOK
<1>5. /\ next \in CallStates
      /\ next.step = "reread" /\ next.task = t /\ next.op = op
      /\ next.request = call[c].request
      /\ next.existing = call[c].existing
      /\ next.pending = call[c].pending
  BY <1>1, CallTypes DEF CallStates
<1>6. TypeOK'
  BY <1>1, <1>2, <1>3, <1>4, <1>5 DEF TypeOK
<1>7. CallOK(c)'
  BY <1>1, <1>3, <1>4, <1>5 DEF CallOK, ReadingOps
<1>8. ASSUME t \notin disturbed'
      PROVE  /\ \A d \in Calls \ {c} : call[d].task # t
             /\ Progress(c)'
  <2>1. \A d \in Calls \ {c} : call[d].task # t
    BY <1>1, <1>2, <1>8 DEF IInv, AloneInv
  <2>2. call[c].existing = row[t] /\ Agree(told[t], row[t])
    BY <1>1, <1>2, <1>3, <1>8 DEF IInv, ProgressInv, Progress, Exists
  <2>3. row'[t] = After(c)
    BY <1>3, <2>2, WrittenIsAfter
  <2>4. After(c)' = After(c)
    BY <1>4, <1>5 DEF After, StatementColumns, HoursReported
  <2>5. QED
    BY <1>2, <1>4, <1>5, <2>1, <2>2, <2>3, <2>4 DEF Progress
<1>9. QED
  BY <1>1, <1>2, <1>3, <1>4, <1>5, <1>6, <1>7, <1>8, OneCallMoves

\* Having read the row back, the call turns to publishing events that tell
\* a reader of the row read first what became of it.
LEMMA RereadIInv ==
    ASSUME IInv, NEW c \in Calls, NEW op \in {"status", "assign", "labor"},
           NEW events \in Seq(Rows),
           Reread(c, op, events),
           events # <<>> => Len(events) \in {1, 2},
           call[c].task \notin disturbed =>
              LET t == call[c].task
              IN  /\ events = <<>> => Agree(told[t], row[t])
                  /\ events # <<>> => Agree(Hear(events, told[t]), row[t])
    PROVE  IInv'
<1> DEFINE t == call[c].task
<1>1. /\ TypeOK /\ t \in Tasks /\ life[t] = "alive"
      /\ call[c].op = op /\ call[c].step = "reread"
  BY DEF IInv, CallInv, CallOK, Reread, At, Exists
<1>2. PublishNext(c, events) /\ UNCHANGED <<life, row, told, link, disturbed>>
  BY DEF Reread
<1>3. /\ call' \in [Calls -> CallStates]
      /\ \A d \in Calls :
            call'[d].step = "publish" <=> call'[d].pending # <<>>
      /\ \A d \in Calls \ {c} : call'[d] = call[d]
      /\ events = <<>> => call'[c].task = NoTask /\ call'[c].step = "done"
      /\ events # <<>> => /\ call'[c].task = t
                          /\ call'[c].step = "publish"
                          /\ call'[c].pending = events
  BY <1>1, <1>2, PublishNextType
<1>4. TypeOK'
  BY <1>1, <1>2, <1>3 DEF TypeOK
<1>5. CallOK(c)'
  BY <1>1, <1>2, <1>3 DEF CallOK
<1>6. t \notin disturbed' => \A d \in Calls \ {c} : call[d].task # t
  BY <1>1, <1>2 DEF IInv, AloneInv
<1>7. ASSUME t \notin disturbed'
      PROVE  /\ call'[c].task = t => Progress(c)'
             /\ call'[c].task # t => Agree(told'[t], row'[t])
  BY <1>1, <1>2, <1>3, <1>7, TaskServiceAssumption DEF Progress
<1>8. QED
  BY <1>1, <1>2, <1>3, <1>4, <1>5, <1>6, <1>7, OneCallMoves

\* What the three handlers know when they have read the row back.
LEMMA BeforeReread ==
    ASSUME IInv, NEW c \in Calls, call[c].step = "reread",
           Exists(call[c].task)
    PROVE  LET t == call[c].task
           IN  /\ call[c].existing \in Rows
               /\ row[t] \in Rows
               /\ told[t] \in Rows
               /\ call[c].request \in Requests[call[c].op]
               /\ t \notin disturbed => /\ row[t] = After(c)
                                        /\ Agree(told[t], call[c].existing)
<1>1. TypeOK /\ call[c].task \in Tasks
        /\ call[c].request \in Requests[call[c].op]
  BY DEF IInv, CallInv, CallOK
<1>2. QED
  BY <1>1, CallTypes DEF IInv, TypeOK, ProgressInv, Progress

\* One event at most, whatever row is read back.
LEMMA EventsTyped ==
    ASSUME NEW c \in Calls, NEW u \in Rows,
           call[c].existing \in Rows, call[c].request \in Rows
    PROVE  \A events \in {StatusEvents(c, u), AssignEvents(c, u), <<u>>} :
              /\ events \in Seq(Rows)
              /\ events # <<>> => Len(events) \in {1, 2}
<1>1. \A k \in Columns : /\ u[k] \in Nat
                         /\ call[c].request[k] \in Nat
                         /\ call[c].existing[k] \in Nat
  BY DEF Rows
<1>2. [u EXCEPT !["actual"] = Given(HoursReported(c), @)] \in Rows
  BY <1>1 DEF HoursReported, Given, Rows, Columns
<1>3. [Only(u, {"status", "deadline"})
          EXCEPT !["assignee"] = call[c].request["assignee"]] \in Rows
  BY <1>1, OnlyType DEF Rows, Columns
<1>4. /\ StatusEvents(c, u) \in Seq(Rows)
      /\ StatusEvents(c, u) # <<>> => Len(StatusEvents(c, u)) \in {1, 2}
  BY <1>2 DEF StatusEvents
<1>5. /\ AssignEvents(c, u) \in Seq(Rows)
      /\ AssignEvents(c, u) # <<>> => Len(AssignEvents(c, u)) \in {1, 2}
  BY <1>3 DEF AssignEvents
<1>6. <<u>> \in Seq(Rows) /\ Len(<<u>>) \in {1, 2}
  OBVIOUS
<1>7. QED  BY <1>4, <1>5, <1>6

LEMMA AnnounceStatusIInv ==
    ASSUME IInv, NEW c \in Calls, AnnounceStatus(c)
    PROVE  IInv'
<1> DEFINE t == call[c].task
           events == StatusEvents(c, row[t])
<1>1. /\ call[c].step = "reread" /\ call[c].op = "status" /\ Exists(t)
      /\ Reread(c, "status", events)
  BY DEF AnnounceStatus, Reread, At
<1>2. call[c].request \in Requests["status"] /\ call[c].request \in Rows
  BY <1>1, BeforeReread, RequestFields DEF Required
<1>3. events \in Seq(Rows) /\ (events # <<>> => Len(events) \in {1, 2})
  BY <1>1, <1>2, BeforeReread, EventsTyped
<1>4. ASSUME t \notin disturbed
      PROVE  /\ events = <<>> => Agree(told[t], row[t])
             /\ events # <<>> => Agree(Hear(events, told[t]), row[t])
  BY <1>1, <1>2, <1>4, BeforeReread, StatusIsTold
<1>5. QED  BY <1>1, <1>3, <1>4, RereadIInv

LEMMA AnnounceAssignmentIInv ==
    ASSUME IInv, NEW c \in Calls, AnnounceAssignment(c)
    PROVE  IInv'
<1> DEFINE t == call[c].task
           events == AssignEvents(c, row[t])
<1>1. /\ call[c].step = "reread" /\ call[c].op = "assign" /\ Exists(t)
      /\ Reread(c, "assign", events)
  BY DEF AnnounceAssignment, Reread, At
<1>2. call[c].request \in Requests["assign"] /\ call[c].request \in Rows
  BY <1>1, BeforeReread, RequestFields DEF Required
<1>3. events \in Seq(Rows) /\ (events # <<>> => Len(events) \in {1, 2})
  BY <1>1, <1>2, BeforeReread, EventsTyped
<1>4. ASSUME t \notin disturbed
      PROVE  /\ events = <<>> => Agree(told[t], row[t])
             /\ events # <<>> => Agree(Hear(events, told[t]), row[t])
  BY <1>1, <1>2, <1>4, BeforeReread, AssignmentIsTold
<1>5. QED  BY <1>1, <1>3, <1>4, RereadIInv

LEMMA AnnounceLaborIInv ==
    ASSUME IInv, NEW c \in Calls, AnnounceLabor(c)
    PROVE  IInv'
<1> DEFINE t == call[c].task
           events == <<row[t]>>
<1>1. /\ call[c].step = "reread" /\ call[c].op = "labor" /\ Exists(t)
      /\ Reread(c, "labor", events)
  BY DEF AnnounceLabor, Reread, At
<1>2. call[c].request \in Requests["labor"] /\ call[c].request \in Rows
  BY <1>1, BeforeReread, RequestFields DEF Required
<1>3. events \in Seq(Rows) /\ (events # <<>> => Len(events) \in {1, 2})
  BY <1>1, <1>2, BeforeReread, EventsTyped
<1>4. ASSUME t \notin disturbed
      PROVE  /\ events = <<>> => Agree(told[t], row[t])
             /\ events # <<>> => Agree(Hear(events, told[t]), row[t])
  BY <1>1, <1>2, <1>4, BeforeReread, LaborIsTold
<1>5. QED  BY <1>1, <1>3, <1>4, RereadIInv

\* Each event published leaves one less for the reader to hear.
LEMMA PublishIInv ==
    ASSUME IInv, NEW c \in Calls, PublishEvent(c)
    PROVE  IInv'
<1> DEFINE t == call[c].task
           p == call[c].pending
<1>1. /\ TypeOK /\ t \in Tasks /\ life[t] # "unborn"
      /\ call[c].step = "publish"
      /\ p \in Seq(Rows) /\ Len(p) \in {1, 2}
  BY CallTypes DEF IInv, CallInv, CallOK, PublishEvent
<1>2. /\ Head(p) = p[1] /\ p[1] \in Rows
      /\ Tail(p) \in Seq(Rows)
      /\ Len(Tail(p)) = Len(p) - 1
      /\ Len(p) = 2 => Tail(p)[1] = p[2]
      /\ Tail(p) = <<>> <=> Len(p) = 1
  <2>1. p # <<>>
    BY <1>1, EmptySeq
  <2>2. /\ Head(p) = p[1] /\ p[1] \in Rows
    BY <1>1, <2>1, HeadTailProperties
  <2>3. /\ Tail(p) \in Seq(Rows) /\ Len(Tail(p)) = Len(p) - 1
        /\ \A i \in 1 .. Len(Tail(p)) : Tail(p)[i] = p[i+1]
    BY <1>1, <2>1, HeadTailProperties
  <2>4. Len(p) = 2 => Tail(p)[1] = p[2]
    BY <2>3
  <2>5. Tail(p) = <<>> <=> Len(p) = 1
    <3>1. Tail(p) = <<>> => Len(Tail(p)) = 0
      BY EmptySeq
    <3>2. Tail(p) # <<>> => Len(Tail(p)) # 0
      BY <2>3, EmptySeq
    <3>3. QED  BY <1>1, <2>3, <3>1, <3>2
  <2>6. QED  BY <2>2, <2>3, <2>4, <2>5
<1>3. /\ PublishNext(c, Tail(p))
      /\ UNCHANGED <<life, row, link>>
      /\ \/ told' = [told EXCEPT ![t] = Merge(Head(p), @)]
              /\ disturbed' = disturbed
         \/ disturbed' = disturbed \cup {t} /\ told' = told
  BY DEF PublishEvent
<1>4. /\ call' \in [Calls -> CallStates]
      /\ \A d \in Calls :
            call'[d].step = "publish" <=> call'[d].pending # <<>>
      /\ \A d \in Calls \ {c} : call'[d] = call[d]
      /\ Tail(p) = <<>> => call'[c].task = NoTask /\ call'[c].step = "done"
      /\ Tail(p) # <<>> => /\ call'[c].task = t
                           /\ call'[c].step = "publish"
                           /\ call'[c].pending = Tail(p)
  BY <1>1, <1>2, <1>3, PublishNextType
<1>5. told[t] \in Rows /\ Merge(Head(p), told[t]) \in Rows
  BY <1>1, <1>2, MergeType DEF TypeOK
<1>6. /\ told' \in [Tasks -> Rows]
      /\ \A u \in Tasks \ {t} : told'[u] = told[u]
      /\ t \notin disturbed' => told'[t] = Merge(Head(p), told[t])
  BY <1>1, <1>3, <1>5 DEF TypeOK
<1>7. TypeOK'
  BY <1>1, <1>3, <1>4, <1>6 DEF TypeOK
<1>8. CallOK(c)'
  <2>1. CASE Tail(p) = <<>>
    BY <1>4, <2>1 DEF CallOK
  <2>2. CASE Tail(p) # <<>>
    <3>1. Len(Tail(p)) = 1
      BY <1>1, <1>2, <2>2
    <3>2. QED  BY <1>1, <1>3, <1>4, <2>2, <3>1 DEF CallOK
  <2>3. QED  BY <2>1, <2>2
<1>9. t \notin disturbed' => \A d \in Calls \ {c} : call[d].task # t
  BY <1>1, <1>3 DEF IInv, AloneInv
<1>10. ASSUME t \notin disturbed', life'[t] = "alive"
       PROVE  /\ call'[c].task = t => Progress(c)'
              /\ call'[c].task # t => Agree(told'[t], row'[t])
  <2>1. Agree(Hear(p, told[t]), row[t])
    BY <1>1, <1>3, <1>10 DEF IInv, ProgressInv, Progress, Exists
  <2>2. CASE Len(p) = 1
    <3>1. Agree(told'[t], row'[t])
      BY <1>2, <1>3, <1>6, <1>10, <2>1, <2>2 DEF Hear
    <3>2. call'[c].task # t
      BY <1>1, <1>2, <1>4, <2>2, TaskServiceAssumption
    <3>3. QED  BY <3>1, <3>2
  <2>3. CASE Len(p) = 2
    <3>1. Tail(p) # <<>> /\ Len(Tail(p)) = 1
      BY <1>2, <2>3
    <3>2. Hear(Tail(p), told'[t]) = Hear(p, told[t])
      BY <1>2, <1>6, <1>10, <2>3, <3>1 DEF Hear
    <3>3. Agree(Hear(Tail(p), told'[t]), row'[t])
      BY <1>3, <2>1, <3>2
    <3>4. QED  BY <1>4, <3>1, <3>3 DEF Progress
  <2>4. QED  BY <1>1, <2>2, <2>3
<1>11. QED
  BY <1>1, <1>3, <1>4, <1>6, <1>7, <1>8, <1>9, <1>10, OneCallMoves

\* A deleted row needs no events.
LEMMA DeleteIInv ==
    ASSUME IInv, NEW c \in Calls, NEW t \in Tasks, DeleteTask(c, t)
    PROVE  IInv'
<1>1. /\ TypeOK /\ call[c].task = NoTask
      /\ Return(c)
      /\ life' = [life EXCEPT ![t] = "deleted"]
      /\ row' = [row EXCEPT ![t] = Blank]
      /\ UNCHANGED <<told, link, disturbed>>
  BY DEF IInv, CallInv, CallOK, DeleteTask, Remove
<1>2. /\ call' \in [Calls -> CallStates]
      /\ \A d \in Calls :
            call'[d].step = "publish" <=> call'[d].pending # <<>>
      /\ \A d \in Calls \ {c} : call'[d] = call[d]
      /\ call'[c].task = NoTask
      /\ call'[c].step = "done"
  BY <1>1, ReturnType
<1>3. Blank \in Rows
  BY DEF Blank, Rows
<1>4. TypeOK'
  BY <1>1, <1>2, <1>3 DEF TypeOK
<1>5. CallOK(c)'
  BY <1>2 DEF CallOK
<1>6. /\ life'[t] = "deleted"
      /\ \A u \in Tasks \ {t} : life'[u] = life[u] /\ row'[u] = row[u]
  BY <1>1 DEF TypeOK
<1>7. QED
  BY <1>1, <1>2, <1>4, <1>5, <1>6, OneCallMoves

LEMMA CascadeIInv ==
    ASSUME IInv, NEW t \in Tasks, Cascade(t)
    PROVE  IInv'
<1>1. /\ TypeOK /\ life[t] = "alive"
      /\ life' = [life EXCEPT ![t] = "deleted"]
      /\ row' = [row EXCEPT ![t] = Blank]
      /\ UNCHANGED <<call, told, link, disturbed>>
  BY DEF IInv, Cascade, Remove, Exists
<1>2. Blank \in Rows
  BY DEF Blank, Rows
<1>3. /\ life'[t] = "deleted"
      /\ \A u \in Tasks \ {t} : life'[u] = life[u] /\ row'[u] = row[u]
  BY <1>1 DEF TypeOK
<1>4. TypeOK'
  BY <1>1, <1>2 DEF TypeOK
<1>5. CallInv' /\ UnbornInv' /\ AloneInv'
  BY <1>1, <1>3 DEF IInv, CallInv, CallOK, UnbornInv, AloneInv
<1>6. ProgressInv'
  <2> SUFFICES ASSUME NEW d \in Calls,
                      call[d].task \in Tasks \ disturbed,
                      life'[call[d].task] = "alive"
               PROVE  Progress(d)'
    BY <1>1 DEF ProgressInv, Exists
  <2>1. call[d].task # t
    BY <1>3
  <2>2. Progress(d)
    BY <1>3, <2>1 DEF IInv, ProgressInv, Exists
  <2>3. QED  BY <1>1, <1>3, <2>1, <2>2, ProgressKept
<1>7. EventsTellTheTask'
  BY <1>1, <1>3 DEF IInv, EventsTellTheTask, Exists, Busy
<1>8. QED  BY <1>4, <1>5, <1>6, <1>7 DEF IInv

\* A call that gives up before its statement had an effect has done nothing.
LEMMA FailBeforeWriteIInv ==
    ASSUME IInv, NEW c \in Calls, FailBeforeWrite(c)
    PROVE  IInv'
<1> DEFINE t == call[c].task
<1>1. /\ TypeOK /\ t \in Tasks /\ life[t] # "unborn"
      /\ call[c].step = "write"
      /\ Return(c)
      /\ UNCHANGED <<life, row, told, link, disturbed>>
  BY DEF IInv, CallInv, CallOK, FailBeforeWrite
<1>2. /\ call' \in [Calls -> CallStates]
      /\ \A d \in Calls :
            call'[d].step = "publish" <=> call'[d].pending # <<>>
      /\ \A d \in Calls \ {c} : call'[d] = call[d]
      /\ call'[c].task = NoTask
      /\ call'[c].step = "done"
  BY <1>1, ReturnType
<1>3. TypeOK'
  BY <1>1, <1>2 DEF TypeOK
<1>4. CallOK(c)'
  BY <1>2 DEF CallOK
<1>5. t \notin disturbed' => \A d \in Calls \ {c} : call[d].task # t
  BY <1>1 DEF IInv, AloneInv
<1>6. t \notin disturbed' /\ life'[t] = "alive" => Agree(told'[t], row'[t])
  BY <1>1 DEF IInv, ProgressInv, Progress, Exists
<1>7. QED
  BY <1>1, <1>2, <1>3, <1>4, <1>5, <1>6, TaskServiceAssumption, OneCallMoves

\* One that fails later disturbs its task.
LEMMA FailAfterWriteIInv ==
    ASSUME IInv, NEW c \in Calls, FailAfterWrite(c)
    PROVE  IInv'
<1> DEFINE t == call[c].task
<1>1. /\ TypeOK /\ t \in Tasks /\ life[t] # "unborn"
      /\ \/ WriteRow(c)
         \/ UNCHANGED <<life, row>>
      /\ Return(c)
      /\ disturbed' = disturbed \cup {t}
      /\ UNCHANGED <<told, link>>
  BY DEF IInv, CallInv, CallOK, FailAfterWrite
<1>2. /\ call' \in [Calls -> CallStates]
      /\ \A d \in Calls :
            call'[d].step = "publish" <=> call'[d].pending # <<>>
      /\ \A d \in Calls \ {c} : call'[d] = call[d]
      /\ call'[c].task = NoTask
      /\ call'[c].step = "done"
  BY <1>1, ReturnType
<1>3. /\ row' \in [Tasks -> Rows] /\ life' = life
      /\ \A u \in Tasks \ {t} : row'[u] = row[u]
  <2>1. CASE WriteRow(c)
    BY <1>1, <2>1, WriteRowType
  <2>2. CASE UNCHANGED <<life, row>>
    BY <1>1, <2>2 DEF TypeOK
  <2>3. QED  BY <1>1, <2>1, <2>2
<1>4. TypeOK'
  BY <1>1, <1>2, <1>3 DEF TypeOK
<1>5. CallOK(c)'
  BY <1>2 DEF CallOK
<1>6. QED
  BY <1>1, <1>2, <1>3, <1>4, <1>5, OneCallMoves

LEMMA FailAfterInsertIInv ==
    ASSUME IInv, NEW c \in Calls, NEW t \in Tasks,
           NEW r \in Requests["create"], FailAfterInsert(c, t, r)
    PROVE  IInv'
<1> DEFINE created == [r EXCEPT !["status"] = TODO]
<1>1. /\ TypeOK /\ call[c].task = NoTask
      /\ life' = [life EXCEPT ![t] = "alive"]
      /\ row' = [row EXCEPT ![t] = created]
      /\ Return(c)
      /\ disturbed' = disturbed \cup {t}
      /\ UNCHANGED <<told, link>>
  BY DEF IInv, CallInv, CallOK, FailAfterInsert, Insert
<1>2. created \in Rows
  BY RequestFields DEF Required, Rows, TODO
<1>3. /\ call' \in [Calls -> CallStates]
      /\ \A d \in Calls :
            call'[d].step = "publish" <=> call'[d].pending # <<>>
      /\ \A d \in Calls \ {c} : call'[d] = call[d]
      /\ call'[c].task = NoTask
      /\ call'[c].step = "done"
  BY <1>1, ReturnType
<1>4. TypeOK'
  BY <1>1, <1>2, <1>3 DEF TypeOK
<1>5. CallOK(c)'
  BY <1>3 DEF CallOK
<1>6. /\ life'[t] = "alive"
      /\ \A u \in Tasks \ {t} : life'[u] = life[u] /\ row'[u] = row[u]
  BY <1>1 DEF TypeOK
<1>7. QED
  BY <1>1, <1>3, <1>4, <1>5, <1>6, OneCallMoves

LEMMA BreakLinkIInv ==
    ASSUME IInv, BreakLink
    PROVE  IInv'
<1>1. UNCHANGED <<life, row, call, told, disturbed>> /\ link' = "broken"
  BY DEF BreakLink
<1>2. TypeOK'
  BY <1>1 DEF IInv, TypeOK
<1>3. CallInv' /\ UnbornInv' /\ AloneInv' /\ EventsTellTheTask'
  BY <1>1 DEF IInv, CallInv, CallOK, UnbornInv, AloneInv, EventsTellTheTask,
              Exists, Busy
<1>4. ProgressInv'
  BY <1>1, ProgressKept DEF IInv, ProgressInv, Exists
<1>5. QED  BY <1>2, <1>3, <1>4 DEF IInv

\* A crash disturbs every task somebody works on.
LEMMA CrashIInv ==
    ASSUME IInv, Crash
    PROVE  IInv'
<1>1. /\ TypeOK
      /\ call' = [c \in Calls |->
                    IF call[c].step = "fresh" THEN Fresh ELSE Returned]
      /\ disturbed' = disturbed \cup {t \in Tasks : Busy(t) # {}}
      /\ link' = "up"
      /\ UNCHANGED <<life, row, told>>
  BY DEF IInv, Crash
<1>2. \A c \in Calls : /\ call'[c].step \in {"fresh", "done"}
                       /\ call'[c].task = NoTask
                       /\ call'[c].pending = <<>>
  BY <1>1 DEF Fresh, Returned
<1>3. TypeOK'
  BY <1>1, <1>2, FreshType DEF TypeOK
<1>4. CallInv' /\ UnbornInv'
  BY <1>1, <1>2 DEF IInv, CallInv, CallOK, UnbornInv
<1>5. AloneInv' /\ ProgressInv'
  BY <1>2, TaskServiceAssumption DEF AloneInv, ProgressInv
<1>6. EventsTellTheTask'
  BY <1>1 DEF IInv, EventsTellTheTask, Exists
<1>7. QED  BY <1>3, <1>4, <1>5, <1>6 DEF IInv

LEMMA InitIInv == Init => IInv
<1> SUFFICES ASSUME Init
             PROVE  IInv
  OBVIOUS
<1>1. \A c \in Calls : call[c] = Fresh
  BY DEF Init
<1>2. Fresh.step = "fresh" /\ Fresh.task = NoTask /\ Fresh.pending = <<>>
  BY DEF Fresh
<1>3. TypeOK
  <2>1. Blank \in Rows
    BY DEF Blank, Rows
  <2>2. QED  BY <1>1, <1>2, <2>1, FreshType DEF Init, TypeOK
<1>4. CallInv
  BY <1>1, <1>2 DEF CallInv, CallOK
<1>5. AloneInv /\ ProgressInv
  BY <1>1, <1>2, TaskServiceAssumption DEF AloneInv, ProgressInv
<1>6. UnbornInv /\ EventsTellTheTask
  BY DEF Init, UnbornInv, EventsTellTheTask, Exists
<1>7. QED  BY <1>3, <1>4, <1>5, <1>6 DEF IInv

-----------------------------------------------------------------------------

\* The books are kept throughout every behaviour.
THEOREM TaskInvariant == Spec => []IInv
<1>1. Init => IInv
  BY InitIInv
<1>2. IInv /\ [Next]_vars => IInv'
  <2> SUFFICES ASSUME IInv, [Next]_vars
               PROVE  IInv'
    OBVIOUS
  <2>1. CASE UNCHANGED vars
    <3>1. UNCHANGED <<life, row, call, told, link, disturbed>>
      BY <2>1 DEF vars
    <3>2. TypeOK' /\ CallInv' /\ UnbornInv' /\ AloneInv' /\ EventsTellTheTask'
      BY <3>1 DEF IInv, TypeOK, CallInv, CallOK, UnbornInv, AloneInv,
                  EventsTellTheTask, Exists, Busy
    <3>3. ProgressInv'
      BY <3>1, ProgressKept DEF IInv, ProgressInv, Exists
    <3>4. QED  BY <3>2, <3>3 DEF IInv
  <2>2. CASE Next
    BY <2>2, CreateIInv, ReadIInv, DeleteIInv, UpdateIInv, WriteThenRereadIInv,
       AnnounceStatusIInv, AnnounceAssignmentIInv, AnnounceLaborIInv,
       PublishIInv, FailBeforeWriteIInv, FailAfterWriteIInv,
       FailAfterInsertIInv, CascadeIInv, BreakLinkIInv, CrashIInv
       DEF Next, UpdateTaskStatus, AssignTask, UpdateTaskLabor
  <2>3. QED  BY <2>1, <2>2
<1>3. QED  BY <1>1, <1>2, PTL DEF Spec

\* Rows, calls and events keep their types.
THEOREM TaskTypeCorrect == Spec => []TypeOK
<1>1. IInv => TypeOK
  BY DEF IInv
<1>2. QED  BY <1>1, TaskInvariant, PTL

\* With no overlap and no fault, the events of a task add up to its row.
THEOREM TheEventsTellTheTask == Spec => []EventsTellTheTask
<1>1. IInv => EventsTellTheTask
  BY DEF IInv
<1>2. QED  BY <1>1, TaskInvariant, PTL

\* No statement brings a deleted row back.
LEMMA LifeMoves ==
    ASSUME TypeOK, Next, NEW t \in Tasks, life[t] = "deleted"
    PROVE  life'[t] = "deleted"
<1>2. ASSUME NEW u \in Tasks, NEW r, Insert(u, r)
      PROVE  life'[t] = "deleted"
  BY <1>2 DEF Insert, TypeOK
<1>3. ASSUME NEW u \in Tasks, Remove(u)
      PROVE  life'[t] = "deleted"
  BY <1>3 DEF Remove, TypeOK
<1>4. CASE UNCHANGED life
  BY <1>4
<1>5. ASSUME NEW c \in Calls, WriteRow(c)
      PROVE  life'[t] = "deleted"
  BY <1>5 DEF WriteRow
<1>6. QED
  BY <1>2, <1>3, <1>4, <1>5
     DEF Next, CreateTask, FailAfterInsert, ReadTask, DeleteTask, UpdateTask,
         UpdateTaskStatus, AssignTask, UpdateTaskLabor, WriteThenReread,
         AnnounceStatus, AnnounceAssignment, AnnounceLabor, Reread,
         PublishEvent, FailBeforeWrite, FailAfterWrite, Cascade, BreakLink,
         Crash

\* A deleted task is deleted for good, whatever late writes arrive.
THEOREM DeletedStaysDeleted == Spec => DeletedForGood
<1>1. TypeOK /\ [Next]_vars =>
         [\A t \in Tasks : life[t] = "deleted" => life'[t] = "deleted"]_vars
  BY LifeMoves
<1>2. QED  BY <1>1, TaskTypeCorrect, PTL DEF Spec, DeletedForGood

\* A statement of call c moves the columns that are its business, and the
\* assignee of a disturbed task.
LEMMA WriteMoves ==
    ASSUME IInv, NEW c \in Calls, call[c].step = "write", WriteRow(c),
           NEW k \in Columns, row'[call[c].task][k] # row[call[c].task][k]
    PROVE  \/ call[c].op \in OwnersOf(k)
           \/ k = "assignee" /\ call[c].task \in disturbed
<1> DEFINE t == call[c].task
<1>1. /\ TypeOK /\ t \in Tasks /\ Exists(t)
      /\ call[c].op \in ReadingOps
      /\ call[c].request \in Requests[call[c].op]
  BY DEF IInv, CallInv, CallOK, WriteRow
<1>2. row'[t] = Written(c)
  BY <1>1, WriteRowType
<1>3. k \in StatementColumns(c)
  BY <1>2 DEF Written
<1>4. CASE call[c].op = "update" /\ k = "assignee" /\ t \notin disturbed
  <2>1. call[c].request["assignee"] = 0
    BY <1>1, <1>4, RequestFields
  <2>2. call[c].existing = row[t]
    BY <1>1, <1>4 DEF IInv, ProgressInv, Progress
  <2>3. row'[t][k] = row[t][k]
    BY <1>2, <1>4, <2>1, <2>2 DEF Written, Given
  <2>4. QED  BY <2>3
<1>5. CASE call[c].op = "update" /\ k \in {"deadline", "planned"}
  BY <1>5 DEF OwnersOf
<1>6. CASE call[c].op = "status"
  <2>1. k \in {"status", "actual"}
    BY <1>3, <1>6 DEF StatementColumns
  <2>2. QED  BY <1>6, <2>1 DEF OwnersOf
<1>7. CASE call[c].op = "assign"
  BY <1>3, <1>7 DEF StatementColumns, OwnersOf
<1>8. CASE call[c].op = "labor"
  <2>1. k \in {"planned", "actual"}
    BY <1>3, <1>8 DEF StatementColumns
  <2>2. QED  BY <1>8, <2>1 DEF OwnersOf
<1>9. call[c].op = "update" => k \in {"assignee", "deadline", "planned"}
  BY <1>3 DEF StatementColumns
<1>10. QED  BY <1>1, <1>4, <1>5, <1>6, <1>7, <1>8, <1>9 DEF ReadingOps

\* The steps that change a row which is there before and after.
LEMMA RowMoves ==
    ASSUME IInv, Next, NEW t \in Tasks, Exists(t), Exists(t)',
           row'[t] # row[t]
    PROVE  \E c \in Calls :
              /\ call[c].task = t
              /\ call[c].step = "write" /\ call'[c].step # "write"
              /\ WriteRow(c)
<1> DEFINE Writes(c) == /\ call[c].task = t
                        /\ call[c].step = "write" /\ call'[c].step # "write"
                        /\ WriteRow(c)
<1>1. TypeOK
  BY DEF IInv
<1>2. ASSUME NEW u \in Tasks, NEW r, Insert(u, r)
      PROVE  FALSE
  BY <1>1, <1>2 DEF Insert, Exists, TypeOK
<1>3. ASSUME NEW u \in Tasks, Remove(u)
      PROVE  FALSE
  BY <1>1, <1>3 DEF Remove, Exists, TypeOK
<1>4. ASSUME NEW c \in Calls, WriteRow(c)
      PROVE  call[c].task = t
  BY <1>1, <1>4 DEF WriteRow, TypeOK
<1>5. ASSUME NEW c \in Calls, UpdateTask(c)
      PROVE  Writes(c)
  <2>1. /\ call[c].step = "write" /\ WriteRow(c)
        /\ PublishNext(c, UpdateEvents(c))
    BY <1>5 DEF UpdateTask, At
  <2>2. call'[c].step # "write"
    BY <1>1, <2>1, CallTypes
       DEF PublishNext, Returned, Fresh, TypeOK, CallStates
  <2>3. QED  BY <1>4, <2>1, <2>2
<1>6. ASSUME NEW c \in Calls, NEW op, WriteThenReread(c, op)
      PROVE  Writes(c)
  <2>1. /\ call[c].step = "write" /\ WriteRow(c)
        /\ call' = [call EXCEPT ![c].step = "reread"]
    BY <1>6 DEF WriteThenReread, At
  <2>2. call'[c].step = "reread"
    BY <1>1, <2>1, CallTypes DEF TypeOK, CallStates
  <2>3. QED  BY <1>4, <2>1, <2>2
<1>7. ASSUME NEW c \in Calls, FailAfterWrite(c)
      PROVE  Writes(c)
  <2>1. call[c].step = "write" /\ WriteRow(c)
    BY <1>7 DEF FailAfterWrite
  <2>2. Return(c)
    BY <1>7 DEF FailAfterWrite
  <2>3. call'[c].step = "done"
    BY <1>1, <2>2, ReturnType
  <2>4. QED  BY <1>4, <2>1, <2>3
<1>8. CASE UNCHANGED row
  BY <1>8
<1>9. QED
  <2> HIDE DEF Writes
  <2>1. \E c \in Calls : Writes(c)
    BY <1>2, <1>3, <1>5, <1>6, <1>7, <1>8
       DEF Next, CreateTask, FailAfterInsert, ReadTask, DeleteTask,
           UpdateTaskStatus, AssignTask, UpdateTaskLabor,
           AnnounceStatus, AnnounceAssignment, AnnounceLabor, Reread,
           PublishEvent, FailBeforeWrite, Cascade, BreakLink, Crash
  <2>2. QED  BY <2>1 DEF Writes

\* Concurrent handlers do not undo each other's columns, the assignee of a
\* task that several calls work on excepted.
THEOREM ColumnsKeepTheirOwners == Spec => ColumnsMoveByTheirOwnCalls
<1> DEFINE Moves(t, k) ==
              Exists(t) /\ Exists(t)' /\ row'[t][k] # row[t][k] =>
                  \/ \E c \in Busy(t) :
                        /\ call[c].op \in OwnersOf(k)
                        /\ call[c].step = "write"
                        /\ call'[c].step # "write"
                  \/ k = "assignee" /\ t \in disturbed
<1>1. IInv /\ [Next]_vars => [\A t \in Tasks, k \in Columns : Moves(t, k)]_vars
  <2> SUFFICES ASSUME IInv, Next, NEW t \in Tasks, NEW k \in Columns,
                      Exists(t), Exists(t)', row'[t][k] # row[t][k]
               PROVE  \/ \E c \in Busy(t) :
                            /\ call[c].op \in OwnersOf(k)
                            /\ call[c].step = "write"
                            /\ call'[c].step # "write"
                      \/ k = "assignee" /\ t \in disturbed
    OBVIOUS
  <2>1. PICK c \in Calls : /\ call[c].task = t
                           /\ call[c].step = "write" /\ call'[c].step # "write"
                           /\ WriteRow(c)
    BY RowMoves
  <2>2. \/ call[c].op \in OwnersOf(k)
        \/ k = "assignee" /\ t \in disturbed
    BY <2>1, WriteMoves
  <2>3. QED  BY <2>1, <2>2 DEF Busy
<1>2. QED
  BY <1>1, TaskInvariant, PTL DEF Spec, ColumnsMoveByTheirOwnCalls

\* Reported hours are not erased by a call that has the task to itself.
THEOREM HoursAreKept == Spec => HoursSurvive
<1>1. IInv /\ [Next]_vars =>
         [\A t \in Tasks :
            /\ Exists(t) /\ Exists(t)'
            /\ row[t]["actual"] > 0
            /\ row'[t]["actual"] = 0
            => t \in disturbed]_vars
  <2> SUFFICES ASSUME IInv, Next, NEW t \in Tasks, Exists(t), Exists(t)',
                      row[t]["actual"] > 0, row'[t]["actual"] = 0,
                      t \notin disturbed
               PROVE  FALSE
    OBVIOUS
  <2>1. PICK c \in Calls : /\ call[c].task = t
                           /\ call[c].step = "write" /\ call'[c].step # "write"
                           /\ WriteRow(c)
    BY RowMoves
  <2>2. TypeOK /\ call[c].request \in Rows
    BY CallTypes DEF IInv
  <2>3. call[c].existing = row[t]
    BY <2>1 DEF IInv, ProgressInv, Progress
  <2>4. row'[t] = Written(c)
    BY <2>1, <2>2, WriteRowType
  <2>5. row[t]["actual"] \in Nat /\ call[c].request["actual"] \in Nat
    BY <2>2 DEF TypeOK, Rows, Columns
  <2>6. Written(c)["actual"] \in
           {row[t]["actual"],
            Given(call[c].request["actual"], row[t]["actual"])}
    BY <2>1, <2>3 DEF Written, Columns
  <2>7. QED  BY <2>4, <2>5, <2>6 DEF Given
<1>2. QED  BY <1>1, TaskInvariant, PTL DEF Spec, HoursSurvive

-----------------------------------------------------------------------------
(* The events in their order. *)

\* Hours a reader has heard of are hours the row has.
Backs(r, s) == s["actual"] # 0 => r["actual"] # 0

\* The events still to publish go on from what is told, one after the other.
InTurn(op, events, old) ==
    /\ GoesOnFrom(op, events[1], old)
    /\ Len(events) = 2 => GoesOnFrom(op, events[2], Merge(events[1], old))

\* How far the call c, alone on its task, is with what it has to tell.
TurnOK(c) ==
    LET t == call[c].task IN
    /\ call[c].step \in {"write", "reread"} /\ Exists(t) =>
          Backs(call[c].existing, told[t])
    /\ call[c].step = "publish" =>
          /\ InTurn(call[c].op, call[c].pending, told[t])
          /\ Exists(t) => Backs(row[t], Hear(call[c].pending, told[t]))

TurnsInv ==
    \A c \in Calls : call[c].task \in Tasks \ disturbed => TurnOK(c)

BackedInv ==
    \A t \in Tasks \ disturbed :
        Exists(t) /\ Busy(t) = {} => Backs(row[t], told[t])

TurnInv == TurnsInv /\ BackedInv

\* What is to tell of the row `new`, to a reader who knows s.
TellsInTurn(op, events, s, new) ==
    /\ events = <<>> => Backs(new, s)
    /\ events # <<>> => InTurn(op, events, s) /\ Backs(new, Hear(events, s))

LEMMA BacksMerge ==
    ASSUME NEW a \in Rows, NEW s \in Rows, NEW r,
           Backs(r, a), Backs(r, s)
    PROVE  Backs(r, Merge(a, s))
<1>1. Merge(a, s)["actual"] \in {a["actual"], s["actual"]}
  BY MergeType DEF Given, Columns
<1>2. QED  BY <1>1 DEF Backs

\* One event.
LEMMA OneInTurn ==
    ASSUME NEW op, NEW e \in Rows, NEW s \in Rows, NEW new,
           GoesOnFrom(op, e, s), Backs(new, e), Backs(new, s)
    PROVE  TellsInTurn(op, <<e>>, s, new)
<1>1. <<e>> # <<>> /\ Len(<<e>>) = 1 /\ <<e>>[1] = e
  OBVIOUS
<1>2. Hear(<<e>>, s) = Merge(e, s)
  BY <1>1 DEF Hear
<1>3. Backs(new, Merge(e, s))
  BY BacksMerge
<1>4. QED  BY <1>1, <1>2, <1>3 DEF TellsInTurn, InTurn

LEMMA CreatedInTurn ==
    ASSUME NEW r \in Requests["create"]
    PROVE  LET created == [r EXCEPT !["status"] = TODO]
           IN  TellsInTurn("create", <<created>>, Blank, created)
<1> DEFINE created == [r EXCEPT !["status"] = TODO]
<1>1. r \in Rows /\ r["actual"] = 0 /\ r["assignee"] # 0
  <2>1. r \in Rows /\ r["actual"] = 0
    BY RequestFields DEF Required
  <2>2. r["assignee"] # 0
    BY DEF Requests, Required, Columns
  <2>3. QED  BY <2>1, <2>2
<1>2. /\ created \in Rows
      /\ created["status"] = TODO /\ created["assignee"] # 0
      /\ created["actual"] = 0
  BY <1>1 DEF Rows, Columns, TODO
<1>3. Blank \in Rows /\ Blank["actual"] = 0
  BY DEF Blank, Rows, Columns
<1>4. GoesOnFrom("create", created, Blank)
  BY <1>2 DEF GoesOnFrom
<1>5. Backs(created, created) /\ Backs(created, Blank)
  BY <1>3 DEF Backs
<1> HIDE DEF created
<1>6. TellsInTurn("create", <<created>>, Blank, created)
  BY <1>2, <1>3, <1>4, <1>5, OneInTurn
<1>7. QED  BY <1>6 DEF created

LEMMA UpdateInTurn ==
    ASSUME NEW c \in Calls,
           call[c].existing \in Rows,
           call[c].request \in Requests["update"],
           NEW s \in Rows,
           Agree(s, call[c].existing), Backs(call[c].existing, s)
    PROVE  TellsInTurn("update", UpdateEvents(c), s,
                       Merge(call[c].request, call[c].existing))
<1> DEFINE old == call[c].existing
           asked == call[c].request
           new == Merge(asked, old)
           A == Only(new, {"assignee", "planned", "actual"})
           B == Only(new, {"assignee", "deadline"})
           P == new["planned"] # old["planned"]
           D == new["deadline"] # old["deadline"]
<1> SUFFICES TellsInTurn("update", UpdateEvents(c), s, new)
  OBVIOUS
<1>1. asked \in Rows /\ asked["status"] = 0 /\ asked["assignee"] = 0
        /\ asked["actual"] = 0
  BY RequestFields DEF Required
<1>2. new \in Rows /\ \A k \in Columns : new[k] = Given(asked[k], old[k])
  BY <1>1, MergeType
<1>3. new["assignee"] = old["assignee"] /\ new["actual"] = old["actual"]
  BY <1>1, <1>2 DEF Given, Columns
<1>4. /\ A \in Rows /\ B \in Rows
      /\ A["assignee"] = new["assignee"] /\ A["planned"] = new["planned"]
      /\ A["actual"] = new["actual"]
      /\ A["status"] = 0 /\ A["deadline"] = 0
      /\ B["assignee"] = new["assignee"] /\ B["deadline"] = new["deadline"]
      /\ B["status"] = 0 /\ B["planned"] = 0 /\ B["actual"] = 0
  BY <1>2, OnlyType DEF Columns
<1>5. /\ s["assignee"] = old["assignee"]
      /\ s["planned"] = old["planned"] /\ s["deadline"] = old["deadline"]
      /\ s["actual"] # 0 => old["actual"] # 0
  BY DEF Agree, Backs, Columns
<1>6. (P => new["planned"] # 0) /\ (D => new["deadline"] # 0)
  <2>1. asked["planned"] \in Nat /\ asked["deadline"] \in Nat
    BY <1>1 DEF Rows, Columns
  <2>2. QED  BY <1>2, <2>1 DEF Given, Columns
<1>7. Backs(new, A) /\ Backs(new, B) /\ Backs(new, s)
  BY <1>3, <1>4, <1>5 DEF Backs
<1>8. P => GoesOnFrom("update", A, s)
  BY <1>3, <1>4, <1>5, <1>6 DEF GoesOnFrom, IsSame, IsSilent
<1>9. ASSUME NEW r \in Rows, D, r["assignee"] = old["assignee"],
             r["deadline"] = old["deadline"]
      PROVE  GoesOnFrom("update", B, r)
  BY <1>3, <1>4, <1>6, <1>9 DEF GoesOnFrom, IsSame, IsSilent
<1>10. CASE ~P /\ ~D
  <2>1. UpdateEvents(c) = <<>>
    BY <1>10 DEF UpdateEvents
  <2>2. QED  BY <1>7, <2>1 DEF TellsInTurn
<1>11. CASE P /\ ~D
  <2>1. UpdateEvents(c) = <<A>>
    BY <1>11 DEF UpdateEvents
  <2> HIDE DEF A, new
  <2>2. QED  BY <1>4, <1>7, <1>8, <1>11, <2>1, OneInTurn
<1>12. CASE ~P /\ D
  <2>1. UpdateEvents(c) = <<B>>
    BY <1>12 DEF UpdateEvents
  <2>2. GoesOnFrom("update", B, s)
    BY <1>5, <1>9, <1>12
  <2> HIDE DEF B, new
  <2>3. QED  BY <1>4, <1>7, <2>1, <2>2, OneInTurn
<1>13. CASE P /\ D
  <2>1. UpdateEvents(c) = <<A, B>>
    <3>1. UpdateEvents(c) = <<A>> \o <<B>>
      BY <1>13 DEF UpdateEvents
    <3>2. QED  BY <1>4, <3>1, TwoEvents
  <2>2. /\ Merge(A, s) \in Rows
        /\ Merge(A, s)["deadline"] = s["deadline"]
        /\ Merge(A, s)["assignee"] = s["assignee"]
    BY <1>3, <1>4, <1>5, MergeType DEF Given, Columns
  <2>3. GoesOnFrom("update", B, Merge(A, s))
    BY <1>5, <1>9, <1>13, <2>2
  <2>4. Backs(new, Merge(A, s))
    BY <1>4, <1>7, BacksMerge
  <2>5. Backs(new, Merge(B, Merge(A, s)))
    BY <1>4, <1>7, <2>2, <2>4, BacksMerge
  <2> HIDE DEF A, B, new
  <2>6. Len(<<A, B>>) = 2 /\ <<A, B>> # <<>>
    OBVIOUS
  <2>7. QED
    BY <1>8, <1>13, <2>1, <2>3, <2>5, <2>6 DEF TellsInTurn, InTurn, Hear
<1>14. QED  BY <1>10, <1>11, <1>12, <1>13


LEMMA StatusInTurn ==
    ASSUME NEW c \in Calls,
           call[c].op = "status",
           call[c].existing \in Rows,
           call[c].request \in Requests["status"],
           NEW s \in Rows,
           Agree(s, call[c].existing), Backs(call[c].existing, s)
    PROVE  TellsInTurn("status", StatusEvents(c, After(c)), s, After(c))
<1> DEFINE old == call[c].existing
           asked == call[c].request
           new == After(c)
           E == [new EXCEPT !["actual"] = Given(HoursReported(c), @)]
<1>1. asked \in Rows /\ asked["status"] > 0
        /\ asked["assignee"] = 0 /\ asked["deadline"] = 0
        /\ asked["planned"] = 0
  BY RequestFields DEF Required
<1>2. \A k \in Columns : asked[k] \in Nat /\ old[k] \in Nat /\ s[k] \in Nat
  BY <1>1 DEF Rows
<1>3. HoursReported(c) \in Nat
  BY <1>2 DEF HoursReported, Given, Columns
<1>4. new \in Rows
  BY <1>2 DEF After, Rows, Given
<1>5. /\ new["status"] = asked["status"]
      /\ \A k \in {"assignee", "deadline", "planned"} : new[k] = old[k]
  BY <1>1 DEF After, StatementColumns, Given, Columns
<1>6. /\ old["actual"] # 0 => new["actual"] # 0
      /\ HoursReported(c) # 0 => new["actual"] # 0
  <2>1. new["actual"] = IF HoursReported(c) > 0
                        THEN Given(asked["actual"], old["actual"])
                        ELSE old["actual"]
    BY DEF After, StatementColumns, Columns
  <2>2. HoursReported(c) \in
           {asked["actual"], Given(asked["actual"], old["actual"])}
    BY DEF HoursReported
  <2>3. asked["actual"] \in Nat /\ old["actual"] \in Nat
    BY <1>2 DEF Columns
  <2>4. QED  BY <1>3, <2>1, <2>2, <2>3 DEF Given
<1>7. /\ E \in Rows
      /\ \A k \in Columns \ {"actual"} : E[k] = new[k]
      /\ E["actual"] = Given(HoursReported(c), new["actual"])
  BY <1>3, <1>4 DEF Rows, Given, Columns
<1>8. Backs(new, s)
  BY <1>6 DEF Backs
<1>9. CASE old["status"] = new["status"]
  <2>1. StatusEvents(c, new) = <<>>
    BY <1>9 DEF StatusEvents
  <2>2. QED  BY <1>8, <2>1 DEF TellsInTurn
<1>10. CASE old["status"] # new["status"]
  <2>1. StatusEvents(c, new) = <<E>>
    BY <1>10 DEF StatusEvents
  <2> HIDE DEF E, new
  <2>2. new["actual"] \in Nat
    BY <1>4 DEF Rows, Columns
  <2>3. (E["actual"] # 0 <=> new["actual"] # 0) /\ Backs(new, E)
    BY <1>3, <1>6, <1>7, <2>2 DEF Backs, Given
  <2>4. /\ E["status"] \notin {s["status"], 0}
        /\ E["assignee"] = s["assignee"]
        /\ E["deadline"] = s["deadline"]
        /\ E["planned"] = s["planned"]
    <3>1. asked["status"] # 0
      BY <1>1, <1>2 DEF Columns
    <3>2. QED  BY <1>5, <1>7, <1>10, <3>1 DEF Agree, Columns
  <2>5. GoesOnFrom("status", E, s)
    BY <1>8, <2>3, <2>4 DEF GoesOnFrom, IsSame, Backs
  <2>6. QED  BY <1>7, <1>8, <2>1, <2>3, <2>5, OneInTurn DEF new
<1>11. QED  BY <1>9, <1>10

LEMMA AssignmentInTurn ==
    ASSUME NEW c \in Calls,
           call[c].op = "assign",
           call[c].existing \in Rows,
           call[c].request \in Requests["assign"],
           NEW s \in Rows,
           Agree(s, call[c].existing), Backs(call[c].existing, s)
    PROVE  TellsInTurn("assign", AssignEvents(c, After(c)), s, After(c))
<1> DEFINE old == call[c].existing
           asked == call[c].request
           new == After(c)
           F == Only(new, {"status", "deadline"})
           E == [F EXCEPT !["assignee"] = asked["assignee"]]
<1>1. asked \in Rows /\ asked["assignee"] > 0
  BY RequestFields DEF Required
<1>2. \A k \in Columns : asked[k] \in Nat /\ old[k] \in Nat
  BY <1>1 DEF Rows
<1>3. new \in Rows
  BY <1>2 DEF After, Rows, Given
<1>4. \A k \in Columns \ {"assignee"} : new[k] = old[k]
  BY DEF After, StatementColumns
<1>5. /\ F \in Rows
      /\ \A k \in Columns :
            F[k] = IF k \in {"status", "deadline"} THEN new[k] ELSE 0
  BY <1>3, OnlyType
<1>6. /\ E \in Rows
      /\ E["assignee"] = asked["assignee"]
      /\ \A k \in Columns \ {"assignee"} : E[k] = F[k]
  BY <1>2, <1>5 DEF Rows, Columns
<1>7. Backs(new, s)
  BY <1>4 DEF Backs, Columns
<1>8. CASE old["assignee"] = asked["assignee"]
  <2>1. AssignEvents(c, new) = <<>>
    BY <1>8 DEF AssignEvents
  <2>2. QED  BY <1>7, <2>1 DEF TellsInTurn
<1>9. CASE old["assignee"] # asked["assignee"]
  <2>1. AssignEvents(c, new) = <<E>>
    BY <1>9 DEF AssignEvents
  <2> HIDE DEF E, F, new
  <2>2. /\ E["assignee"] \notin {s["assignee"], 0}
        /\ E["status"] = s["status"] /\ E["deadline"] = s["deadline"]
        /\ E["planned"] = 0 /\ E["actual"] = 0
    <3>1. asked["assignee"] # 0
      BY <1>1, <1>2 DEF Columns
    <3>2. QED  BY <1>4, <1>5, <1>6, <1>9, <3>1 DEF Agree, Columns
  <2>3. GoesOnFrom("assign", E, s) /\ Backs(new, E)
    BY <2>2 DEF GoesOnFrom, IsSame, IsSilent, Backs
  <2>4. QED  BY <1>6, <1>7, <2>1, <2>3, OneInTurn DEF new
<1>10. QED  BY <1>8, <1>9

LEMMA LaborInTurn ==
    ASSUME NEW c \in Calls,
           call[c].op = "labor",
           call[c].existing \in Rows,
           call[c].request \in Requests["labor"],
           NEW s \in Rows,
           Agree(s, call[c].existing), Backs(call[c].existing, s)
    PROVE  TellsInTurn("labor", <<After(c)>>, s, After(c))
<1> DEFINE old == call[c].existing
           asked == call[c].request
           new == After(c)
<1>1. asked \in Rows
  BY RequestFields DEF Required
<1>2. \A k \in Columns : asked[k] \in Nat /\ old[k] \in Nat
  BY <1>1 DEF Rows
<1>3. new \in Rows
  BY <1>2 DEF After, Rows, Given
<1>4. /\ \A k \in {"planned", "actual"} : new[k] = Given(asked[k], old[k])
      /\ \A k \in {"status", "assignee", "deadline"} : new[k] = old[k]
  BY DEF After, StatementColumns, Columns
<1>5. \A k \in {"planned", "actual"} : old[k] # 0 => new[k] # 0
  BY <1>2, <1>4 DEF Given, Columns
<1> HIDE DEF new
<1>6. Backs(new, s) /\ Backs(new, new)
  BY <1>5 DEF Backs
<1>7. /\ \A k \in {"status", "assignee", "deadline"} : new[k] = s[k]
      /\ s["planned"] # 0 => new["planned"] # 0
      /\ s["actual"] # 0 => new["actual"] # 0
  BY <1>4, <1>5, <1>6 DEF Agree, Backs, Columns
<1>8. GoesOnFrom("labor", new, s)
  BY <1>7 DEF GoesOnFrom, IsSame
<1>9. QED  BY <1>3, <1>6, <1>8, OneInTurn DEF new


\* A call that has not moved, on a task that is as it was or has gone.
LEMMA TurnKept ==
    ASSUME NEW c \in Calls, call'[c] = call[c], TurnOK(c),
           told'[call[c].task] = told[call[c].task],
           \/ life'[call[c].task] # "alive"
           \/ /\ life'[call[c].task] = life[call[c].task]
              /\ row'[call[c].task] = row[call[c].task]
    PROVE  TurnOK(c)'
<1> DEFINE t == call[c].task
<1>1. call[c].step \in {"write", "reread"} /\ life'[t] = "alive" =>
         Backs(call[c].existing, told[t])
  BY DEF TurnOK, Exists
<1>2. call[c].step = "publish" =>
         /\ InTurn(call[c].op, call[c].pending, told[t])
         /\ life'[t] = "alive" =>
               Backs(row'[t], Hear(call[c].pending, told[t]))
  BY DEF TurnOK, Exists
<1>3. QED  BY <1>1, <1>2 DEF TurnOK, Exists

\* Call c moves, on behalf of task t.
LEMMA TurnMoves ==
    ASSUME TurnInv,
           NEW c \in Calls, NEW t \in Tasks,
           \A d \in Calls \ {c} : call'[d] = call[d],
           call[c].task \in {t, NoTask},
           call'[c].task \in {t, NoTask},
           \A u \in Tasks \ {t} : /\ row'[u] = row[u]
                                  /\ told'[u] = told[u]
                                  /\ life'[u] = life[u],
           disturbed \subseteq disturbed',
           t \notin disturbed' =>
              \/ \A d \in Calls \ {c} : call[d].task # t
              \/ /\ call'[c].task = NoTask
                 /\ life'[t] # "alive" /\ told'[t] = told[t],
           t \notin disturbed' /\ call'[c].task = t => TurnOK(c)',
           t \notin disturbed' /\ call'[c].task # t /\ life'[t] = "alive" =>
              Backs(row'[t], told'[t])
    PROVE  TurnInv'
<1>1. NoTask \notin Tasks
  BY TaskServiceAssumption
<1>2. TurnsInv'
  <2> SUFFICES ASSUME NEW d \in Calls,
                      call'[d].task \in Tasks \ disturbed'
               PROVE  TurnOK(d)'
    BY DEF TurnsInv
  <2>1. CASE d = c
    BY <1>1, <2>1
  <2>2. CASE d # c
    <3>1. /\ call'[d] = call[d]
          /\ call[d].task \in Tasks \ disturbed
          /\ TurnOK(d)
      BY <2>2 DEF TurnInv, TurnsInv
    <3>2. CASE call[d].task = t
      <4>1. life'[t] # "alive" /\ told'[t] = told[t]
        BY <2>2, <3>1, <3>2
      <4>2. QED  BY <3>1, <3>2, <4>1, TurnKept
    <3>3. CASE call[d].task # t
      BY <3>1, <3>3, TurnKept
    <3>4. QED  BY <3>2, <3>3
  <2>3. QED  BY <2>1, <2>2
<1>3. BackedInv'
  <2> SUFFICES ASSUME NEW u \in Tasks,
                      u \notin disturbed',
                      life'[u] = "alive",
                      \A d \in Calls : call'[d].task # u
               PROVE  Backs(row'[u], told'[u])
    BY DEF BackedInv, Exists, Busy
  <2>1. CASE u = t
    BY <2>1
  <2>2. CASE u # t
    <3>1. \A d \in Calls : call[d].task # u
      BY <1>1, <2>2
    <3>2. Backs(row[u], told[u])
      BY <2>2, <3>1 DEF TurnInv, BackedInv, Exists, Busy
    <3>3. QED  BY <2>2, <3>2
  <2>3. QED  BY <2>1, <2>2
<1>4. QED  BY <1>2, <1>3 DEF TurnInv

\* Returning from the middle of a call, without a word.
LEMMA TurnReturns ==
    ASSUME IInv, TurnInv, NEW c \in Calls, NEW t \in Tasks,
           Return(c), call[c].task \in {t, NoTask},
           \A u \in Tasks \ {t} : row'[u] = row[u] /\ life'[u] = life[u],
           told' = told,
           \/ disturbed' = disturbed \cup {t}
           \/ disturbed' = disturbed /\ life'[t] # "alive"
    PROVE  TurnInv'
<1>1. TypeOK
  BY DEF IInv
<1>2. /\ \A d \in Calls \ {c} : call'[d] = call[d]
      /\ call'[c].task = NoTask
  BY <1>1, ReturnType
<1>3. NoTask # t
  BY TaskServiceAssumption
<1>4. QED  BY <1>2, <1>3, TurnMoves

LEMMA CreateTurn ==
    ASSUME IInv, TurnInv, NEW c \in Calls, NEW t \in Tasks,
           NEW r \in Requests["create"], CreateTask(c, t, r)
    PROVE  TurnInv'
<1> DEFINE created == [r EXCEPT !["status"] = TODO]
           next == [call[c] EXCEPT !.step = "publish", !.op = "create",
                                   !.task = t, !.pending = <<created>>]
<1>1. TypeOK /\ call[c].step = "fresh" /\ call[c].task = NoTask
  BY DEF IInv, CallInv, CallOK, CreateTask
<1>2. /\ life[t] = "unborn"
      /\ life' = [life EXCEPT ![t] = "alive"]
      /\ row' = [row EXCEPT ![t] = created]
      /\ call' = [call EXCEPT ![c] = next]
      /\ UNCHANGED <<told, disturbed>>
  BY <1>1 DEF CreateTask, Insert, TypeOK
<1>3. /\ next.step = "publish" /\ next.task = t
      /\ next.pending = <<created>> /\ next.op = "create"
  <2> HIDE DEF created
  <2>1. QED  BY <1>1, CallTypes DEF CallStates
<1>4. /\ call'[c] = next
      /\ \A d \in Calls \ {c} : call'[d] = call[d]
      /\ row'[t] = created /\ life'[t] = "alive"
      /\ \A u \in Tasks \ {t} : row'[u] = row[u] /\ life'[u] = life[u]
  BY <1>1, <1>2 DEF TypeOK
<1>5. \A d \in Calls : call[d].task # t
  BY <1>2, CallTypes, TaskServiceAssumption
     DEF IInv, CallInv, CallOK, TypeOK, CallStates
<1>6. told'[t] = Blank
  BY <1>2 DEF IInv, UnbornInv
<1>7. /\ InTurn("create", <<created>>, Blank)
      /\ Backs(created, Hear(<<created>>, Blank))
  <2>1. TellsInTurn("create", <<created>>, Blank, created)
    BY CreatedInTurn
  <2>2. <<created>> # <<>>
    OBVIOUS
  <2>3. QED  BY <2>1, <2>2 DEF TellsInTurn
<1>8. TurnOK(c)'
  <2> HIDE DEF next, created
  <2>1. QED  BY <1>3, <1>4, <1>6, <1>7 DEF TurnOK, Exists
<1>9. call'[c].task = t
  BY <1>3, <1>4
<1> HIDE DEF next, created
<1>10. QED  BY <1>1, <1>2, <1>4, <1>5, <1>8, <1>9, TurnMoves

LEMMA ReadTurn ==
    ASSUME IInv, TurnInv, NEW c \in Calls, NEW t \in Tasks,
           NEW op \in ReadingOps,
           NEW r \in Requests[op], ReadTask(c, op, t, r)
    PROVE  TurnInv'
<1> DEFINE next == [step |-> "write", op |-> op, task |-> t, request |-> r,
                    existing |-> row[t], pending |-> <<>>]
<1>1. TypeOK /\ call[c].step = "fresh" /\ call[c].task = NoTask
        /\ life[t] = "alive"
  BY DEF IInv, CallInv, CallOK, ReadTask, Exists
<1>2. /\ call' = [call EXCEPT ![c] = next]
      /\ disturbed' = IF Busy(t) = {} THEN disturbed ELSE disturbed \cup {t}
      /\ UNCHANGED <<life, row, told>>
  BY DEF ReadTask
<1>3. /\ call'[c] = next
      /\ \A d \in Calls \ {c} : call'[d] = call[d]
  BY <1>1, <1>2 DEF TypeOK
<1>4. /\ disturbed \subseteq disturbed'
      /\ t \notin disturbed' => /\ t \notin disturbed
                                /\ Busy(t) = {}
                                /\ \A d \in Calls : call[d].task # t
  BY <1>2, BusyMeans
<1>5. ASSUME t \notin disturbed'
      PROVE  TurnOK(c)'
  <2>1. Backs(row[t], told[t])
    BY <1>1, <1>4, <1>5 DEF TurnInv, BackedInv, Exists
  <2>2. QED  BY <1>2, <1>3, <2>1 DEF TurnOK
<1>6. QED  BY <1>1, <1>2, <1>3, <1>4, <1>5, TurnMoves


\* A call, alone on its task t, turns to publishing what tells of the row.
LEMMA TurnAnnounces ==
    ASSUME IInv, TurnInv, NEW c \in Calls, NEW events \in Seq(Rows),
           call[c].task \in Tasks,
           PublishNext(c, events),
           \A u \in Tasks \ {call[c].task} : row'[u] = row[u],
           UNCHANGED <<life, told, disturbed>>,
           call[c].task \notin disturbed =>
              TellsInTurn(call[c].op, events, told[call[c].task],
                          row'[call[c].task])
    PROVE  TurnInv'
<1> DEFINE t == call[c].task
<1>1. TypeOK /\ NoTask # t
  BY TaskServiceAssumption DEF IInv
<1>2. /\ \A d \in Calls \ {c} : call'[d] = call[d]
      /\ events = <<>> => call'[c].task = NoTask /\ call'[c].step = "done"
      /\ events # <<>> => /\ call'[c].task = t
                          /\ call'[c].step = "publish"
                          /\ call'[c].pending = events
  BY <1>1, PublishNextType
<1>3. events # <<>> => call'[c].op = call[c].op
  <2> SUFFICES ASSUME events # <<>>
               PROVE  call'[c].op = call[c].op
    OBVIOUS
  <2>1. call' = [call EXCEPT ![c] =
                    [call[c] EXCEPT !.step = "publish", !.pending = events]]
    BY <1>1 DEF PublishNext, TypeOK
  <2>2. QED  BY <1>1, <2>1, CallTypes DEF TypeOK, CallStates
<1>4. t \notin disturbed => \A d \in Calls \ {c} : call[d].task # t
  BY DEF IInv, AloneInv
<1>5. t \notin disturbed' /\ call'[c].task = t => TurnOK(c)'
  BY <1>1, <1>2, <1>3 DEF TellsInTurn, TurnOK, Exists
<1>6. t \notin disturbed' /\ call'[c].task # t => Backs(row'[t], told'[t])
  BY <1>2 DEF TellsInTurn
<1>7. QED  BY <1>2, <1>4, <1>5, <1>6, TurnMoves

LEMMA UpdateTurn ==
    ASSUME IInv, TurnInv, NEW c \in Calls, UpdateTask(c)
    PROVE  TurnInv'
<1> DEFINE t == call[c].task
           new == Merge(call[c].request, call[c].existing)
           events == UpdateEvents(c)
<1>1. /\ TypeOK /\ t \in Tasks
      /\ call[c].op = "update" /\ call[c].step = "write"
      /\ call[c].request \in Requests["update"]
  BY DEF IInv, CallInv, CallOK, UpdateTask, At
<1>2. call[c].existing \in Rows /\ told[t] \in Rows
  BY <1>1, CallTypes DEF TypeOK
<1>3. /\ WriteRow(c) /\ PublishNext(c, events)
      /\ UNCHANGED <<told, disturbed>>
  BY DEF UpdateTask
<1>4. events \in Seq(Rows)
  <2>1. Agree(call[c].existing, call[c].existing)
    BY DEF Agree
  <2>2. QED  BY <1>1, <1>2, <2>1, UpdateIsTold
<1>5. /\ life' = life /\ life[t] = "alive"
      /\ row'[t] = Written(c)
      /\ \A u \in Tasks \ {t} : row'[u] = row[u]
  BY <1>1, <1>3, WriteRowType
<1>6. ASSUME t \notin disturbed
      PROVE  TellsInTurn("update", events, told[t], row'[t])
  <2>1. call[c].existing = row[t] /\ Agree(told[t], call[c].existing)
    BY <1>1, <1>5, <1>6 DEF IInv, ProgressInv, Progress, Exists
  <2>2. Backs(call[c].existing, told[t])
    BY <1>1, <1>5, <1>6 DEF TurnInv, TurnsInv, TurnOK, Exists
  <2>3. row'[t] = new
    BY <1>1, <1>2, <1>5, <2>1, WrittenIsAfter, AfterUpdate
  <2>4. QED  BY <1>1, <1>2, <2>1, <2>2, <2>3, UpdateInTurn
<1> HIDE DEF events
<1>7. QED  BY <1>1, <1>3, <1>4, <1>5, <1>6, TurnAnnounces

LEMMA WriteThenRereadTurn ==
    ASSUME IInv, TurnInv, NEW c \in Calls,
           NEW op \in {"status", "assign", "labor"}, WriteThenReread(c, op)
    PROVE  TurnInv'
<1> DEFINE t == call[c].task
           next == [call[c] EXCEPT !.step = "reread"]
<1>1. TypeOK /\ t \in Tasks /\ call[c].step = "write"
  BY DEF IInv, CallInv, CallOK, WriteThenReread, At
<1>2. /\ WriteRow(c)
      /\ call' = [call EXCEPT ![c].step = "reread"]
      /\ UNCHANGED <<told, disturbed>>
  BY DEF WriteThenReread
<1>3. /\ life' = life /\ life[t] = "alive"
      /\ \A u \in Tasks \ {t} : row'[u] = row[u]
  BY <1>1, <1>2, WriteRowType
<1>4. /\ call'[c] = next
      /\ \A d \in Calls \ {c} : call'[d] = call[d]
  BY <1>1, <1>2 DEF TypeOK
<1>5. /\ next.step = "reread" /\ next.task = t
      /\ next.existing = call[c].existing
  BY <1>1, CallTypes DEF CallStates
<1> HIDE DEF next
<1>6. t \notin disturbed => \A d \in Calls \ {c} : call[d].task # t
  BY <1>1 DEF IInv, AloneInv
<1>7. ASSUME t \notin disturbed
      PROVE  TurnOK(c)'
  <2>1. Backs(call[c].existing, told[t])
    BY <1>1, <1>3, <1>7 DEF TurnInv, TurnsInv, TurnOK, Exists
  <2>2. QED  BY <1>2, <1>4, <1>5, <2>1 DEF TurnOK
<1>8. QED  BY <1>1, <1>2, <1>3, <1>4, <1>5, <1>6, <1>7, TurnMoves

\* The three handlers, having read the row back.
LEMMA RereadTurn ==
    ASSUME IInv, TurnInv, NEW c \in Calls, NEW op,
           NEW events \in {StatusEvents(c, row[call[c].task]),
                           AssignEvents(c, row[call[c].task]),
                           <<row[call[c].task]>>},
           Reread(c, op, events),
           /\ call[c].task \notin disturbed
           /\ Backs(call[c].existing, told[call[c].task])
           => TellsInTurn(op, events, told[call[c].task], row[call[c].task])
    PROVE  TurnInv'
<1> DEFINE t == call[c].task
<1>1. /\ TypeOK /\ t \in Tasks /\ Exists(t)
      /\ call[c].op = op /\ call[c].step = "reread"
  BY DEF IInv, CallInv, CallOK, Reread, At
<1>2. PublishNext(c, events) /\ UNCHANGED <<life, row, told, disturbed>>
  BY DEF Reread
<1>3. row[t] \in Rows /\ call[c].existing \in Rows /\ call[c].request \in Rows
  BY <1>1, CallTypes, BeforeReread
<1>4. events \in Seq(Rows)
  BY <1>3, EventsTyped
<1>5. t \notin disturbed => Backs(call[c].existing, told[t])
  BY <1>1 DEF TurnInv, TurnsInv, TurnOK
<1>6. QED  BY <1>1, <1>2, <1>4, <1>5, TurnAnnounces

LEMMA AnnounceTurn ==
    ASSUME IInv, TurnInv, NEW c \in Calls,
           \/ AnnounceStatus(c)
           \/ AnnounceAssignment(c)
           \/ AnnounceLabor(c)
    PROVE  TurnInv'
<1> DEFINE t == call[c].task
<1>1. call[c].step = "reread" /\ Exists(t)
  BY DEF AnnounceStatus, AnnounceAssignment, AnnounceLabor, Reread, At
<1>2. /\ call[c].existing \in Rows
      /\ told[t] \in Rows
      /\ call[c].request \in Requests[call[c].op]
      /\ t \notin disturbed => row[t] = After(c)
                               /\ Agree(told[t], call[c].existing)
  BY <1>1, BeforeReread
<1>3. CASE AnnounceStatus(c)
  <2>1. call[c].op = "status" /\ Reread(c, "status", StatusEvents(c, row[t]))
    BY <1>3 DEF AnnounceStatus, Reread, At
  <2>2. t \notin disturbed /\ Backs(call[c].existing, told[t]) =>
           TellsInTurn("status", StatusEvents(c, row[t]), told[t], row[t])
    BY <1>2, <2>1, StatusInTurn
  <2>3. QED  BY <2>1, <2>2, RereadTurn
<1>4. CASE AnnounceAssignment(c)
  <2>1. call[c].op = "assign" /\ Reread(c, "assign", AssignEvents(c, row[t]))
    BY <1>4 DEF AnnounceAssignment, Reread, At
  <2>2. t \notin disturbed /\ Backs(call[c].existing, told[t]) =>
           TellsInTurn("assign", AssignEvents(c, row[t]), told[t], row[t])
    BY <1>2, <2>1, AssignmentInTurn
  <2>3. QED  BY <2>1, <2>2, RereadTurn
<1>5. CASE AnnounceLabor(c)
  <2>1. call[c].op = "labor" /\ Reread(c, "labor", <<row[t]>>)
    BY <1>5 DEF AnnounceLabor, Reread, At
  <2>2. t \notin disturbed /\ Backs(call[c].existing, told[t]) =>
           TellsInTurn("labor", <<row[t]>>, told[t], row[t])
    BY <1>2, <2>1, LaborInTurn
  <2>3. QED  BY <2>1, <2>2, RereadTurn
<1>6. QED  BY <1>3, <1>4, <1>5


\* The first of two events leaves the second to tell.
LEMMA PublishTurn ==
    ASSUME IInv, TurnInv, NEW c \in Calls, PublishEvent(c)
    PROVE  TurnInv'
<1> DEFINE t == call[c].task
           p == call[c].pending
           rest == Tail(p)
<1>1. /\ TypeOK /\ t \in Tasks /\ NoTask # t
      /\ call[c].step = "publish"
      /\ p \in Seq(Rows) /\ Len(p) \in {1, 2}
  BY CallTypes, TaskServiceAssumption DEF IInv, CallInv, CallOK, PublishEvent
<1>2. /\ PublishNext(c, rest)
      /\ UNCHANGED <<life, row>>
      /\ \/ told' = [told EXCEPT ![t] = Merge(Head(p), @)]
              /\ disturbed' = disturbed
         \/ disturbed' = disturbed \cup {t} /\ told' = told
  BY DEF PublishEvent
<1>3. /\ Head(p) = p[1]
      /\ rest \in Seq(Rows) /\ Len(rest) = Len(p) - 1
      /\ Len(p) = 2 => rest[1] = p[2]
  <2>1. p # <<>>
    <3>1. \A n \in {1, 2} : n # 0
      OBVIOUS
    <3>2. QED  BY <1>1, <3>1, EmptySeq
  <2>2. /\ Head(p) = p[1]
        /\ rest \in Seq(Rows) /\ Len(rest) = Len(p) - 1
        /\ \A i \in 1 .. Len(rest) : rest[i] = p[i+1]
    BY <1>1, <2>1, HeadTailProperties
  <2>3. QED  BY <2>2
<1>4. /\ \A d \in Calls \ {c} : call'[d] = call[d]
      /\ rest = <<>> => call'[c].task = NoTask /\ call'[c].step = "done"
      /\ rest # <<>> => /\ call'[c].task = t
                        /\ call'[c].step = "publish"
                        /\ call'[c].pending = rest
  BY <1>1, <1>2, <1>3, PublishNextType
<1>5. rest # <<>> => call'[c].op = call[c].op
  <2> SUFFICES ASSUME rest # <<>>
               PROVE  call'[c].op = call[c].op
    OBVIOUS
  <2> HIDE DEF rest
  <2>1. call' = [call EXCEPT ![c] =
                    [call[c] EXCEPT !.step = "publish", !.pending = rest]]
    BY <1>1, <1>2 DEF PublishNext, TypeOK
  <2>2. QED  BY <1>1, <2>1, CallTypes DEF TypeOK, CallStates
<1>6. /\ \A u \in Tasks \ {t} : told'[u] = told[u]
      /\ t \notin disturbed' => told'[t] = Merge(p[1], told[t])
  BY <1>1, <1>2, <1>3 DEF TypeOK
<1>7. t \notin disturbed => \A d \in Calls \ {c} : call[d].task # t
  BY <1>1 DEF IInv, AloneInv
<1>8. rest # <<>> => Len(p) = 2 /\ Len(rest) = 1
  <2>1. Len(rest) = 0 => rest = <<>>
    BY <1>3, EmptySeq
  <2>2. QED  BY <1>1, <1>3, <2>1
<1>9. rest = <<>> => Len(p) = 1
  <2>1. rest = <<>> => Len(rest) = 0
    BY EmptySeq
  <2>2. QED  BY <1>1, <1>3, <2>1
<1> HIDE DEF rest
<1>10. ASSUME t \notin disturbed'
       PROVE  /\ call'[c].task = t => TurnOK(c)'
              /\ call'[c].task # t /\ life'[t] = "alive" =>
                    Backs(row'[t], told'[t])
  <2>1. /\ InTurn(call[c].op, p, told[t])
        /\ Exists(t) => Backs(row[t], Hear(p, told[t]))
    BY <1>1, <1>2, <1>10 DEF TurnInv, TurnsInv, TurnOK
  <2>2. CASE rest = <<>>
    <3>1. Hear(p, told[t]) = told'[t]
      BY <1>6, <1>9, <1>10, <2>2 DEF Hear
    <3>2. QED  BY <1>1, <1>2, <1>4, <2>1, <2>2, <3>1 DEF Exists
  <2>3. CASE rest # <<>>
    <3>1. Hear(rest, told'[t]) = Hear(p, told[t])
      BY <1>3, <1>6, <1>8, <1>10, <2>3 DEF Hear
    <3>2. InTurn(call[c].op, rest, told'[t])
      <4>1. GoesOnFrom(call[c].op, p[2], Merge(p[1], told[t]))
        BY <1>8, <2>1, <2>3 DEF InTurn
      <4>2. rest[1] = p[2] /\ told'[t] = Merge(p[1], told[t])
        BY <1>3, <1>6, <1>8, <1>10, <2>3
      <4>3. GoesOnFrom(call[c].op, rest[1], told'[t])
        BY <4>1, <4>2
      <4>4. Len(rest) # 2
        BY <1>8, <2>3
      <4>5. QED  BY <4>3, <4>4 DEF InTurn
    <3>3. QED
      BY <1>1, <1>2, <1>4, <1>5, <2>1, <2>3, <3>1, <3>2 DEF TurnOK, Exists
  <2>4. QED  BY <2>2, <2>3
<1>11. QED  BY <1>1, <1>2, <1>4, <1>6, <1>7, <1>10, TurnMoves

LEMMA DeleteTurn ==
    ASSUME IInv, TurnInv, NEW c \in Calls, NEW t \in Tasks, DeleteTask(c, t)
    PROVE  TurnInv'
<1>1. /\ call[c].task = NoTask
      /\ Return(c)
      /\ life' = [life EXCEPT ![t] = "deleted"]
      /\ row' = [row EXCEPT ![t] = Blank]
      /\ told' = told /\ disturbed' = disturbed
  BY DEF IInv, CallInv, CallOK, DeleteTask, Remove
<1>2. /\ life'[t] # "alive"
      /\ \A u \in Tasks \ {t} : life'[u] = life[u] /\ row'[u] = row[u]
  BY <1>1 DEF IInv, TypeOK
<1>3. QED  BY <1>1, <1>2, TurnReturns

LEMMA CascadeTurn ==
    ASSUME IInv, TurnInv, NEW t \in Tasks, Cascade(t)
    PROVE  TurnInv'
<1>1. /\ life' = [life EXCEPT ![t] = "deleted"]
      /\ row' = [row EXCEPT ![t] = Blank]
      /\ UNCHANGED <<call, told, disturbed>>
  BY DEF Cascade, Remove
<1>2. /\ life'[t] # "alive"
      /\ \A u \in Tasks \ {t} : life'[u] = life[u] /\ row'[u] = row[u]
  BY <1>1 DEF IInv, TypeOK
<1>3. TurnsInv'
  <2> SUFFICES ASSUME NEW d \in Calls,
                      call[d].task \in Tasks \ disturbed
               PROVE  TurnOK(d)'
    BY <1>1 DEF TurnsInv
  <2>1. TurnOK(d)
    BY DEF TurnInv, TurnsInv
  <2>2. call[d].task # t =>
           /\ life'[call[d].task] = life[call[d].task]
           /\ row'[call[d].task] = row[call[d].task]
    BY <1>2
  <2>3. QED  BY <1>1, <1>2, <2>1, <2>2, TurnKept
<1>4. BackedInv'
  BY <1>1, <1>2 DEF TurnInv, BackedInv, Exists, Busy
<1>5. QED  BY <1>3, <1>4 DEF TurnInv

LEMMA FailBeforeWriteTurn ==
    ASSUME IInv, TurnInv, NEW c \in Calls, FailBeforeWrite(c)
    PROVE  TurnInv'
<1> DEFINE t == call[c].task
<1>1. /\ TypeOK /\ t \in Tasks /\ NoTask # t
      /\ call[c].step = "write"
      /\ Return(c)
      /\ UNCHANGED <<life, row, told, disturbed>>
  BY TaskServiceAssumption DEF IInv, CallInv, CallOK, FailBeforeWrite
<1>2. /\ \A d \in Calls \ {c} : call'[d] = call[d]
      /\ call'[c].task = NoTask
  BY <1>1, ReturnType
<1>3. t \notin disturbed => \A d \in Calls \ {c} : call[d].task # t
  BY <1>1 DEF IInv, AloneInv
<1>4. t \notin disturbed /\ life[t] = "alive" => Backs(row[t], told[t])
  BY <1>1 DEF IInv, ProgressInv, Progress, TurnInv, TurnsInv, TurnOK, Exists
<1>5. QED  BY <1>1, <1>2, <1>3, <1>4, TurnMoves

LEMMA FailAfterWriteTurn ==
    ASSUME IInv, TurnInv, NEW c \in Calls, FailAfterWrite(c)
    PROVE  TurnInv'
<1> DEFINE t == call[c].task
<1>1. /\ TypeOK /\ t \in Tasks
      /\ WriteRow(c) \/ UNCHANGED <<life, row>>
      /\ Return(c)
      /\ disturbed' = disturbed \cup {t}
      /\ told' = told
  BY DEF IInv, CallInv, CallOK, FailAfterWrite
<1>2. \A u \in Tasks \ {t} : row'[u] = row[u] /\ life'[u] = life[u]
  <2>1. CASE WriteRow(c)
    BY <1>1, <2>1, WriteRowType
  <2>2. QED  BY <1>1, <2>1
<1>3. QED  BY <1>1, <1>2, TurnReturns

LEMMA FailAfterInsertTurn ==
    ASSUME IInv, TurnInv, NEW c \in Calls, NEW t \in Tasks,
           NEW r \in Requests["create"], FailAfterInsert(c, t, r)
    PROVE  TurnInv'
<1>1. /\ call[c].task = NoTask
      /\ life' = [life EXCEPT ![t] = "alive"]
      /\ row' = [row EXCEPT ![t] = [r EXCEPT !["status"] = TODO]]
      /\ Return(c)
      /\ disturbed' = disturbed \cup {t}
      /\ told' = told
  BY DEF IInv, CallInv, CallOK, FailAfterInsert, Insert
<1>2. \A u \in Tasks \ {t} : row'[u] = row[u] /\ life'[u] = life[u]
  BY <1>1 DEF IInv, TypeOK
<1>3. QED  BY <1>1, <1>2, TurnReturns

\* After a crash nobody works on a task that is not disturbed, as before.
LEMMA CrashTurn ==
    ASSUME IInv, TurnInv, Crash
    PROVE  TurnInv'
<1>1. /\ call' = [c \in Calls |->
                    IF call[c].step = "fresh" THEN Fresh ELSE Returned]
      /\ disturbed' = disturbed \cup {t \in Tasks : Busy(t) # {}}
      /\ UNCHANGED <<life, row, told>>
  BY DEF Crash
<1>2. \A c \in Calls : call'[c].task = NoTask
  BY <1>1 DEF Fresh, Returned
<1>3. TurnsInv'
  BY <1>2, TaskServiceAssumption DEF TurnsInv
<1>4. BackedInv'
  BY <1>1 DEF TurnInv, BackedInv, Exists
<1>5. QED  BY <1>3, <1>4 DEF TurnInv

\* A step that leaves all but the link alone.
LEMMA QuietTurn ==
    ASSUME TurnInv, UNCHANGED <<life, row, call, told, disturbed>>
    PROVE  TurnInv'
<1>1. TurnsInv'
  BY TurnKept DEF TurnInv, TurnsInv
<1>2. BackedInv'
  BY DEF TurnInv, BackedInv, Exists, Busy
<1>3. QED  BY <1>1, <1>2 DEF TurnInv

LEMMA TurnNext ==
    ASSUME IInv, TurnInv, [Next]_vars
    PROVE  TurnInv'
<1>1. CASE UNCHANGED vars \/ BreakLink
  BY <1>1, QuietTurn DEF vars, BreakLink
<1>2. CASE Next
  BY <1>1, <1>2, CreateTurn, ReadTurn, DeleteTurn, UpdateTurn,
     WriteThenRereadTurn, AnnounceTurn, PublishTurn, FailBeforeWriteTurn,
     FailAfterWriteTurn, FailAfterInsertTurn, CascadeTurn, CrashTurn
     DEF Next, UpdateTaskStatus, AssignTask, UpdateTaskLabor
<1>3. QED  BY <1>1, <1>2

\* The step of a call that is publishing, on a task it leaves undisturbed.
LEMMA PublishTells ==
    ASSUME IInv, TurnInv, Next, NEW c \in Calls,
           call[c].step = "publish", call'[c] # call[c],
           call[c].task \notin disturbed'
    PROVE  /\ GoesOnFrom(call[c].op, Head(call[c].pending),
                         told[call[c].task])
           /\ told' = [told EXCEPT ![call[c].task] =
                          Merge(Head(call[c].pending), @)]
<1> DEFINE t == call[c].task
           p == call[c].pending
<1>1. TypeOK /\ t \in Tasks /\ Len(p) \in {1, 2} /\ p \in Seq(Rows)
  BY CallTypes DEF IInv, CallInv, CallOK
<1>2. ASSUME NEW d \in Calls, NEW v, call' = [call EXCEPT ![d] = v]
      PROVE  d = c
  BY <1>1, <1>2 DEF TypeOK
<1>3. ~Crash
  BY <1>1 DEF Crash, Busy
<1>4. ASSUME NEW d \in Calls, NEW u \in Tasks, NEW r, CreateTask(d, u, r)
      PROVE  FALSE
  <2>1. call' = [call EXCEPT ![d] =
                    [call[d] EXCEPT !.step = "publish", !.op = "create",
                       !.task = u, !.pending = <<[r EXCEPT !["status"] = TODO]>>]]
    BY <1>1, <1>4 DEF CreateTask, TypeOK
  <2>2. d = c
    BY <1>2, <2>1
  <2>3. QED  BY <1>4, <2>2 DEF CreateTask
<1>5. ASSUME NEW d \in Calls, NEW op, NEW u \in Tasks, NEW r,
             ReadTask(d, op, u, r)
      PROVE  FALSE
  BY <1>2, <1>5 DEF ReadTask
<1>6. ASSUME NEW d \in Calls, Return(d)
      PROVE  d = c
  BY <1>2, <1>6 DEF Return
<1>7. ASSUME NEW d \in Calls, NEW events, PublishNext(d, events)
      PROVE  d = c
  BY <1>1, <1>7 DEF PublishNext, TypeOK
<1>8. ASSUME NEW d \in Calls, NEW op, WriteThenReread(d, op)
      PROVE  FALSE
  BY <1>1, <1>8 DEF WriteThenReread, At, TypeOK
<1>9. PublishEvent(c)
  <2>1. ASSUME NEW d \in Calls,
               \/ UpdateTask(d)
               \/ AnnounceStatus(d) \/ AnnounceAssignment(d)
               \/ AnnounceLabor(d)
        PROVE  FALSE
    <3>1. call[d].step # "publish"
            /\ \E events : PublishNext(d, events)
      BY <2>1 DEF UpdateTask, AnnounceStatus, AnnounceAssignment,
                  AnnounceLabor, Reread, At
    <3>2. QED  BY <1>7, <3>1
  <2>2. ASSUME NEW d \in Calls, FailBeforeWrite(d) \/ FailAfterWrite(d)
        PROVE  FALSE
    BY <1>6, <2>2 DEF FailBeforeWrite, FailAfterWrite
  <2>3. ASSUME NEW d \in Calls, NEW u \in Tasks, NEW r,
               FailAfterInsert(d, u, r) \/ DeleteTask(d, u)
        PROVE  FALSE
    BY <1>6, <2>3 DEF FailAfterInsert, DeleteTask
  <2>4. ASSUME (\E u \in Tasks : Cascade(u)) \/ BreakLink
        PROVE  FALSE
    BY <2>4 DEF Cascade, BreakLink
  <2>5. ASSUME NEW d \in Calls, PublishEvent(d)
        PROVE  d = c
    BY <1>7, <2>5 DEF PublishEvent
  <2>6. QED
    BY <1>3, <1>4, <1>5, <1>8, <2>1, <2>2, <2>3, <2>4, <2>5
       DEF Next, UpdateTaskStatus, AssignTask, UpdateTaskLabor
<1>10. told' = [told EXCEPT ![t] = Merge(Head(p), @)]
         /\ disturbed' = disturbed
  BY <1>9 DEF PublishEvent
<1>11. GoesOnFrom(call[c].op, p[1], told[t])
  BY <1>1, <1>10 DEF TurnInv, TurnsInv, TurnOK, InTurn
<1>12. Head(p) = p[1]
  BY <1>1, EmptySeq, HeadTailProperties
<1>13. QED  BY <1>10, <1>11, <1>12

\* The events of a task, with no overlap and no fault, come in the turn the
\* models of the event consumers suppose.
THEOREM EventsAreToldInTurn == Spec => ToldInTurn
<1>1. Init => TurnInv
  <2> SUFFICES ASSUME Init
               PROVE  TurnInv
    OBVIOUS
  <2>1. \A c \in Calls : call[c].task = NoTask
    BY DEF Init, Fresh
  <2>2. QED
    BY <2>1, TaskServiceAssumption
       DEF Init, TurnInv, TurnsInv, BackedInv, Exists
<1>2. IInv /\ TurnInv /\ [Next]_vars => TurnInv'
  BY TurnNext
<1>3. IInv /\ TurnInv /\ [Next]_vars =>
         [\A c \in Calls :
             LET t == call[c].task IN
             call[c].step = "publish" /\ call'[c] # call[c]
             /\ t \notin disturbed' =>
                 /\ GoesOnFrom(call[c].op, Head(call[c].pending), told[t])
                 /\ told' = [told EXCEPT ![t] =
                                Merge(Head(call[c].pending), @)]]_vars
  BY PublishTells
<1>4. QED
  BY <1>1, <1>2, <1>3, TaskInvariant, PTL DEF Spec, ToldInTurn
=============================================================================
