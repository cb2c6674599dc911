------------------------ MODULE TaskAnalyticsProofs ------------------------
(***************************************************************************)
(* Proofs about TaskAnalytics.  The inductive invariant says besides the   *)
(* types which statements may be left for the event in hand and what has   *)
(* been done for it by then, and that every event the goroutine has passed *)
(* by is recorded as lost or has left its completion in the row.  The      *)
(* second invariant adds what the rows come to: there is a story of the    *)
(* entries of each task, event after event, that ends as the calls told it *)
(* and that a row has reached as far as the goroutine has.                 *)
(***************************************************************************)
EXTENDS TaskAnalytics, SequenceTheorems, TLAPS

\* Every event names an assignee.
SourceShape ==
    /\ \A i \in 1..Len(log) : log[i].says.assignee \in Users
    /\ \A t \in Tasks : Known(t) => told[t].assignee \in Users
    /\ \A t \in Tasks : late[t] # Nothing => late[t].assignee \in Users

\* Only a recorded event has effects, only a completing one completes.
HandlerPlace ==
    current # NoEvent =>
        /\ \A j \in 1..Len(todo) :
              /\ todo[j] = "save" => j = 1
              /\ todo[j] = "complete" => Completes(Event)
        /\ Head(todo) # "save" => current \in raw

\* An event behind the one in hand is taken only by being lost.
SkippedIsLost == current # NoEvent => (current + 1)..taken \subseteq lost

\* A completion not lost is in the row, or will be by a statement to come.
CompletionsReachTheRow ==
    \A i \in 1..taken : i \notin lost /\ Completes(log[i]) =>
        \/ row[log[i].task].completed >= i
        \/ i = current /\ \E j \in 1..Len(todo) : todo[j] = "complete"

IInv ==
    /\ TypeOK
    /\ SourceShape
    /\ HandlerPlace
    /\ SkippedIsLost
    /\ CompletionsReachTheRow
    /\ CompletionIsVouched
    /\ EffectsAreRecorded

-----------------------------------------------------------------------------
(* The operators. *)

Fields == {"assignee", "department", "deadline", "status", "planned", "actual"}

LEMMA ConstantFacts ==
    /\ Movers \subseteq Users
    /\ Users \subseteq Nat \ {0}
    /\ Departments \subseteq Nat \ {0}
    /\ Deadlines \subseteq Nat \ {0}
    /\ Hours \subseteq Nat \ {0}
    /\ TODO \in Statuses
    /\ Statuses \subseteq Nat \ {0}
    /\ MaxEvents \in Nat
BY AnalyticsAssumption

LEMMA NothingIsFacts ==
    /\ Nothing \in Facts
    /\ DOMAIN Nothing = Fields
    /\ \A k \in Fields : Nothing[k] = 0
<1>1. Nothing = [assignee |-> 0, department |-> 0, deadline |-> 0,
                 status |-> 0, planned |-> 0, actual |-> 0]
  BY DEF Nothing
<1> QED
  BY <1>1 DEF Nothing, Facts, Fields

\* A field of the merge is one of the two, and never 0 for something.
LEMMA MergeFacts ==
    ASSUME NEW f \in Facts, NEW g \in Facts
    PROVE  /\ Merge(f, g) \in Facts
           /\ \A k \in Fields : Merge(f, g)[k] = IF f[k] # 0 THEN f[k] ELSE g[k]
<1>1. Merge(f, g) = [k \in Fields |-> Given(f[k], g[k])]
  BY NothingIsFacts DEF Merge
<1>2. ASSUME NEW k \in Fields
      PROVE  Given(f[k], g[k]) = IF f[k] # 0 THEN f[k] ELSE g[k]
  <2>1. /\ f.assignee \in Users \cup {0} /\ f.department \in Departments \cup {0}
        /\ f.deadline \in Deadlines \cup {0} /\ f.status \in Statuses \cup {0}
        /\ f.planned \in Hours \cup {0} /\ f.actual \in Hours \cup {0}
    BY DEF Facts
  <2>2. \A n \in Users \cup Departments \cup Deadlines \cup Hours \cup Statuses
                 \cup {0} : n \in Nat
    BY ConstantFacts
  <2>3. f[k] \in Nat
    <3>1. CASE k \in {"assignee", "department", "deadline"}
      BY <2>1, <2>2, <3>1
    <3>2. CASE k \in {"status", "planned", "actual"}
      BY <2>1, <2>2, <3>2
    <3> QED
      BY <3>1, <3>2 DEF Fields
  <2> QED
    BY <2>3 DEF Given
<1>3. Merge(f, g) = [k \in Fields |-> IF f[k] # 0 THEN f[k] ELSE g[k]]
  BY <1>1, <1>2
<1>4. Merge(f, g) = [assignee |-> IF f.assignee # 0 THEN f.assignee ELSE g.assignee,
                     department |-> IF f.department # 0 THEN f.department
                                                         ELSE g.department,
                     deadline |-> IF f.deadline # 0 THEN f.deadline ELSE g.deadline,
                     status |-> IF f.status # 0 THEN f.status ELSE g.status,
                     planned |-> IF f.planned # 0 THEN f.planned ELSE g.planned,
                     actual |-> IF f.actual # 0 THEN f.actual ELSE g.actual]
  BY <1>3 DEF Fields
<1>5. Merge(f, g) \in Facts
  BY <1>4 DEF Facts
<1> QED
  BY <1>3, <1>5

\* Fields picked from an event are the event's, or 0.
LEMMA OnlyFacts ==
    ASSUME NEW f \in Facts, NEW S \in SUBSET Fields
    PROVE  /\ Only(f, S) \in Facts
           /\ \A k \in Fields : Only(f, S)[k] \in {0, f[k]}
<1>1. Only(f, S) = [k \in Fields |-> IF k \in S THEN f[k] ELSE 0]
  BY NothingIsFacts DEF Only
<1>2. Only(f, S) = [assignee |-> IF "assignee" \in S THEN f.assignee ELSE 0,
                    department |-> IF "department" \in S THEN f.department ELSE 0,
                    deadline |-> IF "deadline" \in S THEN f.deadline ELSE 0,
                    status |-> IF "status" \in S THEN f.status ELSE 0,
                    planned |-> IF "planned" \in S THEN f.planned ELSE 0,
                    actual |-> IF "actual" \in S THEN f.actual ELSE 0]
  BY <1>1 DEF Fields
<1>3. Only(f, S) \in Facts
  BY <1>2 DEF Facts
<1> QED
  BY <1>1, <1>3

LEMMA PassedFacts ==
    ASSUME NEW e \in Events
    PROVE  /\ Passed(e) \in Facts
           /\ \A k \in Fields : Passed(e)[k] \in {0, e.says[k]}
<1>1. e.says \in Facts
  BY DEF Events
<1>2. /\ {"assignee", "department", "status", "deadline"} \in SUBSET Fields
      /\ {"assignee", "department", "deadline"} \in SUBSET Fields
      /\ {"assignee", "department"} \in SUBSET Fields
  BY DEF Fields
<1>3. CASE e.kind \in {"created", "status_changed"}
  <2>1. Passed(e) = Only(e.says, {"assignee", "department", "status", "deadline"})
    BY <1>3 DEF Passed
  <2> QED
    BY <1>1, <1>2, <2>1, OnlyFacts
<1>4. CASE e.kind = "deadline_changed"
  <2>1. Passed(e) = Only(e.says, {"assignee", "department", "deadline"})
    BY <1>4 DEF Passed
  <2> QED
    BY <1>1, <1>2, <2>1, OnlyFacts
<1>5. CASE e.kind \notin {"created", "status_changed", "deadline_changed"}
  <2>1. Passed(e) = Only(e.says, {"assignee", "department"})
    BY <1>5 DEF Passed
  <2> QED
    BY <1>1, <1>2, <2>1, OnlyFacts
<1> QED
  BY <1>3, <1>4, <1>5

\* The handler of every event starts by recording it.
LEMMA HandlerFacts ==
    ASSUME NEW e
    PROVE  /\ Handler(e) \in Seq(Statements)
           /\ Handler(e) # <<>>
           /\ \A j \in 1..Len(Handler(e)) :
                 /\ Handler(e)[j] = "save" <=> j = 1
                 /\ Handler(e)[j] = "complete" => Completes(e)
           /\ Completes(e) =>
                 \E j \in 1..Len(Handler(e)) : Handler(e)[j] = "complete"
<1> DEFINE base == <<"save", "task", "user">>
           a == IF HasLabor(e) /\ e.kind \in {"created", "status_changed", "updated"}
                THEN <<"labor">> ELSE <<>>
           b == IF Completes(e) THEN <<"complete">> ELSE <<>>
           s == base \o a
<1>1. Handler(e) = s \o b
  BY DEF Handler
<1>2. /\ base \in Seq(Statements)
      /\ Len(base) = 3
      /\ base[1] = "save" /\ base[2] = "task" /\ base[3] = "user"
  BY DEF Statements
<1>3. /\ a \in Seq(Statements)
      /\ Len(a) \in 0..1
      /\ \A j \in 1..Len(a) : a[j] = "labor"
  <2>1. CASE a = <<"labor">>
    <3> HIDE DEF a
    <3> QED
      BY <2>1 DEF Statements
  <2>2. CASE a = <<>>
    <3> HIDE DEF a
    <3> QED
      BY <2>2
  <2> QED
    BY <2>1, <2>2
<1>4. /\ b \in Seq(Statements)
      /\ Len(b) \in 0..1
      /\ \A j \in 1..Len(b) : b[j] = "complete" /\ Completes(e)
      /\ Completes(e) => Len(b) = 1
  <2>1. CASE Completes(e)
    <3>1. b = <<"complete">>
      BY <2>1
    <3> QED
      BY <2>1, <3>1 DEF Statements
  <2>2. CASE ~Completes(e)
    <3>1. b = <<>>
      BY <2>2
    <3> QED
      BY <2>2, <3>1
  <2> QED
    BY <2>1, <2>2
<1> HIDE DEF base, a, b
<1>5. /\ s \in Seq(Statements)
      /\ Len(s) = 3 + Len(a)
      /\ \A i \in 1..(3 + Len(a)) : s[i] = IF i <= 3 THEN base[i] ELSE a[i - 3]
  <2>1. /\ base \o a \in Seq(Statements)
        /\ Len(base \o a) = Len(base) + Len(a)
        /\ \A i \in 1..(Len(base) + Len(a)) :
              (base \o a)[i] = IF i <= Len(base) THEN base[i] ELSE a[i - Len(base)]
    BY <1>2, <1>3, ConcatProperties
  <2> QED
    BY <1>2, <2>1
<1>6. s[1] = "save" /\ \A i \in 2..Len(s) : s[i] \in {"task", "user", "labor"}
  <2>1. ASSUME NEW i \in 2..Len(s)
        PROVE  s[i] \in {"task", "user", "labor"}
    <3>1. CASE i \in {2, 3}
      BY <1>2, <1>3, <1>5, <3>1
    <3>2. CASE i \notin {2, 3}
      <4>1. i - 3 \in 1..Len(a) /\ ~(i <= 3)
        BY <1>3, <1>5, <3>2
      <4> QED
        BY <1>3, <1>5, <4>1
    <3> QED
      BY <3>1, <3>2
  <2> QED
    BY <1>2, <1>3, <1>5, <2>1
<1> HIDE DEF s
<1>7. /\ Handler(e) \in Seq(Statements)
      /\ Len(Handler(e)) = Len(s) + Len(b)
      /\ \A i \in 1..(Len(s) + Len(b)) :
            Handler(e)[i] = IF i <= Len(s) THEN s[i] ELSE b[i - Len(s)]
  <2>1. /\ s \o b \in Seq(Statements)
        /\ Len(s \o b) = Len(s) + Len(b)
        /\ \A i \in 1..(Len(s) + Len(b)) :
              (s \o b)[i] = IF i <= Len(s) THEN s[i] ELSE b[i - Len(s)]
    BY <1>4, <1>5, ConcatProperties
  <2> QED
    BY <1>1, <2>1
<1>8. ASSUME NEW i \in 1..Len(Handler(e))
      PROVE  /\ Handler(e)[i] = "save" <=> i = 1
             /\ Handler(e)[i] = "complete" => Completes(e)
  <2>1. CASE i <= Len(s)
    BY <1>3, <1>5, <1>6, <1>7, <2>1
  <2>2. CASE i > Len(s)
    <3>1. i - Len(s) \in 1..Len(b) /\ i # 1
      BY <1>3, <1>4, <1>5, <1>7, <2>2
    <3> QED
      BY <1>3, <1>4, <1>5, <1>7, <2>2, <3>1
  <2> QED
    BY <1>3, <1>5, <2>1, <2>2
<1>9. ASSUME Completes(e)
      PROVE  \E i \in 1..Len(Handler(e)) : Handler(e)[i] = "complete"
  <2>1. /\ Len(s) + 1 \in 1..Len(Handler(e))
        /\ Handler(e)[Len(s) + 1] = b[1]
    BY <1>3, <1>4, <1>5, <1>7, <1>9
  <2> QED
    BY <1>4, <1>9, <2>1
<1>10. Handler(e) # <<>>
  <2>1. Len(Handler(e)) # 0
    BY <1>3, <1>4, <1>5, <1>7
  <2> QED
    BY <2>1, EmptySeq
<1>11. \A j \in 1..Len(Handler(e)) :
          /\ Handler(e)[j] = "save" <=> j = 1
          /\ Handler(e)[j] = "complete" => Completes(e)
  BY <1>8
<1> QED
  BY <1>7, <1>9, <1>10, <1>11

-----------------------------------------------------------------------------
(* The steps of the producers and of the queue. *)

LEMMA InitIInv == Init => IInv
<1> SUFFICES ASSUME Init PROVE IInv
  OBVIOUS
<1> USE DEF Init
<1>1. /\ log \in Seq(Events) /\ Len(log) = 0
      /\ todo \in Seq(Statements) /\ todo = <<>>
  BY EmptySeq
<1>2. NoRow \in Rows
  BY NothingIsFacts DEF NoRow, Rows
<1>3. TypeOK
  BY <1>1, <1>2, NothingIsFacts, ConstantFacts, AnalyticsAssumption
  DEF TypeOK, NoEvent
<1>4. SourceShape /\ HandlerPlace /\ SkippedIsLost /\ CompletionsReachTheRow
  BY <1>1 DEF SourceShape, HandlerPlace, SkippedIsLost, CompletionsReachTheRow,
              Known
<1>5. CompletionIsVouched
  BY DEF CompletionIsVouched, NoRow
<1>6. EffectsAreRecorded
  BY NothingIsFacts DEF EffectsAreRecorded, NoRow
<1> QED
  BY <1>3, <1>4, <1>5, <1>6 DEF IInv

\* What the types say of the events and of the event in hand.
LEMMA TypeFacts ==
    ASSUME TypeOK
    PROVE  /\ Len(log) \in Nat
           /\ taken \in Nat /\ taken <= Len(log)
           /\ delivered \in Nat /\ taken <= delivered /\ delivered <= Len(log)
           /\ \A i \in 1..Len(log) : log[i] \in Events
           /\ current # NoEvent => /\ current \in 1..taken
                                   /\ current \in 1..Len(log)
                                   /\ current \in EventIds
                                   /\ Event \in Events
                                   /\ todo \in Seq(Statements) /\ todo # <<>>
<1>1. log \in Seq(Events) /\ Len(log) \in Nat
  BY LenProperties DEF TypeOK
<1>2. \A i \in 1..Len(log) : log[i] \in Events
  BY <1>1, ElementOfSeq
<1> QED
  BY <1>1, <1>2, ConstantFacts DEF TypeOK, NoEvent, EventIds, Event

\* An event more at the end of the log disturbs nothing.
LEMMA SendKeepsIInv ==
    ASSUME IInv, NEW kind \in EventKinds, NEW t \in Tasks, NEW event \in Facts,
           event.assignee \in Users, Send(kind, t, event),
           told' \in [Tasks -> Facts], late' \in [Tasks -> Facts],
           \A x \in Tasks : told'[x] # Nothing => told'[x].assignee \in Users,
           \A x \in Tasks : late'[x] # Nothing => late'[x].assignee \in Users
    PROVE  IInv'
<1> DEFINE e == [kind |-> kind, task |-> t, says |-> event]
<1>1. e \in Events /\ e.says.assignee \in Users
  BY DEF Events
<1>2. /\ log \in Seq(Events)
      /\ Len(log) \in Nat
      /\ Len(log) < MaxEvents
  BY TypeFacts DEF IInv, TypeOK, Send
<1>3. /\ log' = Append(log, e)
      /\ UNCHANGED <<member, delivered, taken, current, todo, raw, row,
                     department, link, lost>>
  BY DEF Send, consumerVars, dbVars
<1> HIDE DEF e
<1>4. /\ log' \in Seq(Events)
      /\ Len(log') = Len(log) + 1
      /\ \A i \in 1..Len(log) : log'[i] = log[i]
      /\ log'[Len(log) + 1] = e
  BY <1>1, <1>2, <1>3, AppendProperties
<1>5. TypeOK'
  BY <1>2, <1>3, <1>4, ConstantFacts, TypeFacts DEF IInv, TypeOK
<1>6. SourceShape'
  <2>1. ASSUME NEW i \in 1..Len(log') PROVE log'[i].says.assignee \in Users
    BY <1>1, <1>2, <1>4 DEF IInv, SourceShape
  <2> QED
    BY <2>1 DEF SourceShape, Known
<1>7. current # NoEvent => Event' = Event
  BY <1>3, <1>4, TypeFacts DEF IInv, Event
<1>8. HandlerPlace' /\ SkippedIsLost'
  BY <1>3, <1>7 DEF IInv, HandlerPlace, SkippedIsLost, Completes
<1>9. CompletionsReachTheRow'
  BY <1>3, <1>4, TypeFacts DEF IInv, CompletionsReachTheRow, Completes
<1>10. CompletionIsVouched'
  BY <1>2, <1>3, <1>4 DEF IInv, CompletionIsVouched, EventsOf
<1>11. EffectsAreRecorded'
  <2>1. \A i \in raw : i \in 1..Len(log) /\ log'[i] = log[i]
    BY <1>2, <1>4, TypeFacts DEF IInv, TypeOK
  <2> QED
    BY <1>3, <2>1 DEF IInv, EffectsAreRecorded
<1> QED
  BY <1>5, <1>6, <1>8, <1>9, <1>10, <1>11 DEF IInv

\* The department is the only thing an event adds.
LEMMA WithDepartmentFacts ==
    ASSUME IInv, NEW says \in Facts, says.assignee \in Users
    PROVE  /\ WithDepartment(says) \in Facts
           /\ WithDepartment(says).assignee = says.assignee
  BY DEF IInv, TypeOK, Facts, WithDepartment

\* An assignee is kept by a merge, whichever of the two it is from.
LEMMA MergedAssignee ==
    ASSUME NEW n \in Facts, NEW o \in Facts,
           \/ n.assignee \in Users
           \/ o.assignee \in Users /\ n.assignee = 0
    PROVE  Merge(n, o).assignee \in Users
<1>1. Merge(n, o)["assignee"] = IF n["assignee"] # 0 THEN n["assignee"]
                                                   ELSE o["assignee"]
  BY MergeFacts DEF Fields
<1>2. n.assignee \in Users => n.assignee # 0
  BY ConstantFacts
<1> QED
  BY <1>1, <1>2

LEMMA PublishKeepsIInv ==
    ASSUME IInv, NEW kind \in EventKinds, NEW t \in Tasks, NEW says \in Facts,
           says.assignee \in Users, Publish(kind, t, says)
    PROVE  IInv'
<1> DEFINE event == WithDepartment(says)
<1>1. event \in Facts /\ event.assignee \in Users
  BY WithDepartmentFacts
<1>2. /\ told \in [Tasks -> Facts] /\ late \in [Tasks -> Facts]
      /\ Send(kind, t, event)
      /\ told' = [told EXCEPT ![t] = Merge(event, @)] /\ late' = late
  BY DEF IInv, TypeOK, Publish
<1> HIDE DEF event
<1>3. Merge(event, told[t]) \in Facts /\ Merge(event, told[t]).assignee \in Users
  BY <1>1, <1>2, MergeFacts, MergedAssignee
<1>4. /\ told' \in [Tasks -> Facts]
      /\ \A x \in Tasks : told'[x] # Nothing => told'[x].assignee \in Users
  BY <1>2, <1>3 DEF IInv, SourceShape, Known
<1> QED
  BY <1>1, <1>2, <1>4, SendKeepsIInv DEF IInv, SourceShape

\* The row is there; nobody has heard of it.
LEMMA CreateTaskKeepsIInv ==
    ASSUME IInv, NEW t \in Tasks, NEW u \in Users, NEW d \in Deadlines \cup {0},
           NEW h \in Hours \cup {0}, CreateTask(t, u, d, h)
    PROVE  IInv'
<1> DEFINE says == [Nothing EXCEPT !.assignee = u, !.deadline = d,
                                   !.status = TODO, !.planned = h]
<1>1. \A o \in Facts :
         LET n == [o EXCEPT !.assignee = u, !.deadline = d, !.status = TODO,
                            !.planned = h]
         IN  n \in Facts /\ n.assignee = u
  BY ConstantFacts DEF Facts
<1>2. says \in Facts /\ says.assignee \in Users
  BY <1>1, NothingIsFacts
<1>3. /\ told' = [told EXCEPT ![t] = says]
      /\ late' = [late EXCEPT ![t] = says]
      /\ UNCHANGED <<member, log, delivered, taken, current, todo, raw, row,
                     department, link, lost>>
  BY DEF CreateTask, consumerVars, dbVars
<1> HIDE DEF says
<1>4. TypeOK'
  BY <1>2, <1>3 DEF IInv, TypeOK
<1>5. SourceShape'
  BY <1>2, <1>3 DEF IInv, TypeOK, SourceShape, Known
<1>6. HandlerPlace' /\ SkippedIsLost' /\ CompletionsReachTheRow'
  BY <1>3 DEF IInv, HandlerPlace, SkippedIsLost, CompletionsReachTheRow, Event,
              Completes
<1>7. CompletionIsVouched' /\ EffectsAreRecorded'
  BY <1>3 DEF IInv, CompletionIsVouched, EffectsAreRecorded, EventsOf
<1> QED
  BY <1>4, <1>5, <1>6, <1>7 DEF IInv

LEMMA PublishCreatedKeepsIInv ==
    ASSUME IInv, NEW t \in Tasks, PublishCreated(t)
    PROVE  IInv'
<1> DEFINE event == WithDepartment(late[t])
<1>1. /\ told \in [Tasks -> Facts] /\ late \in [Tasks -> Facts]
      /\ late[t] # Nothing /\ late[t].assignee \in Users
      /\ Known(t) => told[t].assignee \in Users
  BY DEF IInv, TypeOK, SourceShape, PublishCreated
<1>2. event \in Facts /\ event.assignee \in Users
  BY <1>1, WithDepartmentFacts
<1>3. /\ Send("created", t, event)
      /\ told' = [told EXCEPT ![t] = Merge(@, event)]
      /\ late' = [late EXCEPT ![t] = Nothing]
  BY DEF PublishCreated
<1> HIDE DEF event
<1>4. Merge(told[t], event) \in Facts /\ Merge(told[t], event).assignee \in Users
  <2>1. told[t].assignee \in Users \/ told[t].assignee = 0
    BY <1>1 DEF Facts
  <2> QED
    BY <1>1, <1>2, <2>1, MergeFacts, MergedAssignee
<1>5. /\ told' \in [Tasks -> Facts]
      /\ \A x \in Tasks : told'[x] # Nothing => told'[x].assignee \in Users
  BY <1>1, <1>3, <1>4 DEF IInv, SourceShape, Known
<1>6. /\ late' \in [Tasks -> Facts]
      /\ \A x \in Tasks : late'[x] # Nothing => late'[x].assignee \in Users
  BY <1>1, <1>3, NothingIsFacts DEF IInv, SourceShape
<1> QED
  BY <1>2, <1>3, <1>5, <1>6, SendKeepsIInv DEF EventKinds

\* Every other call on a task publishes an event that names its assignee.
LEMMA CallKeepsIInv ==
    ASSUME IInv, NEW t \in Tasks, Call(t)
    PROVE  IInv'
<1>1. told[t] \in Facts /\ (Known(t) => told[t].assignee \in Users)
  BY DEF IInv, TypeOK, SourceShape
<1>2. ASSUME PublishCreated(t) \/ \E u \in Users, d \in Deadlines \cup {0},
                h \in Hours \cup {0} : CreateTask(t, u, d, h)
      PROVE  IInv'
  BY <1>2, CreateTaskKeepsIInv, PublishCreatedKeepsIInv
<1>3. ASSUME NEW u \in Users, AssignTask(t, u)
      PROVE  IInv'
  <2> DEFINE says == [Only(told[t], {"deadline", "status"}) EXCEPT !.assignee = u]
  <2>1. Only(told[t], {"deadline", "status"}) \in Facts
    BY <1>1, OnlyFacts DEF Fields
  <2>2. says \in Facts /\ says.assignee \in Users
    BY <2>1 DEF Facts
  <2>3. Publish("assigned", t, says)
    BY <1>3 DEF AssignTask
  <2> QED
    BY <2>2, <2>3, PublishKeepsIInv DEF EventKinds
<1>4. ASSUME NEW d \in Deadlines, ChangeDeadline(t, d)
      PROVE  IInv'
  <2> DEFINE says == [Only(told[t], {"assignee"}) EXCEPT !.deadline = d]
  <2>1. /\ Only(told[t], {"assignee"}) \in Facts
        /\ Only(told[t], {"assignee"}).assignee = told[t].assignee
    BY <1>1, OnlyFacts, NothingIsFacts DEF Fields, Only
  <2>2. says \in Facts /\ says.assignee \in Users
    <3>1. \A o \in Facts : /\ [o EXCEPT !.deadline = d] \in Facts
                           /\ [o EXCEPT !.deadline = d].assignee = o.assignee
      BY DEF Facts
    <3>2. told[t].assignee \in Users
      BY <1>1, <1>4 DEF ChangeDeadline
    <3> QED
      BY <2>1, <3>1, <3>2
  <2>3. Publish("deadline_changed", t, says)
    BY <1>4 DEF ChangeDeadline
  <2> QED
    BY <2>2, <2>3, PublishKeepsIInv DEF EventKinds
<1>5. ASSUME NEW s \in Statuses, NEW h \in Hours \cup {0}, UpdateTaskStatus(t, s, h)
      PROVE  IInv'
  <2> DEFINE says == [told[t] EXCEPT !.status = s, !.actual = Given(h, @)]
  <2>1. told[t].actual \in Hours \cup {0}
    BY <1>1 DEF Facts
  <2>2. Given(h, told[t].actual) \in Hours \cup {0}
    BY <2>1 DEF Given
  <2>3. says \in Facts /\ says.assignee \in Users
    BY <1>1, <1>5, <2>2 DEF Facts, UpdateTaskStatus
  <2>4. Publish("status_changed", t, says)
    BY <1>5 DEF UpdateTaskStatus
  <2> QED
    BY <2>3, <2>4, PublishKeepsIInv DEF EventKinds
<1>6. ASSUME NEW p \in Hours \cup {0}, NEW h \in Hours \cup {0},
             UpdateTaskLabor(t, p, h)
      PROVE  IInv'
  <2> DEFINE says == [told[t] EXCEPT !.planned = Given(p, @),
                                     !.actual = Given(h, @)]
  <2>1. told[t].planned \in Hours \cup {0} /\ told[t].actual \in Hours \cup {0}
    BY <1>1 DEF Facts
  <2>2. /\ Given(p, told[t].planned) \in Hours \cup {0}
        /\ Given(h, told[t].actual) \in Hours \cup {0}
    BY <2>1 DEF Given
  <2>3. says \in Facts /\ says.assignee \in Users
    BY <1>1, <1>6, <2>2 DEF Facts, UpdateTaskLabor
  <2>4. Publish("updated", t, says)
    BY <1>6 DEF UpdateTaskLabor
  <2> QED
    BY <2>3, <2>4, PublishKeepsIInv DEF EventKinds
<1> QED
  BY <1>2, <1>3, <1>4, <1>5, <1>6 DEF Call

\* Nothing that concerns the rows changes.
RowsRest == UNCHANGED <<log, raw, row, department>>

LEMMA RowsRestKeeps ==
    ASSUME IInv, RowsRest
    PROVE  CompletionIsVouched' /\ EffectsAreRecorded'
BY DEF IInv, RowsRest, CompletionIsVouched, EffectsAreRecorded, EventsOf

LEMMA ChangeDepartmentKeepsIInv ==
    ASSUME IInv, NEW u \in Users, NEW d \in Departments \cup {0},
           ChangeDepartment(u, d)
    PROVE  IInv'
<1> USE DEF ChangeDepartment, consumerVars, dbVars
<1>1. TypeOK'
  BY DEF IInv, TypeOK
<1>2. SourceShape' /\ HandlerPlace' /\ SkippedIsLost' /\ CompletionsReachTheRow'
  BY DEF IInv, SourceShape, HandlerPlace, SkippedIsLost, CompletionsReachTheRow,
         Known, Event, Completes
<1>3. RowsRest
  BY DEF RowsRest
<1> QED
  BY <1>1, <1>2, <1>3, RowsRestKeeps DEF IInv

LEMMA DeliverKeepsIInv ==
    ASSUME IInv, Deliver
    PROVE  IInv'
<1> USE DEF Deliver, sourceVars, consumerVars, dbVars
<1>1. TypeOK'
  BY TypeFacts DEF IInv, TypeOK
<1>2. SourceShape' /\ HandlerPlace' /\ SkippedIsLost' /\ CompletionsReachTheRow'
  BY DEF IInv, SourceShape, HandlerPlace, SkippedIsLost, CompletionsReachTheRow,
         Known, Event, Completes
<1>3. RowsRest
  BY DEF RowsRest
<1> QED
  BY <1>1, <1>2, <1>3, RowsRestKeeps DEF IInv

LEMMA TakeEventKeepsIInv ==
    ASSUME IInv, TakeEvent
    PROVE  IInv'
<1> DEFINE e == log[taken + 1]
<1>1. /\ taken' = taken + 1 /\ current' = taken + 1
      /\ todo' = Handler(e)
      /\ current = NoEvent /\ taken < delivered
      /\ UNCHANGED <<member, told, late, log, delivered, raw, row, department, link, lost>>
  BY DEF TakeEvent, sourceVars, dbVars
<1>2. taken \in Nat /\ delivered \in Nat /\ taken + 1 # NoEvent
  BY TypeFacts DEF IInv, NoEvent
<1>3. /\ Handler(e) \in Seq(Statements)
      /\ Handler(e) # <<>>
      /\ \A j \in 1..Len(Handler(e)) :
            /\ Handler(e)[j] = "save" <=> j = 1
            /\ Handler(e)[j] = "complete" => Completes(e)
      /\ Completes(e) => \E j \in 1..Len(Handler(e)) : Handler(e)[j] = "complete"
  BY HandlerFacts
<1>4. TypeOK'
  BY <1>1, <1>2, <1>3 DEF IInv, TypeOK
<1>5. SourceShape'
  BY <1>1 DEF IInv, SourceShape, Known
<1>6. Event' = e
  BY <1>1 DEF Event
<1>7. Head(todo') = "save"
  <2>1. Len(Handler(e)) \in Nat \ {0}
    BY <1>3, EmptySeq
  <2>2. Head(Handler(e)) = Handler(e)[1]
    BY <1>3
  <2> QED
    BY <1>1, <1>3, <2>1, <2>2
<1>8. HandlerPlace'
  BY <1>1, <1>3, <1>6, <1>7 DEF HandlerPlace, Completes
<1>9. SkippedIsLost'
  BY <1>1, <1>2 DEF SkippedIsLost
<1>10. CompletionsReachTheRow'
  <2>1. ASSUME NEW i \in 1..taken', i \notin lost', Completes(log'[i])
        PROVE  \/ row'[log'[i].task].completed >= i
               \/ i = current' /\ \E j \in 1..Len(todo') : todo'[j] = "complete"
    <3>1. CASE i = taken + 1
      BY <1>1, <1>3, <2>1, <3>1
    <3>2. CASE i \in 1..taken
      BY <1>1, <2>1, <3>2 DEF IInv, CompletionsReachTheRow, NoEvent
    <3> QED
      BY <1>1, <1>2, <3>1, <3>2
  <2> QED
    BY <2>1 DEF CompletionsReachTheRow, Completes
<1>11. RowsRest
  BY <1>1 DEF RowsRest
<1> QED
  BY <1>4, <1>5, <1>8, <1>9, <1>10, <1>11, RowsRestKeeps DEF IInv

LEMMA CutLinkKeepsIInv ==
    ASSUME IInv, CutLink
    PROVE  IInv'
<1>1. /\ link' = "cut" /\ taken' = delivered
      /\ lost' = lost \cup (taken + 1)..delivered
      /\ UNCHANGED <<member, told, late, log, delivered, current, todo, raw, row,
                     department>>
  BY DEF CutLink, DropBuffer, sourceVars, dbVars
<1>2. TypeOK'
  BY <1>1, TypeFacts DEF IInv, TypeOK
<1>3. SourceShape' /\ HandlerPlace'
  BY <1>1 DEF IInv, SourceShape, HandlerPlace, Known, Event, Completes
<1>4. SkippedIsLost'
  BY <1>1, TypeFacts DEF IInv, SkippedIsLost
<1>5. CompletionsReachTheRow'
  BY <1>1, TypeFacts DEF IInv, CompletionsReachTheRow, Completes
<1>6. RowsRest
  BY <1>1 DEF RowsRest
<1> QED
  BY <1>2, <1>3, <1>4, <1>5, <1>6, RowsRestKeeps DEF IInv

LEMMA CrashKeepsIInv ==
    ASSUME IInv, Crash
    PROVE  IInv'
<1>1. /\ link' = "up" /\ taken' = delivered
      /\ lost' = lost \cup (taken + 1)..delivered \cup ({current} \ {NoEvent})
      /\ todo' = <<>> /\ current' = NoEvent
      /\ UNCHANGED <<member, told, late, log, delivered, raw, row, department>>
  BY DEF Crash, Continue, sourceVars, dbVars
<1>2. TypeOK'
  <2>1. <<>> \in Seq(Statements)
    BY EmptySeq
  <2> QED
    BY <1>1, <2>1, TypeFacts DEF IInv, TypeOK, NoEvent
<1>3. SourceShape' /\ HandlerPlace' /\ SkippedIsLost'
  BY <1>1 DEF IInv, SourceShape, HandlerPlace, SkippedIsLost, Known
<1>4. CompletionsReachTheRow'
  BY <1>1, TypeFacts DEF IInv, TypeOK, CompletionsReachTheRow, Completes, NoEvent
<1>5. RowsRest
  BY <1>1 DEF RowsRest
<1> QED
  BY <1>2, <1>3, <1>4, <1>5, RowsRestKeeps DEF IInv

-----------------------------------------------------------------------------
(* The statements. *)

\* What a statement may do to the tables: every value it changes is taken
\* from the event in hand, which is recorded by then.
Effects ==
    /\ raw \subseteq raw' /\ raw' \subseteq raw \cup {current}
    /\ row' \in [Tasks -> Rows]
    /\ department' \in [Users -> Departments \cup {0}]
    /\ \A t \in Tasks : row'[t] # row[t] =>
          /\ current \in raw /\ t = Event.task
          /\ row'[t].created \in {row[t].created, current}
          /\ row'[t].assigned \in {row[t].assigned, current}
          /\ \A k \in Fields : row'[t].facts[k] \in {row[t].facts[k], Event.says[k], 0}
          /\ \/ /\ row'[t].completed = row[t].completed
                /\ row'[t].overdue = row[t].overdue
             \/ /\ Completes(Event)
                /\ row'[t].completed = current
                /\ row'[t].overdue <=> /\ Event.says.deadline > 0
                                       /\ current > Event.says.deadline
    /\ \A u \in Users : department'[u] # department[u] =>
          /\ current \in raw /\ u = Event.says.assignee
          /\ department'[u] = Event.says.department

LEMMA StatementEffects ==
    ASSUME IInv, current # NoEvent, RunStatement
    PROVE  /\ Effects
           /\ Head(todo) = "save" => current \in raw'
           /\ Head(todo) = "complete" => row'[Event.task].completed = current
<1>1. /\ Event \in Events
      /\ Event.says \in Facts /\ Event.task \in Tasks
      /\ current \in EventIds
      /\ todo \in Seq(Statements) /\ todo # <<>>
  BY TypeFacts DEF IInv, Events
<1>2. /\ row \in [Tasks -> Rows]
      /\ row[Event.task] \in Rows
      /\ row[Event.task].facts \in Facts
      /\ department \in [Users -> Departments \cup {0}]
  BY <1>1 DEF IInv, TypeOK, Rows
<1>3. /\ Head(todo) \in Statements
      /\ Head(todo) # "save" => current \in raw
      /\ Head(todo) = "complete" => Completes(Event)
  <2>1. Len(todo) \in Nat \ {0} /\ Head(todo) = todo[1]
    BY <1>1, EmptySeq
  <2>2. 1 \in 1..Len(todo)
    BY <2>1
  <2> QED
    BY <1>1, <2>1, <2>2, HeadTailProperties DEF IInv, HandlerPlace
<1> DEFINE T == Event.task
           old == row[T]
<1>4. CASE Head(todo) = "save"
  <2>1. raw' = raw \cup {current} /\ row' = row /\ department' = department
    BY <1>4 DEF RunStatement, SaveRawEvent
  <2> QED
    BY <1>2, <1>4, <2>1 DEF Effects
<1>5. CASE Head(todo) = "task"
  <2> DEFINE new == Upserted(old)
  <2>1. row' = [row EXCEPT ![T] = new] /\ raw' = raw /\ department' = department
    BY <1>5 DEF RunStatement, UpsertTaskAnalytics
  <2>2. /\ Merge(Passed(Event), old.facts) \in Facts
        /\ \A k \in Fields : Merge(Passed(Event), old.facts)[k]
                                \in {old.facts[k], Event.says[k], 0}
    <3>1. /\ Passed(Event) \in Facts
          /\ \A k \in Fields : Passed(Event)[k] \in {0, Event.says[k]}
      BY <1>1, PassedFacts
    <3>2. /\ Merge(Passed(Event), old.facts) \in Facts
          /\ \A k \in Fields : Merge(Passed(Event), old.facts)[k]
                = IF Passed(Event)[k] # 0 THEN Passed(Event)[k] ELSE old.facts[k]
      BY <1>2, <3>1, MergeFacts
    <3> QED
      BY <3>1, <3>2
  <2>3. /\ new \in Rows
        /\ new.facts = Merge(Passed(Event), old.facts)
        /\ new.created \in {old.created, current}
        /\ new.assigned \in {old.assigned, current}
        /\ new.completed = old.completed
        /\ new.overdue = old.overdue
    BY <1>1, <1>2, <2>2 DEF Upserted, Rows, Given
  <2> HIDE DEF new
  <2>4. row' \in [Tasks -> Rows]
    BY <1>1, <1>2, <2>1, <2>3
  <2>5. row'[T] = new /\ \A t \in Tasks : t # T => row'[t] = row[t]
    BY <1>1, <1>2, <2>1
  <2> QED
    BY <1>2, <1>3, <1>5, <2>1, <2>2, <2>3, <2>4, <2>5 DEF Effects
<1>6. CASE Head(todo) = "user"
  <2>1. /\ department' = [department EXCEPT ![Event.says.assignee] =
                             Given(Event.says.department, @)]
        /\ raw' = raw /\ row' = row
    BY <1>6 DEF RunStatement, UpsertUser
  <2>2. Event.says.department \in Departments \cup {0}
    BY <1>1 DEF Facts
  <2>3. \A u \in Users :
           department'[u] = IF u = Event.says.assignee
                            THEN Given(Event.says.department, department[u])
                            ELSE department[u]
    BY <1>2, <2>1
  <2>4. department' \in [Users -> Departments \cup {0}]
    BY <1>2, <2>1, <2>2 DEF Given
  <2> QED
    BY <1>2, <1>3, <1>6, <2>1, <2>3, <2>4 DEF Effects, Given
<1>7. CASE Head(todo) = "labor"
  <2> DEFINE facts == Merge(Only(Event.says, {"planned", "actual"}), old.facts)
             new == [old EXCEPT !.facts = facts]
  <2>1. row' = [row EXCEPT ![T] = new] /\ raw' = raw /\ department' = department
    BY <1>7 DEF RunStatement, PatchTaskLabor
  <2>2. /\ facts \in Facts
        /\ \A k \in Fields : facts[k] \in {old.facts[k], Event.says[k], 0}
    <3>1. {"planned", "actual"} \in SUBSET Fields
      BY DEF Fields
    <3>2. /\ Only(Event.says, {"planned", "actual"}) \in Facts
          /\ \A k \in Fields :
                Only(Event.says, {"planned", "actual"})[k] \in {0, Event.says[k]}
      BY <1>1, <3>1, OnlyFacts
    <3>3. /\ facts \in Facts
          /\ \A k \in Fields : facts[k]
                = IF Only(Event.says, {"planned", "actual"})[k] # 0
                  THEN Only(Event.says, {"planned", "actual"})[k] ELSE old.facts[k]
      BY <1>2, <3>2, MergeFacts
    <3> QED
      BY <3>2, <3>3
  <2> HIDE DEF facts
  <2>3. /\ new \in Rows /\ new.facts = facts
        /\ new.created = old.created /\ new.assigned = old.assigned
        /\ new.completed = old.completed /\ new.overdue = old.overdue
    BY <1>2, <2>2 DEF Rows
  <2> HIDE DEF new
  <2>4. row' \in [Tasks -> Rows]
    BY <1>1, <1>2, <2>1, <2>3
  <2>5. row'[T] = new /\ \A t \in Tasks : t # T => row'[t] = row[t]
    BY <1>1, <1>2, <2>1
  <2> QED
    BY <1>2, <1>3, <1>7, <2>1, <2>2, <2>3, <2>4, <2>5 DEF Effects
<1>8. CASE Head(todo) = "complete"
  <2> DEFINE overran == Event.says.deadline > 0 /\ current > Event.says.deadline
             new == [old EXCEPT !.facts.status = COMPLETED,
                                !.completed = current, !.overdue = overran]
  <2>1. row' = [row EXCEPT ![T] = new] /\ raw' = raw /\ department' = department
    BY <1>8 DEF RunStatement, UpdateTaskCompletion
  <2>2. Completes(Event) /\ Event.says.status = COMPLETED
    BY <1>3, <1>8 DEF Completes
  <2>3. COMPLETED \in Statuses \cup {0}
    BY <1>1, <2>2 DEF Facts
  <2>4. overran \in BOOLEAN
    OBVIOUS
  <2> HIDE DEF overran
  <2>5. /\ new.facts = [old.facts EXCEPT !.status = COMPLETED]
        /\ new.created = old.created /\ new.assigned = old.assigned
        /\ new.completed = current /\ new.overdue = overran
    BY <1>2 DEF Rows
  <2>6. /\ new.facts \in Facts
        /\ \A k \in Fields : new.facts[k] \in {old.facts[k], Event.says[k], 0}
    BY <1>2, <2>2, <2>3, <2>5 DEF Facts, Fields
  <2>7. new \in Rows
    <3> DEFINE f == [old.facts EXCEPT !.status = COMPLETED]
    <3>1. f \in Facts
      BY <2>5, <2>6
    <3>2. new = [old EXCEPT !.facts = f, !.completed = current, !.overdue = overran]
      BY <1>2 DEF Rows
    <3> HIDE DEF f
    <3> QED
      BY <1>1, <1>2, <2>4, <3>1, <3>2 DEF Rows
  <2> HIDE DEF new
  <2>8. row' \in [Tasks -> Rows]
    BY <1>1, <1>2, <2>1, <2>7
  <2>9. row'[T] = new /\ \A t \in Tasks : t # T => row'[t] = row[t]
    BY <1>1, <1>2, <2>1
  <2> QED
    BY <1>2, <1>3, <1>8, <2>1, <2>2, <2>5, <2>6, <2>8, <2>9 DEF Effects, overran
<1> QED
  BY <1>3, <1>4, <1>5, <1>6, <1>7, <1>8 DEF Statements

\* What such a statement leaves intact.
LEMMA EffectsKeep ==
    ASSUME IInv, current # NoEvent, Effects, UNCHANGED log
    PROVE  CompletionIsVouched' /\ EffectsAreRecorded'
<1>1. current \in 1..Len(log) /\ Event \in Events
  BY TypeFacts DEF IInv
<1>2. CompletionIsVouched'
  <2>1. ASSUME NEW t \in Tasks, row'[t].completed # 0
        PROVE  LET c == row'[t].completed
               IN  /\ c \in EventsOf(t)
                   /\ log[c].kind = "status_changed"
                   /\ log[c].says.status = COMPLETED
                   /\ row'[t].overdue <=> /\ log[c].says.deadline > 0
                                          /\ c > log[c].says.deadline
    <3>1. CASE /\ row'[t].completed = row[t].completed
               /\ row'[t].overdue = row[t].overdue
      BY <2>1, <3>1 DEF IInv, CompletionIsVouched
    <3>2. CASE /\ t = Event.task /\ Completes(Event)
               /\ row'[t].completed = current
               /\ row'[t].overdue <=> /\ Event.says.deadline > 0
                                      /\ current > Event.says.deadline
      BY <1>1, <3>2 DEF Completes, EventsOf, Event
    <3> QED
      BY <3>1, <3>2 DEF Effects
  <2> QED
    BY <2>1 DEF CompletionIsVouched, EventsOf
<1>3. ASSUME NEW t \in Tasks
      PROVE  /\ {row'[t].created, row'[t].assigned, row'[t].completed}
                   \subseteq raw' \cup {0}
             /\ \A k \in Fields : row'[t].facts[k] # 0 =>
                   \E i \in raw' : log[i].task = t
                                   /\ log[i].says[k] = row'[t].facts[k]
  <2>1. /\ {row[t].created, row[t].assigned, row[t].completed} \subseteq raw \cup {0}
        /\ \A k \in Fields : row[t].facts[k] # 0 =>
              \E i \in raw : log[i].task = t /\ log[i].says[k] = row[t].facts[k]
    BY NothingIsFacts DEF IInv, EffectsAreRecorded
  <2>2. raw \subseteq raw'
    BY DEF Effects
  <2>3. CASE row'[t] = row[t]
    BY <2>1, <2>2, <2>3
  <2>4. CASE row'[t] # row[t]
    <3>1. /\ current \in raw /\ t = log[current].task
          /\ row'[t].created \in {row[t].created, current}
          /\ row'[t].assigned \in {row[t].assigned, current}
          /\ row'[t].completed \in {row[t].completed, current}
          /\ \A k \in Fields :
                row'[t].facts[k] \in {row[t].facts[k], log[current].says[k], 0}
      BY <2>4 DEF Effects, Event
    <3> QED
      BY <2>1, <2>2, <3>1
  <2> QED
    BY <2>3, <2>4
<1>4. ASSUME NEW u \in Users, department'[u] # Demo[u]
      PROVE  \E i \in raw' : /\ log[i].says.assignee = u
                             /\ log[i].says.department = department'[u]
  <2>1. raw \subseteq raw'
    BY DEF Effects
  <2>2. CASE department'[u] = department[u]
    BY <1>4, <2>1, <2>2 DEF IInv, EffectsAreRecorded
  <2>3. CASE department'[u] # department[u]
    BY <2>1, <2>3 DEF Effects, Event
  <2> QED
    BY <2>2, <2>3
<1>5. EffectsAreRecorded'
  BY <1>3, <1>4, NothingIsFacts DEF EffectsAreRecorded
<1> QED
  BY <1>2, <1>5

\* Without the statement nothing happens to the tables.
LEMMA NoStatementNoEffects ==
    ASSUME IInv, UNCHANGED dbVars
    PROVE  Effects
BY DEF IInv, TypeOK, dbVars, Effects

\* The rest of the statements, none of which records the event again.
LEMMA RestOfStatements ==
    ASSUME IInv, current # NoEvent
    PROVE  /\ Tail(todo) \in Seq(Statements)
           /\ \A j \in 1..Len(Tail(todo)) :
                 /\ Tail(todo)[j] # "save"
                 /\ Tail(todo)[j] = "complete" => Completes(Event)
           /\ Tail(todo) # <<>> => Head(Tail(todo)) # "save"
           /\ \A j \in 1..Len(todo) : todo[j] = "complete" =>
                 \/ Head(todo) = "complete"
                 \/ \E m \in 1..Len(Tail(todo)) : Tail(todo)[m] = "complete"
<1>1. todo \in Seq(Statements) /\ todo # <<>>
  BY TypeFacts DEF IInv
<1>2. /\ Len(todo) \in Nat \ {0} /\ Head(todo) = todo[1]
  BY <1>1, EmptySeq
<1>3. /\ Tail(todo) \in Seq(Statements)
      /\ Len(Tail(todo)) = Len(todo) - 1
      /\ \A j \in 1..Len(Tail(todo)) : Tail(todo)[j] = todo[j + 1]
  BY <1>1, HeadTailProperties
<1>4. ASSUME NEW j \in 1..Len(Tail(todo))
      PROVE  /\ Tail(todo)[j] # "save"
             /\ Tail(todo)[j] = "complete" => Completes(Event)
  <2>1. j + 1 \in 1..Len(todo) /\ j + 1 # 1
    BY <1>2, <1>3
  <2> QED
    BY <1>3, <2>1 DEF IInv, HandlerPlace
<1>5. ASSUME Tail(todo) # <<>>
      PROVE  Head(Tail(todo)) # "save"
  <2>1. Len(Tail(todo)) \in Nat \ {0} /\ Head(Tail(todo)) = Tail(todo)[1]
    BY <1>3, <1>5, EmptySeq
  <2>2. \A n \in Nat \ {0} : 1 \in 1..n
    OBVIOUS
  <2>3. 1 \in 1..Len(Tail(todo))
    BY <2>1, <2>2, Zenon
  <2> QED
    BY <1>4, <2>1, <2>3
<1>6. ASSUME NEW j \in 1..Len(todo), todo[j] = "complete", Head(todo) # "complete"
      PROVE  \E m \in 1..Len(Tail(todo)) : Tail(todo)[m] = "complete"
  <2>1. j - 1 \in 1..Len(Tail(todo)) /\ (j - 1) + 1 = j
    BY <1>2, <1>3, <1>6
  <2> QED
    BY <1>3, <1>6, <2>1
<1> QED
  BY <1>3, <1>4, <1>5, <1>6

\* A step of the goroutine: some effects, and either the rest of the
\* statements is left or none.
LEMMA WorkKeepsIInv ==
    ASSUME IInv, current # NoEvent, Effects,
           NEW rest \in {Tail(todo), <<>>}, Continue(rest),
           rest # <<>> => current \in raw',
           lost' \in {lost, lost \cup {current}},
           \/ current \in lost'
           \/ rest = Tail(todo) /\ (Head(todo) = "complete" =>
                                       row'[Event.task].completed = current),
           UNCHANGED <<member, told, late, log, delivered, taken, link>>
    PROVE  IInv'
<1>1. /\ current \in 1..taken /\ current \in 1..Len(log) /\ taken <= Len(log)
      /\ Event \in Events /\ taken \in Nat
  BY TypeFacts DEF IInv
<1>2. /\ todo' = rest
      /\ current' = IF rest = <<>> THEN NoEvent ELSE current
      /\ current' # NoEvent => current' = current /\ Event' = Event
  BY DEF Continue, Event
<1>3. /\ rest \in Seq(Statements)
      /\ \A j \in 1..Len(rest) :
            rest[j] # "save" /\ (rest[j] = "complete" => Completes(Event))
      /\ rest # <<>> => rest = Tail(todo) /\ Head(rest) # "save"
  <2>1. CASE rest = Tail(todo)
    BY <2>1, RestOfStatements, Zenon
  <2>2. CASE rest = <<>>
    <3>1. <<>> \in Seq(Statements) /\ Len(<<>>) = 0 /\ 1..0 = {}
      BY EmptySeq
    <3>2. rest \in Seq(Statements) /\ 1..Len(rest) = {}
      BY <2>2, <3>1, Zenon
    <3> QED
      BY <2>2, <3>2
  <2> QED
    BY <2>1, <2>2
<1>4. TypeOK'
  <2>1. /\ row' \in [Tasks -> Rows]
        /\ department' \in [Users -> Departments \cup {0}]
        /\ raw' \in SUBSET (1..taken)
    BY <1>1 DEF Effects, IInv, TypeOK
  <2>2. lost' \in SUBSET (1..taken)
    BY <1>1 DEF IInv, TypeOK
  <2>3. current' \in 0..taken /\ (rest = <<>> <=> current' = NoEvent)
    BY <1>1, <1>2 DEF NoEvent
  <2> QED
    BY <1>2, <1>3, <2>1, <2>2, <2>3 DEF IInv, TypeOK
<1>5. SourceShape'
  BY DEF IInv, SourceShape, Known
<1>6. HandlerPlace'
  BY <1>2, <1>3 DEF HandlerPlace, Completes
<1>7. SkippedIsLost'
  BY <1>2 DEF IInv, SkippedIsLost
<1>8. CompletionsReachTheRow'
  <2>1. ASSUME NEW i \in 1..taken, i \notin lost', Completes(log[i])
        PROVE  \/ row'[log[i].task].completed >= i
               \/ i = current' /\ \E j \in 1..Len(todo') : todo'[j] = "complete"
    <3> DEFINE t == log[i].task
    <3>1. t \in Tasks /\ log[i] \in Events
      BY <1>1, TypeFacts DEF IInv, Events
    <3>2. i <= current \/ row[t].completed >= i
      BY <2>1, <1>1 DEF IInv, SkippedIsLost
    <3>3. row[t].completed \in Nat
      BY <3>1, ConstantFacts DEF IInv, TypeOK, Rows, EventIds
    <3>4. row'[t].completed \in {row[t].completed, current}
      BY <3>1 DEF Effects
    <3>5. row[t].completed >= i => row'[t].completed >= i
      BY <1>1, <2>1, <3>2, <3>3, <3>4 DEF IInv, SkippedIsLost
    <3>6. CASE i # current
      BY <2>1, <3>5, <3>6 DEF IInv, CompletionsReachTheRow
    <3>7. CASE i = current
      <4>1. \/ row[t].completed >= i
            \/ \E j \in 1..Len(todo) : todo[j] = "complete"
        BY <2>1 DEF IInv, CompletionsReachTheRow
      <4>2. /\ rest = Tail(todo)
            /\ Head(todo) = "complete" => row'[t].completed = current
        BY <2>1, <3>7 DEF Event
      <4>3. ASSUME NEW j \in 1..Len(todo), todo[j] = "complete",
                   Head(todo) # "complete"
            PROVE  i = current' /\ \E m \in 1..Len(todo') : todo'[m] = "complete"
        <5>1. PICK m \in 1..Len(Tail(todo)) : Tail(todo)[m] = "complete"
          BY <4>3, RestOfStatements
        <5>2. rest # <<>>
          <6>1. Len(<<>>) = 0 /\ 1..0 = {}
            BY EmptySeq
          <6>2. rest = <<>> => m \in 1..0
            BY <4>2, <5>1, <6>1, Zenon
          <6> QED
            BY <6>1, <6>2
        <5> QED
          BY <1>2, <3>7, <4>2, <5>1, <5>2
      <4> QED
        BY <3>5, <3>7, <4>1, <4>2, <4>3, <1>1
    <3> QED
      BY <3>6, <3>7
  <2> QED
    BY <2>1 DEF CompletionsReachTheRow, Completes
<1>9. CompletionIsVouched' /\ EffectsAreRecorded'
  BY EffectsKeep
<1> QED
  BY <1>4, <1>5, <1>6, <1>7, <1>8, <1>9 DEF IInv

LEMMA HandleEventKeepsIInv ==
    ASSUME IInv, HandleEvent
    PROVE  IInv'
<1>1. /\ current # NoEvent /\ RunStatement /\ Continue(Tail(todo))
      /\ UNCHANGED <<member, told, late, log, delivered, taken, link, lost>>
  BY DEF HandleEvent, sourceVars
<1>2. /\ Effects
      /\ Head(todo) = "save" => current \in raw'
      /\ Head(todo) = "complete" => row'[Event.task].completed = current
  BY <1>1, StatementEffects
<1>3. current \in raw'
  BY <1>1, <1>2 DEF IInv, HandlerPlace, Effects
<1> DEFINE rest == Tail(todo)
<1>4. rest \in {Tail(todo), <<>>} /\ Continue(rest)
  BY <1>1
<1> HIDE DEF rest
<1>5. rest = Tail(todo)
  BY DEF rest
<1> QED
  BY <1>1, <1>2, <1>3, <1>4, <1>5, WorkKeepsIInv

LEMMA FailStatementKeepsIInv ==
    ASSUME IInv, FailStatement
    PROVE  IInv'
<1> DEFINE rest == IF Head(todo) \in {"user", "labor"} THEN Tail(todo) ELSE <<>>
<1>1. /\ current # NoEvent /\ Continue(rest)
      /\ lost' = lost \cup {current}
      /\ UNCHANGED <<member, told, late, log, delivered, taken, link>>
  BY DEF FailStatement, sourceVars
<1>2. Effects
  BY <1>1, StatementEffects, NoStatementNoEffects DEF FailStatement
<1>3. rest # <<>> => current \in raw'
  BY <1>1, <1>2 DEF IInv, HandlerPlace, Effects
<1>4. rest \in {Tail(todo), <<>>}
  OBVIOUS
<1> HIDE DEF rest
<1>5. current \in lost' /\ lost' \in {lost, lost \cup {current}}
  BY <1>1
<1> QED
  BY <1>1, <1>2, <1>3, <1>4, <1>5, WorkKeepsIInv

-----------------------------------------------------------------------------

\* The strengthened invariant holds throughout every behaviour.
THEOREM AnalyticsInvariant == Spec => []IInv
<1>1. Init => IInv
  BY InitIInv
<1>2. IInv /\ [Next]_vars => IInv'
  <2> SUFFICES ASSUME IInv, [Next]_vars
               PROVE  IInv'
    OBVIOUS
  <2>1. CASE UNCHANGED vars
    <3>1. UNCHANGED <<member, told, late, log, delivered, taken, current, todo, raw,
                      row, department, link, lost>>
      BY <2>1 DEF vars, sourceVars, consumerVars, dbVars
    <3> QED
      BY <3>1 DEF IInv, TypeOK, SourceShape, HandlerPlace, SkippedIsLost,
                  CompletionsReachTheRow, CompletionIsVouched, EventsOf,
                  EffectsAreRecorded, Known, Event, Completes
  <2>2. ASSUME NEW t \in Tasks, Call(t) PROVE IInv'
    BY <2>2, CallKeepsIInv
  <2>3. ASSUME NEW u \in Movers, NEW d \in Departments \cup {0},
               ChangeDepartment(u, d)
        PROVE  IInv'
    BY <2>3, ChangeDepartmentKeepsIInv, ConstantFacts
  <2>4. CASE Deliver        BY <2>4, DeliverKeepsIInv
  <2>5. CASE TakeEvent      BY <2>5, TakeEventKeepsIInv
  <2>6. CASE HandleEvent    BY <2>6, HandleEventKeepsIInv
  <2>7. CASE FailStatement  BY <2>7, FailStatementKeepsIInv
  <2>8. CASE CutLink        BY <2>8, CutLinkKeepsIInv
  <2>9. CASE Crash          BY <2>9, CrashKeepsIInv
  <2> QED
    BY <2>1, <2>2, <2>3, <2>4, <2>5, <2>6, <2>7, <2>8, <2>9 DEF Next
<1> QED
  BY <1>1, <1>2, PTL DEF Spec

\* The tables and the goroutine keep their types.
THEOREM AnalyticsTypeCorrect == Spec => []TypeOK
<1>1. IInv => TypeOK
  BY DEF IInv
<1> QED
  BY <1>1, AnalyticsInvariant, PTL

\* Whatever is lost, no value in the tables lacks its event in events_raw.
THEOREM EveryEffectIsRecorded == Spec => []EffectsAreRecorded
<1>1. IInv => EffectsAreRecorded
  BY DEF IInv
<1> QED
  BY <1>1, AnalyticsInvariant, PTL

\* completed_at and is_overdue are those of one completing event.
THEOREM CompletionsAreVouched == Spec => []CompletionIsVouched
<1>1. IInv => CompletionIsVouched
  BY DEF IInv
<1> QED
  BY <1>1, AnalyticsInvariant, PTL

\* A completion the consumer has let go of unharmed is in the row.
THEOREM CompletionsAreDated == Spec => []CompletedTasksAreDated
<1>1. IInv => CompletedTasksAreDated
  <2> SUFFICES ASSUME IInv, NEW t \in Tasks, ~InHand(t), ~Harmed(t),
                      NEW i \in EventsOf(t), i <= taken, Completes(log[i])
               PROVE  row[t].completed >= i
    BY DEF CompletedTasksAreDated
  <2>1. /\ i \in 1..taken /\ log[i].task = t /\ i \notin lost
        /\ i # current
    BY TypeFacts DEF EventsOf, Harmed, InHand, Event, NoEvent, IInv
  <2> QED
    BY <2>1 DEF IInv, CompletionsReachTheRow
<1> QED
  BY <1>1, AnalyticsInvariant, PTL

-----------------------------------------------------------------------------
(* The consumer implements EventDelivery. *)

\* The fate of event i moves along an edge of EventDelivery.
Moves(i) ==
    \/ FateOf(i) = "unpublished" /\ FateOf(i)' = "waiting"
    \/ FateOf(i) = "waiting" /\ FateOf(i)' = "started"
    \/ FateOf(i) \in {"waiting", "started"} /\ FateOf(i)' = "applied"

Stays(i) == FateOf(i)' = FateOf(i)

IsLost(i) == FateOf(i) \in {"waiting", "started"} /\ FateOf(i)' = "lost"

LEMMA AllStay ==
    ASSUME \A i \in EventIds : Stays(i)
    PROVE  UNCHANGED [i \in EventIds |-> FateOf(i)]
BY DEF Stays

LEMMA OneMoves ==
    ASSUME NEW i \in EventIds, Moves(i), \A j \in EventIds \ {i} : Stays(j)
    PROVE  Delivery!Next
<1> DEFINE fate == [j \in EventIds |-> FateOf(j)]
<1>1. \A to : FateOf(i)' = to => fate' = [fate EXCEPT ![i] = to]
  BY DEF Stays
<1>2. fate[i] = FateOf(i)
  OBVIOUS
<1>3. Delivery!Publish(i) \/ Delivery!Begin(i) \/ Delivery!Apply(i)
  BY <1>1, <1>2 DEF Moves, Delivery!Publish, Delivery!Begin, Delivery!Apply,
                    Delivery!Become
<1> QED
  BY <1>3 DEF Delivery!Next, Delivery!EventIds, EventIds

LEMMA SomeAreLost ==
    ASSUME NEW lot \in SUBSET EventIds, \A i \in lot : IsLost(i),
           \A j \in EventIds \ lot : Stays(j)
    PROVE  Delivery!Next
<1> DEFINE fate == [j \in EventIds |-> FateOf(j)]
<1>1. fate' = [j \in EventIds |-> IF j \in lot THEN "lost" ELSE fate[j]]
  BY DEF Stays, IsLost
<1>2. \A i \in lot : fate[i] \in {"waiting", "started"}
  BY DEF IsLost
<1>3. Delivery!Lose(lot)
  BY <1>1, <1>2 DEF Delivery!Lose, Delivery!EventIds, EventIds
<1> QED
  BY <1>3 DEF Delivery!Next, Delivery!EventIds, EventIds

LEMMA InitFates == Init => Delivery!Init
<1> SUFFICES ASSUME Init PROVE Delivery!Init
  OBVIOUS
<1>1. Len(log) = 0
  BY EmptySeq DEF Init
<1>2. \A i \in EventIds : FateOf(i) = "unpublished"
  BY <1>1, ConstantFacts DEF FateOf, EventIds, Init, NoEvent
<1>3. [i \in EventIds |-> FateOf(i)] = [i \in EventIds |-> "unpublished"]
  BY <1>2
<1> QED
  BY <1>3 DEF Delivery!Init, Delivery!EventIds, EventIds

\* Where an event stands decides its fate.
LEMMA FateFacts ==
    ASSUME TypeOK, NEW i \in EventIds
    PROVE  /\ i > Len(log) => FateOf(i) = "unpublished"
           /\ taken < i /\ i <= Len(log) => FateOf(i) = "waiting"
           /\ i = current => FateOf(i) = IF i \in raw THEN "started" ELSE "waiting"
           /\ i <= taken /\ i # current =>
                 FateOf(i) = IF i \in lost THEN "lost" ELSE "applied"
BY TypeFacts, ConstantFacts DEF FateOf, EventIds, NoEvent

LEMMA FateFactsNext ==
    ASSUME TypeOK', NEW i \in EventIds
    PROVE  /\ i > Len(log') => FateOf(i)' = "unpublished"
           /\ taken' < i /\ i <= Len(log') => FateOf(i)' = "waiting"
           /\ i = current' =>
                 FateOf(i)' = IF i \in raw' THEN "started" ELSE "waiting"
           /\ i <= taken' /\ i # current' =>
                 FateOf(i)' = IF i \in lost' THEN "lost" ELSE "applied"
<1>1. log' \in Seq(Events) /\ Len(log') \in Nat
  BY LenProperties DEF TypeOK
<1>2. /\ delivered' \in 0..Len(log') /\ taken' \in 0..delivered'
      /\ current' \in 0..taken'
  BY DEF TypeOK
<1> QED
  BY <1>1, <1>2, ConstantFacts DEF FateOf, EventIds, NoEvent

\* The step of each action, seen on the fates.
LEMMA StepFates ==
    ASSUME IInv, IInv', Next
    PROVE  [Delivery!Next]_[i \in EventIds |-> FateOf(i)]
<1>1. /\ TypeOK /\ TypeOK'
      /\ Len(log) \in Nat /\ taken \in Nat /\ delivered \in Nat
      /\ taken <= delivered /\ delivered <= Len(log) /\ Len(log) <= MaxEvents
      /\ current \in 0..taken /\ raw \subseteq 1..taken /\ lost \subseteq 1..taken
      /\ MaxEvents \in Nat
      /\ \A i \in EventIds : i \in Nat /\ i >= 1 /\ i <= MaxEvents
      /\ \A i \in Nat : i >= 1 /\ i <= MaxEvents => i \in EventIds
  <2>1. TypeOK /\ TypeOK'
    BY DEF IInv
  <2>2. /\ Len(log) \in Nat /\ taken \in Nat /\ delivered \in Nat
        /\ taken <= delivered /\ delivered <= Len(log)
    BY <2>1, TypeFacts
  <2>3. /\ Len(log) <= MaxEvents
        /\ current \in 0..taken /\ raw \subseteq 1..taken /\ lost \subseteq 1..taken
    BY <2>1 DEF TypeOK
  <2> QED
    BY <2>1, <2>2, <2>3, ConstantFacts DEF EventIds
<1>2. ASSUME NEW t \in Tasks, Call(t)
      PROVE  \/ Delivery!Next
             \/ \A i \in EventIds : Stays(i)
  <2>1. CASE \E u \in Users, d \in Deadlines \cup {0}, h \in Hours \cup {0} :
                CreateTask(t, u, d, h)
    <3>1. UNCHANGED <<log, taken, current, raw, lost>>
      BY <2>1 DEF CreateTask, consumerVars, dbVars
    <3> QED
      BY <3>1 DEF Stays, FateOf
  <2>2. CASE ~(\E u \in Users, d \in Deadlines \cup {0}, h \in Hours \cup {0} :
                  CreateTask(t, u, d, h))
    <3>1. \/ PublishCreated(t)
          \/ \E kind, says : Publish(kind, t, says)
      BY <1>2, <2>2 DEF Call, AssignTask, ChangeDeadline, UpdateTaskStatus,
                        UpdateTaskLabor
    <3>2. \E kind, event : Send(kind, t, event)
      BY <3>1 DEF PublishCreated, Publish
    <3>3. /\ \E e : log' = Append(log, e)
          /\ Len(log) < MaxEvents
          /\ UNCHANGED <<taken, current, raw, lost>>
      BY <3>2 DEF Send, consumerVars, dbVars
    <3>4. Len(log') = Len(log) + 1
      BY <1>1, <3>3 DEF TypeOK
    <3>5. PICK n \in EventIds : n = Len(log) + 1
      BY <1>1, <3>3
    <3>6. Moves(n)
      BY <1>1, <3>3, <3>4, <3>5, FateFacts, FateFactsNext DEF Moves
    <3>7. ASSUME NEW i \in EventIds \ {n} PROVE Stays(i)
      BY <1>1, <3>3, <3>4, <3>5, FateFacts, FateFactsNext DEF Stays
    <3> QED
      BY <3>6, <3>7, OneMoves
  <2> QED
    BY <2>1, <2>2
<1>3. ASSUME NEW u \in Movers, NEW d \in Departments \cup {0},
             ChangeDepartment(u, d)
      PROVE  \A i \in EventIds : Stays(i)
  BY <1>3 DEF ChangeDepartment, consumerVars, dbVars, Stays, FateOf
<1>4. CASE Deliver
  <2>1. \A i \in EventIds : Stays(i)
    BY <1>4 DEF Deliver, consumerVars, sourceVars, dbVars, Stays, FateOf
  <2> QED
    BY <2>1, AllStay
<1>5. CASE TakeEvent
  <2>1. /\ current = 0 /\ taken' = taken + 1 /\ current' = taken + 1
        /\ UNCHANGED <<log, raw, lost>>
    BY <1>5 DEF TakeEvent, sourceVars, dbVars, NoEvent
  <2>2. ASSUME NEW i \in EventIds PROVE Stays(i)
    BY <1>1, <1>5, <2>1, FateFacts, FateFactsNext DEF Stays, TakeEvent
  <2> QED
    BY <2>2, AllStay
<1>6. ASSUME HandleEvent \/ FailStatement
      PROVE  [Delivery!Next]_[i \in EventIds |-> FateOf(i)]
  <2>1. /\ current # 0 /\ UNCHANGED <<log, taken>>
        /\ current' \in {0, current}
        /\ lost \subseteq lost' /\ lost' \subseteq lost \cup {current}
        /\ Effects
    BY <1>6, StatementEffects, NoStatementNoEffects
       DEF HandleEvent, FailStatement, Continue, sourceVars, NoEvent
  <2>2. PICK n \in EventIds : n = current
    BY <1>1, <2>1
  <2>3. ASSUME NEW i \in EventIds \ {n} PROVE Stays(i)
    BY <1>1, <2>1, <2>2, FateFacts, FateFactsNext DEF Stays, Effects
  <2>4. CASE current' = current
    <3>1. Moves(n) \/ Stays(n)
      BY <1>1, <2>1, <2>2, <2>4, FateFacts, FateFactsNext DEF Moves, Stays, Effects
    <3> QED
      BY <2>3, <3>1, OneMoves, AllStay
  <2>5. CASE current' = 0 /\ n \in lost'
    <3>1. IsLost(n)
      BY <1>1, <2>1, <2>2, <2>5, FateFacts, FateFactsNext DEF IsLost
    <3> DEFINE lot == {n}
    <3>2. lot \in SUBSET EventIds
      OBVIOUS
    <3>3. \A i \in lot : IsLost(i)
      <4> SUFFICES ASSUME NEW i \in lot PROVE IsLost(i)
        OBVIOUS
      <4>1. i = n
        OBVIOUS
      <4> QED
        BY <3>1, <4>1 DEF IsLost
    <3>4. \A i \in EventIds \ lot : Stays(i)
      BY <2>3
    <3> HIDE DEF lot
    <3> QED
      BY <3>2, <3>3, <3>4, SomeAreLost
  <2>6. CASE current' = 0 /\ n \notin lost'
    <3>1. Moves(n)
      BY <1>1, <2>1, <2>2, <2>6, FateFacts, FateFactsNext DEF Moves
    <3> QED
      BY <2>3, <3>1, OneMoves
  <2> QED
    BY <2>1, <2>4, <2>5, <2>6
<1>7. CASE CutLink
  <2>1. /\ taken' = delivered /\ lost' = lost \cup (taken + 1)..delivered
        /\ UNCHANGED <<log, current, raw>>
    BY <1>7 DEF CutLink, DropBuffer, sourceVars, dbVars
  <2> DEFINE lot == (taken + 1)..delivered
  <2>2. lot \in SUBSET EventIds
    BY <1>1 DEF TypeOK
  <2>3. ASSUME NEW i \in lot PROVE IsLost(i)
    BY <1>1, <2>1, <2>2, FateFacts, FateFactsNext DEF IsLost
  <2>4. ASSUME NEW i \in EventIds \ lot PROVE Stays(i)
    BY <1>1, <2>1, FateFacts, FateFactsNext DEF Stays
  <2> HIDE DEF lot
  <2> QED
    BY <2>2, <2>3, <2>4, SomeAreLost
<1>8. CASE Crash
  <2>1. /\ taken' = delivered /\ current' = 0
        /\ lost' = lost \cup (taken + 1)..delivered \cup ({current} \ {0})
        /\ UNCHANGED <<log, raw>>
    BY <1>8 DEF Crash, Continue, sourceVars, dbVars, NoEvent
  <2> DEFINE lot == (taken + 1)..delivered \cup ({current} \ {0})
  <2>2. lot \in SUBSET EventIds
    BY <1>1 DEF TypeOK
  <2>3. ASSUME NEW i \in lot PROVE IsLost(i)
    BY <1>1, <2>1, <2>2, FateFacts, FateFactsNext DEF IsLost
  <2>4. ASSUME NEW i \in EventIds \ lot PROVE Stays(i)
    BY <1>1, <2>1, FateFacts, FateFactsNext DEF Stays
  <2> HIDE DEF lot
  <2> QED
    BY <2>2, <2>3, <2>4, SomeAreLost
<1> QED
  BY <1>2, <1>3, <1>4, <1>5, <1>6, <1>7, <1>8, AllStay DEF Next

\* Every behaviour of the consumer is one of EventDelivery.
THEOREM AnalyticsImplementsDelivery == Spec => DeliversAtMostOnce
<1>1. Init => Delivery!Init
  BY InitFates
<1>2. IInv /\ IInv' /\ [Next]_vars
        => [Delivery!Next]_[i \in EventIds |-> FateOf(i)]
  <2> SUFFICES ASSUME IInv, IInv', [Next]_vars
               PROVE  [Delivery!Next]_[i \in EventIds |-> FateOf(i)]
    OBVIOUS
  <2>1. CASE UNCHANGED vars
    <3>1. \A i \in EventIds : Stays(i)
      BY <2>1 DEF vars, sourceVars, consumerVars, dbVars, Stays, FateOf
    <3> QED
      BY <3>1, AllStay
  <2>2. CASE Next
    BY <2>2, StepFates
  <2> QED
    BY <2>1, <2>2
<1> QED
  BY <1>1, <1>2, AnalyticsInvariant, PTL
     DEF Spec, DeliversAtMostOnce, Delivery!Spec

-----------------------------------------------------------------------------
(* What the rows come to.  Events that the goroutine has not reached have   *)
(* their effects to come, so a row is compared with what it would be if     *)
(* the events up to the one reached were applied in full, one after the     *)
(* other, which no variable keeps.  The second invariant asserts that there *)
(* is such a story, for each number of events.                              *)

Labors(e) == HasLabor(e) /\ e.kind \in {"created", "status_changed", "updated"}

\* What an event makes of the facts in a row.
Applied(e, facts) ==
    IF Labors(e)
    THEN Merge(Only(e.says, {"planned", "actual"}), Merge(Passed(e), facts))
    ELSE Merge(Passed(e), facts)

\* Facts of a task and since when it has its assignee.
Entries == [facts : Facts, assigned : EventIds \cup {0}]
NoEntry == [facts |-> Nothing, assigned |-> 0]

AssignedBy(e, i, entry) ==
    IF e.says.assignee # entry.facts.assignee THEN i ELSE entry.assigned

\* The entry of a task after event e, the i-th.
After(e, i, entry) ==
    [facts |-> Applied(e, entry.facts), assigned |-> AssignedBy(e, i, entry)]

Story(s) ==
    /\ s \in [0..Len(log) -> [Tasks -> Entries]]
    /\ s[0] = [t \in Tasks |-> NoEntry]
    /\ \A i \in 1..Len(log) :
          s[i] = [s[i - 1] EXCEPT ![log[i].task] = After(log[i], i, @)]
    /\ \A m, n \in 0..Len(log), t \in Tasks :
          m <= n /\ (\A i \in (m + 1)..n : log[i].task # t) => s[m][t] = s[n][t]

\* Where the goroutine stands in the handler of the event in hand.
Place == Len(Handler(Event)) - Len(todo) + 1

PlaceIsRight ==
    current # NoEvent =>
        /\ Place >= 1
        /\ \A j \in 1..Len(todo) : todo[j] = Handler(Event)[Place + j - 1]

\* What the statements before this place make of the entry the event found.
UnderWay(place, entry) ==
    IF place <= 2 THEN entry
    ELSE [facts |-> IF place <= 4 THEN Merge(Passed(Event), entry.facts)
                    ELSE Applied(Event, entry.facts),
          assigned |-> AssignedBy(Event, current, entry)]

Matches(r, entry) == r.facts = entry.facts /\ r.assigned = entry.assigned

RowsKeepUp(s) ==
    \A t \in Tasks : ~Harmed(t) =>
        Matches(row[t], IF InHand(t) THEN UnderWay(Place, s[current - 1][t])
                        ELSE s[taken][t])

\* As SetBack, of the facts that all events come to.
SetBackTo(t, k, value) ==
    \E i \in EventsOf(t) :
        /\ log[i].kind = "created"
        /\ \E j \in EventsOf(t) : j < i
        /\ \A j \in EventsOf(t) : j > i => ~Carries(log[j], k)
        /\ value = log[i].says[k]

\* What the events come to and what the calls did.
SaysWhatWasTold(t, facts) ==
    /\ told[t] = Nothing => late[t] = Nothing /\ EventsOf(t) = {}
    /\ late[t].department = 0
    /\ \A k \in DOMAIN Nothing :
          IF late[t] = Nothing
          THEN facts[k] = told[t][k] \/ SetBackTo(t, k, facts[k])
          ELSE told[t][k] = IF facts[k] # 0 THEN facts[k] ELSE late[t][k]

\* Of the given events, those that name the assignee came without a break
\* since this one.
Begins(since, events, naming) ==
    /\ since \in events
    /\ \A i \in events : i >= since => i \in naming
    /\ \A i \in events : i < since =>
          \E j \in events \ naming : i <= j /\ j < since

Naming(t, u) == {i \in EventsOf(t) : log[i].says.assignee = u}

\* The assignee is the one that all events come to, and has been since then.
DatesTheAssignment(t, entry) ==
    EventsOf(t) # {} =>
        Begins(entry.assigned, EventsOf(t), Naming(t, entry.facts.assignee))

EndsAsTold(s) ==
    \A t \in Tasks :
        /\ SaysWhatWasTold(t, s[Len(log)][t].facts)
        /\ DatesTheAssignment(t, s[Len(log)][t])

FollowInv ==
    /\ PlaceIsRight
    /\ \E s : Story(s) /\ EndsAsTold(s) /\ RowsKeepUp(s)

LEMMA LaborValues ==
    ASSUME NEW f \in Facts
    PROVE  f["planned"] \in Nat /\ f["actual"] \in Nat
<1>1. f["planned"] \in Hours \cup {0} /\ f["actual"] \in Hours \cup {0}
  BY DEF Facts
<1>2. Hours \cup {0} \subseteq Nat
  BY ConstantFacts
<1> QED
  BY <1>1, <1>2

\* An event sets the fields it carries and leaves the others.
LEMMA AppliedFields ==
    ASSUME NEW e \in Events, NEW f \in Facts
    PROVE  /\ Applied(e, f) \in Facts
           /\ \A k \in Fields :
                 Applied(e, f)[k] = IF Carries(e, k) THEN e.says[k] ELSE f[k]
           /\ Merge(Passed(e), f) \in Facts
<1> DEFINE mid == Merge(Passed(e), f)
           labor == Only(e.says, {"planned", "actual"})
<1>1. e.says \in Facts /\ e.says["planned"] \in Nat /\ e.says["actual"] \in Nat
  BY LaborValues DEF Events
<1>2. /\ Passed(e) \in Facts
      /\ \A k \in Fields : Passed(e)[k] \in {0, e.says[k]}
  BY PassedFacts
<1>3. /\ mid \in Facts
      /\ \A k \in Fields : mid[k] = IF Passed(e)[k] # 0 THEN e.says[k] ELSE f[k]
  BY <1>2, MergeFacts
<1>4. /\ labor \in Facts
      /\ \A k \in Fields : labor[k] = IF k \in {"planned", "actual"}
                                      THEN e.says[k] ELSE 0
  <2>1. {"planned", "actual"} \in SUBSET Fields
    BY DEF Fields
  <2>2. labor \in Facts
    BY <1>1, <2>1, OnlyFacts
  <2>3. labor = [k \in Fields |-> IF k \in {"planned", "actual"}
                                  THEN e.says[k] ELSE 0]
    BY NothingIsFacts DEF Only
  <2> QED
    BY <2>2, <2>3
<1>5. /\ Merge(labor, mid) \in Facts
      /\ \A k \in Fields :
            Merge(labor, mid)[k] = IF labor[k] # 0 THEN labor[k] ELSE mid[k]
  BY <1>3, <1>4, MergeFacts
<1>6. Applied(e, f) = IF Labors(e) THEN Merge(labor, mid) ELSE mid
  BY DEF Applied
<1> HIDE DEF mid, labor
<1>7. ASSUME NEW k \in Fields
      PROVE  Applied(e, f)[k] = IF Carries(e, k) THEN e.says[k] ELSE f[k]
  <2>1. CASE Labors(e)
    <3>1. Applied(e, f)[k] = IF labor[k] # 0 THEN labor[k] ELSE mid[k]
      BY <1>5, <1>6, <2>1
    <3>2. Carries(e, k) <=> \/ Passed(e)[k] # 0
                            \/ k \in {"planned", "actual"} /\ e.says[k] # 0
      BY <2>1 DEF Carries, Labors
    <3> QED
      BY <1>2, <1>3, <1>4, <3>1, <3>2
  <2>2. CASE ~Labors(e)
    <3>1. Applied(e, f)[k] = mid[k]
      BY <1>6, <2>2
    <3>2. Carries(e, k) <=> Passed(e)[k] # 0
      BY <1>1, <2>2 DEF Carries, Labors, HasLabor
    <3> QED
      BY <1>3, <3>1, <3>2
  <2> QED
    BY <2>1, <2>2
<1> QED
  BY <1>3, <1>5, <1>6, <1>7 DEF mid

\* The statements of a handler, by their places.
LEMMA HandlerPlaces ==
    ASSUME NEW e
    PROVE  /\ Len(Handler(e)) \in 3..5
           /\ Handler(e)[1] = "save"
           /\ Handler(e)[2] = "task"
           /\ Handler(e)[3] = "user"
           /\ \A j \in 4..Len(Handler(e)) :
                 Handler(e)[j] = IF j = 4 /\ Labors(e) THEN "labor" ELSE "complete"
           /\ Labors(e) => Len(Handler(e)) >= 4
           /\ Len(Handler(e)) = 5 => Labors(e)
<1> DEFINE base == <<"save", "task", "user">>
           a == IF HasLabor(e) /\ e.kind \in {"created", "status_changed", "updated"}
                THEN <<"labor">> ELSE <<>>
           b == IF Completes(e) THEN <<"complete">> ELSE <<>>
           h == base \o a
<1>1. Handler(e) = h \o b
  BY DEF Handler
<1>2. /\ base \in Seq(Statements)
      /\ Len(base) = 3
      /\ base[1] = "save" /\ base[2] = "task" /\ base[3] = "user"
  BY DEF Statements
<1>3. /\ a \in Seq(Statements)
      /\ Len(a) = IF Labors(e) THEN 1 ELSE 0
      /\ Labors(e) => a[1] = "labor"
  <2>1. CASE Labors(e)
    <3>1. a = <<"labor">>
      BY <2>1 DEF Labors
    <3> HIDE DEF a
    <3> QED
      BY <2>1, <3>1 DEF Statements
  <2>2. CASE ~Labors(e)
    <3>1. a = <<>>
      BY <2>2 DEF Labors
    <3> HIDE DEF a
    <3> QED
      BY <2>2, <3>1
  <2> QED
    BY <2>1, <2>2
<1>4. /\ b \in Seq(Statements)
      /\ Len(b) \in 0..1
      /\ Len(b) = 1 => b[1] = "complete"
  <2>1. CASE Completes(e)
    <3>1. b = <<"complete">>
      BY <2>1
    <3> HIDE DEF b
    <3> QED
      BY <3>1 DEF Statements
  <2>2. CASE ~Completes(e)
    <3>1. b = <<>>
      BY <2>2
    <3> HIDE DEF b
    <3> QED
      BY <3>1
  <2> QED
    BY <2>1, <2>2
<1> HIDE DEF base, a, b
<1>5. /\ h \in Seq(Statements)
      /\ Len(h) = 3 + Len(a)
      /\ \A i \in 1..(3 + Len(a)) : h[i] = IF i <= 3 THEN base[i] ELSE a[i - 3]
  <2>1. /\ base \o a \in Seq(Statements)
        /\ Len(base \o a) = Len(base) + Len(a)
        /\ \A i \in 1..(Len(base) + Len(a)) :
              (base \o a)[i] = IF i <= Len(base) THEN base[i] ELSE a[i - Len(base)]
    BY <1>2, <1>3, ConcatProperties
  <2> QED
    BY <1>2, <2>1
<1> HIDE DEF h
<1>6. /\ Len(Handler(e)) = Len(h) + Len(b)
      /\ \A i \in 1..(Len(h) + Len(b)) :
            Handler(e)[i] = IF i <= Len(h) THEN h[i] ELSE b[i - Len(h)]
  <2>1. /\ Len(h \o b) = Len(h) + Len(b)
        /\ \A i \in 1..(Len(h) + Len(b)) :
              (h \o b)[i] = IF i <= Len(h) THEN h[i] ELSE b[i - Len(h)]
    BY <1>4, <1>5, ConcatProperties
  <2> QED
    BY <1>1, <2>1
<1>7. CASE Labors(e)
  <2>1. Len(h) = 4 /\ h[4] = "labor"
    BY <1>3, <1>5, <1>7
  <2>2. h[1] = "save" /\ h[2] = "task" /\ h[3] = "user"
    BY <1>2, <1>3, <1>5, <1>7
  <2>3. Len(b) = 1 => Handler(e)[5] = "complete"
    BY <1>4, <1>6, <2>1
  <2> QED
    BY <1>4, <1>6, <1>7, <2>1, <2>2, <2>3
<1>8. CASE ~Labors(e)
  <2>1. Len(h) = 3
    BY <1>3, <1>5, <1>8
  <2>2. h[1] = "save" /\ h[2] = "task" /\ h[3] = "user"
    BY <1>2, <1>3, <1>5, <1>8
  <2>3. Len(b) = 1 => Handler(e)[4] = "complete"
    BY <1>4, <1>6, <2>1
  <2> QED
    BY <1>4, <1>6, <1>8, <2>1, <2>2, <2>3
<1> QED
  BY <1>7, <1>8

\* Which fields an event carries, of those it names.
LEMMA CarriedFields ==
    ASSUME NEW e \in Events, NEW k \in Fields
    PROVE  /\ Carries(e, k) => e.says[k] # 0
           /\ e.says[k] # 0 =>
                 /\ k \in {"assignee", "department"} => Carries(e, k)
                 /\ e.kind \in {"created", "status_changed"} => Carries(e, k)
                 /\ e.kind = "deadline_changed" /\ k = "deadline" => Carries(e, k)
                 /\ e.kind = "updated" /\ k \in {"planned", "actual"} => Carries(e, k)
<1>1. Passed(e)[k] \in {0, e.says[k]}
  BY PassedFacts
<1>2. \A S : Only(e.says, S)[k] = IF k \in S THEN e.says[k] ELSE 0
  BY NothingIsFacts DEF Only
<1>3. CASE e.kind \in {"created", "status_changed"}
  <2>1. Passed(e) = Only(e.says, {"assignee", "department", "status", "deadline"})
    BY <1>3 DEF Passed
  <2>2. k \notin {"planned", "actual"} => Passed(e)[k] = e.says[k]
    BY <1>2, <2>1 DEF Fields
  <2> QED
    BY <1>1, <1>3, <2>2 DEF Carries
<1>4. CASE e.kind = "deadline_changed"
  <2>1. Passed(e) = Only(e.says, {"assignee", "department", "deadline"})
    BY <1>4 DEF Passed
  <2>2. k \in {"assignee", "department", "deadline"} => Passed(e)[k] = e.says[k]
    BY <1>2, <2>1
  <2> QED
    BY <1>1, <1>4, <2>2 DEF Carries
<1>5. CASE e.kind \notin {"created", "status_changed", "deadline_changed"}
  <2>1. Passed(e) = Only(e.says, {"assignee", "department"})
    BY <1>5 DEF Passed
  <2>2. k \in {"assignee", "department"} => Passed(e)[k] = e.says[k]
    BY <1>2, <2>1
  <2> QED
    BY <1>1, <1>5, <2>2 DEF Carries
<1> QED
  BY <1>3, <1>4, <1>5

LEMMA AfterFacts ==
    ASSUME NEW e \in Events, e.says.assignee \in Users,
           NEW entry \in Entries, NEW i \in EventIds
    PROVE  /\ After(e, i, entry) \in Entries
           /\ After(e, i, entry).facts.assignee = e.says.assignee
<1>1. entry.facts \in Facts /\ entry.assigned \in EventIds \cup {0}
  BY DEF Entries
<1>2. "assignee" \in Fields /\ e.says["assignee"] # 0
  BY ConstantFacts DEF Fields
<1>3. Applied(e, entry.facts) \in Facts
      /\ Applied(e, entry.facts)["assignee"] = e.says["assignee"]
  BY <1>1, <1>2, AppliedFields, CarriedFields
<1> QED
  BY <1>1, <1>3 DEF After, AssignedBy, Entries

\* The story of a task that no event is about has not begun.
LEMMA NoEventsNoEntry ==
    ASSUME IInv, NEW s, Story(s), NEW t \in Tasks, EventsOf(t) = {}
    PROVE  s[Len(log)][t] = NoEntry
<1>1. Len(log) \in Nat /\ 0 + 1 = 1
  BY TypeFacts DEF IInv
<1>2. s[0][t] = s[Len(log)][t]
  BY <1>1 DEF Story, EventsOf
<1> QED
  BY <1>2 DEF Story

\* One event more lengthens the story by what it makes of the last entry.
LEMMA StoryGoesOn ==
    ASSUME IInv, NEW s, Story(s), NEW e \in Events, e.says.assignee \in Users,
           log' = Append(log, e), Len(log) < MaxEvents
    PROVE  \E g : /\ Story(g)'
                  /\ \A i \in 0..Len(log) : g[i] = s[i]
                  /\ g[Len(log) + 1] =
                        [s[Len(log)] EXCEPT ![e.task] = After(e, Len(log) + 1, @)]
<1>1. /\ log \in Seq(Events)
      /\ Len(log) \in Nat
      /\ Len(log) + 1 \in EventIds
      /\ e.task \in Tasks
  BY TypeFacts, ConstantFacts DEF IInv, TypeOK, EventIds, Events
<1>2. /\ Len(log') = Len(log) + 1
      /\ \A i \in 1..Len(log) : log'[i] = log[i]
      /\ log'[Len(log) + 1] = e
  BY <1>1, AppendProperties
<1> DEFINE end == [s[Len(log)] EXCEPT ![e.task] = After(e, Len(log) + 1, @)]
<1>3. s[Len(log)] \in [Tasks -> Entries]
  BY <1>1 DEF Story
<1>4. end \in [Tasks -> Entries]
  BY <1>1, <1>3, AfterFacts
<1>5. \A t \in Tasks : t # e.task => end[t] = s[Len(log)][t]
  BY <1>3
<1>6. PICK g : g = [i \in 0..(Len(log) + 1) |->
                       IF i \in 0..Len(log) THEN s[i] ELSE end]
  OBVIOUS
<1>7. /\ \A i \in 0..Len(log) : g[i] = s[i]
      /\ g[Len(log) + 1] = end
  BY <1>1, <1>6
<1>8. g \in [0..Len(log') -> [Tasks -> Entries]]
  <2>1. \A i \in 0..Len(log) : s[i] \in [Tasks -> Entries]
    BY DEF Story
  <2> HIDE DEF end
  <2> QED
    BY <1>1, <1>2, <1>4, <1>6, <2>1
<1>9. g[0] = [t \in Tasks |-> NoEntry]
  BY <1>1, <1>7 DEF Story
<1>10. ASSUME NEW i \in 1..Len(log')
       PROVE  g[i] = [g[i - 1] EXCEPT ![log'[i].task] = After(log'[i], i, @)]
  <2>1. CASE i \in 1..Len(log)
    <3>1. g[i] = s[i] /\ g[i - 1] = s[i - 1] /\ log'[i] = log[i]
      BY <1>1, <1>2, <1>7, <2>1
    <3> QED
      BY <2>1, <3>1 DEF Story
  <2>2. CASE i = Len(log) + 1
    <3>1. g[i - 1] = s[Len(log)] /\ log'[i] = e
      BY <1>1, <1>2, <1>7, <2>2
    <3> QED
      BY <1>7, <2>2, <3>1
  <2> QED
    BY <1>1, <1>2, <2>1, <2>2
<1> HIDE DEF end
<1>11. ASSUME NEW m \in 0..Len(log'), NEW n \in 0..Len(log'), NEW t \in Tasks,
              m <= n, \A i \in (m + 1)..n : log'[i].task # t
       PROVE  g[m][t] = g[n][t]
  <2>1. ASSUME NEW j \in 0..Len(log), m <= j, j <= n
        PROVE  g[m][t] = g[j][t]
    <3>1. m \in 0..Len(log) /\ \A i \in (m + 1)..j : log[i].task # t
      BY <1>1, <1>2, <1>11, <2>1
    <3>2. s[m][t] = s[j][t]
      BY <2>1, <3>1 DEF Story
    <3> QED
      BY <1>7, <2>1, <3>1, <3>2
  <2>2. CASE n \in 0..Len(log)
    BY <1>11, <2>1, <2>2
  <2>3. CASE n = Len(log) + 1 /\ m # n
    <3>1. m <= Len(log) /\ Len(log) <= n /\ Len(log) \in 0..Len(log)
      BY <1>1, <1>2, <1>11, <2>3
    <3>2. g[m][t] = g[Len(log)][t]
      BY <2>1, <3>1
    <3>3. log'[n].task # t
      BY <1>1, <1>11, <2>3, <3>1
    <3>4. g[n][t] = g[Len(log)][t]
      BY <1>1, <1>2, <1>5, <1>7, <2>3, <3>3
    <3> QED
      BY <3>2, <3>4
  <2> QED
    BY <1>1, <1>2, <2>2, <2>3
<1>12. \A m, n \in 0..Len(log'), t \in Tasks :
           m <= n /\ (\A i \in (m + 1)..n : log'[i].task # t) => g[m][t] = g[n][t]
  BY <1>11
<1>13. \A i \in 1..Len(log') :
           g[i] = [g[i - 1] EXCEPT ![log'[i].task] = After(log'[i], i, @)]
  BY <1>10
<1>14. Story(g)'
  BY <1>8, <1>9, <1>12, <1>13, Zenon DEF Story
<1> QED
  BY <1>7, <1>14 DEF end

-----------------------------------------------------------------------------
(* What the events come to, and what the calls did. *)

\* The events of a task when one more is published.
LEMMA EventsGoOn ==
    ASSUME IInv, NEW e \in Events, log' = Append(log, e)
    PROVE  /\ Len(log) \in Nat
           /\ \A t : EventsOf(t) \subseteq 1..Len(log)
           /\ log'[Len(log) + 1] = e
           /\ \A i \in 1..Len(log) : log'[i] = log[i]
           /\ \A t : EventsOf(t)' = IF e.task = t
                                    THEN EventsOf(t) \cup {Len(log) + 1}
                                    ELSE EventsOf(t)
<1>1. log \in Seq(Events) /\ Len(log) \in Nat
  BY TypeFacts DEF IInv, TypeOK
<1>2. /\ Len(log') = Len(log) + 1
      /\ \A i \in 1..Len(log) : log'[i] = log[i]
      /\ log'[Len(log) + 1] = e
  BY <1>1, AppendProperties
<1>3. 1..Len(log') = (1..Len(log)) \cup {Len(log) + 1}
  BY <1>1, <1>2
<1>4. ASSUME NEW t
      PROVE  EventsOf(t)' = IF e.task = t THEN EventsOf(t) \cup {Len(log) + 1}
                            ELSE EventsOf(t)
  BY <1>2, <1>3 DEF EventsOf
<1> QED
  BY <1>1, <1>2, <1>4 DEF EventsOf

\* A field set back stays so until an event carries it.
LEMMA SetBackStays ==
    ASSUME IInv, NEW e \in Events, log' = Append(log, e),
           NEW t, NEW k, NEW v, SetBackTo(t, k, v), e.task # t \/ ~Carries(e, k)
    PROVE  SetBackTo(t, k, v)'
<1>1. PICK i \in EventsOf(t) :
          /\ log[i].kind = "created"
          /\ \E j \in EventsOf(t) : j < i
          /\ \A j \in EventsOf(t) : j > i => ~Carries(log[j], k)
          /\ v = log[i].says[k]
  BY DEF SetBackTo
<1>2. /\ EventsOf(t) \subseteq EventsOf(t)'
      /\ \A j \in EventsOf(t) : log'[j] = log[j]
  BY EventsGoOn
<1>3. \A j \in EventsOf(t)' : j > i => ~Carries(log'[j], k)
  <2>1. ASSUME NEW j \in EventsOf(t)', j \notin EventsOf(t)
        PROVE  ~Carries(log'[j], k)
    BY <2>1, EventsGoOn
  <2> QED
    BY <1>1, <1>2, <2>1
<1>4. i \in EventsOf(t)' /\ log'[i] = log[i] /\ \E j \in EventsOf(t)' : j < i
  BY <1>1, <1>2
<1> QED
  BY <1>1, <1>3, <1>4 DEF SetBackTo, Carries

\* The assignment keeps its date, or is dated by the new event.
LEMMA BeginsLater ==
    ASSUME NEW E \in SUBSET Nat, NEW n \in Nat, \A i \in E : i < n,
           NEW since, NEW N \in SUBSET E, Begins(since, E, N) \/ E = {}
    PROVE  /\ Begins(since, E, N) => Begins(since, E \cup {n}, N \cup {n})
           /\ \A M \in SUBSET (E \cup {n}) :
                 n \in M /\ M \cap N = {} => Begins(n, E \cup {n}, M)
<1>1. ASSUME Begins(since, E, N)
      PROVE  Begins(since, E \cup {n}, N \cup {n})
  <2>1. since \in E /\ since \in Nat /\ since < n
    BY <1>1 DEF Begins
  <2>2. ASSUME NEW i \in E \cup {n}, i < since
        PROVE  \E j \in (E \cup {n}) \ (N \cup {n}) : i <= j /\ j < since
    <3>1. i \in E
      BY <2>1, <2>2
    <3>2. PICK j \in E \ N : i <= j /\ j < since
      BY <1>1, <2>2, <3>1 DEF Begins
    <3>3. j # n
      BY <3>2
    <3> QED
      BY <3>2, <3>3
  <2> QED
    BY <1>1, <2>1, <2>2 DEF Begins
<1>2. ASSUME NEW M \in SUBSET (E \cup {n}), n \in M, M \cap N = {}
      PROVE  Begins(n, E \cup {n}, M)
  <2>1. \A i \in E \cup {n} : i >= n => i = n
    OBVIOUS
  <2>2. ASSUME NEW i \in E
        PROVE  \E j \in (E \cup {n}) \ M : i <= j /\ j < n
    <3>1. Begins(since, E, N)
      BY <2>2
    <3>2. since \in E /\ since \in Nat /\ since \in N /\ since < n
      BY <3>1 DEF Begins
    <3>3. CASE i >= since
      <4>1. i \in N /\ i < n /\ i <= i
        BY <2>2, <3>1, <3>3 DEF Begins
      <4> QED
        BY <1>2, <4>1
    <3>4. CASE i < since
      BY <1>2, <2>2, <3>2, <3>4
    <3> QED
      BY <2>2, <3>2, <3>3, <3>4
  <2> QED
    BY <1>2, <2>1, <2>2 DEF Begins
<1> QED
  BY <1>1, <1>2

LEMMA DatingGoesOn ==
    ASSUME IInv, NEW e \in Events, log' = Append(log, e), Len(log) < MaxEvents,
           e.says.assignee \in Users,
           NEW t \in Tasks, e.task = t, NEW entry \in Entries,
           EventsOf(t) = {} => entry = NoEntry,
           DatesTheAssignment(t, entry),
           NEW new, new = After(e, Len(log) + 1, entry)
    PROVE  DatesTheAssignment(t, new)'
<1> DEFINE a == e.says.assignee
           old == entry.facts.assignee
<1>1. PICK n : n = Len(log) + 1
  OBVIOUS
<1>2. PICK E : E = EventsOf(t)
  OBVIOUS
<1>3. PICK N : N = Naming(t, old)
  OBVIOUS
<1>4. /\ n \in EventIds
      /\ E \in SUBSET Nat
      /\ N \in SUBSET E
      /\ n \in Nat
      /\ \A i \in E : i < n
      /\ EventsOf(t)' = E \cup {n}
      /\ log'[n] = e
      /\ \A i \in E : log'[i] = log[i]
  BY <1>1, <1>2, <1>3, EventsGoOn, ConstantFacts DEF EventIds, Naming
<1>5. /\ new.facts.assignee = a
      /\ new.assigned = IF a # old THEN n ELSE entry.assigned
  BY <1>1, <1>4, AfterFacts DEF After, AssignedBy
<1>6. /\ E # {} => Begins(entry.assigned, E, N)
      /\ E = {} => a # old
  <2>1. E = {} => old = 0
    BY <1>2, NothingIsFacts DEF NoEntry, Nothing
  <2> QED
    BY <1>2, <1>3, <2>1, ConstantFacts DEF DatesTheAssignment
<1>7. PICK M : M = Naming(t, a)'
  OBVIOUS
<1>8. /\ M \in SUBSET (E \cup {n})
      /\ n \in M
      /\ a = old => M = N \cup {n}
      /\ a # old => M \cap N = {}
  <2>1. M = {i \in E \cup {n} : log'[i].says.assignee = a}
    BY <1>4, <1>7 DEF Naming
  <2>2. N = {i \in E : log[i].says.assignee = old}
    BY <1>2, <1>3 DEF Naming
  <2> QED
    BY <1>4, <2>1, <2>2
<1>9. Begins(new.assigned, E \cup {n}, M)
  <2>1. PICK since : since = entry.assigned
    OBVIOUS
  <2>2. Begins(since, E, N) \/ E = {}
    BY <1>6, <2>1
  <2>3. /\ Begins(since, E, N) => Begins(since, E \cup {n}, N \cup {n})
        /\ n \in M /\ M \cap N = {} => Begins(n, E \cup {n}, M)
    BY <1>4, <1>8, <2>2, BeginsLater
  <2> QED
    BY <1>5, <1>6, <1>8, <2>1, <2>3
<1> QED
  BY <1>4, <1>5, <1>7, <1>9 DEF DatesTheAssignment

\* Nothing changes for the other tasks.
LEMMA OtherTasksEnd ==
    ASSUME IInv, NEW e \in Events, log' = Append(log, e),
           NEW t \in Tasks, e.task # t, told'[t] = told[t], late'[t] = late[t],
           NEW entry, SaysWhatWasTold(t, entry.facts), DatesTheAssignment(t, entry)
    PROVE  SaysWhatWasTold(t, entry.facts)' /\ DatesTheAssignment(t, entry)'
<1>1. /\ EventsOf(t)' = EventsOf(t)
      /\ \A i \in EventsOf(t) : log'[i] = log[i]
  BY EventsGoOn
<1>2. \A k, v : SetBackTo(t, k, v) => SetBackTo(t, k, v)'
  BY SetBackStays
<1>3. DatesTheAssignment(t, entry)'
  <2>1. \A u : Naming(t, u)' = Naming(t, u)
    BY <1>1 DEF Naming
  <2> QED
    BY <1>1, <2>1 DEF DatesTheAssignment
<1>4. SaysWhatWasTold(t, entry.facts)'
  BY <1>1, <1>2 DEF SaysWhatWasTold
<1> QED
  BY <1>3, <1>4

\* An event that carries what it changes.
LEMMA PublishedAsTold ==
    ASSUME IInv, NEW kind \in EventKinds, NEW t \in Tasks, NEW says \in Facts,
           says.assignee \in Users, Publish(kind, t, says),
           NEW e, e = [kind |-> kind, task |-> t, says |-> WithDepartment(says)],
           \A k \in Fields : \/ e.says[k] = 0
                             \/ e.says[k] = told[t][k]
                             \/ Carries(e, k),
           NEW facts \in Facts, SaysWhatWasTold(t, facts),
           NEW new, new = Applied(e, facts)
    PROVE  SaysWhatWasTold(t, new)'
<1>1. /\ e.says \in Facts /\ e.says.assignee = says.assignee
      /\ e.says = WithDepartment(says)
  BY WithDepartmentFacts
<1>2. e \in Events /\ e.task = t
  BY <1>1 DEF Events
<1>3. /\ log' = Append(log, e)
      /\ told' = [told EXCEPT ![t] = Merge(e.says, told[t])]
      /\ late' = late
      /\ told \in [Tasks -> Facts]
  BY <1>1 DEF Publish, Send, IInv, TypeOK
<1>4. \A k \in Fields : new[k] = IF Carries(e, k) THEN e.says[k] ELSE facts[k]
  BY <1>2, AppliedFields
<1>5. \A k \in Fields : told'[t][k] = IF e.says[k] # 0 THEN e.says[k] ELSE told[t][k]
  BY <1>1, <1>3, MergeFacts
<1>6. told'[t] # Nothing
  <2>1. told'[t]["assignee"] = e.says["assignee"] /\ e.says["assignee"] # 0
    BY <1>1, <1>5, ConstantFacts DEF Fields
  <2> QED
    BY <2>1, NothingIsFacts DEF Fields
<1>7. ASSUME NEW k \in Fields
      PROVE  IF late'[t] = Nothing
             THEN new[k] = told'[t][k] \/ SetBackTo(t, k, new[k])'
             ELSE told'[t][k] = IF new[k] # 0 THEN new[k] ELSE late'[t][k]
  <2>1. CASE Carries(e, k)
    <3>1. e.says[k] # 0
      BY <1>2, <2>1, CarriedFields
    <3> QED
      BY <1>4, <1>5, <2>1, <3>1
  <2>2. CASE ~Carries(e, k)
    <3>1. new[k] = facts[k] /\ told'[t][k] = told[t][k]
      BY <1>4, <1>5, <2>2
    <3>2. SetBackTo(t, k, facts[k]) => SetBackTo(t, k, facts[k])'
      BY <1>2, <1>3, <2>2, SetBackStays
    <3>3. SetBackTo(t, k, facts[k]) => SetBackTo(t, k, new[k])'
      BY <3>1, <3>2 DEF SetBackTo
    <3> QED
      BY <1>3, <3>1, <3>3, NothingIsFacts DEF SaysWhatWasTold
  <2> QED
    BY <2>1, <2>2
<1> QED
  BY <1>3, <1>6, <1>7, NothingIsFacts DEF SaysWhatWasTold

\* The goal of the steps that publish: the story goes on and ends as told.
LEMMA SentGoesOn ==
    ASSUME IInv, NEW s, Story(s), EndsAsTold(s),
           NEW e \in Events, NEW t \in Tasks, e.task = t,
           e.says.assignee \in Users,
           log' = Append(log, e), Len(log) < MaxEvents,
           \A x \in Tasks : x # t => told'[x] = told[x] /\ late'[x] = late[x],
           NEW new, new = Applied(e, s[Len(log)][t].facts),
           SaysWhatWasTold(t, new)'
    PROVE  \E g : /\ Story(g)'
                  /\ \A i \in 0..Len(log) : g[i] = s[i]
                  /\ EndsAsTold(g)'
<1>1. PICK g : /\ Story(g)'
               /\ \A i \in 0..Len(log) : g[i] = s[i]
               /\ g[Len(log) + 1] =
                     [s[Len(log)] EXCEPT ![e.task] = After(e, Len(log) + 1, @)]
  BY StoryGoesOn
<1>2. PICK last : last = s[Len(log)]
  OBVIOUS
<1>3. PICK n : n = Len(log) + 1
  OBVIOUS
<1>4. /\ Len(log) \in Nat
      /\ log \in Seq(Events)
      /\ Len(log') = n
      /\ last \in [Tasks -> Entries]
  BY <1>2, <1>3, TypeFacts, AppendProperties DEF IInv, TypeOK, Story
<1>5. /\ g[n][t] = After(e, n, last[t])
      /\ \A x \in Tasks : x # t => g[n][x] = last[x]
  BY <1>1, <1>2, <1>3, <1>4
<1>6. \A x \in Tasks : /\ SaysWhatWasTold(x, last[x].facts)
                       /\ DatesTheAssignment(x, last[x])
  BY <1>2 DEF EndsAsTold
<1>7. /\ SaysWhatWasTold(t, g[n][t].facts)'
      /\ DatesTheAssignment(t, g[n][t])'
  <2>1. g[n][t].facts = new
    BY <1>2, <1>5 DEF After
  <2>2. EventsOf(t) = {} => last[t] = NoEntry
    BY <1>2, NoEventsNoEntry
  <2>3. PICK entry : entry = g[n][t]
    OBVIOUS
  <2>4. DatesTheAssignment(t, entry)'
    <3>1. PICK old \in Entries : old = last[t]
      BY <1>4
    <3>2. /\ EventsOf(t) = {} => old = NoEntry
          /\ DatesTheAssignment(t, old)
          /\ entry = After(e, Len(log) + 1, old)
      BY <1>3, <1>5, <1>6, <2>2, <2>3, <3>1
    <3> QED
      BY <3>2, DatingGoesOn
  <2> QED
    BY <2>1, <2>3, <2>4
<1>8. ASSUME NEW x \in Tasks, x # t
      PROVE  /\ SaysWhatWasTold(x, g[n][x].facts)'
             /\ DatesTheAssignment(x, g[n][x])'
  <2>1. PICK entry : entry = last[x]
    OBVIOUS
  <2>2. SaysWhatWasTold(x, entry.facts)' /\ DatesTheAssignment(x, entry)'
    BY <1>6, <1>8, <2>1, OtherTasksEnd
  <2> QED
    BY <1>5, <1>8, <2>1, <2>2
<1>9. EndsAsTold(g)'
  <2>1. \A x \in Tasks : /\ SaysWhatWasTold(x, g[n][x].facts)'
                         /\ DatesTheAssignment(x, g[n][x])'
    BY <1>7, <1>8
  <2> QED
    BY <1>4, <2>1 DEF EndsAsTold
<1> QED
  BY <1>1, <1>9

LEMMA PublishGoesOn ==
    ASSUME IInv, NEW s, Story(s), EndsAsTold(s),
           NEW kind \in EventKinds, NEW t \in Tasks, NEW says \in Facts,
           says.assignee \in Users, Publish(kind, t, says),
           \A k \in Fields \ {"assignee", "department"} :
               \/ says[k] \in {0, told[t][k]}
               \/ kind = "status_changed"
               \/ kind = "deadline_changed" /\ k = "deadline"
               \/ kind = "updated" /\ k \in {"planned", "actual"}
    PROVE  \E g : /\ Story(g)'
                  /\ \A i \in 0..Len(log) : g[i] = s[i]
                  /\ EndsAsTold(g)'
<1>1. PICK e : e = [kind |-> kind, task |-> t, says |-> WithDepartment(says)]
  OBVIOUS
<1>2. PICK new : new = Applied(e, s[Len(log)][t].facts)
  OBVIOUS
<1>3. /\ WithDepartment(says) \in Facts
      /\ WithDepartment(says).assignee = says.assignee
      /\ \A k \in Fields : k # "department" => WithDepartment(says)[k] = says[k]
  BY WithDepartmentFacts DEF WithDepartment, Facts, Fields
<1>4. /\ e \in Events /\ e.task = t /\ e.kind = kind
      /\ e.says = WithDepartment(says)
      /\ e.says.assignee \in Users
  BY <1>1, <1>3 DEF Events
<1>5. \A k \in Fields : \/ e.says[k] = 0
                        \/ e.says[k] = told[t][k]
                        \/ Carries(e, k)
  BY <1>3, <1>4, CarriedFields
<1>6. /\ s[Len(log)][t].facts \in Facts
      /\ SaysWhatWasTold(t, s[Len(log)][t].facts)
  BY TypeFacts DEF IInv, Story, Entries, EndsAsTold
<1>7. SaysWhatWasTold(t, new)'
  BY <1>1, <1>2, <1>5, <1>6, PublishedAsTold
<1>8. /\ log' = Append(log, e)
      /\ Len(log) < MaxEvents
      /\ \A x \in Tasks : x # t => told'[x] = told[x] /\ late'[x] = late[x]
  BY <1>1 DEF Publish, Send, IInv, TypeOK
<1> QED
  BY <1>2, <1>4, <1>7, <1>8, SentGoesOn

LEMMA CallGoesOn ==
    ASSUME IInv, NEW s, Story(s), EndsAsTold(s), NEW t \in Tasks,
           \/ \E u \in Users : AssignTask(t, u)
           \/ \E d \in Deadlines : ChangeDeadline(t, d)
           \/ \E x \in Statuses, h \in Hours \cup {0} : UpdateTaskStatus(t, x, h)
           \/ \E p, h \in Hours \cup {0} : UpdateTaskLabor(t, p, h)
    PROVE  \E g : /\ Story(g)'
                  /\ \A i \in 0..Len(log) : g[i] = s[i]
                  /\ EndsAsTold(g)'
<1> DEFINE Goal == \E g : /\ Story(g)'
                          /\ \A i \in 0..Len(log) : g[i] = s[i]
                          /\ EndsAsTold(g)'
<1> HIDE DEF Goal
<1>1. told[t] \in Facts /\ (Known(t) => told[t].assignee \in Users)
  BY DEF IInv, TypeOK, SourceShape
<1>2. ASSUME NEW u \in Users, AssignTask(t, u)
      PROVE  Goal
  <2> DEFINE known == Only(told[t], {"deadline", "status"})
             says == [known EXCEPT !.assignee = u]
  <2>1. /\ known \in Facts
        /\ \A k \in Fields : known[k] \in {0, told[t][k]}
    BY <1>1, OnlyFacts DEF Fields
  <2>2. Publish("assigned", t, says)
    BY <1>2 DEF AssignTask
  <2> HIDE DEF known
  <2>3. /\ says \in Facts /\ says.assignee \in Users
        /\ \A k \in Fields \ {"assignee", "department"} : says[k] = known[k]
    BY <2>1 DEF Facts, Fields
  <2>4. \A k \in Fields \ {"assignee", "department"} : says[k] \in {0, told[t][k]}
    BY <2>1, <2>3
  <2> HIDE DEF says
  <2> QED
    BY <2>2, <2>3, <2>4, PublishGoesOn DEF EventKinds, Goal
<1>3. ASSUME NEW d \in Deadlines, ChangeDeadline(t, d)
      PROVE  Goal
  <2> DEFINE known == Only(told[t], {"assignee"})
             says == [known EXCEPT !.deadline = d]
  <2>1. /\ known \in Facts
        /\ known.assignee = told[t].assignee
        /\ \A k \in Fields : known[k] \in {0, told[t][k]}
    BY <1>1, OnlyFacts, NothingIsFacts DEF Fields, Only
  <2>2. Publish("deadline_changed", t, says) /\ told[t].assignee \in Users
    BY <1>1, <1>3 DEF ChangeDeadline
  <2> HIDE DEF known
  <2>3. /\ says \in Facts /\ says.assignee \in Users
        /\ \A k \in Fields \ {"deadline"} : says[k] = known[k]
    BY <2>1, <2>2 DEF Facts, Fields
  <2>4. \A k \in Fields \ {"deadline"} : says[k] \in {0, told[t][k]}
    BY <2>1, <2>3
  <2> HIDE DEF says
  <2> QED
    BY <2>2, <2>3, <2>4, PublishGoesOn DEF EventKinds, Goal
<1>4. ASSUME NEW x \in Statuses, NEW h \in Hours \cup {0}, UpdateTaskStatus(t, x, h)
      PROVE  Goal
  <2> DEFINE says == [told[t] EXCEPT !.status = x, !.actual = Given(h, @)]
  <2>1. Given(h, told[t].actual) \in Hours \cup {0}
    BY <1>1 DEF Facts, Given
  <2>2. says \in Facts /\ says.assignee \in Users
    BY <1>1, <1>4, <2>1 DEF Facts, UpdateTaskStatus
  <2>3. Publish("status_changed", t, says)
    BY <1>4 DEF UpdateTaskStatus
  <2> HIDE DEF says
  <2> QED
    BY <2>2, <2>3, PublishGoesOn DEF EventKinds, Goal
<1>5. ASSUME NEW p \in Hours \cup {0}, NEW h \in Hours \cup {0},
             UpdateTaskLabor(t, p, h)
      PROVE  Goal
  <2> DEFINE says == [told[t] EXCEPT !.planned = Given(p, @),
                                     !.actual = Given(h, @)]
  <2>1. /\ Given(p, told[t].planned) \in Hours \cup {0}
        /\ Given(h, told[t].actual) \in Hours \cup {0}
    BY <1>1 DEF Facts, Given
  <2>2. /\ says \in Facts /\ says.assignee \in Users
        /\ \A k \in Fields \ {"planned", "actual"} : says[k] = told[t][k]
    BY <1>1, <1>5, <2>1 DEF Facts, Fields, UpdateTaskLabor
  <2>3. Publish("updated", t, says)
    BY <1>5 DEF UpdateTaskLabor
  <2> HIDE DEF says
  <2> QED
    BY <2>2, <2>3, PublishGoesOn DEF EventKinds, Goal
<1>6. Goal
  BY <1>2, <1>3, <1>4, <1>5
<1> QED
  BY <1>6 DEF Goal

\* The event that is late sets back what was said before it.
LEMMA PublishCreatedGoesOn ==
    ASSUME IInv, NEW s, Story(s), EndsAsTold(s), NEW t \in Tasks, PublishCreated(t)
    PROVE  \E g : /\ Story(g)'
                  /\ \A i \in 0..Len(log) : g[i] = s[i]
                  /\ EndsAsTold(g)'
<1>1. PICK says : says = WithDepartment(late[t])
  OBVIOUS
<1>2. PICK e : e = [kind |-> "created", task |-> t, says |-> says]
  OBVIOUS
<1>3. PICK n : n = Len(log) + 1
  OBVIOUS
<1>4. PICK facts : facts = s[Len(log)][t].facts
  OBVIOUS
<1>5. PICK new : new = Applied(e, facts)
  OBVIOUS
<1>6. /\ late[t] \in Facts /\ told[t] \in Facts
      /\ late[t] # Nothing
      /\ late[t].assignee \in Users
      /\ told \in [Tasks -> Facts] /\ late \in [Tasks -> Facts]
  BY DEF IInv, TypeOK, SourceShape, PublishCreated
<1>7. /\ says \in Facts
      /\ says.assignee \in Users
      /\ \A k \in Fields : k # "department" => says[k] = late[t][k]
  <2>1. says \in Facts /\ says.assignee \in Users
    BY <1>1, <1>6, WithDepartmentFacts
  <2> QED
    BY <1>1, <1>6, <2>1 DEF WithDepartment, Facts, Fields
<1>8. /\ e \in Events /\ e.task = t /\ e.kind = "created" /\ e.says = says
  BY <1>2, <1>7 DEF Events, EventKinds
<1>9. /\ log' = Append(log, e)
      /\ Len(log) < MaxEvents
      /\ told' = [told EXCEPT ![t] = Merge(told[t], says)]
      /\ late' = [late EXCEPT ![t] = Nothing]
  BY <1>1, <1>2 DEF PublishCreated, Send
<1>10. /\ facts \in Facts
       /\ told[t] # Nothing
       /\ late[t]["department"] = 0
       /\ \A k \in Fields :
             told[t][k] = IF facts[k] # 0 THEN facts[k] ELSE late[t][k]
  <2>1. SaysWhatWasTold(t, facts)
    BY <1>4 DEF EndsAsTold
  <2>2. facts \in Facts
    BY <1>4, TypeFacts DEF IInv, Story, Entries
  <2> QED
    BY <1>6, <2>1, <2>2, NothingIsFacts DEF SaysWhatWasTold
<1>11. /\ \A k \in Fields : new[k] = IF says[k] # 0 THEN says[k] ELSE facts[k]
       /\ \A k \in Fields : told'[t][k] = IF told[t][k] # 0 THEN told[t][k] ELSE says[k]
       /\ late'[t] = Nothing
  <2>1. \A k \in Fields : Carries(e, k) <=> says[k] # 0
    BY <1>8, CarriedFields
  <2>2. \A k \in Fields : new[k] = IF Carries(e, k) THEN says[k] ELSE facts[k]
    BY <1>5, <1>8, <1>10, AppliedFields
  <2>3. told'[t] = Merge(told[t], says) /\ late'[t] = Nothing
    BY <1>6, <1>9
  <2> QED
    BY <1>6, <1>7, <2>1, <2>2, <2>3, MergeFacts
<1>12. told'[t] # Nothing
  <2>1. "assignee" \in Fields /\ says["assignee"] # 0
    BY <1>7, ConstantFacts DEF Fields
  <2> QED
    BY <1>11, <2>1, NothingIsFacts
<1>13. ASSUME NEW k \in Fields, new[k] # told'[t][k]
       PROVE  SetBackTo(t, k, new[k])'
  <2>1. says[k] # 0 /\ told[t][k] # 0 /\ told[t][k] # says[k]
    <3>1. CASE k = "department"
      BY <1>10, <1>11, <1>13, <3>1
    <3>2. CASE k # "department"
      BY <1>7, <1>10, <1>11, <1>13, <3>2
    <3> QED
      BY <3>1, <3>2
  <2>2. EventsOf(t) # {}
    <3>1. SUFFICES ASSUME EventsOf(t) = {} PROVE FALSE
      OBVIOUS
    <3>2. facts = Nothing
      BY <1>4, <3>1, NoEventsNoEntry DEF NoEntry
    <3>3. told[t][k] = late[t][k]
      BY <1>10, <3>2, NothingIsFacts
    <3> QED
      BY <1>7, <1>10, <2>1, <3>3
  <2>3. /\ n \in EventsOf(t)'
        /\ log'[n] = e
        /\ EventsOf(t) \subseteq EventsOf(t)'
        /\ \A j \in EventsOf(t)' : j <= n
        /\ \A j \in EventsOf(t) : j < n
    BY <1>3, <1>8, <1>9, EventsGoOn
  <2>4. new[k] = log'[n].says[k] /\ log'[n].kind = "created"
    BY <1>8, <1>11, <2>1, <2>3
  <2>5. \A j \in EventsOf(t)' : ~(j > n)
    BY <1>3, <1>8, <1>9, EventsGoOn
  <2> QED
    BY <2>2, <2>3, <2>4, <2>5 DEF SetBackTo
<1>14. SaysWhatWasTold(t, new)'
  <2>1. late'[t].department = 0
    BY <1>11, NothingIsFacts DEF Nothing
  <2> QED
    BY <1>11, <1>12, <1>13, <2>1, NothingIsFacts DEF SaysWhatWasTold
<1>15. \A x \in Tasks : x # t => told'[x] = told[x] /\ late'[x] = late[x]
  BY <1>6, <1>9
<1> QED
  BY <1>4, <1>5, <1>7, <1>8, <1>9, <1>14, <1>15, SentGoesOn

LEMMA StoryStays ==
    ASSUME log' = log, NEW s, Story(s)
    PROVE  Story(s)'
<1>1. /\ s \in [0..Len(log') -> [Tasks -> Entries]]
      /\ s[0] = [t \in Tasks |-> NoEntry]
  BY DEF Story
<1>2. ASSUME NEW i \in 1..Len(log')
      PROVE  s[i] = [s[i - 1] EXCEPT ![log'[i].task] = After(log'[i], i, @)]
  BY <1>2 DEF Story
<1>3. ASSUME NEW m \in 0..Len(log'), NEW n \in 0..Len(log'), NEW t \in Tasks,
             m <= n, \A i \in (m + 1)..n : log'[i].task # t
      PROVE  s[m][t] = s[n][t]
  BY <1>3 DEF Story
<1>4. \A i \in 1..Len(log') :
          s[i] = [s[i - 1] EXCEPT ![log'[i].task] = After(log'[i], i, @)]
  BY <1>2
<1>5. \A m, n \in 0..Len(log'), t \in Tasks :
          m <= n /\ (\A i \in (m + 1)..n : log'[i].task # t) => s[m][t] = s[n][t]
  BY <1>3
<1> QED
  BY <1>1, <1>4, <1>5, Zenon DEF Story

\* Nobody has heard of the task yet.
LEMMA CreateTaskGoesOn ==
    ASSUME IInv, NEW s, Story(s), EndsAsTold(s), NEW t \in Tasks, NEW u \in Users,
           NEW d \in Deadlines \cup {0}, NEW h \in Hours \cup {0},
           CreateTask(t, u, d, h)
    PROVE  Story(s)' /\ EndsAsTold(s)'
<1> DEFINE says == [Nothing EXCEPT !.assignee = u, !.deadline = d,
                                   !.status = TODO, !.planned = h]
<1>1. /\ told' = [told EXCEPT ![t] = says]
      /\ late' = [late EXCEPT ![t] = says]
      /\ log' = log
      /\ told[t] = Nothing
  BY DEF CreateTask, Known
<1>2. says.assignee = u /\ says.department = 0
  BY DEF Nothing
<1>3. says # Nothing
  <2>1. Nothing.assignee = 0
    BY DEF Nothing
  <2> QED
    BY <1>2, <2>1, ConstantFacts
<1> HIDE DEF says
<1>4. Story(s)'
  BY <1>1, StoryStays
<1>5. told \in [Tasks -> Facts] /\ late \in [Tasks -> Facts]
  BY DEF IInv, TypeOK
<1>6. EventsOf(t) = {}
  BY <1>1 DEF EndsAsTold, SaysWhatWasTold
<1>7. s[Len(log)][t].facts = Nothing
  BY <1>6, NoEventsNoEntry DEF NoEntry
<1>8. ASSUME NEW x \in Tasks
      PROVE  SaysWhatWasTold(x, s[Len(log)][x].facts)'
  <2>1. CASE x = t
    <3>1. told'[x] = says /\ late'[x] = says
      BY <1>1, <1>5, <2>1
    <3>2. s[Len(log')][x].facts = Nothing
      BY <1>1, <1>7, <2>1
    <3> QED
      BY <1>2, <1>3, <3>1, <3>2, NothingIsFacts DEF SaysWhatWasTold
  <2>2. CASE x # t
    <3>1. told'[x] = told[x] /\ late'[x] = late[x]
      BY <1>1, <1>5, <2>2
    <3>2. SaysWhatWasTold(x, s[Len(log)][x].facts)
      BY DEF EndsAsTold
    <3> QED
      BY <1>1, <3>1, <3>2 DEF SaysWhatWasTold, SetBackTo, EventsOf, Carries
  <2> QED
    BY <2>1, <2>2
<1>9. \A x \in Tasks : DatesTheAssignment(x, s[Len(log)][x])'
  BY <1>1 DEF EndsAsTold, DatesTheAssignment, Naming, EventsOf
<1> QED
  BY <1>4, <1>8, <1>9 DEF EndsAsTold

-----------------------------------------------------------------------------
(* The rows. *)

\* A step that leaves the goroutine and the rows alone.
LEMMA UnmovedRows ==
    ASSUME IInv, PlaceIsRight, NEW s, RowsKeepUp(s),
           UNCHANGED <<row, taken, current, todo, lost>>,
           log' = log \/ \E e \in Events : log' = Append(log, e),
           NEW g, \A i \in 0..Len(log) : g[i] = s[i]
    PROVE  PlaceIsRight' /\ RowsKeepUp(g)'
<1>1. /\ Len(log) \in Nat
      /\ taken \in 0..Len(log)
      /\ lost \subseteq 1..Len(log)
      /\ current # NoEvent => current \in 1..Len(log) /\ current - 1 \in 0..Len(log)
  BY TypeFacts DEF IInv, TypeOK
<1>2. /\ \A i \in 1..Len(log) : log'[i] = log[i]
      /\ \A t : EventsOf(t)' \cap (1..Len(log)) = EventsOf(t)
  <2>1. CASE log' = log
    BY <2>1 DEF EventsOf
  <2>2. CASE \E e \in Events : log' = Append(log, e)
    BY <1>1, <2>2, EventsGoOn
  <2> QED
    BY <2>1, <2>2
<1>3. current # NoEvent => Event' = Event
  BY <1>1, <1>2 DEF Event
<1>4. current # NoEvent => Place' = Place
  BY <1>3 DEF Place
<1>5. PlaceIsRight'
  BY <1>3, <1>4 DEF PlaceIsRight
<1>6. ASSUME NEW t \in Tasks, ~Harmed(t)'
      PROVE  Matches(row[t], IF InHand(t) THEN UnderWay(Place, s[current - 1][t])
                             ELSE s[taken][t])
  <2>1. ~Harmed(t)
    BY <1>1, <1>2, <1>6 DEF Harmed
  <2> QED
    BY <2>1 DEF RowsKeepUp
<1>7. ASSUME NEW t \in Tasks, ~Harmed(t)'
      PROVE  Matches(row[t], IF InHand(t) THEN UnderWay(Place, g[current - 1][t])
                             ELSE g[taken][t])'
  <2>1. CASE InHand(t)
    <3>1. InHand(t)' /\ current # NoEvent
      BY <1>3, <2>1 DEF InHand
    <3>2. g[current - 1] = s[current - 1]
      BY <1>1, <3>1
    <3> QED
      BY <1>3, <1>4, <1>6, <1>7, <2>1, <3>1, <3>2 DEF Matches, UnderWay, AssignedBy
  <2>2. CASE ~InHand(t)
    <3>1. ~InHand(t)'
      BY <1>3, <2>2 DEF InHand
    <3>2. g[taken] = s[taken]
      BY <1>1
    <3> QED
      BY <1>6, <1>7, <2>2, <3>1, <3>2 DEF Matches
  <2> QED
    BY <2>1, <2>2
<1> QED
  BY <1>5, <1>7 DEF RowsKeepUp

\* Tasks that have no event in between have the same entry.
LEMMA SameEntry ==
    ASSUME IInv, NEW s, Story(s), NEW t \in Tasks,
           NEW m \in 0..Len(log), NEW n \in 0..Len(log), m <= n,
           \A i \in EventsOf(t) : ~(m < i /\ i <= n)
    PROVE  s[m][t] = s[n][t]
<1>1. Len(log) \in Nat
  BY TypeFacts DEF IInv
<1>2. \A i \in (m + 1)..n : log[i].task # t
  BY <1>1 DEF EventsOf
<1> QED
  BY <1>2 DEF Story

LEMMA TakeEventGoesOn ==
    ASSUME IInv, NEW s, Story(s), RowsKeepUp(s), TakeEvent
    PROVE  PlaceIsRight' /\ RowsKeepUp(s)'
<1>1. /\ taken' = taken + 1 /\ current' = taken + 1
      /\ todo' = Handler(log[taken + 1])
      /\ current = NoEvent /\ taken < delivered
      /\ UNCHANGED <<log, row, lost>>
  BY DEF TakeEvent, sourceVars, dbVars
<1>2. /\ taken \in Nat /\ taken + 1 \in 1..Len(log) /\ taken \in 0..Len(log)
      /\ taken + 1 \in 0..Len(log) /\ taken + 1 # NoEvent /\ Len(log) \in Nat
  BY <1>1, TypeFacts DEF IInv, NoEvent
<1>3. Event' = log[taken + 1]
  BY <1>1 DEF Event
<1>4. Place' = 1
  <2>1. Len(Handler(log[taken + 1])) \in 3..5
    BY HandlerPlaces
  <2> QED
    BY <1>1, <1>3, <2>1 DEF Place
<1>5. PlaceIsRight'
  <2>1. \A j \in 1..Len(todo') : todo'[j] = Handler(Event')[1 + j - 1]
    <3>1. Len(Handler(log[taken + 1])) \in 3..5
      BY HandlerPlaces
    <3>2. \A j \in 1..Len(todo') : 1 + j - 1 = j
      BY <1>1, <3>1
    <3> QED
      BY <1>1, <1>3, <3>2
  <2> QED
    BY <1>4, <2>1 DEF PlaceIsRight
<1>6. ASSUME NEW t \in Tasks, ~Harmed(t)'
      PROVE  Matches(row[t], IF InHand(t) THEN UnderWay(Place, s[current - 1][t])
                             ELSE s[taken][t])'
  <2>1. Matches(row[t], s[taken][t])
    <3>1. ~Harmed(t) /\ ~InHand(t)
      BY <1>1, <1>6 DEF Harmed, EventsOf, InHand
    <3> QED
      BY <3>1 DEF RowsKeepUp
  <2>2. CASE log[taken + 1].task = t
    <3>1. InHand(t)'
      BY <1>1, <1>2, <1>3, <2>2 DEF InHand
    <3>2. current' - 1 = taken
      BY <1>1, <1>2
    <3> QED
      BY <1>1, <1>4, <2>1, <3>1, <3>2 DEF Matches, UnderWay
  <2>3. CASE log[taken + 1].task # t
    <3>1. ~InHand(t)'
      BY <1>1, <1>3, <2>3 DEF InHand
    <3>2. s[taken][t] = s[taken + 1][t]
      BY <1>2, <2>3, SameEntry DEF EventsOf
    <3> QED
      BY <1>1, <2>1, <3>1, <3>2 DEF Matches
  <2> QED
    BY <2>2, <2>3
<1> QED
  BY <1>5, <1>6 DEF RowsKeepUp

\* What was in the buffer is lost, and the goroutine may be stopped.
LEMMA BufferLostGoesOn ==
    ASSUME IInv, PlaceIsRight, NEW s, Story(s), RowsKeepUp(s), CutLink \/ Crash
    PROVE  PlaceIsRight' /\ RowsKeepUp(s)'
<1>1. /\ taken' = delivered
      /\ lost \cup (taken + 1)..delivered \subseteq lost'
      /\ UNCHANGED <<log, row>>
      /\ \/ UNCHANGED <<current, todo>>
         \/ current' = NoEvent /\ {current} \ {NoEvent} \subseteq lost'
  BY DEF CutLink, Crash, DropBuffer, Continue, sourceVars, dbVars
<1>2. /\ Len(log) \in Nat
      /\ taken \in 0..Len(log) /\ delivered \in 0..Len(log) /\ taken <= delivered
      /\ current # NoEvent => current \in 1..Len(log)
  BY TypeFacts DEF IInv
<1>3. PlaceIsRight'
  BY <1>1 DEF PlaceIsRight, Place, Event
<1>4. ASSUME NEW t \in Tasks, ~Harmed(t)'
      PROVE  Matches(row[t], IF InHand(t) THEN UnderWay(Place, s[current - 1][t])
                             ELSE s[taken][t])'
  <2>1. \A i \in EventsOf(t) : i \notin lost'
    BY <1>1, <1>4 DEF Harmed, EventsOf
  <2>2. ~Harmed(t)
    BY <1>1, <2>1 DEF Harmed
  <2>3. Matches(row[t], IF InHand(t) THEN UnderWay(Place, s[current - 1][t])
                        ELSE s[taken][t])
    BY <2>2 DEF RowsKeepUp
  <2>4. s[taken][t] = s[delivered][t]
    <3>1. \A i \in EventsOf(t) : ~(taken < i /\ i <= delivered)
      BY <1>1, <1>2, <2>1 DEF EventsOf
    <3> QED
      BY <1>2, <3>1, SameEntry
  <2>5. CASE UNCHANGED <<current, todo>>
    BY <1>1, <2>3, <2>4, <2>5 DEF Matches, InHand, UnderWay, Place, Event, AssignedBy
  <2>6. CASE current' = NoEvent /\ {current} \ {NoEvent} \subseteq lost'
    <3>1. ~InHand(t)'
      BY <2>6 DEF InHand
    <3>2. ~InHand(t)
      BY <1>2, <2>1, <2>6 DEF InHand, EventsOf, Event
    <3> QED
      BY <1>1, <2>3, <2>4, <3>1, <3>2 DEF Matches
  <2> QED
    BY <1>1, <2>5, <2>6
<1> QED
  BY <1>3, <1>4 DEF RowsKeepUp


LEMMA EndsStay ==
    ASSUME UNCHANGED <<log, told, late>>, NEW s, EndsAsTold(s)
    PROVE  EndsAsTold(s)'
<1>1. ASSUME NEW t \in Tasks
      PROVE  /\ SaysWhatWasTold(t, s[Len(log)][t].facts)'
             /\ DatesTheAssignment(t, s[Len(log)][t])'
  <2>1. /\ SaysWhatWasTold(t, s[Len(log)][t].facts)
        /\ DatesTheAssignment(t, s[Len(log)][t])
    BY DEF EndsAsTold
  <2> QED
    BY <2>1 DEF SaysWhatWasTold, SetBackTo, EventsOf, Carries,
                DatesTheAssignment, Naming
<1> QED
  BY <1>1 DEF EndsAsTold

\* The statement about to run is the one at this place.
LEMMA TailPlace ==
    ASSUME IInv, PlaceIsRight, current # NoEvent
    PROVE  /\ Len(Handler(Event)) \in 3..5
           /\ Place \in 1..Len(Handler(Event))
           /\ Head(todo) = Handler(Event)[Place]
           /\ Tail(todo) = <<>> <=> Place = Len(Handler(Event))
           /\ Len(Tail(todo)) = Len(Handler(Event)) - Place
           /\ \A j \in 1..Len(Tail(todo)) : Tail(todo)[j] = Handler(Event)[Place + j]
<1>1. todo \in Seq(Statements) /\ todo # <<>>
  BY TypeFacts DEF IInv
<1>2. Len(todo) \in Nat \ {0} /\ Head(todo) = todo[1] /\ 1 \in 1..Len(todo)
  BY <1>1, EmptySeq
<1>3. /\ Tail(todo) \in Seq(Statements)
      /\ Len(Tail(todo)) = Len(todo) - 1
      /\ \A j \in 1..Len(Tail(todo)) : Tail(todo)[j] = todo[j + 1]
  BY <1>1, HeadTailProperties
<1>4. Len(Handler(Event)) \in 3..5
  BY HandlerPlaces
<1>5. Place = Len(Handler(Event)) - Len(todo) + 1 /\ Place \in Int
  BY <1>2, <1>4 DEF Place
<1>6. Place >= 1 /\ \A j \in 1..Len(todo) : todo[j] = Handler(Event)[Place + j - 1]
  BY DEF PlaceIsRight
<1>7. Head(todo) = Handler(Event)[Place]
  <2>1. Place + 1 - 1 = Place
    BY <1>5
  <2> QED
    BY <1>2, <1>6, <2>1
<1>8. Tail(todo) = <<>> <=> Len(todo) = 1
  <2>1. Tail(todo) = <<>> <=> Len(Tail(todo)) = 0
    BY <1>3, EmptySeq
  <2> QED
    BY <1>2, <1>3, <2>1
<1>9. \A j \in 1..Len(Tail(todo)) : Tail(todo)[j] = Handler(Event)[Place + j]
  <2>1. \A j \in 1..Len(Tail(todo)) : j + 1 \in 1..Len(todo) /\ Place + (j + 1) - 1 = Place + j
    BY <1>2, <1>3, <1>5
  <2> QED
    BY <1>3, <1>6, <2>1
<1> QED
  BY <1>2, <1>3, <1>4, <1>5, <1>6, <1>7, <1>8, <1>9

\* The goroutine goes to the next place or lets go of the event.
LEMMA NextPlace ==
    ASSUME IInv, PlaceIsRight, current # NoEvent, log' = log,
           NEW rest \in {Tail(todo), <<>>}, Continue(rest)
    PROVE  /\ PlaceIsRight'
           /\ current' # NoEvent => /\ current' = current
                                    /\ Event' = Event
                                    /\ Place' = Place + 1
           /\ rest # <<>> => current' # NoEvent
           /\ rest = <<>> => current' = NoEvent
<1>1. /\ todo' = rest
      /\ current' = IF rest = <<>> THEN NoEvent ELSE current
  BY DEF Continue
<1>2. current' # NoEvent => current' = current /\ Event' = Event /\ rest = Tail(todo)
  BY <1>1 DEF Event
<1>3. PICK h : h = Handler(Event)
  OBVIOUS
<1>4. PICK p : p = Place
  OBVIOUS
<1>5. /\ Len(h) \in 3..5
      /\ p \in 1..Len(h)
      /\ Len(Tail(todo)) = Len(h) - p
      /\ \A j \in 1..Len(Tail(todo)) : Tail(todo)[j] = h[p + j]
  BY <1>3, <1>4, TailPlace
<1>6. ASSUME current' # NoEvent
      PROVE  Place' = p + 1
  <2>1. Handler(Event)' = h /\ todo' = Tail(todo)
    BY <1>1, <1>2, <1>3, <1>6
  <2>2. Place' = Len(h) - Len(Tail(todo)) + 1
    BY <2>1 DEF Place
  <2>3. Len(h) \in Nat /\ p \in Nat /\ Len(Tail(todo)) = Len(h) - p
    BY <1>5
  <2>4. \A l, m, n \in Int : m = l - n => l - m + 1 = n + 1
    OBVIOUS
  <2>5. Len(h) \in Int /\ p \in Int /\ Len(Tail(todo)) \in Int
    BY <2>3
  <2>6. Len(h) - Len(Tail(todo)) + 1 = p + 1
    BY <2>3, <2>4, <2>5, Zenon
  <2> QED
    BY <2>2, <2>6, Zenon
<1>7. ASSUME current' # NoEvent
      PROVE  /\ Place' >= 1
             /\ \A j \in 1..Len(todo') : todo'[j] = Handler(Event)'[Place' + j - 1]
  <2>1. Handler(Event)' = h /\ todo' = Tail(todo)
    BY <1>1, <1>2, <1>3, <1>7
  <2>2. \A j \in 1..Len(Tail(todo)) : (p + 1) + j - 1 = p + j
    BY <1>5
  <2>3. \A j \in 1..Len(todo') : todo'[j] = h[(p + 1) + j - 1]
    BY <1>5, <2>1, <2>2
  <2> QED
    BY <1>5, <1>6, <1>7, <2>1, <2>3
<1>8. PlaceIsRight'
  BY <1>7 DEF PlaceIsRight
<1> QED
  BY <1>1, <1>2, <1>4, <1>6, <1>8


\* The status an event completes its task with is in the row before the
\* last statement sets it.
LEMMA StatusIsSet ==
    ASSUME NEW e \in Events, Completes(e), NEW f \in Facts
    PROVE  /\ [Merge(Passed(e), f) EXCEPT !.status = COMPLETED] = Merge(Passed(e), f)
           /\ [Applied(e, f) EXCEPT !.status = COMPLETED] = Applied(e, f)
<1>1. /\ "status" \in Fields
      /\ e.says["status"] = COMPLETED
      /\ Carries(e, "status")
      /\ Passed(e)["status"] # 0
  <2>1. e.says["status"] = COMPLETED /\ e.kind = "status_changed" /\ COMPLETED # 0
    BY DEF Completes, COMPLETED
  <2>2. "status" \in Fields
    BY DEF Fields
  <2>3. Carries(e, "status")
    BY <2>1, <2>2, CarriedFields
  <2> QED
    BY <2>1, <2>2, <2>3 DEF Carries
<1>2. Passed(e) \in Facts /\ Passed(e)["status"] = COMPLETED
  BY <1>1, PassedFacts
<1>3. Merge(Passed(e), f) \in Facts /\ Merge(Passed(e), f)["status"] = COMPLETED
  BY <1>1, <1>2, MergeFacts
<1>4. Applied(e, f) \in Facts /\ Applied(e, f)["status"] = COMPLETED
  BY <1>1, AppliedFields
<1>5. \A g \in Facts : g["status"] = COMPLETED => [g EXCEPT !.status = COMPLETED] = g
  BY DEF Facts
<1> QED
  BY <1>3, <1>4, <1>5

\* Each statement takes the row from one place to the next.
LEMMA StatementOnRow ==
    ASSUME IInv, PlaceIsRight, current # NoEvent, RunStatement,
           NEW entry \in Entries, NEW p, p = Place,
           Matches(row[Event.task], UnderWay(p, entry))
    PROVE  Matches(row'[Event.task], UnderWay(p + 1, entry))
<1> DEFINE T == Event.task
           old == row[T]
           passed == Merge(Passed(Event), entry.facts)
           applied == Applied(Event, entry.facts)
           dated == AssignedBy(Event, current, entry)
<1>1. /\ Event \in Events /\ T \in Tasks
      /\ row \in [Tasks -> Rows] /\ old \in Rows
      /\ entry.facts \in Facts
  BY TypeFacts DEF IInv, TypeOK, Events, Entries
<1>2. /\ Len(Handler(Event)) \in 3..5
      /\ p \in 1..Len(Handler(Event))
      /\ Head(todo) = Handler(Event)[p]
  BY TailPlace
<1>3. /\ p = 1 => Head(todo) = "save"
      /\ p = 2 => Head(todo) = "task"
      /\ p = 3 => Head(todo) = "user"
      /\ p = 4 => Head(todo) = IF Labors(Event) THEN "labor" ELSE "complete"
      /\ p = 5 => Head(todo) = "complete"
      /\ p \in 1..5
  <2>1. /\ Handler(Event)[1] = "save" /\ Handler(Event)[2] = "task"
        /\ Handler(Event)[3] = "user"
        /\ \A j \in 4..Len(Handler(Event)) :
              Handler(Event)[j] = IF j = 4 /\ Labors(Event) THEN "labor"
                                                            ELSE "complete"
    BY HandlerPlaces
  <2> QED
    BY <1>2, <2>1
<1>4. Head(todo) = "complete" => Completes(Event)
  BY <1>2, HandlerFacts
<1>5. ASSUME Head(todo) = "complete"
      PROVE  /\ row'[T].facts = [old.facts EXCEPT !.status = COMPLETED]
             /\ row'[T].assigned = old.assigned
  <2> DEFINE overran == Event.says.deadline > 0 /\ current > Event.says.deadline
             new == [old EXCEPT !.facts.status = COMPLETED,
                                !.completed = current, !.overdue = overran]
  <2>1. row' = [row EXCEPT ![T] = new]
    BY <1>5 DEF RunStatement, UpdateTaskCompletion
  <2> HIDE DEF overran
  <2>2. /\ new.facts = [old.facts EXCEPT !.status = COMPLETED]
        /\ new.assigned = old.assigned
    BY <1>1 DEF Rows
  <2> HIDE DEF new
  <2>3. row'[T] = new
    BY <1>1, <2>1
  <2> QED
    BY <2>2, <2>3
<1>6. CASE p \in {1, 3}
  <2>1. row' = row
    <3>1. CASE p = 1
      BY <1>3, <3>1 DEF RunStatement, SaveRawEvent
    <3>2. CASE p = 3
      BY <1>3, <3>2 DEF RunStatement, UpsertUser
    <3> QED
      BY <1>6, <3>1, <3>2
  <2> QED
    BY <1>6, <2>1 DEF Matches, UnderWay
<1>7. CASE p = 2
  <2>1. row' = [row EXCEPT ![T] = Upserted(old)]
    BY <1>3, <1>7 DEF RunStatement, UpsertTaskAnalytics
  <2>2. row'[T] = Upserted(old)
    BY <1>1, <2>1
  <2>3. old.facts = entry.facts /\ old.assigned = entry.assigned
    BY <1>7 DEF Matches, UnderWay
  <2>4. /\ Upserted(old).facts = Merge(Passed(Event), old.facts)
        /\ Upserted(old).assigned = IF Event.says.assignee # old.facts.assignee
                                    THEN current ELSE old.assigned
    BY <1>1 DEF Upserted, Rows
  <2>5. row'[T].facts = passed /\ row'[T].assigned = dated
    BY <2>2, <2>3, <2>4 DEF AssignedBy
  <2>6. UnderWay(p + 1, entry) = [facts |-> passed, assigned |-> dated]
    BY <1>7 DEF UnderWay
  <2> QED
    BY <2>5, <2>6 DEF Matches
<1>8. CASE p = 4
  <2>1. old.facts = passed /\ old.assigned = dated
    BY <1>8 DEF Matches, UnderWay
  <2>2. UnderWay(p + 1, entry) = [facts |-> applied, assigned |-> dated]
    BY <1>8 DEF UnderWay
  <2>3. CASE Labors(Event)
    <3> DEFINE labor == Only(Event.says, {"planned", "actual"})
    <3>1. row' = [row EXCEPT ![T].facts = Merge(labor, @)]
      BY <1>3, <1>8, <2>3 DEF RunStatement, PatchTaskLabor
    <3>2. /\ row'[T].facts = Merge(labor, old.facts)
          /\ row'[T].assigned = old.assigned
      BY <1>1, <3>1 DEF Rows
    <3>3. applied = Merge(labor, passed)
      BY <2>3 DEF Applied
    <3> QED
      BY <2>1, <2>2, <3>2, <3>3 DEF Matches
  <2>4. CASE ~Labors(Event)
    <3>1. /\ row'[T].facts = [old.facts EXCEPT !.status = COMPLETED]
          /\ row'[T].assigned = old.assigned
      BY <1>3, <1>5, <1>8, <2>4
    <3>2. applied = passed
      BY <2>4 DEF Applied
    <3>3. [passed EXCEPT !.status = COMPLETED] = passed
      BY <1>1, <1>3, <1>4, <1>8, <2>4, StatusIsSet
    <3> QED
      BY <2>1, <2>2, <3>1, <3>2, <3>3 DEF Matches
  <2> QED
    BY <2>3, <2>4
<1>9. CASE p = 5
  <2>1. old.facts = applied /\ old.assigned = dated
    BY <1>9 DEF Matches, UnderWay
  <2>2. UnderWay(p + 1, entry) = [facts |-> applied, assigned |-> dated]
    BY <1>9 DEF UnderWay
  <2>3. /\ row'[T].facts = [old.facts EXCEPT !.status = COMPLETED]
        /\ row'[T].assigned = old.assigned
    BY <1>3, <1>5, <1>9
  <2>4. [applied EXCEPT !.status = COMPLETED] = applied
    BY <1>1, <1>3, <1>4, <1>9, StatusIsSet
  <2> QED
    BY <2>1, <2>2, <2>3, <2>4 DEF Matches
<1> QED
  BY <1>3, <1>6, <1>7, <1>8, <1>9

\* Behind the last place is what the story says of the event.
LEMMA AllUnderWay ==
    ASSUME NEW p, p = Len(Handler(Event)) + 1, NEW entry
    PROVE  UnderWay(p, entry) = After(Event, current, entry)
<1>1. /\ Len(Handler(Event)) \in 3..5
      /\ Labors(Event) => Len(Handler(Event)) >= 4
  BY HandlerPlaces
<1>2. CASE Labors(Event)
  BY <1>1, <1>2 DEF UnderWay, After
<1>3. CASE ~Labors(Event)
  BY <1>1, <1>3 DEF UnderWay, After, Applied
<1> QED
  BY <1>2, <1>3


\* A statement does nothing to the rows of other tasks.
LEMMA OtherRowsStay ==
    ASSUME IInv, PlaceIsRight, current # NoEvent, Effects,
           NEW rest \in {Tail(todo), <<>>}, Continue(rest),
           UNCHANGED <<log, taken>>, lost \subseteq lost',
           NEW s, RowsKeepUp(s), NEW t \in Tasks, t # Event.task, ~Harmed(t)'
    PROVE  Matches(row[t], IF InHand(t) THEN UnderWay(Place, s[current - 1][t])
                           ELSE s[taken][t])'
<1>1. ~Harmed(t) /\ ~InHand(t)
  BY DEF Harmed, EventsOf, InHand
<1>2. Matches(row[t], s[taken][t])
  BY <1>1 DEF RowsKeepUp
<1>3. row'[t] = row[t]
  BY DEF Effects
<1>4. current' # NoEvent => Event' = Event
  BY NextPlace
<1>5. ~InHand(t)'
  BY <1>4 DEF InHand
<1> QED
  BY <1>2, <1>3, <1>5 DEF Matches

LEMMA HandleEventGoesOn ==
    ASSUME IInv, PlaceIsRight, NEW s, Story(s), RowsKeepUp(s), HandleEvent
    PROVE  PlaceIsRight' /\ RowsKeepUp(s)'
<1>1. /\ current # NoEvent /\ RunStatement /\ Continue(Tail(todo))
      /\ UNCHANGED <<log, taken, lost>>
  BY DEF HandleEvent, sourceVars
<1>2. Effects
  BY <1>1, StatementEffects
<1>3. PICK rest \in {Tail(todo), <<>>} : rest = Tail(todo) /\ Continue(rest)
  BY <1>1
<1>4. /\ current \in 1..taken /\ current \in 1..Len(log)
      /\ taken \in 0..Len(log) /\ Len(log) \in Nat
      /\ current \in 0..Len(log) /\ current - 1 \in 0..Len(log)
      /\ Event = log[current]
  BY <1>1, TypeFacts DEF IInv, Event
<1>5. /\ PlaceIsRight'
      /\ current' # NoEvent => /\ current' = current /\ Event' = Event
                               /\ Place' = Place + 1
      /\ rest # <<>> => current' # NoEvent
      /\ rest = <<>> => current' = NoEvent
  BY <1>1, <1>3, NextPlace
<1>6. PICK p : p = Place
  OBVIOUS
<1>7. ASSUME NEW t \in Tasks, ~Harmed(t)'
      PROVE  Matches(row[t], IF InHand(t) THEN UnderWay(Place, s[current - 1][t])
                             ELSE s[taken][t])'
  <2>1. CASE t # Event.task
    BY <1>1, <1>2, <1>3, <1>7, <2>1, OtherRowsStay
  <2>2. CASE t = Event.task
    <3>1. ~Harmed(t) /\ InHand(t)
      BY <1>1, <1>7, <2>2 DEF Harmed, EventsOf, InHand
    <3>2. PICK entry : entry = s[current - 1][t]
      OBVIOUS
    <3>3. Matches(row[t], UnderWay(p, entry))
      BY <1>6, <3>1, <3>2 DEF RowsKeepUp
    <3>4. entry \in Entries
      BY <1>4, <3>2 DEF Story
    <3>5. Matches(row'[t], UnderWay(p + 1, entry))
      BY <1>1, <1>6, <2>2, <3>3, <3>4, StatementOnRow
    <3>6. CASE rest # <<>>
      <4>1. /\ current' = current /\ Event' = Event /\ Place' = p + 1
            /\ InHand(t)'
        BY <1>5, <1>6, <2>2, <3>6 DEF InHand
      <4>2. UnderWay(p + 1, entry)' = UnderWay(p + 1, entry)
        BY <4>1 DEF UnderWay, AssignedBy
      <4>3. Matches(row[t], UnderWay(p + 1, entry))'
        BY <3>5, <4>2 DEF Matches
      <4> QED
        BY <3>2, <4>1, <4>3
    <3>7. CASE rest = <<>>
      <4>1. ~InHand(t)'
        BY <1>5, <3>7 DEF InHand
      <4>2. p = Len(Handler(Event))
        BY <1>1, <1>3, <1>6, <3>7, TailPlace
      <4>3. UnderWay(p + 1, entry) = After(Event, current, entry)
        <5>1. p + 1 = Len(Handler(Event)) + 1
          BY <4>2
        <5> QED
          BY <5>1, AllUnderWay
      <4>4. s[current][t] = After(Event, current, entry)
        BY <1>4, <2>2, <3>2 DEF Story
      <4>5. s[current][t] = s[taken][t]
        <5>1. \A i \in EventsOf(t) : ~(current < i /\ i <= taken)
          BY <1>1, <1>4, <3>1 DEF IInv, SkippedIsLost, Harmed, EventsOf
        <5>2. current <= taken
          BY <1>4
        <5> QED
          BY <1>4, <5>1, <5>2, SameEntry
      <4>6. row'[t].facts = s[taken][t].facts /\ row'[t].assigned = s[taken][t].assigned
        BY <3>5, <4>3, <4>4, <4>5 DEF Matches
      <4> QED
        BY <1>1, <4>1, <4>6 DEF Matches
    <3> QED
      BY <3>6, <3>7
  <2> QED
    BY <2>1, <2>2
<1> QED
  BY <1>5, <1>7 DEF RowsKeepUp

\* A row that a statement failed on is not spoken of any more.
LEMMA FailStatementGoesOn ==
    ASSUME IInv, PlaceIsRight, NEW s, RowsKeepUp(s), FailStatement
    PROVE  PlaceIsRight' /\ RowsKeepUp(s)'
<1>1. /\ current # NoEvent
      /\ lost' = lost \cup {current}
      /\ UNCHANGED <<log, taken>>
  BY DEF FailStatement, sourceVars
<1>2. Effects
  BY <1>1, StatementEffects, NoStatementNoEffects DEF FailStatement
<1>3. PICK rest \in {Tail(todo), <<>>} : Continue(rest)
  BY DEF FailStatement
<1>4. PlaceIsRight'
  BY <1>1, <1>3, NextPlace
<1>5. ASSUME NEW t \in Tasks, ~Harmed(t)'
      PROVE  Matches(row[t], IF InHand(t) THEN UnderWay(Place, s[current - 1][t])
                             ELSE s[taken][t])'
  <2>1. t # Event.task
    <3>1. current \in 1..Len(log)
      BY <1>1, TypeFacts DEF IInv
    <3> QED
      BY <1>1, <1>5, <3>1 DEF Harmed, EventsOf, Event
  <2> QED
    BY <1>1, <1>2, <1>3, <1>5, <2>1, OtherRowsStay
<1> QED
  BY <1>4, <1>5 DEF RowsKeepUp


-----------------------------------------------------------------------------

LEMMA InitFollow == Init => FollowInv
<1> SUFFICES ASSUME Init PROVE FollowInv
  OBVIOUS
<1>1. /\ told = [t \in Tasks |-> Nothing] /\ late = [t \in Tasks |-> Nothing]
      /\ row = [t \in Tasks |-> NoRow]
      /\ taken = 0 /\ current = NoEvent /\ Len(log) = 0
  BY EmptySeq DEF Init
<1>2. PICK start : start = [t \in Tasks |-> NoEntry]
  OBVIOUS
<1>3. start \in [Tasks -> Entries]
  BY <1>2, NothingIsFacts DEF NoEntry, Entries
<1>4. PICK s : s = [i \in 0..0 |-> start]
  OBVIOUS
<1>5. s \in [0..0 -> [Tasks -> Entries]] /\ s[0] = start
  BY <1>3, <1>4
<1>6. PlaceIsRight
  BY <1>1 DEF PlaceIsRight
<1>7. Story(s)
  <2>1. \A i \in 1..Len(log) :
           s[i] = [s[i - 1] EXCEPT ![log[i].task] = After(log[i], i, @)]
    BY <1>1
  <2>2. \A m, n \in 0..Len(log), t \in Tasks :
           m <= n /\ (\A i \in (m + 1)..n : log[i].task # t) => s[m][t] = s[n][t]
    <3>1. \A m \in 0..0 : m = 0
      OBVIOUS
    <3> QED
      BY <1>1, <3>1
  <2> QED
    BY <1>1, <1>2, <1>5, <2>1, <2>2, Zenon DEF Story
<1>8. ASSUME NEW t \in Tasks
      PROVE  /\ s[Len(log)][t] = NoEntry
             /\ EventsOf(t) = {}
  BY <1>1, <1>2, <1>5 DEF EventsOf
<1>9. EndsAsTold(s)
  <2>1. ASSUME NEW t \in Tasks
        PROVE  /\ SaysWhatWasTold(t, s[Len(log)][t].facts)
               /\ DatesTheAssignment(t, s[Len(log)][t])
    <3>1. told[t] = Nothing /\ late[t] = Nothing /\ late[t].department = 0
      BY <1>1 DEF Nothing
    <3>2. s[Len(log)][t].facts = Nothing
      BY <1>8 DEF NoEntry
    <3> QED
      BY <1>8, <3>1, <3>2 DEF SaysWhatWasTold, DatesTheAssignment
  <2> QED
    BY <2>1 DEF EndsAsTold
<1>10. RowsKeepUp(s)
  BY <1>1, <1>2, <1>5 DEF RowsKeepUp, InHand, Matches, NoRow, NoEntry
<1> QED
  BY <1>6, <1>7, <1>9, <1>10 DEF FollowInv

\* Calls on tasks lengthen the log and leave the consumer alone.
LEMMA CallLeavesRows ==
    ASSUME IInv, NEW t \in Tasks, Call(t)
    PROVE  /\ UNCHANGED <<row, taken, current, todo, lost>>
           /\ log' = log \/ \E e \in Events : log' = Append(log, e)
<1> DEFINE rest == UNCHANGED <<row, taken, current, todo, lost>>
<1>1. /\ rest
      /\ log' = log \/ \E e : log' = Append(log, e)
  <2>1. ASSUME NEW u \in Users, NEW d \in Deadlines \cup {0},
               NEW h \in Hours \cup {0}, CreateTask(t, u, d, h)
        PROVE  rest /\ log' = log
    BY <2>1 DEF CreateTask, consumerVars, dbVars
  <2>2. ASSUME NEW kind, NEW event, Send(kind, t, event)
        PROVE  rest /\ \E e : log' = Append(log, e)
    BY <2>2 DEF Send, consumerVars, dbVars
  <2>3. ASSUME NEW kind, NEW says, Publish(kind, t, says)
        PROVE  rest /\ \E e : log' = Append(log, e)
    BY <2>2, <2>3 DEF Publish
  <2> QED
    BY <2>1, <2>2, <2>3 DEF Call, PublishCreated, AssignTask, ChangeDeadline,
                            UpdateTaskStatus, UpdateTaskLabor
<1>2. ASSUME NEW e, log' = Append(log, e)
      PROVE  e \in Events
  <2>1. log \in Seq(Events) /\ log' \in Seq(Events)
    BY CallKeepsIInv DEF IInv, TypeOK
  <2>2. PICK n : n = Len(log) + 1
    OBVIOUS
  <2>3. Len(log) \in Nat
    BY TypeFacts DEF IInv
  <2>4. n \in 1..Len(log') /\ log'[n] = e
    BY <1>2, <2>1, <2>2, <2>3
  <2> QED
    BY <2>1, <2>4, ElementOfSeq
<1> QED
  BY <1>1, <1>2


\* Every step keeps the story, or adds to it, and the rows keep up with it.
LEMMA NextFollows ==
    ASSUME IInv, FollowInv, [Next]_vars
    PROVE  FollowInv'
<1>1. PlaceIsRight
  BY DEF FollowInv
<1>2. PICK s : Story(s) /\ EndsAsTold(s) /\ RowsKeepUp(s)
  BY DEF FollowInv
<1>3. ASSUME NEW g, Story(g)', EndsAsTold(g)', PlaceIsRight', RowsKeepUp(g)'
      PROVE  FollowInv'
  BY <1>3, Zenon DEF FollowInv
<1>4. ASSUME UNCHANGED <<log, told, late>>, PlaceIsRight', RowsKeepUp(s)'
      PROVE  FollowInv'
  <2>1. Story(s)'
    BY <1>2, <1>4, StoryStays
  <2>2. EndsAsTold(s)'
    BY <1>2, <1>4, EndsStay
  <2> QED
    BY <1>3, <1>4, <2>1, <2>2
<1>5. CASE UNCHANGED vars
  <2>1. UNCHANGED <<log, told, late, row, taken, current, todo, lost>>
    BY <1>5 DEF vars, sourceVars, consumerVars, dbVars
  <2>2. PlaceIsRight' /\ RowsKeepUp(s)'
    BY <1>1, <1>2, <2>1, UnmovedRows
  <2> QED
    BY <1>4, <2>1, <2>2
<1>6. ASSUME NEW t \in Tasks, Call(t) PROVE FollowInv'
  <2>1. \E g : /\ Story(g)'
               /\ \A i \in 0..Len(log) : g[i] = s[i]
               /\ EndsAsTold(g)'
    <3>1. CASE \E u \in Users, d \in Deadlines \cup {0}, h \in Hours \cup {0} :
                  CreateTask(t, u, d, h)
      <4>1. Story(s)' /\ EndsAsTold(s)'
        BY <1>2, <3>1, CreateTaskGoesOn
      <4> QED
        BY <4>1, Zenon
    <3>2. CASE PublishCreated(t)
      BY <1>2, <3>2, PublishCreatedGoesOn
    <3>3. CASE \/ \E u \in Users : AssignTask(t, u)
               \/ \E d \in Deadlines : ChangeDeadline(t, d)
               \/ \E x \in Statuses, h \in Hours \cup {0} : UpdateTaskStatus(t, x, h)
               \/ \E p, h \in Hours \cup {0} : UpdateTaskLabor(t, p, h)
      BY <1>2, <3>3, CallGoesOn
    <3> QED
      BY <1>6, <3>1, <3>2, <3>3 DEF Call
  <2>2. PICK g : /\ Story(g)'
                 /\ \A i \in 0..Len(log) : g[i] = s[i]
                 /\ EndsAsTold(g)'
    BY <2>1
  <2>3. /\ UNCHANGED <<row, taken, current, todo, lost>>
        /\ log' = log \/ \E e \in Events : log' = Append(log, e)
    BY <1>6, CallLeavesRows
  <2>4. PlaceIsRight' /\ RowsKeepUp(g)'
    BY <1>1, <1>2, <2>2, <2>3, UnmovedRows
  <2> QED
    BY <1>3, <2>2, <2>4
<1>7. CASE Deliver \/ \E u \in Movers, d \in Departments \cup {0} :
              ChangeDepartment(u, d)
  <2>1. UNCHANGED <<log, told, late, row, taken, current, todo, lost>>
    BY <1>7 DEF Deliver, ChangeDepartment, sourceVars, consumerVars, dbVars
  <2>2. PlaceIsRight' /\ RowsKeepUp(s)'
    BY <1>1, <1>2, <2>1, UnmovedRows
  <2> QED
    BY <1>4, <2>1, <2>2
<1>8. CASE TakeEvent
  <2>1. UNCHANGED <<log, told, late>>
    BY <1>8 DEF TakeEvent, sourceVars
  <2>2. PlaceIsRight' /\ RowsKeepUp(s)'
    BY <1>2, <1>8, TakeEventGoesOn
  <2> QED
    BY <1>4, <2>1, <2>2
<1>9. CASE HandleEvent
  <2>1. UNCHANGED <<log, told, late>>
    BY <1>9 DEF HandleEvent, sourceVars
  <2>2. PlaceIsRight' /\ RowsKeepUp(s)'
    BY <1>1, <1>2, <1>9, HandleEventGoesOn
  <2> QED
    BY <1>4, <2>1, <2>2
<1>10. CASE FailStatement
  <2>1. UNCHANGED <<log, told, late>>
    BY <1>10 DEF FailStatement, sourceVars
  <2>2. PlaceIsRight' /\ RowsKeepUp(s)'
    BY <1>1, <1>2, <1>10, FailStatementGoesOn
  <2> QED
    BY <1>4, <2>1, <2>2
<1>11. CASE CutLink \/ Crash
  <2>1. UNCHANGED <<log, told, late>>
    BY <1>11 DEF CutLink, Crash, sourceVars
  <2>2. PlaceIsRight' /\ RowsKeepUp(s)'
    BY <1>1, <1>2, <1>11, BufferLostGoesOn
  <2> QED
    BY <1>4, <2>1, <2>2
<1> QED
  BY <1>5, <1>6, <1>7, <1>8, <1>9, <1>10, <1>11 DEF Next

\* There is always a story of what the events say that ends as the calls told
\* it and that the rows have come to as far as the goroutine has.
THEOREM FollowInvariant == Spec => []FollowInv
<1>1. Init => FollowInv
  BY InitFollow
<1>2. IInv /\ FollowInv /\ [Next]_vars => FollowInv'
  BY NextFollows
<1> QED
  BY <1>1, <1>2, AnalyticsInvariant, PTL DEF Spec

\* The row of a task whose events were all handled without a fault agrees with
\* the calls on it, but for what a late task.created set back.
THEOREM RowsFollow == Spec => []RowFollowsEvents
<1>1. FollowInv => RowFollowsEvents
  <2> SUFFICES ASSUME FollowInv, NEW t \in Tasks, UpToDate(t), NEW k \in DOMAIN Nothing
               PROVE  row[t].facts[k] = told[t][k] \/ SetBack(t, k)
    BY DEF RowFollowsEvents
  <2>1. PICK s : EndsAsTold(s) /\ RowsKeepUp(s)
    BY DEF FollowInv
  <2>2. row[t].facts = s[Len(log)][t].facts
    BY <2>1 DEF UpToDate, RowsKeepUp, Matches
  <2>3. \/ row[t].facts[k] = told[t][k]
        \/ SetBackTo(t, k, row[t].facts[k])
    BY <2>1, <2>2 DEF EndsAsTold, SaysWhatWasTold, UpToDate
  <2> QED
    BY <2>3 DEF SetBackTo, SetBack
<1> QED
  BY <1>1, FollowInvariant, PTL

\* assigned_at of such a task is the time of the first of the events that
\* have named its assignee without a break.
THEOREM AssignmentsAreDated == Spec => []AssignmentIsDated
<1>1. FollowInv => AssignmentIsDated
  <2> SUFFICES ASSUME FollowInv, NEW t \in Tasks, UpToDate(t), EventsOf(t) # {}
               PROVE  LET since == row[t].assigned
                          Names(i) == log[i].says.assignee = row[t].facts.assignee
                      IN  /\ since \in EventsOf(t)
                          /\ \A i \in EventsOf(t) : i >= since => Names(i)
                          /\ \A i \in EventsOf(t) : i < since =>
                                \E j \in EventsOf(t) : i <= j /\ j < since /\ ~Names(j)
    BY DEF AssignmentIsDated
  <2>1. PICK s : EndsAsTold(s) /\ RowsKeepUp(s)
    BY DEF FollowInv
  <2>2. /\ row[t].facts = s[Len(log)][t].facts
        /\ row[t].assigned = s[Len(log)][t].assigned
    BY <2>1 DEF UpToDate, RowsKeepUp, Matches
  <2>3. Begins(row[t].assigned, EventsOf(t), Naming(t, row[t].facts.assignee))
    BY <2>1, <2>2 DEF EndsAsTold, DatesTheAssignment
  <2> QED
    BY <2>3 DEF Begins, Naming
<1> QED
  BY <1>1, FollowInvariant, PTL
=============================================================================
