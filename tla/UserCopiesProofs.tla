-------------------------- MODULE UserCopiesProofs --------------------------
(***************************************************************************)
(* The copies of the users, for any number of users, roles, departments    *)
(* and calls.  The argument follows the latest event of a user on its way: *)
(* while a call has it, while it waits in a queue, and when it has reached *)
(* the copy, it says what the account says.                                *)
(***************************************************************************)
EXTENDS UserCopies, SequenceTheorems, TLAPS

HistoryInv ==
    \A u \in Users :
        Blank \in was[u] /\ account[u] \in was[u] /\ 0 \in belonged[u]

\* An event holds a row of the account.
Announced(e) == e.row \in was[e.user] /\ e.row \in AccountRows

EventInv ==
    /\ \A c \in Calls : call[c].step = "publish" => Announced(call[c].event)
    /\ \A i \in 1..Len(log) : Announced(log[i])

\* Each column is one the user had.
Vouched(u, r) ==
    /\ \A k \in Identity : \E w \in was[u] : r[k] = w[k]
    /\ r["department"] \in belonged[u]

MentionInv ==
    \A m \in mentions : Vouched(m.user, m.row) /\ m.row["role"] = 0

TrueInv ==
    /\ CopiesWereTrue
    /\ \A u \in Users : copy["project"][u]["department"] \in belonged[u]

Published(u) == \A c \in Calls : ~PublishesFor(c, u)

\* r agrees with the account, as far as that has been announced.
Current(u, r) == \A k \in Identity \ Unannounced(u) : r[k] = account[u][k]

OneCallInv ==
    \A s \in Services, c, d \in Calls, u \in Users :
        u \notin disturbed[s] /\ PublishesFor(c, u) /\ PublishesFor(d, u) => c = d

CallInv ==
    \A s \in Services, c \in Calls, u \in Users :
        u \notin disturbed[s] /\ PublishesFor(c, u) => Current(u, call[c].event.row)

\* The i-th event is the last one of u on its way to s.
Latest(s, u, i) ==
    /\ i \in Untaken(s)
    /\ log[i].user = u
    /\ \A j \in Untaken(s) : log[j].user = u => j <= i

LogInv ==
    \A s \in Services, u \in Users, i \in Nat :
        u \notin disturbed[s] /\ Published(u) /\ Latest(s, u, i) =>
            Current(u, log[i].row)

OrderInv == OneCallInv /\ CallInv /\ LogInv /\ SettledCopiesAgree

IInv ==
    /\ TypeOK
    /\ HistoryInv
    /\ EventInv
    /\ MentionInv
    /\ TrueInv
    /\ OrderInv

-----------------------------------------------------------------------------

LEMMA CallFacts ==
  ASSUME TypeOK, NEW c \in Calls
  PROVE  /\ call[c].step = "publish" => call[c].event \in Events
         /\ Unused \in CallStates /\ Unused.step = "unused"
         /\ Returned \in CallStates /\ Returned.step = "returned"
<1>1. Unused.step = "unused" /\ Returned.step = "returned"
  BY DEF Unused, Returned
<1>2. call[c] \in CallStates
  BY DEF TypeOK
<1>3. CASE call[c] \in {Unused, Returned}
  BY <1>1, <1>3 DEF CallStates
<1>4. CASE call[c] \in [step : {"publish"}, event : Events]
  BY <1>1, <1>4 DEF CallStates
<1> QED
  BY <1>2, <1>3, <1>4 DEF CallStates

LEMMA BlankRow == Blank \in Rows /\ \A k \in Columns : Blank[k] = 0
  BY DEF Blank, Rows

LEMMA AccountRowFacts ==
  ASSUME NEW n \in Names, NEW e \in Emails, NEW r \in Roles
  PROVE  /\ AccountRow(n, e, r) \in AccountRows
         /\ AccountRow(n, e, r)["name"] = n
         /\ AccountRow(n, e, r)["email"] = e
         /\ AccountRow(n, e, r)["role"] = r
         /\ AccountRow(n, e, r)["department"] = 0
  BY DEF AccountRow, AccountRows, Columns

LEMMA AccountRowsAreRows ==
  ASSUME NEW x \in AccountRows
  PROVE  /\ x \in Rows
         /\ x["name"] \in Names /\ x["email"] \in Emails /\ x["role"] \in Roles
         /\ x["role"] # 0 /\ x["department"] = 0
         /\ x # Blank
<1>1. PICK n \in Names, e \in Emails, r \in Roles : x = AccountRow(n, e, r)
  BY DEF AccountRows
<1>2. /\ x["name"] \in Names /\ x["email"] \in Emails /\ x["role"] \in Roles
      /\ x["department"] = 0
  BY <1>1, AccountRowFacts
<1>3. x \in Rows
  BY <1>1, UserCopiesAssumption DEF AccountRow, Rows, Columns
<1>4. x["role"] # 0
  BY <1>2, UserCopiesAssumption
<1> QED
  BY <1>2, <1>3, <1>4, BlankRow DEF Columns

LEMMA UpsertedIsRow ==
  ASSUME NEW s \in Services, NEW old \in Rows, NEW r \in Rows
  PROVE  /\ Upserted(s, old, r) \in Rows
         /\ \A k \in Columns : Upserted(s, old, r)[k] =
               IF s = "project" /\ k \in Identity THEN r[k]
               ELSE Given(r[k], old[k])
  BY DEF Upserted, Given, Rows

LEMMA InitIInv == Init => IInv
<1> SUFFICES ASSUME Init PROVE IInv
  OBVIOUS
<1>0. PICK demo \in [Users -> Departments \cup {0}] :
          /\ copy = [project |-> [u \in Users |-> Blank],
                     analytics |-> [u \in Users |->
                         [account[u] EXCEPT !["department"] = demo[u]]]]
          /\ belonged = [u \in Users |-> {0, demo[u]}]
  BY DEF Init
<1>1. ASSUME NEW u \in Users
      PROVE  /\ account[u] \in Rows
             /\ copy["project"][u] = Blank
             /\ copy["analytics"][u] \in Rows
             /\ copy["analytics"][u]["department"] = demo[u]
             /\ \A k \in Identity : copy["analytics"][u][k] = account[u][k]
             /\ demo[u] \in Nat
  <2>1. account[u] \in AccountRows \cup {Blank}
    BY DEF Init
  <2>2. account[u] \in Rows
    BY <2>1, BlankRow, AccountRowsAreRows
  <2>3. demo[u] \in Nat
    BY <1>0, UserCopiesAssumption
  <2>4. /\ copy["project"][u] = Blank
        /\ copy["analytics"][u] = [account[u] EXCEPT !["department"] = demo[u]]
    BY <1>0
  <2>5. /\ [account[u] EXCEPT !["department"] = demo[u]] \in Rows
        /\ [account[u] EXCEPT !["department"] = demo[u]]["department"] = demo[u]
        /\ \A k \in Identity :
              [account[u] EXCEPT !["department"] = demo[u]][k] = account[u][k]
    BY <2>2, <2>3 DEF Rows, Columns, Identity
  <2> QED
    BY <2>2, <2>3, <2>4, <2>5
<1>2. TypeOK
  <2>1. was \in [Users -> SUBSET Rows]
    BY <1>1, BlankRow DEF Init
  <2>2. copy \in [Services -> [Users -> Rows]]
    <3>1. /\ [u \in Users |-> Blank] \in [Users -> Rows]
          /\ [u \in Users |-> [account[u] EXCEPT !["department"] = demo[u]]]
                \in [Users -> Rows]
      BY <1>0, <1>1, BlankRow
    <3> QED
      BY <1>0, <3>1 DEF Services
  <2>3. log \in Seq(Events) /\ Len(log) = 0
    BY EmptySeq DEF Init
  <2>4. call \in [Calls -> CallStates]
    BY DEF Init, CallStates
  <2>5. belonged \in [Users -> SUBSET Nat]
    BY <1>0, <1>1
  <2>6. disturbed \in [Services -> SUBSET Users]
    BY DEF Init, Services
  <2>7. /\ taken \in [Services -> Nat]
        /\ \A s \in Services : taken[s] <= Len(log)
    BY <2>3 DEF Init
  <2> QED
    BY <2>1, <2>2, <2>3, <2>4, <2>5, <2>6, <2>7 DEF Init, TypeOK
<1>3. HistoryInv
  BY <1>0 DEF Init, HistoryInv
<1>4. EventInv
  <2>1. Len(log) = 0 /\ 1..0 = {}
    BY EmptySeq DEF Init
  <2> QED
    BY <2>1 DEF Init, EventInv, Unused
<1>5. MentionInv
  BY DEF Init, MentionInv
<1>6. TrueInv
  <2>1. \A u \in Users : belonged[u] = {0, demo[u]} /\ was[u] = {Blank, account[u]}
    BY <1>0 DEF Init
  <2> QED
    BY <1>1, <2>1, BlankRow DEF TrueInv, CopiesWereTrue, Columns, Identity
<1>7. OrderInv
  <2>1. \A s \in Services : Untaken(s) = {}
    BY EmptySeq DEF Init, Untaken
  <2>2. \A c \in Calls, u \in Users : ~PublishesFor(c, u)
    BY DEF Init, PublishesFor, Unused
  <2>3. SettledCopiesAgree
    <3>1. \A u \in Users : u \notin disturbed["project"] => account[u] = Blank
      BY DEF Init
    <3>2. "role" \in Identity
      BY DEF Identity
    <3> QED
      BY <1>1, <3>1, <3>2 DEF SettledCopiesAgree, Settled, Services, Owed
  <2> QED
    BY <2>1, <2>2, <2>3 DEF OrderInv, OneCallInv, CallInv, LogInv, Latest
<1> QED
  BY <1>2, <1>3, <1>4, <1>5, <1>6, <1>7 DEF IInv

-----------------------------------------------------------------------------
(* auth-service. *)

LEMMA ChangeKeepsIInv ==
  ASSUME IInv, NEW c \in Calls, NEW u \in Users, NEW r \in AccountRows,
         Change(c, u, r)
  PROVE  IInv'
<1> USE DEF IInv
<1>1. /\ r \in Rows /\ r["department"] = 0
      /\ Publishing(u, r).step = "publish"
      /\ Publishing(u, r).event = [user |-> u, row |-> r]
      /\ Publishing(u, r).event \in Events
  BY AccountRowsAreRows DEF Publishing, Events
<1>2. /\ \A v \in Users : account'[v] = IF v = u THEN r ELSE account[v]
      /\ \A v \in Users : was'[v] = IF v = u THEN was[u] \cup {r} ELSE was[v]
      /\ UNCHANGED <<log, taken, copy, mentions, belonged>>
  BY DEF Change, TypeOK, queueVars
<1>21. \A d \in Calls : call'[d] = IF d = c THEN Publishing(u, r) ELSE call[d]
  BY DEF Change, TypeOK
<1>3. TypeOK'
  <2>1. account' \in [Users -> AccountRows \cup {Blank}]
    BY DEF Change, TypeOK
  <2>2. was' \in [Users -> SUBSET Rows]
    BY <1>1 DEF Change, TypeOK
  <2>3. disturbed' \in [Services -> SUBSET Users]
    BY DEF Change, TypeOK
  <2>4. unannounced' \subseteq Users
    BY DEF Change, TypeOK
  <2>5. call' \in [Calls -> CallStates]
    <3>1. Publishing(u, r) \in CallStates
      BY <1>1 DEF CallStates, Publishing
    <3> QED
      BY <3>1 DEF Change, TypeOK
  <2> QED
    BY <1>2, <2>1, <2>2, <2>3, <2>4, <2>5 DEF TypeOK
<1>4. HistoryInv'
  BY <1>2 DEF HistoryInv
<1>5. EventInv'
  <2>2. ASSUME NEW d \in Calls, call'[d].step = "publish"
        PROVE  Announced(call[d].event)'
    <3>1. CASE d = c
      <4>1. call'[d].event.row = r /\ call'[d].event.user = u
        BY <1>1, <1>21, <3>1
      <4> QED
        BY <1>2, <4>1 DEF Announced
    <3>2. CASE d # c
      <4>1. call'[d] = call[d]
        BY <1>21, <3>2
      <4>2. call[d].event \in Events
        BY <2>2, <4>1, CallFacts
      <4> QED
        BY <2>2, <4>1, <4>2, <1>2 DEF EventInv, Announced, Events
    <3> QED
      BY <3>1, <3>2
  <2>3. ASSUME NEW i \in 1..Len(log)
        PROVE  Announced(log[i])'
    <3>1. log[i] \in Events
      BY ElementOfSeq DEF TypeOK
    <3> QED
      BY <1>2, <3>1 DEF EventInv, Announced, Events
  <2> QED
    BY <1>2, <2>2, <2>3 DEF EventInv
<1>6. MentionInv'
  BY <1>2 DEF MentionInv, Vouched, TypeOK, Events
<1>7. TrueInv'
  BY <1>2 DEF TrueInv, CopiesWereTrue
<1>8. OrderInv'
  <2>1. \A s \in Services, v \in Users :
           v \notin disturbed'[s] <=>
               IF v = u THEN Published(u) ELSE v \notin disturbed[s]
    BY DEF Change, TypeOK, Published
  <2>2. \A d \in Calls, v \in Users :
           PublishesFor(d, v)' <=> IF d = c THEN v = u ELSE PublishesFor(d, v)
    BY <1>1, <1>21 DEF PublishesFor
  <2>3. ~\E v \in Users : PublishesFor(c, v)
    BY DEF Change, PublishesFor, Unused
  <2>4. ASSUME NEW v \in Users, v # u
        PROVE  /\ Unannounced(v)' = Unannounced(v)
               /\ account'[v] = account[v]
               /\ Published(v)' <=> Published(v)
    BY <1>2, <2>2, <2>3, <2>4 DEF Unannounced, Change, Published
  <2>5. OneCallInv'
    BY <2>1, <2>2, <2>3 DEF OrderInv, OneCallInv, Published
  <2>6. CallInv'
    <3> SUFFICES ASSUME NEW s \in Services, NEW d \in Calls, NEW v \in Users,
                        v \notin disturbed'[s], PublishesFor(d, v)'
                 PROVE  Current(v, call[d].event.row)'
      BY DEF CallInv
    <3>1. CASE d = c
      <4>1. v = u /\ call'[d].event.row = r /\ account'[v] = r
        BY <1>1, <1>2, <1>21, <2>2, <3>1
      <4> QED
        BY <4>1 DEF Current
    <3>2. CASE d # c
      <4>1. v # u /\ PublishesFor(d, v) /\ v \notin disturbed[s]
        BY <2>1, <2>2, <3>2 DEF Published
      <4>2. Current(v, call[d].event.row)
        BY <4>1 DEF OrderInv, CallInv
      <4>3. call'[d] = call[d]
        BY <1>21, <3>2
      <4> QED
        BY <2>4, <4>1, <4>2, <4>3 DEF Current
    <3> QED
      BY <3>1, <3>2
  <2>7. ~Published(u)'
    BY <2>2 DEF Published
  <2>8. LogInv'
    BY <1>2, <2>1, <2>4, <2>7
    DEF OrderInv, LogInv, Latest, Untaken, Current
  <2>9. SettledCopiesAgree'
    <3> SUFFICES ASSUME NEW s \in Services, NEW v \in Users, Settled(s, v)'
                 PROVE  \A k \in Owed(s) \ Unannounced(v)' :
                            copy'[s][v][k] = account'[v][k]
      BY DEF SettledCopiesAgree, Owed
    <3>1. v # u /\ Settled(s, v)
      BY <1>2, <2>1, <2>4, <2>7 DEF Settled, Published, Untaken
    <3> QED
      BY <1>2, <2>4, <3>1 DEF OrderInv, SettledCopiesAgree
  <2> QED
    BY <2>5, <2>6, <2>8, <2>9 DEF OrderInv
<1> QED
  BY <1>3, <1>4, <1>5, <1>6, <1>7, <1>8

LEMMA SetRoleKeepsIInv ==
  ASSUME IInv, NEW u \in Users, NEW r \in Roles, SetRole(u, r)
  PROVE  IInv'
<1> USE DEF IInv
<1> DEFINE new == [account[u] EXCEPT !["role"] = r]
<1>1. new \in AccountRows
  <2>1. account[u] \in AccountRows
    BY DEF SetRole, TypeOK
  <2>2. PICK n \in Names, e \in Emails, old \in Roles :
            account[u] = AccountRow(n, e, old)
    BY <2>1 DEF AccountRows
  <2>3. new = AccountRow(n, e, r)
    BY <2>2 DEF AccountRow, Columns
  <2> QED
    BY <2>3, AccountRowFacts
<1>2. /\ account' = [account EXCEPT ![u] = new]
      /\ was' = [was EXCEPT ![u] = was[u] \cup {new}]
      /\ unannounced' = unannounced \cup {u}
      /\ UNCHANGED <<call, log, taken, copy, mentions, belonged, disturbed>>
  BY DEF SetRole, TypeOK, queueVars
<1>3. new \in Rows /\ \A k \in Columns : k # "role" => new[k] = account[u][k]
  BY <1>1, AccountRowsAreRows, BlankRow DEF TypeOK, Rows
<1> HIDE DEF new
<1>4. TypeOK'
  <2>1. account' \in [Users -> AccountRows \cup {Blank}]
    BY <1>1, <1>2 DEF TypeOK
  <2>2. was' \in [Users -> SUBSET Rows]
    BY <1>2, <1>3 DEF TypeOK
  <2> QED
    BY <1>2, <2>1, <2>2 DEF TypeOK
<1>5. /\ \A v \in Users : was[v] \subseteq was'[v] /\ account'[v] \in was'[v] \cup was[v]
      /\ account'[u] \in was'[u]
  BY <1>2 DEF TypeOK, HistoryInv
<1>6. HistoryInv'
  BY <1>2, <1>5 DEF HistoryInv
<1>7. EventInv'
  <2>1. ASSUME NEW e \in Events, Announced(e)
        PROVE  e.row \in was'[e.user] /\ e.row \in AccountRows
    BY <1>5, <2>1 DEF Announced, Events
  <2>2. \A c \in Calls : call[c].step = "publish" => call[c].event \in Events
    BY CallFacts
  <2>3. \A i \in 1..Len(log) : log[i] \in Events
    BY ElementOfSeq DEF TypeOK
  <2> QED
    BY <1>2, <2>1, <2>2, <2>3 DEF EventInv, Announced
<1>8. MentionInv'
  BY <1>2, <1>5 DEF MentionInv, Vouched, TypeOK, Events
<1>9. TrueInv'
  BY <1>2, <1>5 DEF TrueInv, CopiesWereTrue
<1>10. OrderInv'
  <2>1. ASSUME NEW v \in Users, NEW k \in Identity \ Unannounced(v)'
        PROVE  k \notin Unannounced(v) /\ account'[v][k] = account[v][k]
    BY <1>2, <1>3 DEF Unannounced, TypeOK, Identity, Columns
  <2>2. \A v \in Users : \A x : Current(v, x) => Current(v, x)'
    BY <2>1 DEF Current
  <2>3. /\ \A c \in Calls, v \in Users : PublishesFor(c, v)' <=> PublishesFor(c, v)
        /\ \A v \in Users : Published(v)' <=> Published(v)
        /\ \A s \in Services, v \in Users, i \in Nat :
              Latest(s, v, i)' <=> Latest(s, v, i)
        /\ \A s \in Services, v \in Users : Settled(s, v)' <=> Settled(s, v)
    BY <1>2 DEF PublishesFor, Published, Latest, Untaken, Settled
  <2>4. OneCallInv'
    BY <1>2, <2>3 DEF OrderInv, OneCallInv
  <2>5. CallInv'
    BY <1>2, <2>2, <2>3 DEF OrderInv, CallInv
  <2>6. LogInv'
    BY <1>2, <2>2, <2>3 DEF OrderInv, LogInv
  <2>7. SettledCopiesAgree'
    BY <1>2, <2>1, <2>3 DEF OrderInv, SettledCopiesAgree, Owed, Identity
  <2> QED
    BY <2>4, <2>5, <2>6, <2>7 DEF OrderInv
<1> QED
  BY <1>4, <1>6, <1>7, <1>8, <1>9, <1>10

LEMMA PublishEventKeepsIInv ==
  ASSUME IInv, NEW c \in Calls, PublishEvent(c)
  PROVE  IInv'
<1> USE DEF IInv
<1> DEFINE e == call[c].event
           L == Len(log)
<1>1. e \in Events /\ e.user \in Users /\ Announced(e)
  BY CallFacts DEF PublishEvent, Events, EventInv
<1>2. /\ log \in Seq(Events) /\ L \in Nat
      /\ log' = Append(log, e) /\ log' \in Seq(Events) /\ Len(log') = L + 1
      /\ log'[L + 1] = e
      /\ \A i \in 1..L : log'[i] = log[i]
  BY <1>1, AppendProperties, LenProperties DEF PublishEvent, TypeOK
<1>3. UNCHANGED <<account, taken, copy, mentions, was, belonged, unannounced,
                  disturbed>>
  BY DEF PublishEvent, historyVars
<1>4. \A d \in Calls : call'[d] = IF d = c THEN Returned ELSE call[d]
  BY DEF PublishEvent, TypeOK
<1> HIDE DEF e, L
<1>5. TypeOK'
  <2>1. call' \in [Calls -> CallStates]
    BY CallFacts DEF PublishEvent, TypeOK
  <2> QED
    BY <1>2, <1>3, <2>1 DEF TypeOK, L
<1>6. HistoryInv' /\ MentionInv' /\ TrueInv'
  BY <1>3 DEF HistoryInv, MentionInv, TrueInv, CopiesWereTrue, Vouched
<1>7. EventInv'
  <2>1. \A d \in Calls : call'[d].step = "publish" => Announced(call'[d].event)
    BY <1>4, CallFacts DEF EventInv
  <2>2. \A i \in 1..Len(log') : Announced(log'[i])
    BY <1>1, <1>2 DEF EventInv, L
  <2> QED
    BY <1>3, <2>1, <2>2 DEF EventInv, Announced
<1>8. OrderInv'
  <2>1. \A d \in Calls, v \in Users :
           PublishesFor(d, v)' <=> d # c /\ PublishesFor(d, v)
    BY <1>4, CallFacts DEF PublishesFor
  <2>2. \A v \in Users : PublishesFor(c, v) <=> v = e.user
    BY DEF PublishEvent, PublishesFor, e
  <2>3. \A v \in Users : v # e.user => (Published(v)' <=> Published(v))
    BY <2>1, <2>2 DEF Published
  <2>4. \A v \in Users : \A x : Current(v, x)' <=> Current(v, x)
    BY <1>3 DEF Current, Unannounced
  <2>5. \A s \in Services : /\ taken[s] \in Nat /\ taken[s] <= L
                            /\ Untaken(s)' = taken[s]+1..L+1
                            /\ Untaken(s) = taken[s]+1..L
    BY <1>2, <1>3 DEF TypeOK, Untaken, L
  <2>6. OneCallInv'
    BY <1>3, <2>1 DEF OrderInv, OneCallInv
  <2>7. CallInv'
    BY <1>3, <1>4, <2>1, <2>4 DEF OrderInv, CallInv
  <2>8. LogInv'
    <3> SUFFICES ASSUME NEW s \in Services, NEW v \in Users, NEW i \in Nat,
                        v \notin disturbed[s], Published(v)', Latest(s, v, i)'
                 PROVE  Current(v, log'[i].row)
      BY <1>3, <2>4 DEF LogInv
    <3>1. CASE v = e.user
      <4>1. i = L + 1
        BY <1>2, <2>5, <3>1 DEF Latest
      <4>2. Current(v, e.row)
        BY <2>2, <3>1 DEF OrderInv, CallInv, e
      <4> QED
        BY <1>2, <4>1, <4>2
    <3>2. CASE v # e.user
      <4>1. i # L + 1 /\ i \in Untaken(s) /\ log'[i] = log[i]
        BY <1>2, <2>5, <3>2 DEF Latest
      <4>2. Latest(s, v, i)
        BY <1>2, <2>5, <4>1 DEF Latest
      <4>3. Current(v, log[i].row)
        BY <2>3, <3>2, <4>2 DEF OrderInv, LogInv
      <4> QED
        BY <4>1, <4>3
    <3> QED
      BY <3>1, <3>2
  <2>9. SettledCopiesAgree'
    <3> SUFFICES ASSUME NEW s \in Services, NEW v \in Users, Settled(s, v)'
                 PROVE  Settled(s, v)
      BY <1>3 DEF OrderInv, SettledCopiesAgree, Unannounced, Owed
    <3>1. v # e.user
      BY <1>2, <2>5 DEF Settled
    <3>2. \A i \in Untaken(s) : log'[i] = log[i] /\ i \in Untaken(s)'
      BY <1>2, <2>5
    <3> QED
      BY <1>3, <2>3, <3>1, <3>2 DEF Settled, Published
  <2> QED
    BY <2>6, <2>7, <2>8, <2>9 DEF OrderInv
<1> QED
  BY <1>5, <1>6, <1>7, <1>8

LEMMA LoseEventKeepsIInv ==
  ASSUME IInv, NEW c \in Calls, LoseEvent(c)
  PROVE  IInv'
<1> USE DEF IInv
<1> DEFINE u == call[c].event.user
<1>1. u \in Users
  BY CallFacts DEF LoseEvent, Events
<1>2. UNCHANGED <<account, log, taken, copy, mentions, was, belonged,
                  unannounced>>
  BY DEF LoseEvent, queueVars
<1>3. \A s \in Services : disturbed'[s] = disturbed[s] \cup {u}
  BY DEF LoseEvent
<1>4. \A d \in Calls : call'[d] = IF d = c THEN Returned ELSE call[d]
  BY DEF LoseEvent, TypeOK
<1>5. TypeOK'
  <2>1. call' \in [Calls -> CallStates]
    BY CallFacts DEF LoseEvent, TypeOK
  <2>2. disturbed' \in [Services -> SUBSET Users]
    BY <1>1 DEF LoseEvent, TypeOK
  <2> QED
    BY <1>2, <2>1, <2>2 DEF TypeOK
<1>6. HistoryInv' /\ MentionInv' /\ TrueInv'
  BY <1>2 DEF HistoryInv, MentionInv, TrueInv, CopiesWereTrue, Vouched
<1>7. EventInv'
  <2>1. \A d \in Calls : call'[d].step = "publish" => Announced(call'[d].event)
    BY <1>4, CallFacts DEF EventInv
  <2> QED
    BY <1>2, <2>1 DEF EventInv, Announced
<1>8. OrderInv'
  <2>1. \A d \in Calls, v \in Users :
           PublishesFor(d, v)' <=> d # c /\ PublishesFor(d, v)
    BY <1>4, CallFacts DEF PublishesFor
  <2>2. \A v \in Users : v # u => (Published(v)' <=> Published(v))
    BY <2>1 DEF Published, PublishesFor
  <2>3. \A v \in Users : \A x : Current(v, x)' <=> Current(v, x)
    BY <1>2 DEF Current, Unannounced
  <2>4. \A s \in Services, v \in Users :
           v \notin disturbed'[s] => v \notin disturbed[s] /\ v # u
    BY <1>3
  <2> HIDE DEF u
  <2>5. OneCallInv'
    BY <2>1, <2>4 DEF OrderInv, OneCallInv
  <2>6. CallInv'
    BY <1>4, <2>1, <2>3, <2>4 DEF OrderInv, CallInv
  <2>7. LogInv'
    BY <1>2, <2>2, <2>3, <2>4 DEF OrderInv, LogInv, Latest, Untaken
  <2>8. SettledCopiesAgree'
    <3>1. \A s \in Services, v \in Users : Settled(s, v)' => Settled(s, v)
      BY <1>2, <2>2, <2>4 DEF Settled, Published, Untaken
    <3> QED
      BY <1>2, <3>1 DEF OrderInv, SettledCopiesAgree, Unannounced
  <2> QED
    BY <2>5, <2>6, <2>7, <2>8 DEF OrderInv
<1> QED
  BY <1>5, <1>6, <1>7, <1>8

-----------------------------------------------------------------------------
(* The consumers. *)

LEMMA DisconnectKeepsIInv ==
  ASSUME IInv, NEW s \in Services, NEW n, Disconnect(s, n)
  PROVE  IInv'
<1> USE DEF IInv
<1>1. /\ taken[s] \in Nat /\ n \in Nat /\ taken[s] < n /\ n <= Len(log)
      /\ Len(log) \in Nat
  BY LenProperties DEF Disconnect, Untaken, TypeOK
<1>2. UNCHANGED <<account, call, log, copy, mentions, was, belonged,
                  unannounced>>
  BY DEF Disconnect, authVars
<1>3. /\ taken' = [taken EXCEPT ![s] = n]
      /\ disturbed' = [disturbed EXCEPT ![s] = disturbed[s] \cup
                           {log[i].user : i \in taken[s]+1..n}]
  BY DEF Disconnect, TypeOK
<1>4. TypeOK'
  <2>1. \A i \in 1..Len(log) : log[i].user \in Users
    BY ElementOfSeq DEF TypeOK, Events
  <2>2. disturbed' \in [Services -> SUBSET Users]
    BY <1>1, <1>3, <2>1 DEF TypeOK
  <2> QED
    BY <1>1, <1>2, <1>3, <2>2 DEF TypeOK
<1>5. HistoryInv' /\ EventInv' /\ MentionInv' /\ TrueInv'
  BY <1>2
  DEF HistoryInv, EventInv, Announced, MentionInv, TrueInv, CopiesWereTrue,
      Vouched
<1>6. OrderInv'
  <2>1. ASSUME NEW t \in Services, NEW v \in Users, v \notin disturbed'[t]
        PROVE  /\ v \notin disturbed[t]
               /\ \A i \in Untaken(t)' : i \in Untaken(t)
               /\ \A i \in Untaken(t) : log[i].user = v => i \in Untaken(t)'
    <3>1. CASE t = s
      <4>1. /\ Untaken(s) = taken[s]+1..Len(log)
            /\ Untaken(s)' = n+1..Len(log)
            /\ disturbed'[s] = disturbed[s] \cup
                   {log[i].user : i \in taken[s]+1..n}
        BY <1>2, <1>3 DEF Untaken, TypeOK
      <4> QED
        BY <1>1, <2>1, <3>1, <4>1
    <3>2. CASE t # s
      BY <1>2, <1>3, <2>1, <3>2 DEF Untaken, TypeOK
    <3> QED
      BY <3>1, <3>2
  <2>2. /\ \A c \in Calls, v \in Users : PublishesFor(c, v)' <=> PublishesFor(c, v)
        /\ \A v \in Users : Published(v)' <=> Published(v)
        /\ \A v \in Users : \A x : Current(v, x)' <=> Current(v, x)
    BY <1>2 DEF PublishesFor, Published, Current, Unannounced
  <2>3. OneCallInv'
    BY <2>1, <2>2 DEF OrderInv, OneCallInv
  <2>4. CallInv'
    BY <1>2, <2>1, <2>2 DEF OrderInv, CallInv
  <2>5. LogInv'
    BY <1>2, <2>1, <2>2 DEF OrderInv, LogInv, Latest
  <2>6. SettledCopiesAgree'
    BY <1>2, <2>1, <2>2
    DEF OrderInv, SettledCopiesAgree, Settled, Published, Unannounced
  <2> QED
    BY <2>3, <2>4, <2>5, <2>6 DEF OrderInv
<1> QED
  BY <1>4, <1>5, <1>6

LEMMA UpsertFailsDisconnects ==
  ASSUME TypeOK, NEW s \in Services, UpsertFails(s)
  PROVE  Disconnect(s, taken[s] + 1)
<1>1. taken[s] \in Nat /\ Len(log) \in Nat
  BY LenProperties DEF TypeOK
<1>2. taken[s] + 1 \in Untaken(s)
  BY <1>1 DEF UpsertFails, Untaken
<1>3. {log[i].user : i \in taken[s]+1..taken[s]+1} = {log[taken[s] + 1].user}
  BY <1>1
<1> QED
  BY <1>1, <1>2, <1>3 DEF UpsertFails, Disconnect, TypeOK

LEMMA ConsumeKeepsIInv ==
  ASSUME IInv, NEW s \in Services, ConsumeUserEvent(s)
  PROVE  IInv'
<1> USE DEF IInv
<1> DEFINE t == taken[s] + 1
           e == log[t]
           new == Upserted(s, copy[s][e.user], e.row)
<1>1. taken[s] \in Nat /\ Len(log) \in Nat /\ t <= Len(log) /\ t \in 1..Len(log)
  BY LenProperties DEF ConsumeUserEvent, Untaken, TypeOK
<1>2. e \in Events /\ e.user \in Users /\ e.row \in Rows
  <2>1. e \in Events
    BY <1>1, ElementOfSeq DEF TypeOK
  <2> QED
    BY <2>1 DEF Events
<1>3. Announced(e)
  BY <1>1 DEF EventInv
<1>4. UNCHANGED <<account, call, log, mentions, was, belonged, unannounced,
                  disturbed>>
  BY DEF ConsumeUserEvent, authVars, historyVars
<1>5. /\ taken' = [taken EXCEPT ![s] = t]
      /\ copy' = [copy EXCEPT ![s] = [copy[s] EXCEPT ![e.user] = new]]
  BY DEF ConsumeUserEvent, TypeOK
<1>6. /\ new \in Rows
      /\ \A k \in Columns : new[k] =
            IF s = "project" /\ k \in Identity THEN e.row[k]
            ELSE Given(e.row[k], copy[s][e.user][k])
  BY <1>2, UpsertedIsRow DEF TypeOK
<1>7. e.row["department"] = 0 /\ e.row["role"] # 0
  BY <1>3, AccountRowsAreRows DEF Announced
<1> HIDE DEF e, t, new
<1>8. TypeOK'
  <2>1. copy' \in [Services -> [Users -> Rows]]
    BY <1>2, <1>5, <1>6 DEF TypeOK
  <2> QED
    BY <1>1, <1>4, <1>5, <2>1 DEF TypeOK, t
<1>9. HistoryInv' /\ EventInv' /\ MentionInv'
  BY <1>4 DEF HistoryInv, EventInv, Announced, MentionInv, Vouched
<1>10. \A q \in Services, v \in Users :
          copy'[q][v] = IF q = s /\ v = e.user THEN new ELSE copy[q][v]
  BY <1>2, <1>5 DEF TypeOK
<1>11. TrueInv'
  <2>1. ASSUME s = "project"
        PROVE  /\ \A k \in Identity : new[k] = e.row[k]
               /\ new["department"] = copy["project"][e.user]["department"]
    BY <1>6, <1>7, <2>1 DEF Columns, Identity, Given
  <2>2. ASSUME s = "analytics"
        PROVE  /\ \A k \in Identity : new[k] \in {e.row[k], copy[s][e.user][k]}
               /\ new["department"] = copy[s][e.user]["department"]
    BY <1>6, <1>7, <2>2 DEF Columns, Identity, Given
  <2>3. e.row \in was[e.user]
    BY <1>3 DEF Announced
  <2>4. ASSUME NEW v \in Users
        PROVE  \E r \in was[v] : \A k \in Identity : copy'["project"][v][k] = r[k]
    BY <1>10, <2>1, <2>3 DEF TrueInv, CopiesWereTrue, Services
  <2>5. ASSUME NEW v \in Users, NEW k \in Identity
        PROVE  \E r \in was[v] : copy'["analytics"][v][k] = r[k]
    <3>1. CASE v = e.user /\ s = "analytics"
      <4>1. copy'["analytics"][v][k] = new[k]
        BY <1>10, <3>1
      <4>2. CASE new[k] = e.row[k]
        BY <2>3, <3>1, <4>1, <4>2
      <4>3. CASE new[k] = copy["analytics"][v][k]
        BY <4>1, <4>3 DEF TrueInv, CopiesWereTrue
      <4> QED
        BY <2>2, <3>1, <4>2, <4>3
    <3>2. CASE ~(v = e.user /\ s = "analytics")
      BY <1>10, <3>2 DEF TrueInv, CopiesWereTrue, Services
    <3> QED
      BY <3>1, <3>2
  <2>6. ASSUME NEW q \in Services, NEW v \in Users
        PROVE  copy'[q][v]["department"] = copy[q][v]["department"]
    BY <1>10, <2>1, <2>2 DEF Services
  <2> QED
    BY <1>4, <2>4, <2>5, <2>6 DEF TrueInv, CopiesWereTrue, Services
<1>12. OrderInv'
  <2>1. /\ Untaken(s) = taken[s]+1..Len(log)
        /\ Untaken(s)' = t+1..Len(log)
        /\ \A q \in Services \ {s} : Untaken(q)' = Untaken(q)
    BY <1>4, <1>5 DEF Untaken, TypeOK
  <2>2. /\ \A c \in Calls, v \in Users : PublishesFor(c, v)' <=> PublishesFor(c, v)
        /\ \A v \in Users : Published(v)' <=> Published(v)
        /\ \A v \in Users : \A x : Current(v, x)' <=> Current(v, x)
    BY <1>4 DEF PublishesFor, Published, Current, Unannounced
  <2>3. OneCallInv'
    BY <1>4, <2>2 DEF OrderInv, OneCallInv
  <2>4. CallInv'
    BY <1>4, <2>2 DEF OrderInv, CallInv
  <2>5. LogInv'
    <3> SUFFICES ASSUME NEW q \in Services, NEW v \in Users, NEW i \in Nat,
                        v \notin disturbed[q], Published(v), Latest(q, v, i)'
                 PROVE  Latest(q, v, i)
      BY <1>4, <2>2 DEF OrderInv, LogInv
    <3>1. CASE q = s
      <4>1. i \in t+1..Len(log) /\ log[i].user = v
        BY <1>4, <2>1, <3>1 DEF Latest
      <4>2. i \in Untaken(s)
        BY <1>1, <2>1, <4>1 DEF t
      <4>3. ASSUME NEW j \in Untaken(s), log[j].user = v
            PROVE  j <= i
        BY <1>1, <1>4, <2>1, <3>1, <4>1, <4>3 DEF Latest, t
      <4> QED
        BY <3>1, <4>1, <4>2, <4>3 DEF Latest
    <3>2. CASE q # s
      BY <1>4, <2>1, <3>2 DEF Latest
    <3> QED
      BY <3>1, <3>2
  <2>6. SettledCopiesAgree'
    <3> SUFFICES ASSUME NEW q \in Services, NEW v \in Users, Settled(q, v)',
                        NEW k \in Owed(q) \ Unannounced(v)
                 PROVE  copy'[q][v][k] = account[v][k]
      BY <1>4 DEF SettledCopiesAgree, Unannounced, Owed
    <3>1. k \in Identity
      BY DEF Owed, Identity
    <3>2. Published(v) /\ v \notin disturbed[q]
      BY <1>4, <2>2 DEF Settled, Published
    <3>3. CASE q = s /\ v = e.user
      <4>1. Latest(s, v, t)
        <5>1. t \in Untaken(s) /\ log[t].user = v
          BY <1>1, <2>1, <3>3 DEF t, e
        <5>2. \A j \in Untaken(s) : j # t => j \in Untaken(s)'
          BY <1>1, <2>1 DEF t
        <5>3. \A j \in Untaken(s)' : log[j].user # v
          BY <1>4, <3>3 DEF Settled
        <5>4. \A j \in Untaken(s) : log[j].user = v => j = t
          BY <5>2, <5>3
        <5> QED
          BY <1>1, <5>1, <5>4 DEF Latest
      <4>2. e.row[k] = account[v][k]
        BY <1>1, <3>1, <3>2, <3>3, <4>1 DEF OrderInv, LogInv, Current, e
      <4>3. new[k] = e.row[k]
        BY <1>6, <1>7, <3>1, <3>3 DEF Owed, Columns, Given, Identity, Services
      <4> QED
        BY <1>10, <3>3, <4>2, <4>3
    <3>4. CASE ~(q = s /\ v = e.user)
      <4>1. Settled(q, v)
        <5>1. CASE q = s
          <6>1. \A j \in Untaken(s) : j # t => j \in Untaken(s)'
            BY <1>1, <2>1 DEF t
          <6>2. log[t].user # v
            BY <3>4, <5>1 DEF e
          <6> QED
            BY <1>4, <2>2, <5>1, <6>1, <6>2 DEF Settled
        <5>2. CASE q # s
          BY <1>4, <2>1, <2>2, <5>2 DEF Settled
        <5> QED
          BY <5>1, <5>2
      <4> QED
        BY <1>10, <3>4, <4>1 DEF OrderInv, SettledCopiesAgree
    <3> QED
      BY <3>3, <3>4
  <2> QED
    BY <2>3, <2>4, <2>5, <2>6 DEF OrderInv
<1> QED
  BY <1>8, <1>9, <1>11, <1>12

-----------------------------------------------------------------------------
(* What task events and departments do to the copies. *)

\* The order of the events is not touched, nor what the copies owe.
LEMMA OwedUntouched ==
  ASSUME IInv,
         UNCHANGED <<account, call, log, taken, unannounced, disturbed>>,
         \A s \in Services, u \in Users :
             \A k \in Owed(s) : copy'[s][u][k] = copy[s][u][k]
  PROVE  OrderInv'
<1>1. /\ \A c \in Calls, v \in Users : PublishesFor(c, v)' <=> PublishesFor(c, v)
      /\ \A v \in Users : Published(v)' <=> Published(v)
      /\ \A v \in Users : \A x : Current(v, x)' <=> Current(v, x)
      /\ \A s \in Services, v \in Users, i \in Nat :
            Latest(s, v, i)' <=> Latest(s, v, i)
      /\ \A s \in Services, v \in Users : Settled(s, v)' <=> Settled(s, v)
  BY DEF PublishesFor, Published, Current, Unannounced, Latest, Untaken, Settled
<1>2. OneCallInv'
  BY <1>1 DEF IInv, OrderInv, OneCallInv
<1>3. CallInv'
  BY <1>1 DEF IInv, OrderInv, CallInv
<1>4. LogInv'
  BY <1>1 DEF IInv, OrderInv, LogInv
<1>5. SettledCopiesAgree'
  BY <1>1 DEF IInv, OrderInv, SettledCopiesAgree, Unannounced, Owed
<1> QED
  BY <1>2, <1>3, <1>4, <1>5 DEF OrderInv

LEMMA MentionKeepsIInv ==
  ASSUME IInv, NEW u \in Users, MentionAssignee(u)
  PROVE  IInv'
<1> USE DEF IInv
<1>1. /\ UNCHANGED <<account, call, log, taken, copy, was, belonged,
                     unannounced, disturbed>>
      /\ mentions' = mentions \cup {[user |-> u, row |-> Profile(u)]}
  BY DEF MentionAssignee, authVars, queueVars, historyVars
<1>2. /\ Profile(u) \in Rows
      /\ \A k \in Columns : Profile(u)[k] =
            IF k = "role" THEN 0 ELSE copy["project"][u][k]
  BY DEF Profile, TypeOK, Services, Rows
<1>3. TypeOK'
  BY <1>1, <1>2 DEF TypeOK, Events
<1>4. HistoryInv' /\ EventInv' /\ TrueInv'
  BY <1>1 DEF HistoryInv, EventInv, Announced, TrueInv, CopiesWereTrue
<1>5. MentionInv'
  <2>1. Vouched(u, Profile(u)) /\ Profile(u)["role"] = 0
    <3>1. ASSUME NEW k \in Identity
          PROVE  \E w \in was[u] : Profile(u)[k] = w[k]
      <4>1. CASE k = "role"
        BY <1>2, <4>1, BlankRow DEF HistoryInv, Columns
      <4>2. CASE k # "role"
        BY <1>2, <4>2 DEF TrueInv, CopiesWereTrue, Columns, Identity
      <4> QED
        BY <4>1, <4>2
    <3>2. Profile(u)["department"] = copy["project"][u]["department"]
      BY <1>2 DEF Columns
    <3>3. Profile(u)["role"] = 0
      BY <1>2 DEF Columns
    <3> QED
      BY <3>1, <3>2, <3>3 DEF Vouched, TrueInv
  <2>2. ASSUME NEW m \in mentions'
        PROVE  Vouched(m.user, m.row) /\ m.row["role"] = 0
    <3>1. CASE m \in mentions
      BY <3>1 DEF MentionInv
    <3>2. CASE m = [user |-> u, row |-> Profile(u)]
      <4>1. m.user = u /\ m.row = Profile(u)
        BY <3>2
      <4> QED
        BY <2>1, <4>1
    <3> QED
      BY <1>1, <3>1, <3>2
  <2> QED
    BY <1>1, <2>2 DEF MentionInv, Vouched
<1>6. OrderInv'
  BY <1>1, OwedUntouched
<1> QED
  BY <1>3, <1>4, <1>5, <1>6

LEMMA HearKeepsIInv ==
  ASSUME IInv, NEW m \in mentions, HearOfAssignee(m)
  PROVE  IInv'
<1> USE DEF IInv
<1> DEFINE u == m.user
           old == copy["analytics"][u]
           new == Upserted("analytics", old, m.row)
<1>1. u \in Users /\ m.row \in Rows /\ Vouched(u, m.row) /\ m.row["role"] = 0
  BY DEF TypeOK, Events, MentionInv
<1>2. /\ UNCHANGED <<account, call, log, taken, was, belonged, unannounced,
                     disturbed>>
      /\ mentions' \subseteq mentions
  BY DEF HearOfAssignee, authVars, queueVars, historyVars
<1>3. copy' = [copy EXCEPT !["analytics"] =
                   [copy["analytics"] EXCEPT ![u] = new]]
  BY DEF HearOfAssignee, TypeOK, Services
<1>4. /\ new \in Rows
      /\ \A k \in Columns : new[k] = Given(m.row[k], old[k])
  BY <1>1, UpsertedIsRow DEF TypeOK, Services
<1>5. new["role"] = old["role"]
  BY <1>1, <1>4 DEF Given, Columns
<1>6. \A k \in Columns : new[k] \in {m.row[k], old[k]}
  BY <1>4 DEF Given
<1>7. Vouched(u, old) /\ Vouched(u, m.row)
  BY <1>1 DEF TrueInv, CopiesWereTrue, Vouched
<1> HIDE DEF u, new
<1>8. \A q \in Services, v \in Users :
         copy'[q][v] = IF q = "analytics" /\ v = u THEN new ELSE copy[q][v]
  BY <1>1, <1>3 DEF TypeOK
<1>9. TypeOK'
  <2>1. copy' \in [Services -> [Users -> Rows]]
    BY <1>1, <1>3, <1>4 DEF TypeOK
  <2> QED
    BY <1>2, <2>1 DEF TypeOK
<1>10. HistoryInv' /\ EventInv' /\ MentionInv'
  BY <1>2 DEF HistoryInv, EventInv, Announced, MentionInv, Vouched
<1>11. TrueInv'
  <2>1. Vouched(u, new)
    <3>1. ASSUME NEW k \in Identity
          PROVE  \E w \in was[u] : new[k] = w[k]
      <4>1. new[k] \in {m.row[k], old[k]}
        BY <1>6 DEF Identity, Columns
      <4> QED
        BY <1>7, <4>1 DEF Vouched
    <3>2. new["department"] \in {m.row["department"], old["department"]}
      BY <1>6 DEF Columns
    <3> QED
      BY <1>7, <3>1, <3>2 DEF Vouched
  <2>2. \A v \in Users : copy'["project"][v] = copy["project"][v]
    BY <1>8 DEF Services
  <2>3. ASSUME NEW v \in Users
        PROVE  Vouched(v, copy'["analytics"][v])
    <3>1. CASE v = u
      BY <1>8, <2>1, <3>1 DEF Services
    <3>2. CASE v # u
      <4>1. copy'["analytics"][v] = copy["analytics"][v]
        BY <1>8, <3>2 DEF Services
      <4> QED
        BY <4>1 DEF TrueInv, CopiesWereTrue, Vouched
    <3> QED
      BY <3>1, <3>2
  <2> QED
    BY <1>2, <2>2, <2>3 DEF TrueInv, CopiesWereTrue, Vouched
<1>12. OrderInv'
  <2>1. ASSUME NEW s \in Services, NEW v \in Users, NEW k \in Owed(s)
        PROVE  copy'[s][v][k] = copy[s][v][k]
    BY <1>5, <1>8 DEF Owed
  <2> QED
    BY <1>2, <2>1, OwedUntouched
<1> QED
  BY <1>9, <1>10, <1>11, <1>12

LEMMA LoseMentionKeepsIInv ==
  ASSUME IInv, NEW m \in mentions, LoseMention(m)
  PROVE  IInv'
<1>1. /\ UNCHANGED <<account, call, log, taken, copy, was, belonged,
                     unannounced, disturbed>>
      /\ mentions' \subseteq mentions
  BY DEF LoseMention, authVars, queueVars, historyVars
<1>2. OrderInv'
  BY <1>1, OwedUntouched
<1> QED
  BY <1>1, <1>2
  DEF IInv, TypeOK, HistoryInv, EventInv, Announced, MentionInv, Vouched,
      TrueInv, CopiesWereTrue

LEMMA SetDepartmentKeepsIInv ==
  ASSUME IInv, NEW u \in Users, NEW d \in Departments \cup {0},
         SetDepartment(u, d)
  PROVE  IInv'
<1> USE DEF IInv
<1> DEFINE new == [copy["project"][u] EXCEPT !["department"] = d]
<1>1. /\ UNCHANGED <<account, call, log, taken, mentions, was, unannounced,
                     disturbed>>
      /\ belonged' = [belonged EXCEPT ![u] = belonged[u] \cup {d}]
  BY DEF SetDepartment, TypeOK, authVars, queueVars
<1>2. copy' = [copy EXCEPT !["project"] = [copy["project"] EXCEPT ![u] = new]]
  BY DEF SetDepartment, TypeOK, Services
<1>3. /\ d \in Nat
      /\ new \in Rows /\ new["department"] = d
      /\ \A k \in Identity : new[k] = copy["project"][u][k]
  BY UserCopiesAssumption DEF TypeOK, Services, Rows, Columns, Identity
<1> HIDE DEF new
<1>4. \A q \in Services, v \in Users :
         copy'[q][v] = IF q = "project" /\ v = u THEN new ELSE copy[q][v]
  BY <1>2 DEF TypeOK
<1>5. TypeOK'
  <2>1. copy' \in [Services -> [Users -> Rows]]
    BY <1>2, <1>3 DEF TypeOK
  <2>2. belonged' \in [Users -> SUBSET Nat]
    BY <1>1, <1>3 DEF TypeOK
  <2> QED
    BY <1>1, <2>1, <2>2 DEF TypeOK
<1>6. /\ \A v \in Users : belonged[v] \subseteq belonged'[v]
      /\ d \in belonged'[u]
  BY <1>1 DEF TypeOK
<1>7. HistoryInv' /\ EventInv'
  BY <1>1, <1>6 DEF HistoryInv, EventInv, Announced
<1>8. MentionInv'
  BY <1>1, <1>6 DEF MentionInv, Vouched, TypeOK, Events
<1>9. TrueInv'
  <2>1. ASSUME NEW v \in Users
        PROVE  /\ \A k \in Identity : copy'["project"][v][k] = copy["project"][v][k]
               /\ copy'["analytics"][v] = copy["analytics"][v]
               /\ copy'["project"][v]["department"] \in belonged'[v]
    BY <1>3, <1>4, <1>6 DEF TrueInv, Services
  <2> QED
    BY <1>1, <1>6, <2>1 DEF TrueInv, CopiesWereTrue
<1>10. OrderInv'
  <2>1. ASSUME NEW s \in Services, NEW v \in Users, NEW k \in Owed(s)
        PROVE  copy'[s][v][k] = copy[s][v][k]
    BY <1>3, <1>4 DEF Owed, Identity
  <2> QED
    BY <1>1, <2>1, OwedUntouched
<1> QED
  BY <1>5, <1>7, <1>8, <1>9, <1>10

-----------------------------------------------------------------------------

LEMMA NextKeepsIInv == IInv /\ [Next]_vars => IInv'
<1> SUFFICES ASSUME IInv, [Next]_vars
             PROVE  IInv'
  OBVIOUS
<1>1. ASSUME NEW c \in Calls, NEW u \in Users, NEW n \in Names, NEW e \in Emails,
             RegisterUser(c, u, n, e)
      PROVE  IInv'
  <2>1. AccountRow(n, e, ROLE_WORKER) \in AccountRows
    BY UserCopiesAssumption, AccountRowFacts
  <2> QED
    BY <1>1, <2>1, ChangeKeepsIInv DEF RegisterUser
<1>2. ASSUME NEW c \in Calls, NEW u \in Users, NEW n \in Names \cup {0},
             NEW e \in Emails \cup {0}, UpdateProfile(c, u, n, e)
      PROVE  IInv'
  <2>1. account[u] \in AccountRows
    BY <1>2 DEF UpdateProfile, IInv, TypeOK
  <2>2. /\ Given(n, account[u]["name"]) \in Names
        /\ Given(e, account[u]["email"]) \in Emails
        /\ account[u]["role"] \in Roles
    BY <2>1, AccountRowsAreRows DEF Given
  <2>3. AccountRow(Given(n, account[u]["name"]), Given(e, account[u]["email"]),
                   account[u]["role"]) \in AccountRows
    BY <2>2, AccountRowFacts
  <2> QED
    BY <1>2, <2>3, ChangeKeepsIInv DEF UpdateProfile
<1>3. ASSUME NEW a \in Users, NEW u \in Users, NEW r \in Roles,
             UpdateRole(a, u, r)
      PROVE  IInv'
  BY <1>3, SetRoleKeepsIInv DEF UpdateRole
<1>4. ASSUME NEW u \in Users, AppointAdmin(u)
      PROVE  IInv'
  BY <1>4, SetRoleKeepsIInv, UserCopiesAssumption DEF AppointAdmin
<1>5. ASSUME NEW c \in Calls, PublishEvent(c) \/ LoseEvent(c)
      PROVE  IInv'
  BY <1>5, PublishEventKeepsIInv, LoseEventKeepsIInv
<1>6. ASSUME NEW s \in Services, ConsumeUserEvent(s)
      PROVE  IInv'
  BY <1>6, ConsumeKeepsIInv
<1>7. ASSUME NEW s \in Services, UpsertFails(s)
      PROVE  IInv'
  BY <1>7, UpsertFailsDisconnects, DisconnectKeepsIInv DEF IInv
<1>8. ASSUME NEW s \in Services, NEW n \in Untaken(s), Disconnect(s, n)
      PROVE  IInv'
  BY <1>8, DisconnectKeepsIInv
<1>9. ASSUME NEW u \in Users, MentionAssignee(u)
      PROVE  IInv'
  BY <1>9, MentionKeepsIInv
<1>10. ASSUME NEW m \in mentions, HearOfAssignee(m) \/ LoseMention(m)
       PROVE  IInv'
  BY <1>10, HearKeepsIInv, LoseMentionKeepsIInv
<1>11. ASSUME NEW u \in Users, NEW d \in Departments \cup {0},
              SetDepartment(u, d)
       PROVE  IInv'
  BY <1>11, SetDepartmentKeepsIInv
<1>12. CASE UNCHANGED vars
  <2>1. UNCHANGED <<account, call, log, taken, copy, mentions, was, belonged,
                    unannounced, disturbed>>
    BY <1>12 DEF vars, queueVars, historyVars
  <2>2. OrderInv'
    BY <2>1, OwedUntouched
  <2> QED
    BY <2>1, <2>2
    DEF IInv, TypeOK, HistoryInv, EventInv, Announced, MentionInv, Vouched,
        TrueInv, CopiesWereTrue
<1> QED
  BY <1>1, <1>2, <1>3, <1>4, <1>5, <1>6, <1>7, <1>8, <1>9, <1>10, <1>11, <1>12
  DEF Next

THEOREM UserCopiesInvariant == Spec => []IInv
  BY InitIInv, NextKeepsIInv, PTL DEF Spec

\* The variables of the model have their types.
THEOREM UserCopiesTypeCorrect == Spec => []TypeOK
<1>1. IInv => TypeOK
  BY DEF IInv
<1> QED
  BY UserCopiesInvariant, <1>1, PTL

\* Whatever is lost or overtaken, what the consumers of user events store is
\* a row the account had, and what task events add to it was true as well.
THEOREM CopiesWereOnceTrue == Spec => []CopiesWereTrue
<1>1. IInv => CopiesWereTrue
  BY DEF IInv, TrueInv
<1> QED
  BY UserCopiesInvariant, <1>1, PTL

\* Once the user events of a user are all handled, the copies agree with the
\* account, except for a role given later, which UpdateRole does not publish.
THEOREM CopiesCatchUp == Spec => []SettledCopiesAgree
<1>1. IInv => SettledCopiesAgree
  BY DEF IInv, OrderInv
<1> QED
  BY UserCopiesInvariant, <1>1, PTL

\* The upsert of a user event leaves the user's department alone, which the
\* publishers never send.
THEOREM DepartmentsOutliveEvents == Spec => UserEventsKeepDepartments
<1> DEFINE Kept == \A u \in Users :
              taken' # taken =>
                  copy'["project"][u]["department"] =
                      copy["project"][u]["department"]
<1>1. ASSUME IInv, [Next]_vars
      PROVE  Kept
  <2>1. ASSUME NEW s \in Services, ConsumeUserEvent(s)
        PROVE  Kept
    <3>1. /\ taken[s] \in Nat /\ Len(log) \in Nat
          /\ taken[s] + 1 \in 1..Len(log)
      BY <1>1, <2>1, LenProperties DEF ConsumeUserEvent, Untaken, IInv, TypeOK
    <3>2. /\ log[taken[s] + 1] \in Events
          /\ Announced(log[taken[s] + 1])
      BY <1>1, <3>1, ElementOfSeq DEF IInv, TypeOK, EventInv
    <3> DEFINE e == log[taken[s] + 1]
               new == Upserted(s, copy[s][e.user], e.row)
    <3>3. e.user \in Users /\ e.row \in Rows /\ e.row["department"] = 0
      BY <3>2, AccountRowsAreRows DEF Events, Announced
    <3>4. new["department"] = copy[s][e.user]["department"]
      BY <1>1, <3>3, UpsertedIsRow DEF IInv, TypeOK, Columns, Identity, Given
    <3>5. copy' = [copy EXCEPT ![s] = [copy[s] EXCEPT ![e.user] = new]]
      BY <1>1, <2>1 DEF ConsumeUserEvent, IInv, TypeOK
    <3> HIDE DEF e, new
    <3> QED
      BY <1>1, <3>3, <3>4, <3>5 DEF IInv, TypeOK, Services
  <2>2. CASE UNCHANGED taken
    BY <2>2
  <2>3. CASE UNCHANGED copy
    BY <2>3
  <2> HIDE DEF Kept
  <2>4. ASSUME NEW s \in Services,
               \/ UpsertFails(s)
               \/ \E n \in Untaken(s) : Disconnect(s, n)
        PROVE  UNCHANGED copy
    BY <2>4 DEF UpsertFails, Disconnect
  <2> QED
    BY <1>1, <2>1, <2>2, <2>3, <2>4
    DEF Next, vars, RegisterUser, UpdateProfile, Change, UpdateRole,
        AppointAdmin, SetRole, PublishEvent, LoseEvent, MentionAssignee,
        HearOfAssignee, LoseMention, SetDepartment, queueVars
<1>2. QED
  BY <1>1, UserCopiesInvariant, PTL DEF Spec, UserEventsKeepDepartments
=============================================================================
