----------------------------- MODULE UserCopies -----------------------------
(***************************************************************************)
(* The users of the system: auth-service owns the accounts and announces   *)
(* registrations and profile changes on the exchange user.events;          *)
(* project-service and analytics-service each keep a copy, filled from a   *)
(* queue of their own that is acknowledged on delivery.  project-service   *)
(* asks its copy, never auth-service, for the role it checks permissions   *)
(* by, and keeps the user's department in it.  analytics-service also      *)
(* takes what task events say of an assignee.                              *)
(*                                                                         *)
(* A statement and the publication after it are two steps of a call, and   *)
(* calls overlap.  A row is a function from columns to numbers, 0 standing *)
(* for NULL and for the empty string.  A department is no more than its    *)
(* id; passwords, and the permission checks of project-service, which only *)
(* read, are left out.                                                     *)
(***************************************************************************)
EXTENDS Naturals, Sequences, FiniteSets

CONSTANTS
    Users,         \* user ids
    Names, Emails,
    Roles,         \* roles an administrator may give
    Departments,   \* department ids, each handed out once
    Calls,         \* registrations and profile changes, a goroutine each
    MaxMentions    \* most task events on their way at a time

ROLE_WORKER == 1
ROLE_ADMIN == 2

ASSUME UserCopiesAssumption ==
    /\ Names \cup Emails \cup Roles \cup Departments \subseteq Nat \ {0}
    /\ {ROLE_WORKER, ROLE_ADMIN} \subseteq Roles

Services == {"project", "analytics"}

Columns == {"name", "email", "role", "department"}
Identity == {"name", "email", "role"}   \* the columns auth-service has
Rows == [Columns -> Nat]
Blank == [k \in Columns |-> 0]

AccountRow(n, e, r) ==
    [k \in Columns |-> CASE k = "name" -> n
                         [] k = "email" -> e
                         [] k = "role" -> r
                         [] OTHER -> 0]
AccountRows == {AccountRow(n, e, r) : n \in Names, e \in Emails, r \in Roles}

\* An event names its user and carries a row.
Events == [user : Users, row : Rows]

VARIABLES
    account,      \* auth-service: users, Blank where there is no row
    call,         \* call[c]: unused, about to publish an event, or returned
    log,          \* the user events published, in order
    taken,        \* taken[s]: events of log that left the queue of s
    copy,         \* copy[s]: the table users of s
    mentions,     \* task events on their way that describe an assignee
    was,          \* history: was[u], the rows the account of u has had
    belonged,     \* history: belonged[u], the departments u has been in, and
                  \* the one the migration of analytics-service gives him
    unannounced,  \* history: users whose role changed after the row was
                  \* last returned to a call that publishes it
    disturbed     \* history: disturbed[s], users of whom s may have missed
                  \* the latest event or seen it out of order

authVars == <<account, call>>
queueVars == <<log, taken>>
historyVars == <<was, belonged, unannounced, disturbed>>
vars == <<account, call, queueVars, copy, mentions, historyVars>>

Unused == [step |-> "unused"]
Returned == [step |-> "returned"]
Publishing(u, r) == [step |-> "publish", event |-> [user |-> u, row |-> r]]
CallStates == {Unused, Returned} \cup [step : {"publish"}, event : Events]

\* Call c has changed the account of u and not yet published that.
PublishesFor(c, u) == call[c].step = "publish" /\ call[c].event.user = u

TypeOK ==
    /\ account \in [Users -> AccountRows \cup {Blank}]
    /\ call \in [Calls -> CallStates]
    /\ log \in Seq(Events)
    /\ taken \in [Services -> Nat]
    /\ \A s \in Services : taken[s] <= Len(log)
    /\ copy \in [Services -> [Users -> Rows]]
    /\ mentions \subseteq Events
    /\ was \in [Users -> SUBSET Rows]
    /\ belonged \in [Users -> SUBSET Nat]
    /\ unannounced \subseteq Users
    /\ disturbed \in [Services -> SUBSET Users]

EmailFree(e, u) == \A v \in Users \ {u} : account[v]["email"] # e

\* The migrations of auth-service insert demonstration users, and those of
\* analytics-service the same ones, each with a department.
Init ==
    /\ account \in [Users -> AccountRows \cup {Blank}]
    /\ \A u \in Users : account[u] # Blank => EmailFree(account[u]["email"], u)
    /\ call = [c \in Calls |-> Unused]
    /\ log = <<>>
    /\ taken = [s \in Services |-> 0]
    /\ \E demo \in [Users -> Departments \cup {0}] :
          /\ \A u \in Users : account[u] = Blank <=> demo[u] = 0
          /\ copy = [project |-> [u \in Users |-> Blank],
                     analytics |-> [u \in Users |->
                         [account[u] EXCEPT !["department"] = demo[u]]]]
          /\ belonged = [u \in Users |-> {0, demo[u]}]
    /\ mentions = {}
    /\ was = [u \in Users |-> {Blank, account[u]}]
    /\ unannounced = {}
    /\ disturbed = [project |-> {u \in Users : account[u] # Blank},
                    analytics |-> {}]

-----------------------------------------------------------------------------
(* auth-service. *)

\* Variant: the column is set to whatever the request holds.
Taken(new, old) == new

\* COALESCE(NULLIF(new, ''), old)
Given(new, old) == IF new = 0 THEN old ELSE new

\* The account of u becomes r, and call c is going to publish that.  The
\* services are sure to learn it from this event unless another one of u is
\* still to be published and may come after it.
Change(c, u, r) ==
    /\ call[c] = Unused
    /\ account' = [account EXCEPT ![u] = r]
    /\ call' = [call EXCEPT ![c] = Publishing(u, r)]
    /\ was' = [was EXCEPT ![u] = @ \cup {r}]
    /\ unannounced' = unannounced \ {u}
    /\ disturbed' =
          [s \in Services |->
              IF \E d \in Calls : PublishesFor(d, u)
              THEN disturbed[s] \cup {u}
              ELSE disturbed[s] \ {u}]
    /\ UNCHANGED <<queueVars, copy, mentions, belonged>>

\* The check that the address is free, and the UNIQUE column behind it.
RegisterUser(c, u, n, e) ==
    /\ account[u] = Blank
    /\ EmailFree(e, u)
    /\ Change(c, u, AccountRow(n, e, ROLE_WORKER))

\* An empty field leaves its column alone, and one must not be empty.
UpdateProfile(c, u, n, e) ==
    LET r == AccountRow(Given(n, account[u]["name"]),
                        Given(e, account[u]["email"]),
                        account[u]["role"])
    IN  /\ account[u] # Blank
        /\ n # 0 \/ e # 0
        /\ EmailFree(r["email"], u)
        /\ Change(c, u, r)

SetRole(u, r) ==
    /\ account[u] # Blank
    /\ account' = [account EXCEPT ![u]["role"] = r]
    /\ was' = [was EXCEPT ![u] = @ \cup {account'[u]}]
    /\ unannounced' = unannounced \cup {u}
    /\ UNCHANGED <<call, queueVars, copy, mentions, belonged, disturbed>>

\* Nothing is published.
UpdateRole(a, u, r) ==
    /\ account[a]["role"] = ROLE_ADMIN
    /\ SetRole(u, r)

\* The first administrator is appointed by hand, in the database.
AppointAdmin(u) == SetRole(u, ROLE_ADMIN)

\* The event goes to both queues.
PublishEvent(c) ==
    /\ call[c].step = "publish"
    /\ log' = Append(log, call[c].event)
    /\ call' = [call EXCEPT ![c] = Returned]
    /\ UNCHANGED <<account, taken, copy, mentions, historyVars>>

\* The change is committed and its event never sent: publishing fails (the
\* error is only logged), the statement's answer is lost, or the process dies.
LoseEvent(c) ==
    /\ call[c].step = "publish"
    /\ call' = [call EXCEPT ![c] = Returned]
    /\ disturbed' = [s \in Services |-> disturbed[s] \cup {call[c].event.user}]
    /\ UNCHANGED <<account, queueVars, copy, mentions, was, belonged,
                   unannounced>>

-----------------------------------------------------------------------------
(* The consumers of user events. *)

\* Variant: ON CONFLICT leaves the role out.
UpsertedButRole(s, old, r) ==
    [k \in Columns |->
        CASE s = "project" /\ k \in {"name", "email"} -> r[k]
          [] s = "project" /\ k = "role" -> Given(old[k], r[k])
          [] OTHER -> Given(r[k], old[k])]

\* Variant: analytics-service keeps what it has in preference to what comes.
UpsertedKeeping(s, old, r) ==
    [k \in Columns |->
        IF s = "project" /\ k \in Identity THEN r[k] ELSE Given(old[k], r[k])]

\* project-service overwrites, and keeps only a department the event leaves
\* out; analytics-service keeps every column the event leaves out.
Upserted(s, old, r) ==
    [k \in Columns |->
        IF s = "project" /\ k \in Identity THEN r[k] ELSE Given(r[k], old[k])]

Untaken(s) == taken[s]+1..Len(log)

\* The upsert is committed, whether or not its answer arrives.
ConsumeUserEvent(s) ==
    LET e == log[taken[s] + 1] IN
    /\ Untaken(s) # {}
    /\ taken' = [taken EXCEPT ![s] = @ + 1]
    /\ copy' = [copy EXCEPT ![s][e.user] =
                    Upserted(s, copy[s][e.user], e.row)]
    /\ UNCHANGED <<authVars, log, mentions, historyVars>>

\* The upsert fails; the event was acknowledged before it was handled.
UpsertFails(s) ==
    /\ Untaken(s) # {}
    /\ taken' = [taken EXCEPT ![s] = @ + 1]
    /\ disturbed' =
          [disturbed EXCEPT ![s] = @ \cup {log[taken[s] + 1].user}]
    /\ UNCHANGED <<authVars, log, copy, mentions, was, belonged,
                   unannounced>>

\* The process dies or its channel is closed.  What the broker had delivered
\* and the goroutine had not handled, the events up to n, is gone.  The queue
\* is durable; while nobody listens it only grows.
Disconnect(s, n) ==
    /\ n \in Untaken(s)
    /\ taken' = [taken EXCEPT ![s] = n]
    /\ disturbed' =
          [disturbed EXCEPT ![s] =
              @ \cup {log[i].user : i \in taken[s]+1..n}]
    /\ UNCHANGED <<authVars, log, copy, mentions, was, belonged, unannounced>>

\* assigneeProfile
Profile(u) == [copy["project"][u] EXCEPT !["role"] = 0]

\* A task handler reads the assignee, for an event it will publish.
MentionAssignee(u) ==
    /\ Cardinality(mentions) < MaxMentions
    /\ mentions' = mentions \cup {[user |-> u, row |-> Profile(u)]}
    /\ UNCHANGED <<authVars, queueVars, copy, historyVars>>

\* analytics-service handles that event, on another queue.
HearOfAssignee(m) ==
    /\ mentions' = mentions \ {m}
    /\ copy' = [copy EXCEPT !["analytics"][m.user] =
                    Upserted("analytics", copy["analytics"][m.user], m.row)]
    /\ UNCHANGED <<authVars, queueVars, historyVars>>

\* The task event is not published, is lost, or its upsert fails.
LoseMention(m) ==
    /\ mentions' = mentions \ {m}
    /\ UNCHANGED <<authVars, queueVars, copy, historyVars>>

\* The statements of project-service that write department_id: assigning a
\* user, removing one, and deleting the department (d = 0).
SetDepartment(u, d) ==
    /\ copy["project"][u] # Blank
    /\ copy' = [copy EXCEPT !["project"][u]["department"] = d]
    /\ belonged' = [belonged EXCEPT ![u] = @ \cup {d}]
    /\ UNCHANGED <<authVars, queueVars, mentions, was, unannounced, disturbed>>

-----------------------------------------------------------------------------

Next ==
    \/ \E c \in Calls, u \in Users, n \in Names, e \in Emails :
           RegisterUser(c, u, n, e)
    \/ \E c \in Calls, u \in Users, n \in Names \cup {0}, e \in Emails \cup {0} :
           UpdateProfile(c, u, n, e)
    \/ \E a, u \in Users, r \in Roles : UpdateRole(a, u, r)
    \/ \E u \in Users : AppointAdmin(u)
    \/ \E c \in Calls : PublishEvent(c) \/ LoseEvent(c)
    \/ \E s \in Services :
           \/ ConsumeUserEvent(s)
           \/ UpsertFails(s)
           \/ \E n \in Untaken(s) : Disconnect(s, n)
    \/ \E u \in Users : MentionAssignee(u)
    \/ \E m \in mentions : HearOfAssignee(m) \/ LoseMention(m)
    \/ \E u \in Users, d \in Departments \cup {0} : SetDepartment(u, d)

Spec == Init /\ [][Next]_vars

-----------------------------------------------------------------------------
(* Properties. *)

\* A copy is never a mixture in project-service: name, address and role are
\* those the account had together at some time, however many events were
\* lost.  In analytics-service, which merges what user events and task events
\* say, that holds of each column alone, and a department there is one the
\* user was in, or had from the migration.
CopiesWereTrue ==
    \A u \in Users :
        /\ \E r \in was[u] :
              \A k \in Identity : copy["project"][u][k] = r[k]
        /\ \A k \in Identity : \E r \in was[u] : copy["analytics"][u][k] = r[k]
        /\ copy["analytics"][u]["department"] \in belonged[u]

\* Nothing about u is on its way to s, and s got the latest of it in order.
Settled(s, u) ==
    /\ u \notin disturbed[s]
    /\ \A c \in Calls : ~PublishesFor(c, u)
    /\ \A i \in Untaken(s) : log[i].user # u

\* What a copy owes its account.  An older task event may set back a name in
\* analytics-service, but never a role.
Owed(s) == IF s = "project" THEN Identity ELSE {"role"}

Unannounced(u) == IF u \in unannounced THEN {"role"} ELSE {}

\* Once everything is settled a copy agrees with the account, even if earlier
\* events of the user were lost or overtaken: a profile change that overlaps
\* no other repairs the copy.  Excepted is a role given since then.
SettledCopiesAgree ==
    \A s \in Services, u \in Users :
        Settled(s, u) =>
            \A k \in Owed(s) \ Unannounced(u) : copy[s][u][k] = account[u][k]

\* The top-level README has roles assigned through PUT /admin/users/:id/role
\* and rights checked in project-service, where the role is the copy's (lines
\* 167 and 168).  So a role that was assigned is, once everything is settled,
\* the role in that copy.  Administrators are excepted: the first of them is
\* appointed in the database.
RolesTakeEffect ==
    \A u \in Users :
        Settled("project", u) /\ account[u]["role"] # ROLE_ADMIN =>
            copy["project"][u]["role"] = account[u]["role"]

\* Taking a user event never moves the user out of a department, or into
\* one, though it overwrites the rest of the row.
UserEventsKeepDepartments ==
    [][\A u \in Users :
          taken' # taken =>
              copy'["project"][u]["department"] =
                  copy["project"][u]["department"]]_vars
=============================================================================
