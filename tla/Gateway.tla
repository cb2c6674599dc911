------------------------------- MODULE Gateway -------------------------------
(***************************************************************************)
(* What api-gateway adds to the services behind it: the session of a       *)
(* browser, and the scope of an analytics report.                          *)
(*                                                                         *)
(* auth-service signs an access token with the role of the account, and    *)
(* keeps a refresh token in Redis that is traded in, once, for the next    *)
(* pair.  The gateway puts the refresh token in a cookie and believes the  *)
(* role in the access token until it expires.  For a report it asks        *)
(* project-service for the user's department and projects, one call after  *)
(* the other, and hands the result to analytics-service as a filter, where *)
(* an empty list of projects is no filter at all.                          *)
(*                                                                         *)
(* Requests of one browser overlap, and their answers arrive in any order. *)
(* Passwords, signatures, and everything a report contains but the         *)
(* projects and the department it covers are left out; so is Logout, which *)
(* auth-service has and no gRPC or HTTP handler calls.                     *)
(***************************************************************************)
EXTENDS FiniteSets

CONSTANTS
    Users, Projects, Departments,
    Roles,   \* the roles accounts may have in an instance
    Tokens,  \* refresh tokens, random and never handed out twice
    Calls,   \* requests under way
    None     \* NULL, the empty string, no cookie

ASSUME GatewayAssumption ==
    /\ Roles \subseteq {"worker", "gip", "project_manager",
                        "department_manager", "director", "admin"}
    /\ None \notin Users \cup Projects \cup Departments \cup Roles \cup Tokens

VARIABLES
    account,     \* auth-service: the role of each account
    stored,      \* Redis: the owner of each refresh token, or None
    issued,      \* the tokens uuid has handed out
    browser,     \* browser[u]: refresh cookie and role claim of u, or None
    member,      \* project-service: the projects u is a member of
    belongs,     \* project-service: the department of u, or None
    call,        \* call[c]: a request between its steps
    was,         \* history: roles the account of u has had
    seen,        \* history: seen[c], the projects and the department (or
                 \* None) the user of c has had since the report began
    traded,      \* history: how often a token was traded in (0, 1, 2: more)
    shared,      \* history: tokens two refreshes read before one deleted
    undeleted,   \* history: tokens whose deletion failed
    lost         \* history: tokens Redis forgot, or whose refresh was cut
                 \* short after their deletion

authVars == <<account, stored, issued>>
projectVars == <<member, belongs>>
tokenHistory == <<traded, shared, undeleted>>
vars == <<authVars, browser, projectVars, call, was, seen, tokenHistory, lost>>

SignedOut == [cookie |-> None, claim |-> None]
Browsers == [cookie : Tokens \cup {None}, claim : Roles \cup {None}]

Unused == [step |-> "unused"]

\* A login or a refresh; old is the token a refresh trades in.
SessionCalls ==
    [step : {"get", "delete", "find", "save", "answer"}, user : Users,
     old : Tokens \cup {None}, new : Tokens \cup {None},
     claim : Roles \cup {None}]

\* A report; in the end projects and department are what it covers.
ReportCalls ==
    [step : {"user", "list", "query", "report"}, user : Users, claim : Roles,
     asked : Projects \cup {None}, projects : SUBSET Projects,
     department : Departments \cup {None}]

Session(c) == call[c].step \in {"get", "delete", "find", "save", "answer"}
Report(c) == call[c].step \in {"user", "list", "query", "report"}

TypeOK ==
    /\ account \in [Users -> Roles]
    /\ stored \in [Tokens -> Users \cup {None}]
    /\ issued \subseteq Tokens
    /\ browser \in [Users -> Browsers]
    /\ member \in [Users -> SUBSET Projects]
    /\ belongs \in [Users -> Departments \cup {None}]
    /\ call \in [Calls -> {Unused} \cup SessionCalls \cup ReportCalls]
    /\ was \in [Users -> SUBSET Roles]
    /\ seen \in [Calls -> SUBSET (Projects \cup Departments \cup {None})]
    /\ traded \in [Tokens -> {0, 1, 2}]
    /\ shared \subseteq Tokens
    /\ undeleted \subseteq Tokens
    /\ lost \subseteq Tokens

Places(u) == member[u] \cup {belongs[u]}

Init ==
    /\ account \in [Users -> Roles]
    /\ stored = [t \in Tokens |-> None]
    /\ issued = {}
    /\ browser = [u \in Users |-> SignedOut]
    /\ member \in [Users -> SUBSET Projects]
    /\ belongs \in [Users -> Departments \cup {None}]
    /\ call = [c \in Calls |-> Unused]
    /\ was = [u \in Users |-> {account[u]}]
    /\ seen = [c \in Calls |-> {}]
    /\ traded = [t \in Tokens |-> 0]
    /\ shared = {}
    /\ undeleted = {}
    /\ lost = {}

-----------------------------------------------------------------------------
(* Sessions. *)

\* Call c goes on with the fields of r changed.
Goes(c, r) == call' = [call EXCEPT ![c] = r]

\* FindByEmail and the password; a registration ends like a login.
Login(c, u) ==
    /\ call[c] = Unused
    /\ Goes(c, [step |-> "save", user |-> u, old |-> None, new |-> None,
                claim |-> account[u]])
    /\ UNCHANGED <<authVars, browser, projectVars, was, seen, tokenHistory,
                   lost>>

\* The browser sends the cookie it has, perhaps for the second time.
Refresh(c, u) ==
    /\ call[c] = Unused
    /\ browser[u].cookie # None
    /\ Goes(c, [step |-> "get", user |-> u, old |-> browser[u].cookie,
                new |-> None, claim |-> None])
    /\ UNCHANGED <<authVars, browser, projectVars, was, seen, tokenHistory,
                   lost>>

GetToken(c) ==
    LET t == call[c].old IN
    /\ call[c].step = "get"
    /\ stored[t] # None
    /\ Goes(c, [call[c] EXCEPT !.step = "delete", !.user = stored[t]])
    /\ shared' = IF \E d \in Calls : call[d].step = "delete" /\ call[d].old = t
                 THEN shared \cup {t}
                 ELSE shared
    /\ UNCHANGED <<authVars, browser, projectVars, was, seen, traded,
                   undeleted, lost>>

\* Redis does not have the token: 401, and the cookie stays as it is.
TokenUnknown(c) ==
    /\ call[c].step = "get"
    /\ stored[call[c].old] = None
    /\ Goes(c, Unused)
    /\ UNCHANGED <<authVars, browser, projectVars, was, seen, tokenHistory,
                   lost>>

\* Variant: the token traded in is kept.
TokenKept(c) ==
    /\ call[c].step = "delete"
    /\ Goes(c, [call[c] EXCEPT !.step = "find"])
    /\ UNCHANGED <<authVars, browser, projectVars, was, seen, tokenHistory,
                   lost>>

DeleteToken(c) ==
    /\ call[c].step = "delete"
    /\ stored' = [stored EXCEPT ![call[c].old] = None]
    /\ Goes(c, [call[c] EXCEPT !.step = "find"])
    /\ UNCHANGED <<account, issued, browser, projectVars, was, seen,
                   tokenHistory, lost>>

\* The error of the deletion is ignored.
DeleteFails(c) ==
    /\ call[c].step = "delete"
    /\ Goes(c, [call[c] EXCEPT !.step = "find"])
    /\ undeleted' = undeleted \cup {call[c].old}
    /\ UNCHANGED <<authVars, browser, projectVars, was, seen, traded, shared,
                   lost>>

FindUser(c) ==
    /\ call[c].step = "find"
    /\ Goes(c, [call[c] EXCEPT !.step = "save",
                               !.claim = account[call[c].user]])
    /\ UNCHANGED <<authVars, browser, projectVars, was, seen, tokenHistory,
                   lost>>

\* A token counts as traded in when its successor is saved.
Traded(t) ==
    [traded EXCEPT ![t] = IF @ = 0 THEN 1 ELSE 2]

\* GenerateTokens
SaveToken(c, t) ==
    /\ call[c].step = "save"
    /\ t \notin issued
    /\ issued' = issued \cup {t}
    /\ stored' = [stored EXCEPT ![t] = call[c].user]
    /\ Goes(c, [call[c] EXCEPT !.step = "answer", !.new = t])
    /\ traded' = IF call[c].old = None THEN traded ELSE Traded(call[c].old)
    /\ UNCHANGED <<account, browser, projectVars, was, seen, shared,
                   undeleted, lost>>

\* The browser stores the cookie and the access token of an answer.
Answered(c, cookie) ==
    /\ call[c].step = "answer"
    /\ browser' = [browser EXCEPT ![call[c].user] =
                      [cookie |-> cookie, claim |-> call[c].claim]]
    /\ Goes(c, Unused)
    /\ UNCHANGED <<authVars, projectVars, was, seen, tokenHistory, lost>>

\* Variant: the gateway answers a refresh with the access token alone.
AnswerWithoutCookie(c) ==
    Answered(c, IF call[c].old = None THEN call[c].new
                                      ELSE browser[call[c].user].cookie)

\* setRefreshTokenCookie, and the access token in the body.
Answer(c) == Answered(c, call[c].new)

\* An error of Redis or PostgreSQL, a process that dies, or an answer that is
\* lost.  A refresh that has deleted its token leaves the browser with none.
SessionFails(c) ==
    /\ Session(c)
    /\ Goes(c, Unused)
    /\ lost' = IF call[c].step \in {"find", "save", "answer"}
               THEN lost \cup ({call[c].old} \ {None})
               ELSE lost
    /\ UNCHANGED <<authVars, browser, projectVars, was, seen, tokenHistory>>

\* The cookie is given the lifetime of the access token, not of its own.
Expire(u) ==
    /\ browser[u] # SignedOut
    /\ browser' = [browser EXCEPT ![u] = SignedOut]
    /\ UNCHANGED <<authVars, projectVars, call, was, seen, tokenHistory, lost>>

\* The time to live of the token ends, or Redis loses it.
ForgetToken(t) ==
    /\ stored[t] # None
    /\ stored' = [stored EXCEPT ![t] = None]
    /\ lost' = lost \cup {t}
    /\ UNCHANGED <<account, issued, browser, projectVars, call, was, seen,
                   tokenHistory>>

\* By an administrator who is none of Users, or by hand in the database.  The
\* tokens that are out keep the old role.
UpdateRole(u, r) ==
    /\ account' = [account EXCEPT ![u] = r]
    /\ was' = [was EXCEPT ![u] = @ \cup {r}]
    /\ UNCHANGED <<stored, issued, browser, projectVars, call, seen,
                   tokenHistory, lost>>

-----------------------------------------------------------------------------
(* Reports. *)

\* memberProjectScope begins: a director is not restricted, a department
\* manager is looked up first.
Asked(c, u, p, d) ==
    LET role == browser[u].claim IN
    /\ call[c] = Unused
    /\ Goes(c, [step |-> CASE role = "department_manager" -> "user"
                           [] role = "director" -> "query"
                           [] OTHER -> "list",
                user |-> u, claim |-> role, asked |-> p, projects |-> {},
                department |-> d])
    /\ seen' = [seen EXCEPT ![c] = Places(u)]
    /\ UNCHANGED <<authVars, browser, projectVars, was, tokenHistory, lost>>

\* Variant: the route is not behind AuthRequired.
AskReportUnsigned(c, u, p, d) == Asked(c, u, p, d)

\* AuthRequired lets a request with a good access token pass.
AskReport(c, u, p, d) ==
    /\ browser[u].claim # None
    /\ Asked(c, u, p, d)

\* scopedDepartmentID: his department goes before the one he asked for.
ReadDepartment(c) ==
    LET d == belongs[call[c].user] IN
    /\ call[c].step = "user"
    /\ Goes(c, [call[c] EXCEPT !.step = "list",
                               !.department = IF d = None THEN @ ELSE d])
    /\ UNCHANGED <<authVars, browser, projectVars, was, seen, tokenHistory,
                   lost>>

\* The projects ListProjects returns to a caller with this role claim.
Listed(u, role) ==
    IF role \in {"director", "admin"} THEN Projects ELSE member[u]

\* Variant: no projects, and the request goes on.
InScopeOrEmpty(list, p) == p = None \/ p \in list

\* Nothing is asked of analytics-service for a user without projects, nor
\* for a project that is not on his list.
InScope(list, p) == list # {} /\ (p = None \/ p \in list)

ReadProjects(c) ==
    LET list == Listed(call[c].user, call[c].claim) IN
    /\ call[c].step = "list"
    /\ InScope(list, call[c].asked)
    /\ Goes(c, [call[c] EXCEPT !.step = "query", !.projects = list])
    /\ UNCHANGED <<authVars, browser, projectVars, was, seen, tokenHistory,
                   lost>>

\* An empty report, or 403.
NothingInScope(c) ==
    /\ call[c].step = "list"
    /\ ~InScope(Listed(call[c].user, call[c].claim), call[c].asked)
    /\ Goes(c, Unused)
    /\ seen' = [seen EXCEPT ![c] = {}]
    /\ UNCHANGED <<authVars, browser, projectVars, was, tokenHistory, lost>>

\* appendTaskScope
Covered(p, list) ==
    CASE p # None -> {p}
      [] p = None /\ list # {} -> list
      [] OTHER -> Projects

QueryAnalytics(c) ==
    /\ call[c].step = "query"
    /\ Goes(c, [call[c] EXCEPT !.step = "report",
                               !.projects = Covered(call[c].asked, @)])
    /\ UNCHANGED <<authVars, browser, projectVars, was, seen, tokenHistory,
                   lost>>

\* The answer arrives, or the request fails on its way.
EndReport(c) ==
    /\ Report(c)
    /\ Goes(c, Unused)
    /\ seen' = [seen EXCEPT ![c] = {}]
    /\ UNCHANGED <<authVars, browser, projectVars, was, tokenHistory, lost>>

\* project-service changes memberships and departments meanwhile.
Move(u, ps, d) ==
    /\ member' = [member EXCEPT ![u] = ps]
    /\ belongs' = [belongs EXCEPT ![u] = d]
    /\ seen' = [c \in Calls |->
                   IF Report(c) /\ call[c].user = u
                   THEN seen[c] \cup ps \cup {d}
                   ELSE seen[c]]
    /\ UNCHANGED <<authVars, browser, call, was, tokenHistory, lost>>

-----------------------------------------------------------------------------

Next ==
    \/ \E c \in Calls :
          \/ \E u \in Users : Login(c, u) \/ Refresh(c, u)
          \/ GetToken(c)
          \/ TokenUnknown(c)
          \/ DeleteToken(c)
          \/ DeleteFails(c)
          \/ FindUser(c)
          \/ \E t \in Tokens : SaveToken(c, t)
          \/ Answer(c)
          \/ SessionFails(c)
          \/ \E u \in Users, p \in Projects \cup {None},
                d \in Departments \cup {None} : AskReport(c, u, p, d)
          \/ ReadDepartment(c)
          \/ ReadProjects(c)
          \/ NothingInScope(c)
          \/ QueryAnalytics(c)
          \/ EndReport(c)
    \/ \E u \in Users : Expire(u)
    \/ \E t \in Tokens : ForgetToken(t)
    \/ \E u \in Users, r \in Roles : UpdateRole(u, r)
    \/ \E u \in Users, p \in Projects : Move(u, member[u] \ {p}, belongs[u])
    \/ \E u \in Users, p \in Projects : Move(u, member[u] \cup {p}, belongs[u])
    \/ \E u \in Users, d \in Departments \cup {None} : Move(u, member[u], d)

Spec == Init /\ [][Next]_vars

-----------------------------------------------------------------------------
(* Properties. *)

\* A refresh token is traded in once, unless two refreshes read it before one
\* of them deleted it, or the deletion failed, which nobody is told.
TradedInOnce ==
    \A t \in Tokens : traded[t] = 2 => t \in shared \cup undeleted

\* A refresh that has deleted the cookie of u and not yet answered.
Renewing(u) ==
    \E c \in Calls :
        /\ call[c].step \in {"find", "save", "answer"}
        /\ call[c].user = u
        /\ call[c].old = browser[u].cookie

\* Overlapping requests never sign a browser out: whatever the order of
\* their steps and of their answers, the cookie can be traded in or is being
\* traded in, unless a fault struck that very token.
SessionsSurvive ==
    \A u \in Users :
        browser[u].cookie \notin lost \cup {None} =>
            stored[browser[u].cookie] = u \/ Renewing(u)

\* A report covers no project of which the user has not been a member since
\* he asked for it, unless his token says that he may see them all; and the
\* department of a department manager who has one.  What the token says was
\* true of the account at some time.
ReportsStayInScope ==
    \A c \in Calls : call[c].step = "report" =>
        /\ call[c].claim \in was[call[c].user]
        /\ call[c].claim \notin {"director", "admin"} =>
              call[c].projects \subseteq seen[c]
        /\ call[c].claim = "department_manager" =>
              call[c].department \in seen[c] \/ None \in seen[c]
=============================================================================
