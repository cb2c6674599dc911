---------------------------- MODULE GatewayProofs ----------------------------
(***************************************************************************)
(* Sessions and reports, for any number of users, tokens and requests.     *)
(*                                                                         *)
(* A refresh token has one owner from the moment it is issued, and until   *)
(* its answer arrives no browser can trade it in.  A token that neither a  *)
(* shared reading nor a failed deletion has marked is traded in by one     *)
(* refresh at most, for none can read it once another has deleted it.      *)
(***************************************************************************)
EXTENDS Gateway, TLAPS

\* Token t is somewhere in the hands of u.
Holds(u, t) ==
    \/ stored[t] = u
    \/ browser[u].cookie = t
    \/ \E c \in Calls : /\ Session(c)
                        /\ call[c].user = u
                        /\ call[c].old = t \/ call[c].new = t

OwnerInv ==
    \A u \in Users, t \in Tokens :
        Holds(u, t) => t \in issued /\ \A v \in Users : Holds(v, t) => u = v

\* What a call knows at each of its steps.
CallOK(c) ==
    /\ call[c].step \in {"get", "delete", "find"} => call[c].old # None
    /\ Session(c) => (call[c].new # None <=> call[c].step = "answer")
    /\ call[c].step \in {"save", "answer"} => call[c].claim \in was[call[c].user]
    /\ Report(c) => call[c].claim \in was[call[c].user]

CallInv == \A c \in Calls : CallOK(c)

\* A token on its way to the browser is known to nobody but Redis.
AnswerOK(c) ==
    call[c].step = "answer" =>
        LET t == call[c].new IN
        /\ t \in lost \/ stored[t] = call[c].user
        /\ \A u \in Users : browser[u].cookie # t
        /\ \A d \in Calls : Session(d) =>
              call[d].old # t /\ (call[d].new = t => d = c)

AnswerInv == \A c \in Calls : AnswerOK(c)

\* Refreshes that have read t and not yet saved its successor.
Trading(c, t) ==
    call[c].step \in {"delete", "find", "save"} /\ call[c].old = t

TradeOK(t) ==
    /\ \A c, d \in Calls : Trading(c, t) /\ Trading(d, t) => c = d
    /\ \A c \in Calls : Trading(c, t) => traded[t] = 0
    /\ stored[t] # None =>
          /\ traded[t] = 0
          /\ \A c \in Calls : Trading(c, t) => call[c].step = "delete"

TradeInv == \A t \in Tokens :
    /\ t \notin issued => traded[t] = 0
    /\ t \notin shared \cup undeleted => TradeOK(t) /\ traded[t] # 2

ClaimInv == \A u \in Users :
    /\ account[u] \in was[u]
    /\ browser[u].claim \in was[u] \cup {None}

\* What a report has read so far.
ReportOK(c) ==
    /\ Report(c) => Places(call[c].user) \subseteq seen[c]
    /\ call[c].step = "list" /\ call[c].claim = "department_manager" =>
          call[c].department \in seen[c] \/ None \in seen[c]
    /\ call[c].step \in {"query", "report"} =>
          /\ call[c].claim \notin {"director", "admin"} =>
                call[c].projects # {} /\ call[c].projects \subseteq seen[c]
          /\ call[c].claim = "department_manager" =>
                call[c].department \in seen[c] \/ None \in seen[c]
    /\ call[c].step = "query" /\ call[c].claim \notin {"director", "admin"} =>
          call[c].asked \in call[c].projects \cup {None}

ReportInv == \A c \in Calls : ReportOK(c)

IInv == TypeOK /\ OwnerInv /\ CallInv /\ AnswerInv /\ SessionsSurvive
          /\ TradeInv /\ ClaimInv /\ ReportInv

-----------------------------------------------------------------------------
(* Types. *)

SessionSteps == {"get", "delete", "find", "save", "answer"}
ReportSteps == {"user", "list", "query", "report"}

LEMMA CallTypes ==
    ASSUME TypeOK, NEW c \in Calls
    PROVE  /\ Session(c) => call[c] \in SessionCalls
           /\ Report(c) => call[c] \in ReportCalls
           /\ call[c] = Unused => ~Session(c) /\ ~Report(c)
           /\ Session(c) => ~Report(c) /\ call[c] # Unused
           /\ Report(c) => call[c] # Unused
           /\ call[c] \in {Unused} \cup SessionCalls \cup ReportCalls
<1>1. call[c] \in {Unused} \cup SessionCalls \cup ReportCalls
  BY DEF TypeOK
<1>2. CASE call[c] = Unused
  BY <1>2 DEF Unused, Session, Report
<1>3. CASE call[c] \in SessionCalls
  BY <1>3 DEF SessionCalls, Session, Report, Unused
<1>4. CASE call[c] \in ReportCalls
  BY <1>4 DEF ReportCalls, Session, Report, Unused
<1>5. QED  BY <1>1, <1>2, <1>3, <1>4

\* A session call with its next fields.
LEMMA SessionTypes ==
    ASSUME NEW r \in SessionCalls
    PROVE  /\ \A s \in SessionSteps : [r EXCEPT !.step = s] \in SessionCalls
           /\ \A s \in SessionSteps, u \in Users :
                 [r EXCEPT !.step = s, !.user = u] \in SessionCalls
           /\ \A s \in SessionSteps, x \in Roles :
                 [r EXCEPT !.step = s, !.claim = x] \in SessionCalls
           /\ \A s \in SessionSteps, t \in Tokens :
                 [r EXCEPT !.step = s, !.new = t] \in SessionCalls
  BY DEF SessionCalls, SessionSteps

LEMMA ReportTypes ==
    ASSUME NEW r \in ReportCalls
    PROVE  /\ \A s \in ReportSteps, d \in Departments \cup {None} :
                 [r EXCEPT !.step = s, !.department = d] \in ReportCalls
           /\ \A s \in ReportSteps, ps \in SUBSET Projects :
                 [r EXCEPT !.step = s, !.projects = ps] \in ReportCalls
  BY DEF ReportCalls, ReportSteps

\* Whatever a call goes on with has its type.
LEMMA GoesTypes ==
    ASSUME TypeOK, NEW c \in Calls,
           NEW r \in {Unused} \cup SessionCalls \cup ReportCalls,
           Goes(c, r)
    PROVE  /\ call' \in [Calls -> {Unused} \cup SessionCalls \cup ReportCalls]
           /\ call'[c] = r
           /\ \A d \in Calls \ {c} : call'[d] = call[d]
  BY DEF TypeOK, Goes

LEMMA LoginTypes ==
    ASSUME TypeOK, NEW c \in Calls, NEW u \in Users, Login(c, u)
    PROVE  TypeOK'
<1> DEFINE r == [step |-> "save", user |-> u, old |-> None, new |-> None,
                 claim |-> account[u]]
<1>1. r \in SessionCalls
  BY DEF SessionCalls, TypeOK
<1>2. Goes(c, r)
  BY DEF Login
<1>3. QED  BY <1>1, <1>2, GoesTypes
           DEF TypeOK, Login, authVars, projectVars, tokenHistory

LEMMA ShortSteps ==
    /\ \A c \in Calls : call[c].step \in SessionSteps <=> Session(c)
    /\ \A c \in Calls : call[c].step \in ReportSteps <=> Report(c)
  BY DEF Session, Report, SessionSteps, ReportSteps

LEMMA RefreshTypes ==
    ASSUME TypeOK, NEW c \in Calls, NEW u \in Users, Refresh(c, u)
    PROVE  TypeOK'
<1> DEFINE r == [step |-> "get", user |-> u, old |-> browser[u].cookie,
                 new |-> None, claim |-> None]
<1>1. r \in SessionCalls
  BY DEF SessionCalls, TypeOK, Browsers
<1>2. Goes(c, r)
  BY DEF Refresh
<1>3. QED  BY <1>1, <1>2, GoesTypes
           DEF TypeOK, Refresh, authVars, projectVars, tokenHistory

LEMMA GetTokenTypes ==
    ASSUME TypeOK, NEW c \in Calls, GetToken(c), call[c].old \in Tokens
    PROVE  TypeOK'
<1> DEFINE t == call[c].old
           r == [call[c] EXCEPT !.step = "delete", !.user = stored[t]]
<1>1. call[c] \in SessionCalls /\ stored[t] \in Users
  BY CallTypes DEF GetToken, Session, TypeOK
<1>2. r \in SessionCalls
  BY <1>1, SessionTypes DEF SessionSteps
<1>3. Goes(c, r)
  BY DEF GetToken
<1>4. shared' \in {shared, shared \cup {t}}
  BY DEF GetToken
<1>5. QED  BY <1>2, <1>3, <1>4, GoesTypes
           DEF TypeOK, GetToken, authVars, projectVars

\* Steps that change nothing but their call, and those that drop a token.
LEMMA TokenStepTypes ==
    ASSUME TypeOK, NEW c \in Calls,
           call[c].old \in Tokens \cup {None},
           \/ TokenUnknown(c)
           \/ DeleteToken(c) /\ call[c].old \in Tokens
           \/ DeleteFails(c) /\ call[c].old \in Tokens
           \/ FindUser(c)
           \/ SessionFails(c)
    PROVE  TypeOK'
<1>1. Unused \in {Unused} \cup SessionCalls \cup ReportCalls
  OBVIOUS
<1>2. CASE TokenUnknown(c)
  BY <1>1, <1>2, GoesTypes
     DEF TypeOK, TokenUnknown, authVars, projectVars, tokenHistory
<1>3. CASE DeleteToken(c) /\ call[c].old \in Tokens
  <2>1. call[c] \in SessionCalls
    BY <1>3, CallTypes DEF DeleteToken, Session
  <2>2. [call[c] EXCEPT !.step = "find"] \in SessionCalls
    BY <2>1, SessionTypes DEF SessionSteps
  <2>3. stored' \in [Tokens -> Users \cup {None}]
    BY <1>3 DEF TypeOK, DeleteToken
  <2>4. QED  BY <1>3, <2>2, <2>3, GoesTypes
             DEF TypeOK, DeleteToken, projectVars, tokenHistory
<1>4. CASE DeleteFails(c) /\ call[c].old \in Tokens
  <2>1. call[c] \in SessionCalls
    BY <1>4, CallTypes DEF DeleteFails, Session
  <2>2. [call[c] EXCEPT !.step = "find"] \in SessionCalls
    BY <2>1, SessionTypes DEF SessionSteps
  <2>3. QED  BY <1>4, <2>2, GoesTypes
             DEF TypeOK, DeleteFails, authVars, projectVars
<1>5. CASE FindUser(c)
  <2>1. call[c] \in SessionCalls
    BY <1>5, CallTypes DEF FindUser, Session
  <2>2. account[call[c].user] \in Roles
    BY <2>1 DEF TypeOK, SessionCalls
  <2>3. [call[c] EXCEPT !.step = "save", !.claim = account[call[c].user]]
           \in SessionCalls
    BY <2>1, <2>2, SessionTypes DEF SessionSteps
  <2>4. QED  BY <1>5, <2>3, GoesTypes
             DEF TypeOK, FindUser, authVars, projectVars, tokenHistory
<1>6. CASE SessionFails(c)
  <2>1. lost' \subseteq Tokens
    BY <1>6 DEF TypeOK, SessionFails
  <2>2. QED  BY <1>1, <1>6, <2>1, GoesTypes
             DEF TypeOK, SessionFails, authVars, projectVars, tokenHistory
<1>7. QED  BY <1>2, <1>3, <1>4, <1>5, <1>6

LEMMA SaveTokenTypes ==
    ASSUME TypeOK, NEW c \in Calls, NEW t \in Tokens, SaveToken(c, t)
    PROVE  TypeOK'
<1>1. call[c] \in SessionCalls
  BY CallTypes DEF SaveToken, Session
<1>2. call[c].user \in Users /\ call[c].old \in Tokens \cup {None}
  BY <1>1 DEF SessionCalls
<1>3. [call[c] EXCEPT !.step = "answer", !.new = t] \in SessionCalls
  BY <1>1, SessionTypes DEF SessionSteps
<1>4. traded' \in [Tokens -> {0, 1, 2}]
  BY <1>2 DEF TypeOK, SaveToken, Traded
<1>5. stored' \in [Tokens -> Users \cup {None}] /\ issued' \subseteq Tokens
  BY <1>2 DEF TypeOK, SaveToken
<1>6. QED  BY <1>3, <1>4, <1>5, GoesTypes DEF TypeOK, SaveToken, projectVars

LEMMA AnswerTypes ==
    ASSUME TypeOK, NEW c \in Calls, Answer(c)
    PROVE  TypeOK'
<1>1. call[c] \in SessionCalls
  BY CallTypes DEF Answer, Answered, Session
<1>2. [cookie |-> call[c].new, claim |-> call[c].claim] \in Browsers
  BY <1>1 DEF SessionCalls, Browsers
<1>3. browser' \in [Users -> Browsers]
  BY <1>2 DEF TypeOK, Answer, Answered
<1>4. Unused \in {Unused} \cup SessionCalls \cup ReportCalls
  OBVIOUS
<1>5. QED  BY <1>3, <1>4, GoesTypes
           DEF TypeOK, Answer, Answered, authVars, projectVars, tokenHistory

\* What happens outside every request.
LEMMA WorldTypes ==
    ASSUME TypeOK, NEW u \in Users,
           \/ Expire(u)
           \/ \E t \in Tokens : ForgetToken(t)
           \/ \E r \in Roles : UpdateRole(u, r)
           \/ \E ps \in SUBSET Projects, d \in Departments \cup {None} :
                 Move(u, ps, d)
    PROVE  TypeOK'
<1>1. CASE Expire(u)
  BY <1>1 DEF TypeOK, Expire, SignedOut, Browsers, authVars, projectVars,
              tokenHistory
<1>2. CASE \E t \in Tokens : ForgetToken(t)
  BY <1>2 DEF TypeOK, ForgetToken, projectVars, tokenHistory
<1>3. CASE \E r \in Roles : UpdateRole(u, r)
  BY <1>3 DEF TypeOK, UpdateRole, projectVars, tokenHistory
<1>4. ASSUME NEW ps \in SUBSET Projects, NEW d \in Departments \cup {None},
             Move(u, ps, d)
      PROVE  TypeOK'
  <2>1. seen' \in [Calls -> SUBSET (Projects \cup Departments \cup {None})]
    BY <1>4 DEF TypeOK, Move
  <2>2. QED  BY <1>4, <2>1 DEF TypeOK, Move, authVars, tokenHistory
<1>5. QED  BY <1>1, <1>2, <1>3, <1>4

LEMMA ReportStepTypes ==
    ASSUME TypeOK, NEW c \in Calls,
           \/ ReadDepartment(c) \/ ReadProjects(c) \/ NothingInScope(c)
           \/ QueryAnalytics(c) \/ EndReport(c)
           \/ \E u \in Users, p \in Projects \cup {None},
                 d \in Departments \cup {None} : AskReport(c, u, p, d)
    PROVE  TypeOK'
<1>1. Unused \in {Unused} \cup SessionCalls \cup ReportCalls
  OBVIOUS
<1>2. ASSUME NEW r \in {Unused} \cup SessionCalls \cup ReportCalls,
             Goes(c, r),
             \/ UNCHANGED seen
             \/ \E s \in SUBSET (Projects \cup Departments \cup {None}) :
                   seen' = [seen EXCEPT ![c] = s],
             UNCHANGED <<authVars, browser, projectVars, was, tokenHistory,
                         lost>>
      PROVE  TypeOK'
  BY <1>2, GoesTypes DEF TypeOK, authVars, projectVars, tokenHistory
<1>3. CASE ReadDepartment(c)
  <2>1. call[c] \in ReportCalls
    BY <1>3, CallTypes DEF ReadDepartment, Report
  <2>2. belongs[call[c].user] \in Departments \cup {None}
          /\ call[c].department \in Departments \cup {None}
    BY <2>1 DEF TypeOK, ReportCalls
  <2>3. \E r \in ReportCalls : Goes(c, r)
    BY <1>3, <2>1, <2>2, ReportTypes DEF ReadDepartment, ReportSteps
  <2>4. QED  BY <1>2, <1>3, <2>3 DEF ReadDepartment
<1>4. CASE ReadProjects(c)
  <2>1. call[c] \in ReportCalls
    BY <1>4, CallTypes DEF ReadProjects, Report
  <2>2. Listed(call[c].user, call[c].claim) \in SUBSET Projects
    BY <2>1 DEF TypeOK, ReportCalls, Listed
  <2>3. \E r \in ReportCalls : Goes(c, r)
    BY <1>4, <2>1, <2>2, ReportTypes DEF ReadProjects, ReportSteps
  <2>4. QED  BY <1>2, <1>4, <2>3 DEF ReadProjects
<1>5. CASE NothingInScope(c)
  BY <1>1, <1>2, <1>5 DEF NothingInScope
<1>6. CASE QueryAnalytics(c)
  <2>1. call[c] \in ReportCalls
    BY <1>6, CallTypes DEF QueryAnalytics, Report
  <2>2. Covered(call[c].asked, call[c].projects) \in SUBSET Projects
    BY <2>1 DEF ReportCalls, Covered
  <2>3. \E r \in ReportCalls : Goes(c, r)
    BY <1>6, <2>1, <2>2, ReportTypes DEF QueryAnalytics, ReportSteps
  <2>4. QED  BY <1>2, <1>6, <2>3 DEF QueryAnalytics
<1>7. CASE EndReport(c)
  BY <1>1, <1>2, <1>7 DEF EndReport
<1>8. ASSUME NEW u \in Users, NEW p \in Projects \cup {None},
             NEW d \in Departments \cup {None}, AskReport(c, u, p, d)
      PROVE  TypeOK'
  <2> DEFINE role == browser[u].claim
             r == [step |-> CASE role = "department_manager" -> "user"
                              [] role = "director" -> "query"
                              [] OTHER -> "list",
                   user |-> u, claim |-> role, asked |-> p, projects |-> {},
                   department |-> d]
  <2>1. role \in Roles
    BY <1>8 DEF AskReport, TypeOK, Browsers
  <2>2. r \in ReportCalls
    BY <2>1 DEF ReportCalls
  <2>3. Places(u) \in SUBSET (Projects \cup Departments \cup {None})
    BY DEF TypeOK, Places
  <2>4. Goes(c, r)
    BY <1>8 DEF AskReport, Asked
  <2>5. QED  BY <1>2, <1>8, <2>2, <2>3, <2>4 DEF AskReport, Asked
<1>9. QED  BY <1>3, <1>4, <1>5, <1>6, <1>7, <1>8

-----------------------------------------------------------------------------
(* What a step leaves alone. *)

\* Reports, and the changes they follow, touch no session.
LEMMA SessionsUntouched ==
    ASSUME IInv,
           UNCHANGED <<stored, issued, tokenHistory, lost>>,
           \A u \in Users : browser'[u].cookie = browser[u].cookie,
           \A d \in Calls : call'[d] = call[d] \/ (~Session(d) /\ ~Session(d)')
    PROVE  OwnerInv' /\ AnswerInv' /\ SessionsSurvive' /\ TradeInv'
<1>1. \A d \in Calls : Session(d) <=> Session(d)'
  BY DEF Session
<1>2. \A u \in Users, t \in Tokens : Holds(u, t)' <=> Holds(u, t)
  BY <1>1 DEF Holds
<1>3. OwnerInv'
  BY <1>2 DEF IInv, OwnerInv
<1>4. \A d \in Calls : /\ call[d].step \in SessionSteps => call'[d] = call[d]
                       /\ call'[d].step \in SessionSteps => call'[d] = call[d]
  BY ShortSteps DEF Session, SessionSteps
<1>5. AnswerInv'
  BY <1>1, <1>4 DEF IInv, AnswerInv, AnswerOK, SessionSteps
<1>6. \A u \in Users : Renewing(u) => Renewing(u)'
  BY <1>4 DEF Renewing, SessionSteps
<1>7. SessionsSurvive'
  BY <1>6 DEF IInv, SessionsSurvive
<1>8. \A d \in Calls, t \in Tokens :
         /\ Trading(d, t)' <=> Trading(d, t)
         /\ Trading(d, t) => call'[d] = call[d]
  BY <1>4 DEF Trading, SessionSteps
<1>9. \A t \in Tokens : TradeOK(t) => TradeOK(t)'
  BY <1>8 DEF TradeOK, tokenHistory
<1>10. TradeInv'
  BY <1>9 DEF IInv, TradeInv, tokenHistory
<1>11. QED  BY <1>3, <1>5, <1>7, <1>10

LEMMA ReportsUntouched ==
    ASSUME IInv,
           UNCHANGED <<member, belongs, seen>>,
           \A d \in Calls : call'[d] = call[d] \/ ~Report(d)'
    PROVE  ReportInv'
<1>1. \A d \in Calls : ReportOK(d)
  BY DEF IInv, ReportInv
<1>2. SUFFICES ASSUME NEW d \in Calls
               PROVE  ReportOK(d)'
  BY DEF ReportInv
<1>3. CASE call'[d] = call[d]
  BY <1>1, <1>3 DEF ReportOK, Report, Places
<1>4. CASE ~Report(d)'
  BY <1>4 DEF ReportOK, Report
<1>5. QED  BY <1>3, <1>4

\* A token changes hands only when it is issued.
LEMMA OwnersKept ==
    ASSUME IInv, issued' = issued,
           \A u \in Users, t \in Tokens : Holds(u, t)' => Holds(u, t)
    PROVE  OwnerInv'
  BY DEF IInv, OwnerInv

\* Nor does a step add to those who trade a token in.
LEMMA TradesKept ==
    ASSUME IInv, issued' = issued, traded' = traded,
           shared \subseteq shared', undeleted \subseteq undeleted',
           \A t \in Tokens : t \notin shared' \cup undeleted' =>
              /\ stored'[t] # None => stored[t] # None
              /\ \A d \in Calls : Trading(d, t)' =>
                    /\ Trading(d, t)
                    /\ stored'[t] # None /\ call[d].step = "delete" =>
                          call'[d].step = "delete"
    PROVE  TradeInv'
<1> SUFFICES ASSUME NEW t \in Tokens, t \notin shared' \cup undeleted'
             PROVE  TradeOK(t)' /\ traded'[t] # 2
  BY DEF IInv, TradeInv
<1>1. TradeOK(t) /\ traded[t] # 2
  BY DEF IInv, TradeInv
<1>2. QED  BY <1>1 DEF TradeOK

\* The fields of a session call that only takes a step.
LEMMA StepFields ==
    ASSUME TypeOK, NEW c \in Calls, Session(c), NEW s \in SessionSteps,
           Goes(c, [call[c] EXCEPT !.step = s])
    PROVE  /\ call'[c].step = s
           /\ call'[c].user = call[c].user
           /\ call'[c].old = call[c].old
           /\ call'[c].new = call[c].new
           /\ call'[c].claim = call[c].claim
           /\ \A d \in Calls \ {c} : call'[d] = call[d]
  BY CallTypes DEF TypeOK, Goes, SessionCalls

LEMMA EndFields ==
    ASSUME TypeOK, NEW c \in Calls, Goes(c, Unused)
    PROVE  /\ call'[c].step = "unused"
           /\ ~Session(c)' /\ ~Report(c)'
           /\ \A d \in Calls \ {c} : call'[d] = call[d]
  BY DEF TypeOK, Goes, Unused, Session, Report

-----------------------------------------------------------------------------
(* The steps of a session. *)

LEMMA LoginStep ==
    ASSUME IInv, NEW c \in Calls, NEW u \in Users, Login(c, u)
    PROVE  IInv'
<1>1. TypeOK /\ TypeOK'
  BY LoginTypes DEF IInv
<1>2. /\ call'[c] = [step |-> "save", user |-> u, old |-> None, new |-> None,
                    claim |-> account[u]]
      /\ \A d \in Calls \ {c} : call'[d] = call[d]
      /\ call[c].step = "unused" /\ ~Session(c) /\ ~Report(c)
  BY <1>1 DEF TypeOK, Login, Goes, Unused, Session, Report
<1>3. Session(c)' /\ ~Report(c)' /\ None \notin Tokens
  BY <1>2, GatewayAssumption DEF Session, Report
<1>4. OwnerInv'
  <2>1. \A v \in Users, t \in Tokens : Holds(v, t)' => Holds(v, t)
    BY <1>2, <1>3 DEF Login, authVars, Holds, Session
  <2>2. QED  BY <2>1, OwnersKept DEF Login, authVars
<1>5. CallInv'
  <2>1. account[u] \in was[u]
    BY DEF IInv, ClaimInv
  <2>2. QED  BY <1>2, <1>3, <2>1
             DEF IInv, CallInv, CallOK, Login, Session, Report
<1>6. AnswerInv'
  BY <1>1, <1>2, <1>3, CallTypes
     DEF IInv, AnswerInv, AnswerOK, Login, authVars, Session, SessionCalls,
         CallInv, CallOK
<1>7. SessionsSurvive'
  <2>1. \A v \in Users : Renewing(v) => Renewing(v)'
    BY <1>2 DEF Renewing, Login
  <2>2. QED  BY <2>1 DEF IInv, SessionsSurvive, Login, authVars
<1>8. TradeInv'
  <2>1. \A d \in Calls, t \in Tokens :
           Trading(d, t)' => Trading(d, t) /\ call'[d] = call[d]
    BY <1>2, <1>3 DEF Trading
  <2>2. QED  BY <2>1, TradesKept DEF Login, authVars, tokenHistory
<1>9. ClaimInv'
  BY DEF IInv, ClaimInv, Login, authVars
<1>10. ReportInv'
  BY <1>2, <1>3, ReportsUntouched DEF Login, projectVars
<1>11. QED
  BY <1>1, <1>4, <1>5, <1>6, <1>7, <1>8, <1>9, <1>10 DEF IInv

LEMMA RefreshStep ==
    ASSUME IInv, NEW c \in Calls, NEW u \in Users, Refresh(c, u)
    PROVE  IInv'
<1> DEFINE t == browser[u].cookie
<1>1. TypeOK /\ TypeOK'
  BY RefreshTypes DEF IInv
<1>2. /\ call'[c] = [step |-> "get", user |-> u, old |-> t, new |-> None,
                    claim |-> None]
      /\ \A d \in Calls \ {c} : call'[d] = call[d]
      /\ call[c].step = "unused" /\ ~Session(c) /\ ~Report(c)
  BY <1>1 DEF TypeOK, Refresh, Goes, Unused, Session, Report
<1>3. /\ Session(c)' /\ ~Report(c)' /\ None \notin Tokens
      /\ t \in Tokens
  BY <1>1, <1>2, GatewayAssumption
     DEF Session, Report, Refresh, TypeOK, Browsers
<1>4. OwnerInv'
  <2>1. \A v \in Users, s \in Tokens : Holds(v, s)' => Holds(v, s)
    BY <1>2, <1>3 DEF Refresh, authVars, Holds, Session
  <2>2. QED  BY <2>1, OwnersKept DEF Refresh, authVars
<1>5. CallInv'
  BY <1>2, <1>3 DEF IInv, CallInv, CallOK, Refresh, Session, Report
<1>6. AnswerInv'
  <2> SUFFICES ASSUME NEW d \in Calls, call'[d].step = "answer"
               PROVE  AnswerOK(d)'
    BY DEF AnswerInv, AnswerOK
  <2>1. call'[d] = call[d] /\ AnswerOK(d) /\ call[d].new # None
    BY <1>2, <1>1 DEF IInv, AnswerInv, CallInv, CallOK, Session
  <2>2. call[d].new # t
    BY <2>1 DEF AnswerOK
  <2>3. QED  BY <1>2, <1>3, <2>1, <2>2
             DEF AnswerOK, Refresh, authVars, Session
<1>7. SessionsSurvive'
  <2>1. \A v \in Users : Renewing(v) => Renewing(v)'
    BY <1>2 DEF Renewing, Refresh
  <2>2. QED  BY <2>1 DEF IInv, SessionsSurvive, Refresh, authVars
<1>8. TradeInv'
  <2>1. \A d \in Calls, s \in Tokens :
           Trading(d, s)' => Trading(d, s) /\ call'[d] = call[d]
    BY <1>2, <1>3 DEF Trading
  <2>2. QED  BY <2>1, TradesKept DEF Refresh, authVars, tokenHistory
<1>9. ClaimInv'
  BY DEF IInv, ClaimInv, Refresh, authVars
<1>10. ReportInv'
  BY <1>2, <1>3, ReportsUntouched DEF Refresh, projectVars
<1>11. QED
  BY <1>1, <1>4, <1>5, <1>6, <1>7, <1>8, <1>9, <1>10 DEF IInv

\* Call c goes on with the token it has, for its user, or as the owner.
LEMMA GetTokenStep ==
    ASSUME IInv, NEW c \in Calls, GetToken(c)
    PROVE  IInv'
<1> DEFINE t == call[c].old
<1>1. TypeOK /\ Session(c) /\ ~Report(c) /\ call[c] \in SessionCalls
        /\ t \in Tokens /\ stored[t] \in Users
  BY CallTypes DEF IInv, GetToken, Session, Report, CallInv, CallOK,
                   SessionCalls, TypeOK
<1>2. TypeOK'
  BY <1>1, GetTokenTypes
<1>3. call[c].user = stored[t]
  <2>1. Holds(call[c].user, t) /\ Holds(stored[t], t)
    BY <1>1 DEF Holds
  <2>2. call[c].user \in Users
    BY <1>1 DEF SessionCalls
  <2>3. QED  BY <1>1, <2>1, <2>2 DEF IInv, OwnerInv
<1>4. /\ call'[c].step = "delete" /\ call'[c].user = call[c].user
      /\ call'[c].old = t /\ call'[c].new = call[c].new
      /\ call'[c].claim = call[c].claim
      /\ \A d \in Calls \ {c} : call'[d] = call[d]
      /\ Session(c)' /\ ~Report(c)'
  BY <1>1, <1>3 DEF GetToken, Goes, TypeOK, SessionCalls, Session, Report
<1>5. OwnerInv'
  <2>1. \A v \in Users, s \in Tokens : Holds(v, s)' => Holds(v, s)
    BY <1>1, <1>4 DEF GetToken, authVars, Holds, Session
  <2>2. QED  BY <2>1, OwnersKept DEF GetToken, authVars
<1>6. CallInv'
  BY <1>1, <1>4 DEF IInv, CallInv, CallOK, GetToken, Session, Report
<1>7. AnswerInv'
  <2> SUFFICES ASSUME NEW d \in Calls, call'[d].step = "answer"
               PROVE  AnswerOK(d)'
    BY DEF AnswerInv, AnswerOK
  <2>1. call'[d] = call[d] /\ AnswerOK(d)
    BY <1>4 DEF IInv, AnswerInv
  <2>2. QED  BY <1>1, <1>4, <2>1 DEF AnswerOK, GetToken, authVars, Session
<1>8. SessionsSurvive'
  <2>1. \A v \in Users : Renewing(v) => Renewing(v)'
    BY <1>4 DEF Renewing, GetToken
  <2>2. QED  BY <2>1 DEF IInv, SessionsSurvive, GetToken, authVars
<1>9. TradeInv'
  <2> SUFFICES ASSUME NEW s \in Tokens, s \notin shared' \cup undeleted'
               PROVE  TradeOK(s)' /\ traded'[s] # 2
    BY DEF IInv, TradeInv, GetToken, authVars
  <2>1. TradeOK(s) /\ traded[s] # 2 /\ stored' = stored /\ traded' = traded
    BY DEF IInv, TradeInv, GetToken, authVars
  <2>2. CASE s # t
    <3>1. \A d \in Calls : Trading(d, s)' => /\ Trading(d, s)
                                              /\ call'[d] = call[d]
      <4>1. \A d \in Calls : Trading(d, s)' => d # c
        BY <1>4, <2>2 DEF Trading
      <4>2. QED  BY <1>4, <4>1 DEF Trading
    <3>2. QED  BY <2>1, <3>1 DEF TradeOK
  <2>3. CASE s = t
    <3>1. \A d \in Calls : ~Trading(d, t)
      BY <2>1, <2>3 DEF GetToken, TradeOK, Trading
    <3>2. \A d \in Calls : Trading(d, t)' => d = c
      BY <1>4, <3>1 DEF Trading
    <3>3. QED  BY <1>4, <2>1, <2>3, <3>2 DEF TradeOK, GetToken
  <2>4. QED  BY <2>2, <2>3
<1>10. ClaimInv'
  BY DEF IInv, ClaimInv, GetToken, authVars
<1>11. ReportInv'
  BY <1>4, ReportsUntouched DEF GetToken, projectVars
<1>12. QED
  BY <1>1, <1>2, <1>5, <1>6, <1>7, <1>8, <1>9, <1>10, <1>11 DEF IInv

\* A request that ends, or fails, before it has deleted its token or after.
LEMMA EndSession ==
    ASSUME IInv, NEW c \in Calls, TokenUnknown(c) \/ SessionFails(c)
    PROVE  IInv'
<1>1. TypeOK /\ Session(c) /\ Goes(c, Unused) /\ call[c] \in SessionCalls
  BY CallTypes
     DEF IInv, TokenUnknown, SessionFails, Session
<1>2. TypeOK'
  <2>1. call[c].old \in Tokens \cup {None}
    BY <1>1 DEF SessionCalls
  <2>2. QED  BY <1>1, <2>1, TokenStepTypes
<1>3. /\ call'[c].step = "unused" /\ ~Session(c)' /\ ~Report(c)'
      /\ \A d \in Calls \ {c} : call'[d] = call[d]
  BY <1>1, EndFields
<1>4. /\ UNCHANGED <<authVars, browser, projectVars, was, seen, tokenHistory>>
      /\ lost \subseteq lost'
      /\ call[c].step \in {"find", "save", "answer"} =>
            call[c].old \in lost' \cup {None}
  BY DEF TokenUnknown, SessionFails
<1>5. OwnerInv'
  <2>1. \A v \in Users, t \in Tokens : Holds(v, t)' => Holds(v, t)
    BY <1>3, <1>4 DEF authVars, Holds, Session
  <2>2. QED  BY <1>4, <2>1, OwnersKept DEF authVars
<1>6. CallInv'
  BY <1>3, <1>4 DEF IInv, CallInv, CallOK, Session, Report
<1>7. AnswerInv'
  <2> SUFFICES ASSUME NEW d \in Calls, call'[d].step = "answer"
               PROVE  AnswerOK(d)'
    BY DEF AnswerInv, AnswerOK
  <2>1. call'[d] = call[d] /\ AnswerOK(d)
    BY <1>3 DEF IInv, AnswerInv
  <2>2. \A e \in Calls : Session(e)' => Session(e) /\ call'[e] = call[e]
    BY <1>3 DEF Session
  <2>3. QED  BY <1>4, <2>1, <2>2 DEF AnswerOK, authVars
<1>8. SessionsSurvive'
  <2> SUFFICES ASSUME NEW u \in Users, browser[u].cookie \notin lost' \cup {None}
               PROVE  stored[browser[u].cookie] = u \/ Renewing(u)'
    BY <1>4 DEF SessionsSurvive, authVars
  <2>1. stored[browser[u].cookie] = u \/ Renewing(u)
    BY <1>4 DEF IInv, SessionsSurvive
  <2>2. ASSUME Renewing(u)
        PROVE  Renewing(u)'
    <3>1. PICK d \in Calls : /\ call[d].step \in {"find", "save", "answer"}
                             /\ call[d].user = u
                             /\ call[d].old = browser[u].cookie
      BY <2>2 DEF Renewing
    <3>2. d # c
      BY <1>4, <3>1
    <3>3. QED  BY <1>3, <1>4, <3>1, <3>2 DEF Renewing
  <2>3. QED  BY <2>1, <2>2
<1>9. TradeInv'
  <2>1. \A d \in Calls, t \in Tokens :
           Trading(d, t)' => Trading(d, t) /\ call'[d] = call[d]
    BY <1>3 DEF Trading
  <2>2. QED  BY <1>4, <2>1, TradesKept DEF authVars, tokenHistory
<1>10. ClaimInv'
  BY <1>4 DEF IInv, ClaimInv, authVars
<1>11. ReportInv'
  BY <1>3, <1>4, ReportsUntouched DEF projectVars
<1>12. QED
  BY <1>2, <1>5, <1>6, <1>7, <1>8, <1>9, <1>10, <1>11 DEF IInv

\* Whether or not the deletion succeeds, call c goes on to find its user.
LEMMA DeleteStep ==
    ASSUME IInv, NEW c \in Calls, DeleteToken(c) \/ DeleteFails(c)
    PROVE  IInv'
<1> DEFINE t == call[c].old
<1>1. TypeOK /\ Session(c) /\ ~Report(c) /\ call[c] \in SessionCalls
        /\ t \in Tokens /\ call[c].step = "delete" /\ call[c].user \in Users
        /\ None \notin Users
  BY CallTypes, GatewayAssumption
     DEF IInv, DeleteToken, DeleteFails, Session, Report, CallInv, CallOK,
         SessionCalls
<1>2. TypeOK'
  BY <1>1, TokenStepTypes
<1>3. /\ call'[c].step = "find" /\ call'[c].user = call[c].user
      /\ call'[c].old = t /\ call'[c].new = call[c].new
      /\ call'[c].claim = call[c].claim
      /\ \A d \in Calls \ {c} : call'[d] = call[d]
      /\ Session(c)' /\ ~Report(c)'
  BY <1>1, StepFields
     DEF DeleteToken, DeleteFails, SessionSteps, Session, Report
<1>4. /\ UNCHANGED <<account, issued, browser, projectVars, was, seen, traded,
                     shared, lost>>
      /\ undeleted \subseteq undeleted'
      /\ \/ stored' = [stored EXCEPT ![t] = None]
         \/ stored' = stored /\ t \in undeleted'
  <2>1. CASE DeleteToken(c)
    BY <2>1 DEF DeleteToken, tokenHistory
  <2>2. CASE DeleteFails(c)
    BY <2>2 DEF DeleteFails, authVars
  <2>3. QED  BY <2>1, <2>2
<1>5. \A s \in Tokens : /\ stored'[s] # None => stored'[s] = stored[s]
                        /\ s # t => stored'[s] = stored[s]
                        /\ s = t => s \in undeleted' \/ stored'[s] = None
  BY <1>1, <1>4 DEF TypeOK
<1>6. OwnerInv'
  <2>1. \A v \in Users, s \in Tokens : Holds(v, s)' => Holds(v, s)
    BY <1>1, <1>3, <1>4, <1>5 DEF Holds, Session
  <2>2. QED  BY <1>4, <2>1, OwnersKept
<1>7. CallInv'
  BY <1>1, <1>3, <1>4 DEF IInv, CallInv, CallOK, Session, Report
<1>8. AnswerInv'
  <2> SUFFICES ASSUME NEW d \in Calls, call'[d].step = "answer"
               PROVE  AnswerOK(d)'
    BY DEF AnswerInv, AnswerOK
  <2>1. call'[d] = call[d] /\ AnswerOK(d) /\ d # c
    BY <1>3 DEF IInv, AnswerInv
  <2>2. call[d].new \in Tokens
    BY <2>1, <1>1, <1>2, CallTypes, GatewayAssumption
       DEF IInv, CallInv, CallOK, Session, SessionCalls
  <2>3. call[d].new # t
    BY <1>1, <2>1 DEF AnswerOK
  <2>4. QED  BY <1>1, <1>3, <1>4, <1>5, <2>1, <2>2, <2>3 DEF AnswerOK, Session
<1>9. SessionsSurvive'
  <2> SUFFICES ASSUME NEW u \in Users, browser[u].cookie \notin lost \cup {None}
               PROVE  stored'[browser[u].cookie] = u \/ Renewing(u)'
    BY <1>4 DEF SessionsSurvive
  <2>1. stored[browser[u].cookie] = u \/ Renewing(u)
    BY DEF IInv, SessionsSurvive
  <2>2. Renewing(u) => Renewing(u)'
    BY <1>3, <1>4 DEF Renewing
  <2>3. ASSUME stored[browser[u].cookie] = u, browser[u].cookie = t
        PROVE  Renewing(u)'
    <3>1. Holds(u, t) /\ Holds(call[c].user, t)
      BY <1>1, <2>3 DEF Holds
    <3>2. call[c].user = u
      BY <1>1, <3>1 DEF IInv, OwnerInv
    <3>3. QED  BY <1>3, <1>4, <2>3, <3>2 DEF Renewing
  <2>4. browser[u].cookie \in Tokens
    BY <1>1 DEF TypeOK, Browsers
  <2>5. QED  BY <1>5, <2>1, <2>2, <2>3, <2>4
<1>10. TradeInv'
  <2>1. \A d \in Calls, s \in Tokens : Trading(d, s)' => Trading(d, s)
    BY <1>1, <1>3 DEF Trading
  <2>2. ASSUME NEW d \in Calls, NEW s \in Tokens, s \notin undeleted',
               Trading(d, s)', stored'[s] # None
        PROVE  call'[d] = call[d]
    <3>1. s # t
      BY <1>5, <2>2
    <3>2. d # c
      BY <1>3, <2>2, <3>1 DEF Trading
    <3>3. QED  BY <1>3, <3>2
  <2>3. QED  BY <1>4, <1>5, <2>1, <2>2, TradesKept
<1>11. ClaimInv'
  BY <1>4 DEF IInv, ClaimInv
<1>12. ReportInv'
  BY <1>3, <1>4, ReportsUntouched DEF projectVars
<1>13. QED
  BY <1>2, <1>6, <1>7, <1>8, <1>9, <1>10, <1>11, <1>12 DEF IInv

LEMMA FindUserStep ==
    ASSUME IInv, NEW c \in Calls, FindUser(c)
    PROVE  IInv'
<1>1. TypeOK /\ Session(c) /\ ~Report(c) /\ call[c] \in SessionCalls
        /\ call[c].step = "find" /\ call[c].user \in Users
        /\ call[c].old \in Tokens
  BY CallTypes DEF IInv, FindUser, Session, Report, SessionCalls, CallInv,
                   CallOK
<1>2. TypeOK'
  BY <1>1, TokenStepTypes
<1>3. /\ call'[c].step = "save" /\ call'[c].user = call[c].user
      /\ call'[c].old = call[c].old /\ call'[c].new = call[c].new
      /\ call'[c].claim = account[call[c].user]
      /\ \A d \in Calls \ {c} : call'[d] = call[d]
      /\ Session(c)' /\ ~Report(c)'
  BY <1>1 DEF FindUser, Goes, TypeOK, SessionCalls, Session, Report
<1>4. OwnerInv'
  <2>1. \A v \in Users, s \in Tokens : Holds(v, s)' => Holds(v, s)
    BY <1>1, <1>3 DEF FindUser, authVars, Holds, Session
  <2>2. QED  BY <2>1, OwnersKept DEF FindUser, authVars
<1>5. CallInv'
  <2>1. account[call[c].user] \in was[call[c].user]
    BY <1>1 DEF IInv, ClaimInv
  <2>2. QED  BY <1>1, <1>3, <2>1
             DEF IInv, CallInv, CallOK, FindUser, Session, Report
<1>6. AnswerInv'
  <2> SUFFICES ASSUME NEW d \in Calls, call'[d].step = "answer"
               PROVE  AnswerOK(d)'
    BY DEF AnswerInv, AnswerOK
  <2>1. call'[d] = call[d] /\ AnswerOK(d)
    BY <1>3 DEF IInv, AnswerInv
  <2>2. QED  BY <1>1, <1>3, <2>1 DEF AnswerOK, FindUser, authVars, Session
<1>7. SessionsSurvive'
  <2>1. \A v \in Users : Renewing(v) => Renewing(v)'
    BY <1>3 DEF Renewing, FindUser
  <2>2. QED  BY <2>1 DEF IInv, SessionsSurvive, FindUser, authVars
<1>8. TradeInv'
  <2>1. \A d \in Calls, s \in Tokens :
           Trading(d, s)' => /\ Trading(d, s)
                             /\ call[d].step = "delete" => call'[d] = call[d]
    BY <1>1, <1>3 DEF Trading
  <2>2. QED  BY <2>1, TradesKept DEF FindUser, authVars, tokenHistory
<1>9. ClaimInv'
  BY DEF IInv, ClaimInv, FindUser, authVars
<1>10. ReportInv'
  BY <1>3, ReportsUntouched DEF FindUser, projectVars
<1>11. QED
  BY <1>2, <1>4, <1>5, <1>6, <1>7, <1>8, <1>9, <1>10 DEF IInv

\* A fresh token is in nobody's hands.
LEMMA FreshToken ==
    ASSUME IInv, NEW t \in Tokens, t \notin issued
    PROVE  /\ stored[t] = None /\ traded[t] = 0
           /\ \A u \in Users : browser[u].cookie # t
           /\ \A d \in Calls : Session(d) => call[d].old # t /\ call[d].new # t
<1>1. \A u \in Users : ~Holds(u, t)
  BY DEF IInv, OwnerInv
<1>2. \A d \in Calls : Session(d) => call[d].user \in Users
  BY CallTypes DEF IInv, SessionCalls
<1>3. stored[t] \in Users \cup {None}
  BY DEF IInv, TypeOK
<1>4. QED  BY <1>1, <1>2, <1>3 DEF Holds, IInv, TradeInv

LEMMA SaveTokenStep ==
    ASSUME IInv, NEW c \in Calls, NEW t \in Tokens, SaveToken(c, t)
    PROVE  IInv'
<1> DEFINE old == call[c].old
<1>1. TypeOK /\ TypeOK' /\ Session(c) /\ ~Report(c) /\ call[c] \in SessionCalls
        /\ call[c].step = "save" /\ call[c].user \in Users
        /\ old \in Tokens \cup {None} /\ None \notin Tokens \cup Users
        /\ t \notin issued
  BY SaveTokenTypes, CallTypes, GatewayAssumption
     DEF IInv, SaveToken, Session, Report, SessionCalls
<1>2. /\ call'[c].step = "answer" /\ call'[c].user = call[c].user
      /\ call'[c].old = old /\ call'[c].new = t
      /\ call'[c].claim = call[c].claim
      /\ \A d \in Calls \ {c} : call'[d] = call[d]
      /\ Session(c)' /\ ~Report(c)'
  BY <1>1 DEF SaveToken, Goes, TypeOK, SessionCalls, Session, Report
<1>3. /\ stored[t] = None /\ traded[t] = 0
      /\ \A u \in Users : browser[u].cookie # t
      /\ \A d \in Calls : Session(d) => call[d].old # t /\ call[d].new # t
  BY <1>1, FreshToken
<1>4. /\ stored'[t] = call[c].user
      /\ \A s \in Tokens : s # t => stored'[s] = stored[s]
      /\ issued' = issued \cup {t}
      /\ \A s \in Tokens : s # old => traded'[s] = traded[s]
      /\ old \in Tokens /\ traded[old] = 0 => traded'[old] = 1
      /\ UNCHANGED <<account, browser, projectVars, was, seen, shared,
                     undeleted, lost>>
  BY <1>1 DEF SaveToken, TypeOK, Traded
<1>5. OwnerInv'
  <2>1. \A v \in Users, s \in Tokens : s # t /\ Holds(v, s)' => Holds(v, s)
    BY <1>1, <1>2, <1>4 DEF Holds, Session
  <2>2. \A v \in Users : Holds(v, t)' => v = call[c].user
    BY <1>1, <1>2, <1>3, <1>4 DEF Holds, Session
  <2>3. QED  BY <1>4, <2>1, <2>2 DEF IInv, OwnerInv
<1>6. CallInv'
  BY <1>1, <1>2, <1>4 DEF IInv, CallInv, CallOK, Session, Report
<1>7. AnswerInv'
  <2>1. AnswerOK(c)'
    BY <1>1, <1>2, <1>3, <1>4 DEF AnswerOK, Session
  <2>2. ASSUME NEW d \in Calls, d # c, call'[d].step = "answer"
        PROVE  AnswerOK(d)'
    <3>1. call'[d] = call[d] /\ AnswerOK(d) /\ Session(d)
      BY <1>2, <2>2 DEF IInv, AnswerInv, Session
    <3>2. call[d].new # t /\ call[d].new \in Tokens
      BY <1>3, <2>2, <3>1, CallTypes
         DEF IInv, CallInv, CallOK, SessionCalls
    <3>3. QED  BY <1>1, <1>2, <1>4, <2>2, <3>1, <3>2 DEF AnswerOK, Session
  <2>3. QED  BY <2>1, <2>2 DEF AnswerInv, AnswerOK
<1>8. SessionsSurvive'
  <2>1. \A v \in Users : Renewing(v) => Renewing(v)'
    BY <1>2, <1>4 DEF Renewing
  <2>2. \A v \in Users : browser[v].cookie \in Tokens \cup {None}
    BY <1>1 DEF TypeOK, Browsers
  <2>3. QED  BY <1>3, <1>4, <2>1, <2>2 DEF IInv, SessionsSurvive
<1>9. TradeInv'
  <2>1. ASSUME NEW s \in Tokens, s \notin issued'
        PROVE  traded'[s] = 0
    <3>1. s # old
      BY <1>1, <1>4, <2>1 DEF IInv, OwnerInv, Holds
    <3>2. QED  BY <1>4, <2>1, <3>1 DEF IInv, TradeInv
  <2>2. ASSUME NEW s \in Tokens, s \notin shared \cup undeleted
        PROVE  TradeOK(s)' /\ traded'[s] # 2
    <3>1. TradeOK(s) /\ traded[s] # 2
      BY <2>2 DEF IInv, TradeInv
    <3>2. \A d \in Calls : Trading(d, s)' =>
             d # c /\ Trading(d, s) /\ call'[d] = call[d]
      BY <1>2 DEF Trading
    <3>3. CASE s = t
      <4>1. s # old /\ \A d \in Calls : ~Trading(d, s)
        BY <1>1, <1>3, <3>3 DEF Trading, Session
      <4>2. QED  BY <1>3, <1>4, <3>1, <3>2, <3>3, <4>1 DEF TradeOK
    <3>4. CASE s = old
      <4>1. Trading(c, s)
        BY <1>1, <3>4 DEF Trading
      <4>2. traded[s] = 0 /\ stored[s] = None /\ s # t
        BY <1>1, <1>3, <3>1, <3>4, <4>1 DEF TradeOK
      <4>3. \A d \in Calls : ~Trading(d, s)'
        BY <3>1, <3>2, <4>1 DEF TradeOK
      <4>4. traded'[s] = 1 /\ stored'[s] = None
        BY <1>4, <3>4, <4>2
      <4>5. QED  BY <4>3, <4>4 DEF TradeOK
    <3>5. CASE s # t /\ s # old
      BY <1>4, <3>1, <3>2, <3>5 DEF TradeOK
    <3>6. QED  BY <3>3, <3>4, <3>5
  <2>3. QED  BY <1>4, <2>1, <2>2 DEF TradeInv
<1>10. ClaimInv'
  BY <1>4 DEF IInv, ClaimInv
<1>11. ReportInv'
  BY <1>2, <1>4, ReportsUntouched DEF projectVars
<1>12. QED
  BY <1>1, <1>5, <1>6, <1>7, <1>8, <1>9, <1>10, <1>11 DEF IInv

\* The answer brings the browser a token it can trade in.
LEMMA AnswerStep ==
    ASSUME IInv, NEW c \in Calls, Answer(c)
    PROVE  IInv'
<1> DEFINE t == call[c].new
           u == call[c].user
<1>1. TypeOK /\ TypeOK' /\ Session(c) /\ ~Report(c) /\ call[c] \in SessionCalls
        /\ call[c].step = "answer" /\ u \in Users /\ t \in Tokens
        /\ Goes(c, Unused)
  BY AnswerTypes, CallTypes
     DEF IInv, Answer, Answered, Session, Report, SessionCalls, CallInv, CallOK
<1>2. /\ call'[c].step = "unused" /\ ~Session(c)' /\ ~Report(c)'
      /\ \A d \in Calls \ {c} : call'[d] = call[d]
  BY <1>1, EndFields
<1>3. /\ browser'[u].cookie = t /\ browser'[u].claim = call[c].claim
      /\ \A v \in Users \ {u} : browser'[v] = browser[v]
      /\ UNCHANGED <<authVars, projectVars, was, seen, tokenHistory, lost>>
  BY <1>1 DEF TypeOK, Answer, Answered
<1>4. OwnerInv'
  <2>1. Holds(u, t)
    BY <1>1 DEF Holds
  <2>2. \A v \in Users, s \in Tokens : Holds(v, s)' => Holds(v, s)
    BY <1>1, <1>2, <1>3, <2>1 DEF Holds, authVars, Session
  <2>3. QED  BY <1>3, <2>2, OwnersKept DEF authVars
<1>5. CallInv'
  BY <1>2, <1>3 DEF IInv, CallInv, CallOK, Session, Report
<1>6. AnswerInv'
  <2> SUFFICES ASSUME NEW d \in Calls, call'[d].step = "answer"
               PROVE  AnswerOK(d)'
    BY DEF AnswerInv, AnswerOK
  <2>1. d # c /\ call'[d] = call[d] /\ AnswerOK(d)
    BY <1>2 DEF IInv, AnswerInv
  <2>2. call[d].new # t
    BY <1>1, <2>1 DEF AnswerOK
  <2>3. \A e \in Calls : Session(e)' => Session(e) /\ call'[e] = call[e]
    BY <1>2 DEF Session
  <2>4. QED  BY <1>3, <2>1, <2>2, <2>3 DEF AnswerOK, authVars
<1>7. SessionsSurvive'
  <2>1. t \in lost \/ stored[t] = u
    BY <1>1 DEF IInv, AnswerInv, AnswerOK
  <2>2. ASSUME NEW v \in Users, v # u, Renewing(v)
        PROVE  Renewing(v)'
    BY <1>2, <1>3, <2>2 DEF Renewing
  <2>3. QED  BY <1>3, <2>1, <2>2 DEF IInv, SessionsSurvive, authVars
<1>8. TradeInv'
  <2>1. \A d \in Calls, s \in Tokens :
           Trading(d, s)' => Trading(d, s) /\ call'[d] = call[d]
    BY <1>2 DEF Trading
  <2>2. QED  BY <1>3, <2>1, TradesKept DEF authVars, tokenHistory
<1>9. ClaimInv'
  <2>1. call[c].claim \in was[u]
    BY <1>1 DEF IInv, CallInv, CallOK
  <2>2. QED  BY <1>3, <2>1 DEF IInv, ClaimInv, authVars
<1>10. ReportInv'
  BY <1>2, <1>3, ReportsUntouched DEF projectVars
<1>11. QED
  BY <1>1, <1>4, <1>5, <1>6, <1>7, <1>8, <1>9, <1>10 DEF IInv

-----------------------------------------------------------------------------
(* The steps of a report. *)

\* All of them leave the sessions alone; what is left to see is call c.
LEMMA ReportStep ==
    ASSUME IInv, TypeOK', NEW c \in Calls, call[c] = Unused \/ Report(c),
           ~Session(c)', \A d \in Calls \ {c} : call'[d] = call[d],
           UNCHANGED <<authVars, browser, projectVars, was, tokenHistory,
                       lost>>,
           \A d \in Calls \ {c} : seen'[d] = seen[d],
           Report(c)' => call'[c].claim \in was[call'[c].user],
           ReportOK(c)'
    PROVE  IInv'
<1>1. ~Session(c)
  BY CallTypes DEF IInv
<1>2. OwnerInv' /\ AnswerInv' /\ SessionsSurvive' /\ TradeInv'
  <2>1. \A d \in Calls : call'[d] = call[d] \/ (~Session(d) /\ ~Session(d)')
    BY <1>1
  <2>2. QED  BY <2>1, SessionsUntouched DEF authVars
<1>3. CallInv'
  <2>1. CallOK(c)'
    BY <1>1 DEF CallOK, Session
  <2>2. \A d \in Calls \ {c} : CallOK(d)'
    BY DEF IInv, CallInv, CallOK, Session, Report
  <2>3. QED  BY <2>1, <2>2 DEF CallInv
<1>4. ClaimInv'
  BY DEF IInv, ClaimInv, authVars
<1>5. ReportInv'
  <2>1. \A d \in Calls \ {c} : ReportOK(d)'
    BY DEF IInv, ReportInv, ReportOK, Report, Places, projectVars
  <2>2. QED  BY <2>1 DEF ReportInv
<1>6. QED  BY <1>2, <1>3, <1>4, <1>5 DEF IInv

LEMMA AskReportStep ==
    ASSUME IInv, NEW c \in Calls, NEW u \in Users, NEW p \in Projects \cup {None},
           NEW d \in Departments \cup {None}, AskReport(c, u, p, d)
    PROVE  IInv'
<1> DEFINE role == browser[u].claim
           step == CASE role = "department_manager" -> "user"
                     [] role = "director" -> "query"
                     [] OTHER -> "list"
<1>1. TypeOK /\ TypeOK'
  BY ReportStepTypes DEF IInv
<1>2. /\ call[c] = Unused /\ role # None
      /\ call'[c] = [step |-> step, user |-> u, claim |-> role, asked |-> p,
                    projects |-> {}, department |-> d]
      /\ \A e \in Calls \ {c} : call'[e] = call[e]
      /\ seen'[c] = Places(u)
      /\ \A e \in Calls \ {c} : seen'[e] = seen[e]
      /\ UNCHANGED <<authVars, browser, projectVars, was, tokenHistory, lost>>
  BY <1>1 DEF AskReport, Asked, Goes, TypeOK
<1>3. /\ call'[c].step = step /\ call'[c].user = u /\ call'[c].claim = role
      /\ step \in ReportSteps
      /\ step = "query" => role = "director"
      /\ step = "list" => role # "department_manager"
      /\ step # "report"
  BY <1>2 DEF ReportSteps
<1>4. ~Session(c)'
  BY <1>3 DEF Session, ReportSteps
<1>5. call'[c].claim \in was[call'[c].user]
  BY <1>2, <1>3 DEF IInv, ClaimInv
<1>6. ReportOK(c)'
  BY <1>2, <1>3 DEF ReportOK, Report, Places, projectVars
<1>7. QED  BY <1>1, <1>2, <1>4, <1>5, <1>6, ReportStep

LEMMA ReadDepartmentStep ==
    ASSUME IInv, NEW c \in Calls, ReadDepartment(c)
    PROVE  IInv'
<1> DEFINE d == belongs[call[c].user]
           e == IF d = None THEN call[c].department ELSE d
<1>1. TypeOK /\ TypeOK' /\ Report(c) /\ call[c] \in ReportCalls
        /\ call[c].user \in Users /\ d \in Departments \cup {None}
        /\ e \in Departments \cup {None}
  BY CallTypes, ReportStepTypes
     DEF IInv, ReadDepartment, Report, ReportCalls, TypeOK
<1>2. /\ call'[c].step = "list" /\ call'[c].department = e
      /\ call'[c].user = call[c].user /\ call'[c].claim = call[c].claim
      /\ Report(c)' /\ ~Session(c)'
      /\ \A x \in Calls \ {c} : call'[x] = call[x]
  BY <1>1 DEF ReadDepartment, Goes, TypeOK, ReportCalls, Session, Report
<1>3. UNCHANGED <<authVars, browser, projectVars, was, seen, tokenHistory, lost>>
  BY DEF ReadDepartment
<1>4. call[c].claim \in was[call[c].user] /\ Places(call[c].user) \subseteq seen[c]
  BY <1>1 DEF IInv, CallInv, CallOK, ReportInv, ReportOK
<1>5. e \in seen[c] \/ None \in seen[c]
  BY <1>4 DEF Places
<1>6. ReportOK(c)'
  BY <1>2, <1>3, <1>4, <1>5 DEF ReportOK, Report, Places, projectVars
<1>7. QED  BY <1>1, <1>2, <1>3, <1>4, <1>6, ReportStep

LEMMA ReadProjectsStep ==
    ASSUME IInv, NEW c \in Calls, ReadProjects(c)
    PROVE  IInv'
<1> DEFINE list == Listed(call[c].user, call[c].claim)
<1>1. TypeOK /\ TypeOK' /\ Report(c) /\ call[c] \in ReportCalls
        /\ call[c].user \in Users /\ list \in SUBSET Projects
        /\ call[c].step = "list"
  BY CallTypes, ReportStepTypes
     DEF IInv, ReadProjects, Report, ReportCalls, TypeOK, Listed
<1>2. /\ call'[c].step = "query" /\ call'[c].projects = list
      /\ call'[c].department = call[c].department
      /\ call'[c].asked = call[c].asked
      /\ call'[c].user = call[c].user /\ call'[c].claim = call[c].claim
      /\ Report(c)' /\ ~Session(c)'
      /\ \A x \in Calls \ {c} : call'[x] = call[x]
  BY <1>1 DEF ReadProjects, Goes, TypeOK, ReportCalls, Session, Report
<1>3. UNCHANGED <<authVars, browser, projectVars, was, seen, tokenHistory, lost>>
        /\ InScope(list, call[c].asked)
  BY DEF ReadProjects
<1>4. call[c].claim \in was[call[c].user] /\ ReportOK(c)
  BY <1>1 DEF IInv, CallInv, CallOK, ReportInv
<1>5. call[c].claim \notin {"director", "admin"} => list \subseteq seen[c]
  BY <1>1, <1>4 DEF Listed, ReportOK, Places
<1>6. ReportOK(c)'
  BY <1>1, <1>2, <1>3, <1>4, <1>5
     DEF ReportOK, Report, Places, projectVars, InScope
<1>7. QED  BY <1>1, <1>2, <1>3, <1>4, <1>6, ReportStep

\* A project asked for is one of those listed, and if none was asked for the
\* filter is not empty.
LEMMA QueryAnalyticsStep ==
    ASSUME IInv, NEW c \in Calls, QueryAnalytics(c)
    PROVE  IInv'
<1> DEFINE ps == Covered(call[c].asked, call[c].projects)
<1>1. TypeOK /\ TypeOK' /\ Report(c) /\ call[c] \in ReportCalls
        /\ call[c].user \in Users /\ ps \in SUBSET Projects
        /\ call[c].step = "query"
  BY CallTypes, ReportStepTypes
     DEF IInv, QueryAnalytics, Report, ReportCalls, Covered
<1>2. /\ call'[c].step = "report" /\ call'[c].projects = ps
      /\ call'[c].department = call[c].department
      /\ call'[c].user = call[c].user /\ call'[c].claim = call[c].claim
      /\ Report(c)' /\ ~Session(c)'
      /\ \A x \in Calls \ {c} : call'[x] = call[x]
  BY <1>1 DEF QueryAnalytics, Goes, TypeOK, ReportCalls, Session, Report
<1>3. UNCHANGED <<authVars, browser, projectVars, was, seen, tokenHistory, lost>>
  BY DEF QueryAnalytics
<1>4. call[c].claim \in was[call[c].user] /\ ReportOK(c)
  BY <1>1 DEF IInv, CallInv, CallOK, ReportInv
<1>5. call[c].claim \notin {"director", "admin"} =>
         ps # {} /\ ps \subseteq seen[c]
  BY <1>1, <1>4 DEF ReportOK, Covered
<1>6. ReportOK(c)'
  BY <1>1, <1>2, <1>3, <1>4, <1>5 DEF ReportOK, Report, Places, projectVars
<1>7. QED  BY <1>1, <1>2, <1>3, <1>4, <1>6, ReportStep

LEMMA EndReportStep ==
    ASSUME IInv, NEW c \in Calls, NothingInScope(c) \/ EndReport(c)
    PROVE  IInv'
<1>1. TypeOK /\ TypeOK' /\ Report(c) /\ Goes(c, Unused)
  BY ReportStepTypes DEF IInv, NothingInScope, EndReport, Report
<1>2. /\ call'[c].step = "unused" /\ ~Session(c)' /\ ~Report(c)'
      /\ \A e \in Calls \ {c} : call'[e] = call[e]
  BY <1>1, EndFields
<1>3. /\ seen' = [seen EXCEPT ![c] = {}]
      /\ UNCHANGED <<authVars, browser, projectVars, was, tokenHistory, lost>>
  BY DEF NothingInScope, EndReport
<1>4. \A e \in Calls \ {c} : seen'[e] = seen[e]
  BY <1>1, <1>3 DEF TypeOK
<1>5. ReportOK(c)'
  BY <1>2 DEF ReportOK
<1>6. QED  BY <1>1, <1>2, <1>3, <1>4, <1>5, ReportStep

-----------------------------------------------------------------------------
(* What happens outside every request. *)

LEMMA ExpireStep ==
    ASSUME IInv, NEW u \in Users, Expire(u)
    PROVE  IInv'
<1>1. TypeOK /\ TypeOK' /\ None \notin Tokens
  BY WorldTypes, GatewayAssumption DEF IInv
<1>2. /\ browser'[u] = SignedOut
      /\ \A v \in Users \ {u} : browser'[v] = browser[v]
      /\ UNCHANGED <<authVars, projectVars, call, was, seen, tokenHistory,
                     lost>>
  BY <1>1 DEF TypeOK, Expire
<1>3. browser'[u].cookie = None /\ browser'[u].claim = None
  BY <1>2 DEF SignedOut
<1>4. OwnerInv'
  <2>1. \A v \in Users, t \in Tokens : Holds(v, t)' => Holds(v, t)
    BY <1>1, <1>2, <1>3 DEF Holds, Session, authVars
  <2>2. QED  BY <1>2, <2>1, OwnersKept DEF authVars
<1>5. CallInv'
  BY <1>2 DEF IInv, CallInv, CallOK, Session, Report
<1>6. AnswerInv'
  <2> SUFFICES ASSUME NEW d \in Calls, call'[d].step = "answer"
               PROVE  AnswerOK(d)'
    BY DEF AnswerInv, AnswerOK
  <2>1. AnswerOK(d) /\ call[d].new # None /\ call[d].step = "answer"
    BY <1>2 DEF IInv, AnswerInv, CallInv, CallOK, Session
  <2>2. QED  BY <1>2, <1>3, <2>1 DEF AnswerOK, authVars, Session
<1>7. SessionsSurvive'
  <2>1. \A v \in Users \ {u} : Renewing(v) => Renewing(v)'
    BY <1>2 DEF Renewing
  <2>2. QED  BY <1>2, <1>3, <2>1 DEF IInv, SessionsSurvive, authVars
<1>8. TradeInv'
  BY <1>2, TradesKept DEF Trading, authVars, tokenHistory
<1>9. ClaimInv'
  BY <1>2, <1>3 DEF IInv, ClaimInv, authVars
<1>10. ReportInv'
  BY <1>2, ReportsUntouched DEF projectVars
<1>11. QED
  BY <1>1, <1>4, <1>5, <1>6, <1>7, <1>8, <1>9, <1>10 DEF IInv

LEMMA ForgetTokenStep ==
    ASSUME IInv, NEW u \in Users, NEW t \in Tokens, ForgetToken(t)
    PROVE  IInv'
<1>1. TypeOK /\ TypeOK' /\ None \notin Users \cup Tokens
  BY WorldTypes, GatewayAssumption DEF IInv
<1>2. /\ stored'[t] = None
      /\ \A s \in Tokens \ {t} : stored'[s] = stored[s]
      /\ lost' = lost \cup {t}
      /\ UNCHANGED <<account, issued, browser, projectVars, call, was, seen,
                     tokenHistory>>
  BY <1>1 DEF TypeOK, ForgetToken
<1>3. OwnerInv'
  <2>1. \A v \in Users, s \in Tokens : Holds(v, s)' => Holds(v, s)
    BY <1>1, <1>2 DEF Holds, Session
  <2>2. QED  BY <1>2, <2>1, OwnersKept
<1>4. CallInv'
  BY <1>2 DEF IInv, CallInv, CallOK, Session, Report
<1>5. AnswerInv'
  <2> SUFFICES ASSUME NEW d \in Calls, call'[d].step = "answer"
               PROVE  AnswerOK(d)'
    BY DEF AnswerInv, AnswerOK
  <2>1. AnswerOK(d) /\ call[d].step = "answer" /\ call[d].new # None
    BY <1>2 DEF IInv, AnswerInv, CallInv, CallOK, Session
  <2>2. call[d].new \in Tokens
    BY <1>1, <2>1, CallTypes DEF Session, SessionCalls
  <2>3. QED  BY <1>2, <2>1, <2>2 DEF AnswerOK, Session
<1>6. SessionsSurvive'
  <2>1. \A v \in Users : Renewing(v) => Renewing(v)'
    BY <1>2 DEF Renewing
  <2>2. \A v \in Users : browser[v].cookie \in Tokens \cup {None}
    BY <1>1 DEF TypeOK, Browsers
  <2>3. QED  BY <1>2, <2>1, <2>2 DEF IInv, SessionsSurvive
<1>7. TradeInv'
  <2>1. \A s \in Tokens : stored'[s] # None => stored[s] # None
    BY <1>2
  <2>2. QED  BY <1>2, <2>1, TradesKept DEF Trading, tokenHistory
<1>8. ClaimInv'
  BY <1>2 DEF IInv, ClaimInv
<1>9. ReportInv'
  BY <1>2, ReportsUntouched DEF projectVars
<1>10. QED
  BY <1>1, <1>3, <1>4, <1>5, <1>6, <1>7, <1>8, <1>9 DEF IInv

LEMMA UpdateRoleStep ==
    ASSUME IInv, NEW u \in Users, NEW r \in Roles, UpdateRole(u, r)
    PROVE  IInv'
<1>1. TypeOK /\ TypeOK'
  BY WorldTypes DEF IInv
<1>2. /\ account'[u] = r /\ r \in was'[u]
      /\ \A v \in Users : was[v] \subseteq was'[v]
      /\ \A v \in Users \ {u} : account'[v] = account[v]
      /\ UNCHANGED <<stored, issued, browser, projectVars, call, seen,
                     tokenHistory, lost>>
  BY <1>1 DEF TypeOK, UpdateRole
<1>3. OwnerInv' /\ AnswerInv' /\ SessionsSurvive' /\ TradeInv'
  BY <1>2, SessionsUntouched
<1>4. CallInv'
  <2>1. \A d \in Calls : Session(d) \/ Report(d) => call[d].user \in Users
    BY <1>1, CallTypes DEF SessionCalls, ReportCalls
  <2>2. ASSUME NEW d \in Calls
        PROVE  CallOK(d)'
    <3>1. CallOK(d)
      BY DEF IInv, CallInv
    <3>2. QED  BY <1>2, <2>1, <3>1 DEF CallOK, Session, Report
  <2>3. QED  BY <2>2 DEF CallInv
<1>5. ClaimInv'
  BY <1>2 DEF IInv, ClaimInv
<1>6. ReportInv'
  BY <1>2, ReportsUntouched DEF projectVars
<1>7. QED  BY <1>1, <1>3, <1>4, <1>5, <1>6 DEF IInv

LEMMA MoveStep ==
    ASSUME IInv, NEW u \in Users, NEW ps \in SUBSET Projects,
           NEW d \in Departments \cup {None}, Move(u, ps, d)
    PROVE  IInv'
<1>1. TypeOK /\ TypeOK'
  BY WorldTypes DEF IInv
<1>2. /\ member'[u] = ps /\ belongs'[u] = d
      /\ \A v \in Users \ {u} : member'[v] = member[v] /\ belongs'[v] = belongs[v]
      /\ \A c \in Calls : seen'[c] = IF Report(c) /\ call[c].user = u
                                     THEN seen[c] \cup ps \cup {d}
                                     ELSE seen[c]
      /\ UNCHANGED <<authVars, browser, call, was, tokenHistory, lost>>
  BY <1>1 DEF TypeOK, Move
<1>3. OwnerInv' /\ AnswerInv' /\ SessionsSurvive' /\ TradeInv'
  BY <1>2, SessionsUntouched DEF authVars
<1>4. CallInv'
  BY <1>2 DEF IInv, CallInv, CallOK, Session, Report
<1>5. ClaimInv'
  BY <1>2 DEF IInv, ClaimInv, authVars
<1>6. ReportInv'
  <2> SUFFICES ASSUME NEW c \in Calls
               PROVE  ReportOK(c)'
    BY DEF ReportInv
  <2>1. ReportOK(c) /\ seen[c] \subseteq seen'[c]
    BY <1>2 DEF IInv, ReportInv
  <2>2. Report(c) => Places(call[c].user)' \subseteq seen'[c]
    <3> SUFFICES ASSUME Report(c)
                 PROVE  Places(call[c].user)' \subseteq seen'[c]
      OBVIOUS
    <3>1. call[c].user \in Users /\ Places(call[c].user) \subseteq seen[c]
      BY <1>1, <2>1, CallTypes DEF ReportCalls, ReportOK
    <3>2. CASE call[c].user = u
      BY <1>2, <3>2 DEF Places
    <3>3. CASE call[c].user # u
      BY <1>2, <2>1, <3>1, <3>3 DEF Places
    <3>4. QED  BY <3>2, <3>3
  <2>3. call' = call
    BY <1>2
  <2>4. QED  BY <2>1, <2>2, <2>3 DEF ReportOK, Report
<1>7. QED  BY <1>1, <1>3, <1>4, <1>5, <1>6 DEF IInv

-----------------------------------------------------------------------------
(* The invariant. *)

LEMMA InitIInv == Init => IInv
<1> SUFFICES ASSUME Init PROVE IInv
  OBVIOUS
<1>1. /\ \A c \in Calls : call[c].step = "unused" /\ ~Session(c) /\ ~Report(c)
      /\ \A u \in Users : browser[u].cookie = None /\ browser[u].claim = None
      /\ \A t \in Tokens : stored[t] = None /\ traded[t] = 0
      /\ None \notin Users \cup Tokens
  BY GatewayAssumption DEF Init, Unused, Session, Report, SignedOut
<1>2. TypeOK
  BY DEF Init, TypeOK, SignedOut, Browsers
<1>3. OwnerInv
  BY <1>1 DEF OwnerInv, Holds
<1>4. CallInv /\ AnswerInv /\ ReportInv
  BY <1>1 DEF CallInv, CallOK, AnswerInv, AnswerOK, ReportInv, ReportOK
<1>5. SessionsSurvive
  BY <1>1 DEF SessionsSurvive
<1>6. TradeInv
  BY <1>1 DEF TradeInv, TradeOK, Trading
<1>7. ClaimInv
  BY <1>1 DEF Init, ClaimInv
<1>8. QED  BY <1>2, <1>3, <1>4, <1>5, <1>6, <1>7 DEF IInv

LEMMA StutterIInv ==
    ASSUME IInv, UNCHANGED vars
    PROVE  IInv'
<1>1. UNCHANGED <<account, stored, issued, browser, member, belongs, call,
                  was, seen, traded, shared, undeleted, lost>>
  BY DEF vars, authVars, projectVars, tokenHistory
<1>2. TypeOK'
  BY <1>1 DEF IInv, TypeOK, SessionCalls, ReportCalls, Browsers
<1>3. OwnerInv' /\ AnswerInv' /\ SessionsSurvive' /\ TradeInv'
  BY <1>1, SessionsUntouched DEF tokenHistory
<1>4. CallInv'
  BY <1>1 DEF IInv, CallInv, CallOK, Session, Report
<1>5. ClaimInv'
  BY <1>1 DEF IInv, ClaimInv
<1>6. ReportInv'
  BY <1>1, ReportsUntouched
<1>7. QED  BY <1>2, <1>3, <1>4, <1>5, <1>6 DEF IInv

LEMMA NextIInv ==
    ASSUME IInv, [Next]_vars
    PROVE  IInv'
<1>1. CASE UNCHANGED vars
  BY <1>1, StutterIInv
<1>2. ASSUME NEW c \in Calls, NEW u \in Users, Login(c, u) \/ Refresh(c, u)
      PROVE  IInv'
  BY <1>2, LoginStep, RefreshStep
<1>3. ASSUME NEW c \in Calls,
             \/ GetToken(c) \/ TokenUnknown(c) \/ DeleteToken(c)
             \/ DeleteFails(c) \/ FindUser(c) \/ Answer(c) \/ SessionFails(c)
             \/ \E t \in Tokens : SaveToken(c, t)
      PROVE  IInv'
  BY <1>3, GetTokenStep, EndSession, DeleteStep, FindUserStep, AnswerStep,
     SaveTokenStep
<1>4. ASSUME NEW c \in Calls,
             \/ ReadDepartment(c) \/ ReadProjects(c) \/ NothingInScope(c)
             \/ QueryAnalytics(c) \/ EndReport(c)
             \/ \E u \in Users, p \in Projects \cup {None},
                   d \in Departments \cup {None} : AskReport(c, u, p, d)
      PROVE  IInv'
  BY <1>4, AskReportStep, ReadDepartmentStep, ReadProjectsStep, EndReportStep,
     QueryAnalyticsStep
<1>5. ASSUME NEW u \in Users, Expire(u) \/ \E r \in Roles : UpdateRole(u, r)
      PROVE  IInv'
  BY <1>5, ExpireStep, UpdateRoleStep
<1>6. ASSUME NEW t \in Tokens, ForgetToken(t)
      PROVE  IInv'
  <2>1. stored[t] \in Users
    BY <1>6 DEF ForgetToken, IInv, TypeOK
  <2>2. QED  BY <1>6, <2>1, ForgetTokenStep
<1>7. ASSUME NEW u \in Users, NEW ps \in SUBSET Projects,
             NEW d \in Departments \cup {None}, Move(u, ps, d)
      PROVE  IInv'
  BY <1>7, MoveStep
<1>8. \A u \in Users : /\ belongs[u] \in Departments \cup {None}
                       /\ member[u] \in SUBSET Projects
                       /\ \A p \in Projects :
                             /\ member[u] \cup {p} \in SUBSET Projects
                             /\ member[u] \ {p} \in SUBSET Projects
  BY DEF IInv, TypeOK
<1>9. QED  BY <1>1, <1>2, <1>3, <1>4, <1>5, <1>6, <1>7, <1>8 DEF Next

\* The inductive invariant holds in every state.
THEOREM GatewayInvariant == Spec => []IInv
  BY InitIInv, NextIInv, PTL DEF Spec

\* Every variable has its type, whatever the sizes of the sets.
THEOREM GatewayTypeCorrect == Spec => []TypeOK
<1>1. IInv => TypeOK
  BY DEF IInv
<1>2. QED  BY <1>1, GatewayInvariant, PTL

\* RefreshToken trades a token in once, unless two refreshes read it before
\* one of them deleted it or the deletion failed.
THEOREM TokensAreTradedInOnce == Spec => []TradedInOnce
<1>1. IInv => TradedInOnce
  BY DEF IInv, TradeInv, TradedInOnce
<1>2. QED  BY <1>1, GatewayInvariant, PTL

\* Overlapping logins and refreshes leave the browser a cookie that can be
\* traded in, whatever the order of their steps and answers.
THEOREM OverlapsSignNobodyOut == Spec => []SessionsSurvive
<1>1. IInv => SessionsSurvive
  BY DEF IInv
<1>2. QED  BY <1>1, GatewayInvariant, PTL

\* memberProjectScope lets through a project, or a department of a department
\* manager, only if it was the user's at some time since he asked.
THEOREM ReportsAreInScope == Spec => []ReportsStayInScope
<1>1. ASSUME IInv PROVE ReportsStayInScope
  BY <1>1 DEF IInv, CallInv, CallOK, ReportInv, ReportOK, Report,
              ReportsStayInScope
<1>2. QED  BY <1>1, GatewayInvariant, PTL
=============================================================================
