--------------------------- MODULE SessionsProofs ---------------------------
(***************************************************************************)
(* Theorems about Sessions, for any users, tabs, requests and number of    *)
(* rotations: what the tabs of a browser guarantee each other whatever the *)
(* interleaving of sign-ins, sign-outs, refreshes and answers.             *)
(***************************************************************************)
EXTENDS Sessions, TLAPS

\* A request names its tab.
LEMMA RequestTab == \A r \in Request : r[1] \in Tab
  BY SessionsAssumption

\* The bearer that ends a wait is a token or none.
LEMMA ResumedType ==
  ASSUME TypeOK, NEW t \in Tab, NEW bearer \in Token \cup {None}
  PROVE  Resumed(t, bearer) \in
           [Request -> [at : {"idle", "waiting", "sent"},
                        bearer : Token \cup {None}]]
  BY DEF TypeOK, Resumed, Sent, Waiting

-----------------------------------------------------------------------------
(* Types. *)

LEMMA TypeInit == Init => TypeOK
  BY SessionsAssumption DEF Init, TypeOK, NoRefresh, NoRequest

LEMMA TypeMoves ==
  ASSUME TypeOK, NEW t \in Tab,
         \/ \E u \in User : SignIn(t, u)
         \/ SignOut(t) \/ Navigate(t) \/ Reload(t)
  PROVE  TypeOK'
<1>1. CASE \E u \in User : SignIn(t, u)
  <2>1. PICK u \in User : SignIn(t, u)
    BY <1>1
  <2>2. [user |-> u, control |-> control[u]] \in Token
    BY DEF TypeOK, Token
  <2> QED BY <2>1, <2>2 DEF SignIn, TypeOK, Session
<1>2. CASE SignOut(t)
  BY <1>2 DEF SignOut, TypeOK
<1>3. CASE Navigate(t)
  BY <1>3 DEF Navigate, Guarded, TypeOK
<1>4. CASE Reload(t)
  BY <1>4 DEF Reload, Guarded, NoRefresh, NoRequest, TypeOK
<1> QED BY <1>1, <1>2, <1>3, <1>4

LEMMA TypeWorld ==
  ASSUME TypeOK, Expire \/ \E u \in User : Rotate(u)
  PROVE  TypeOK'
<1>1. CASE Expire
  <2>1. session \in Session
    BY <1>1 DEF Expire, RefreshUsable, TypeOK
  <2> QED BY <1>1, <2>1 DEF Expire, Session, TypeOK
<1>2. CASE \E u \in User : Rotate(u)
  BY <1>2, SessionsAssumption DEF Rotate, TypeOK
<1> QED BY <1>1, <1>2

LEMMA TypeAsk ==
  ASSUME TypeOK, NEW r \in Request,
         AskSigned(r) \/ AskBare(r) \/ AskRefreshed(r)
  PROVE  TypeOK'
<1>1. CASE AskSigned(r)
  BY <1>1 DEF AskSigned, Ask, AccessUsable, Session, Sent, TypeOK
<1>2. CASE AskBare(r)
  BY <1>2 DEF AskBare, Ask, Sent, TypeOK
<1>3. CASE AskRefreshed(r)
  <2>1. r[1] \in Tab /\ session.token \in Token
    BY <1>3, RequestTab DEF AskRefreshed, RefreshUsable, Session, TypeOK
  <2>2. Shared(r[1]) \in {NoRefresh} \cup [at : {"sent", "issued"}, token : Token]
    BY <2>1 DEF Shared, TypeOK
  <2> QED BY <1>3, <2>1, <2>2 DEF AskRefreshed, TypeOK
<1> QED BY <1>1, <1>2, <1>3

LEMMA TypeRefresh ==
  ASSUME TypeOK, NEW t \in Tab, Issue(t) \/ Renew(t) \/ GiveUp(t)
  PROVE  TypeOK'
<1>1. CASE Issue(t)
  <2>1. refresh[t] \in [at : {"sent", "issued"}, token : Token]
    BY <1>1 DEF Issue, OnTheWire, NoRefresh, TypeOK
  <2>2. [refresh[t] EXCEPT !.at = "issued"] \in
          [at : {"sent", "issued"}, token : Token]
    BY <2>1
  <2>3. refresh' = [refresh EXCEPT ![t] = [refresh[t] EXCEPT !.at = "issued"]]
    BY <1>1 DEF Issue
  <2> QED BY <1>1, <2>2, <2>3 DEF Issue, TypeOK
<1>2. CASE Renew(t)
  <2>1. refresh[t].token \in Token
    BY <1>2 DEF Renew, NoRefresh, TypeOK
  <2>2. session' \in Session \cup {None}
    BY <1>2, <2>1 DEF Renew, Updated, Session, TypeOK
  <2>3. (IF session' = None THEN None ELSE session'.token) \in Token \cup {None}
    BY <2>2 DEF Session
  <2>4. Resumed(t, IF session' = None THEN None ELSE session'.token) \in
          [Request -> [at : {"idle", "waiting", "sent"},
                       bearer : Token \cup {None}]]
    BY <2>3, ResumedType
  <2> QED BY <1>2, <2>2, <2>4 DEF Renew, TypeOK
<1>3. CASE GiveUp(t)
  BY <1>3, ResumedType DEF GiveUp, TypeOK
<1> QED BY <1>1, <1>2, <1>3

LEMMA TypeAnswer ==
  ASSUME TypeOK, NEW r \in Request, Answer(r)
  PROVE  TypeOK'
<1>1. CASE Answered(r)
  BY <1>1 DEF Answered, NoRequest, TypeOK
<1>2. CASE Forbidden(r)
  BY <1>2 DEF Forbidden, Guarded, NoRequest, TypeOK
<1>3. CASE Unauthorized(r)
  BY <1>3 DEF Unauthorized, NoRequest, TypeOK
<1> QED BY <1>1, <1>2, <1>3 DEF Answer

LEMMA TypeStep == TypeOK /\ [Next]_vars => TypeOK'
<1> SUFFICES ASSUME TypeOK, [Next]_vars PROVE TypeOK'
  OBVIOUS
<1>1. CASE Next
  BY <1>1, TypeMoves, TypeWorld, TypeAsk, TypeRefresh, TypeAnswer DEF Next
<1>2. CASE UNCHANGED vars
  BY <1>2 DEF vars, TypeOK
<1> QED BY <1>1, <1>2

\* Every reachable state is well typed; in particular a refresh in flight has
\* a token to present (client.ts: session?.refreshToken).
THEOREM TypeCorrect == Spec => []TypeOK
  BY TypeInit, TypeStep, PTL DEF Spec

-----------------------------------------------------------------------------
(* Waiting. *)

LEMMA WaitingInit == Init => NobodyWaitsForNothing
  BY DEF Init, NobodyWaitsForNothing, Waiting, NoRequest

LEMMA WaitingStep ==
  TypeOK /\ NobodyWaitsForNothing /\ [Next]_vars => NobodyWaitsForNothing'
<1> SUFFICES ASSUME TypeOK, NobodyWaitsForNothing, [Next]_vars,
                    NEW q \in Request, request'[q].at = "waiting"
             PROVE  refresh'[q[1]].at # "idle"
  BY DEF NobodyWaitsForNothing, Waiting
<1>1. q[1] \in Tab
  BY RequestTab
<1>2. request[q].at = "waiting" => refresh[q[1]].at # "idle"
  BY DEF NobodyWaitsForNothing, Waiting
<1>3. ASSUME UNCHANGED <<refresh, request>> PROVE refresh'[q[1]].at # "idle"
  BY <1>2, <1>3
<1>4. CASE \E t \in Tab : (\E u \in User : SignIn(t, u)) \/ SignOut(t) \/ Navigate(t)
  BY <1>3, <1>4 DEF SignIn, SignOut, Navigate
<1>5. CASE \E t \in Tab : Reload(t)
  <2>1. PICK t \in Tab : Reload(t)
    BY <1>5
  <2>2. q[1] # t
    BY <2>1 DEF Reload, NoRequest
  <2> QED BY <1>1, <1>2, <2>1, <2>2 DEF Reload, TypeOK
<1>6. CASE \E t \in Tab : Issue(t)
  BY <1>1, <1>2, <1>6 DEF Issue, TypeOK
<1>7. CASE \E t \in Tab : Renew(t) \/ GiveUp(t)
  <2>1. PICK t \in Tab : Renew(t) \/ GiveUp(t)
    BY <1>7
  <2>2. PICK bearer : request' = Resumed(t, bearer)
    BY <2>1 DEF Renew, GiveUp
  <2>3. q[1] # t /\ request[q].at = "waiting"
    BY <2>2 DEF Resumed, Waiting, Sent
  <2> QED BY <1>1, <1>2, <2>1, <2>3 DEF Renew, GiveUp, TypeOK
<1>8. CASE \E r \in Request : AskSigned(r) \/ AskBare(r)
  BY <1>2, <1>8 DEF AskSigned, AskBare, Sent, TypeOK
<1>9. CASE \E r \in Request : AskRefreshed(r)
  <2>1. PICK r \in Request : AskRefreshed(r)
    BY <1>9
  <2>2. Shared(r[1]).at # "idle"
    BY DEF Shared
  <2> QED BY <1>1, <1>2, <2>1, <2>2 DEF AskRefreshed, TypeOK
<1>10. CASE \E r \in Request : Answer(r)
  BY <1>2, <1>10 DEF Answer, Answered, Forbidden, Unauthorized, NoRequest, TypeOK
<1>11. CASE Expire \/ (\E u \in User : Rotate(u)) \/ UNCHANGED vars
  BY <1>3, <1>11 DEF Expire, Rotate, vars
<1> QED
  BY <1>4, <1>5, <1>6, <1>7, <1>8, <1>9, <1>10, <1>11 DEF Next

\* However the tabs interleave, a request that waits has a refresh to wait for.
THEOREM NobodyWaitsCorrect == Spec => []NobodyWaitsForNothing
  BY TypeCorrect, WaitingInit, WaitingStep, PTL DEF Spec

-----------------------------------------------------------------------------
(* The session. *)

LEMMA ComebackStep ==
  ASSUME [Next]_vars, session = None, session' # None
  PROVE  \E t \in Tab : \E u \in User : SignIn(t, u)
<1>1. ASSUME UNCHANGED session PROVE FALSE
  BY <1>1
<1>2. ~Expire
  BY DEF Expire, RefreshUsable
<1>3. \A u \in User : ~Rotate(u)
  BY <1>1 DEF Rotate
<1>4. \A t \in Tab : ~(SignOut(t) \/ Navigate(t) \/ Reload(t))
  BY <1>1 DEF SignOut, Navigate, Reload
<1>5. \A t \in Tab : ~(Issue(t) \/ Renew(t) \/ GiveUp(t))
  BY <1>1 DEF Issue, Renew, GiveUp, Updated
<1>6. \A r \in Request : ~(AskSigned(r) \/ AskBare(r) \/ AskRefreshed(r))
  BY <1>1 DEF AskSigned, AskBare, AskRefreshed
<1>7. \A r \in Request : ~Answer(r)
  BY <1>1 DEF Answer, Answered, Forbidden, Unauthorized
<1>8. ~UNCHANGED vars
  BY <1>1 DEF vars
<1> QED BY <1>2, <1>3, <1>4, <1>5, <1>6, <1>7, <1>8 DEF Next

\* A session that was ended comes back by a sign-in only, whatever refreshes
\* other tabs had in flight.
THEOREM NoComebackCorrect == Spec => NoComeback
  BY ComebackStep, PTL DEF Spec, NoComeback

LEMMA SentStep ==
  ASSUME TypeOK, [Next]_vars, NEW q \in Request,
         request[q].at # "sent", request'[q].at = "sent",
         request'[q].bearer # None
  PROVE  session' # None /\ session'.token = request'[q].bearer
<1>1. ASSUME UNCHANGED request PROVE FALSE
  BY <1>1
<1>2. CASE \E r \in Request : AskSigned(r)
  BY <1>2 DEF AskSigned, AccessUsable, Sent, TypeOK
<1>3. CASE \E r \in Request : AskBare(r) \/ AskRefreshed(r)
  BY <1>3 DEF AskBare, AskRefreshed, Sent, TypeOK
<1>4. CASE \E t \in Tab : Renew(t)
  BY <1>4 DEF Renew, Resumed, Sent
<1>5. CASE \E t \in Tab : GiveUp(t)
  BY <1>5 DEF GiveUp, Resumed, Sent
<1>6. CASE \E r \in Request : Answer(r)
  BY <1>6 DEF Answer, Answered, Forbidden, Unauthorized, NoRequest, TypeOK
<1>7. CASE \E t \in Tab : Reload(t)
  BY <1>7 DEF Reload, NoRequest
<1>8. CASE \E t \in Tab :
             \/ \E u \in User : SignIn(t, u)
             \/ SignOut(t) \/ Navigate(t) \/ Issue(t)
  BY <1>1, <1>8 DEF SignIn, SignOut, Navigate, Issue
<1>9. CASE Expire \/ (\E u \in User : Rotate(u)) \/ UNCHANGED vars
  BY <1>1, <1>9 DEF Expire, Rotate, vars
<1> QED
  BY <1>2, <1>3, <1>4, <1>5, <1>6, <1>7, <1>8, <1>9 DEF Next

\* No request goes out with the token of a session that has been ended or
\* replaced while the request waited.
THEOREM SentWithStoredSessionCorrect == Spec => SentWithStoredSession
<1>1. TypeOK /\ [Next]_vars =>
        (\A r \in Request :
           (request[r].at # "sent" /\ request'[r].at = "sent"
              /\ request'[r].bearer # None)
             => session' # None /\ session'.token = request'[r].bearer)
  BY SentStep
<1> QED BY <1>1, TypeCorrect, PTL DEF Spec, SentWithStoredSession
=============================================================================
