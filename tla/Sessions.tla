------------------------------ MODULE Sessions ------------------------------
(***************************************************************************)
(* The session of the single-page client: one copy in localStorage, shared *)
(* by the tabs of a browser (lib/auth/token-storage.ts); the requests of   *)
(* each tab, which carry its access token and wait for one refresh when it *)
(* has expired (api/client.ts); and the guard of the signed-in pages       *)
(* (lib/auth/require-session.ts).                                          *)
(*                                                                         *)
(* A tab runs one callback at a time, so what it does between two awaits   *)
(* is one step; between them the other tabs, the clock and the server act. *)
(***************************************************************************)
EXTENDS Naturals

CONSTANTS
  User,        \* who signs in from this browser
  Tab,         \* its tabs
  Request,     \* those that may be under way at once: <<tab, number>>
  Rotations,   \* how often a user's token_control changes
  None         \* null

Token == [user : User, control : 0..Rotations]
Session == [token : Token, life : {"access", "refresh", "over"}]

ASSUME SessionsAssumption ==
  /\ Rotations \in Nat
  /\ None \notin Token \cup Session
  /\ Request \subseteq Tab \X Nat

VARIABLES
  control,     \* the user's token_control, embedded in every token issued
  session,     \* the session stored, or None
  page,        \* a tab is on a signed-in page (app) or at the login
  refresh,     \* refreshInFlight of each tab, with the token it presented
  request      \* the requests of each tab, with the bearer they carry

vars == <<control, session, page, refresh, request>>

-----------------------------------------------------------------------------
(* A session is as good as its tokens: the access token usable, the refresh *)
(* token only, or neither.  An access and a refresh token issued together   *)
(* name the same user and control, and are one token here.                  *)

AccessUsable == session # None /\ session.life = "access"
RefreshUsable == session # None /\ session.life # "over"

\* The server accepts a token until the user's token_control has changed.
Honoured(token) == token # None /\ token.control = control[token.user]

\* requireSession: where a navigation to a signed-in page ends.
Guarded == IF AccessUsable \/ RefreshUsable THEN "app" ELSE "login"

\* updateSession: a refresh renews the session stored, and none is none.
Updated_Saves(token) == [token |-> token, life |-> "access"]
Updated(token) ==
  IF session = None THEN None ELSE [token |-> token, life |-> "access"]

NoRefresh == [at |-> "idle", token |-> None]
NoRequest == [at |-> "idle", bearer |-> None]
Sent(bearer) == [at |-> "sent", bearer |-> bearer]

\* The refresh shared by every request of the tab that finds the access token
\* expired: the one in flight, or a new one with the session's token.
Shared(t) ==
  IF refresh[t].at = "idle" THEN [at |-> "sent", token |-> session.token]
                            ELSE refresh[t]

\* requestTokenRefresh is a bare fetch: it waits for the network alone.
OnTheWire_ThroughMiddleware(t) ==
  refresh[t].at = "sent" /\ refresh[t] = NoRefresh
OnTheWire(t) == refresh[t].at = "sent"

\* What the requests waiting in a tab do when its refresh ends: each goes out,
\* with the token that has been stored, or bare.
Waiting(r) == request[r].at = "waiting"
Resumed_One(t, bearer) ==
  LET waiters == {r \in Request : r[1] = t /\ Waiting(r)}
  IN  IF waiters = {} THEN request
      ELSE [request EXCEPT ![CHOOSE r \in waiters : TRUE] = Sent(bearer)]
Resumed(t, bearer) ==
  [r \in Request |->
     IF r[1] = t /\ Waiting(r) THEN Sent(bearer) ELSE request[r]]

-----------------------------------------------------------------------------
TypeOK ==
  /\ control \in [User -> 0..Rotations]
  /\ session \in Session \cup {None}
  /\ page \in [Tab -> {"app", "login"}]
  /\ refresh \in [Tab -> {NoRefresh} \cup [at : {"sent", "issued"},
                                            token : Token]]
  /\ request \in [Request -> [at : {"idle", "waiting", "sent"},
                                  bearer : Token \cup {None}]]

Init ==
  /\ control = [u \in User |-> 0]
  /\ session = None
  /\ page = [t \in Tab |-> "login"]
  /\ refresh = [t \in Tab |-> NoRefresh]
  /\ request = [r \in Request |-> NoRequest]

-----------------------------------------------------------------------------
(* Signing in and out, and moving about. *)

\* useAuthSuccess, useTwoFactorComplete: whatever was stored is replaced.
SignIn(t, u) ==
  /\ page[t] = "login"
  /\ session' = [token |-> [user |-> u, control |-> control[u]],
                 life |-> "access"]
  /\ page' = [page EXCEPT ![t] = "app"]
  /\ UNCHANGED <<control, refresh, request>>

\* logout: the tab that signs out is sent to the login; the others are not.
SignOut(t) ==
  /\ page[t] = "app"
  /\ session' = None
  /\ page' = [page EXCEPT ![t] = "login"]
  /\ UNCHANGED <<control, refresh, request>>

\* A navigation to a signed-in page.
Navigate(t) ==
  /\ page' = [page EXCEPT ![t] = Guarded]
  /\ UNCHANGED <<control, session, refresh, request>>

\* The tab is reloaded or opened: what it had in memory is gone.
Reload(t) ==
  /\ page' = [page EXCEPT ![t] = Guarded]
  /\ refresh' = [refresh EXCEPT ![t] = NoRefresh]
  /\ request' = [r \in Request |->
                   IF r[1] = t THEN NoRequest ELSE request[r]]
  /\ UNCHANGED <<control, session>>

\* Time passes: first the access token is too old, then the refresh token.
Expire ==
  /\ RefreshUsable
  /\ session' = [session EXCEPT !.life =
                   IF AccessUsable THEN "refresh" ELSE "over"]
  /\ UNCHANGED <<control, page, refresh, request>>

\* A password is changed or reset, here or elsewhere: no token issued before
\* is honoured any more.
Rotate(u) ==
  /\ control[u] < Rotations
  /\ control' = [control EXCEPT ![u] = @ + 1]
  /\ UNCHANGED <<session, page, refresh, request>>

-----------------------------------------------------------------------------
(* onRequest: a signed-in page asks for something. *)

Ask(r) == page[r[1]] = "app" /\ request[r] = NoRequest

\* The access token is usable: the request goes out with it ...
AskSigned(r) ==
  /\ Ask(r) /\ AccessUsable
  /\ request' = [request EXCEPT ![r] = Sent(session.token)]
  /\ UNCHANGED <<control, session, page, refresh>>

\* ... nothing is usable, and it goes out without ...
AskBare(r) ==
  /\ Ask(r) /\ ~RefreshUsable
  /\ request' = [request EXCEPT ![r] = Sent(None)]
  /\ UNCHANGED <<control, session, page, refresh>>

\* ... or it waits for the tab's refresh.
AskRefreshed(r) ==
  /\ Ask(r) /\ RefreshUsable /\ ~AccessUsable
  /\ refresh' = [refresh EXCEPT ![r[1]] = Shared(r[1])]
  /\ request' = [request EXCEPT ![r] = [at |-> "waiting", bearer |-> None]]
  /\ UNCHANGED <<control, session, page>>

-----------------------------------------------------------------------------
(* The refresh. *)

\* The server issues a new pair for a token it honours ...
Issue(t) ==
  /\ OnTheWire(t) /\ Honoured(refresh[t].token)
  /\ refresh' = [refresh EXCEPT ![t].at = "issued"]
  /\ UNCHANGED <<control, session, page, request>>

\* ... which arrives: the session stored by now, whoever's it is, is renewed.
Renew_WithItsToken(t) ==
  /\ refresh[t].at = "issued"
  /\ session' = Updated(refresh[t].token)
  /\ refresh' = [refresh EXCEPT ![t] = NoRefresh]
  /\ request' = Resumed(t, refresh[t].token)
  /\ UNCHANGED <<control, page>>
Renew(t) ==
  /\ refresh[t].at = "issued"
  /\ session' = Updated(refresh[t].token)
  /\ refresh' = [refresh EXCEPT ![t] = NoRefresh]
  /\ request' = Resumed(t, IF session' = None THEN None ELSE session'.token)
  /\ UNCHANGED <<control, page>>

\* The refresh is refused, or it or its answer is lost: whatever session is
\* stored by now is cleared.
GiveUp_KeepsPromise(t) ==
  /\ OnTheWire(t) \/ refresh[t].at = "issued"
  /\ session' = None
  /\ page' = [page EXCEPT ![t] = "login"]
  /\ refresh' = [refresh EXCEPT ![t].at = "settled"]
  /\ request' = Resumed(t, None)
  /\ UNCHANGED control
GiveUp(t) ==
  /\ OnTheWire(t) \/ refresh[t].at = "issued"
  /\ session' = None
  /\ page' = [page EXCEPT ![t] = "login"]
  /\ refresh' = [refresh EXCEPT ![t] = NoRefresh]
  /\ request' = Resumed(t, None)
  /\ UNCHANGED control

-----------------------------------------------------------------------------
(* onResponse. *)

\* An answer the page can use, or none at all.
Answered(r) ==
  /\ request[r].at = "sent"
  /\ request' = [request EXCEPT ![r] = NoRequest]
  /\ UNCHANGED <<control, session, page, refresh>>

\* A read that is forbidden: the tab goes to the landing page.
Forbidden(r) ==
  /\ request[r].at = "sent" /\ Honoured(request[r].bearer)
  /\ request' = [request EXCEPT ![r] = NoRequest]
  /\ page' = [page EXCEPT ![r[1]] = Guarded]
  /\ UNCHANGED <<control, session, refresh>>

\* A 401: no bearer, one no longer honoured, or one that expired on the way.
Unauthorized(r) ==
  /\ request[r].at = "sent"
  /\ session' = None
  /\ page' = [page EXCEPT ![r[1]] = "login"]
  /\ request' = [request EXCEPT ![r] = NoRequest]
  /\ UNCHANGED <<control, refresh>>

Answer(r) == Answered(r) \/ Forbidden(r) \/ Unauthorized(r)

-----------------------------------------------------------------------------
Next ==
  \/ \E t \in Tab :
       \/ \E u \in User : SignIn(t, u)
       \/ SignOut(t) \/ Navigate(t) \/ Reload(t)
       \/ Issue(t) \/ Renew(t) \/ GiveUp(t)
  \/ \E r \in Request :
       \/ AskSigned(r) \/ AskBare(r) \/ AskRefreshed(r)
       \/ Answer(r)
  \/ Expire
  \/ \E u \in User : Rotate(u)

Spec == Init /\ [][Next]_vars

\* A call ends: with the server's answer, or with an error of the network.
FairSpec ==
  /\ Spec
  /\ \A t \in Tab : WF_vars(Renew(t) \/ GiveUp(t))
  /\ \A r \in Request : WF_vars(Answer(r))

-----------------------------------------------------------------------------
\* A request that waits does so for a refresh in flight in its own tab,
\* whatever other tabs, reloads and earlier refreshes did
\* (client.ts: refreshInFlight and its finally).
NobodyWaitsForNothing ==
  \A r \in Request : Waiting(r) => refresh[r[1]].at # "idle"

\* Once the session is gone, a sign-in alone brings one back: a refresh that
\* was in flight when another tab signed out does not (updateSession).
NoComeback ==
  [][(session = None /\ session' # None)
       => \E t \in Tab : \E u \in User : SignIn(t, u)]_vars

\* What a tab puts on the wire carries the token stored then, or none if none
\* is stored: a request that waited out a refresh goes out bare if somebody
\* signed out meanwhile (client.ts: updateSession(item)?.accessToken).
SentWithStoredSession ==
  [][\A r \in Request :
       (request[r].at # "sent" /\ request'[r].at = "sent"
          /\ request'[r].bearer # None)
         => session' # None /\ session'.token = request'[r].bearer]_vars

\* Every request comes to an end, also one that waits for a refresh: the
\* refresh waits for no request (refresh.ts: a raw fetch, past the middleware).
EveryRequestEnds ==
  \A r \in Request :
    request[r].at # "idle" ~> request[r].at = "idle"
=============================================================================
