----------------------- MODULE MembershipApartProofs -----------------------
(***************************************************************************)
(* What becomes of invitations, of the account row and of the roster when  *)
(* requests overlap.  Each theorem names the pairs of requests that must   *)
(* be kept apart, between what the first one reads and what it commits,    *)
(* and leaves every other overlap open; requests that do not overlap at    *)
(* all (Serial) are a special case of each.                                *)
(***************************************************************************)
EXTENDS MembershipProofs

(* The requests on one invitation.                                         *)

\* A request that will write the status of its invitation on the strength of
\* what it has read of it.  resend leaves alone a status it read as standby,
\* and an answer that has expired its invitation reads it again.
Decides(r) ==
  /\ r \in InvitationRequest /\ r.step # "reread"
  /\ r.op # "reassign"
  /\ r.op = "resend" => r.was # "standby"

Accepts(r) == r \in InvitationRequest /\ r.op = "accept" /\ r.step = "write"

\* What a lock on the invitation row would give accept(), taken when it is
\* read as pending and held until the commit: nobody else decides on it.
AcceptsApart ==
  \A v, w \in Worker :
    (/\ Accepts(request[v]) /\ Decides(request[w])
     /\ request[v].invitation = request[w].invitation) => v = w

\* Whoever is about to decide on an invitation has not been overtaken by an
\* accept.
OpenWhileDeciding ==
  \A w \in Worker :
    Decides(request[w]) => invitation[request[w].invitation].status # "accepted"

\* The steps that leave a worker with a request on an invitation.
LEMMA InvitationRequestWriters ==
  ASSUME TypeOK, [Next]_vars, NEW w \in Worker,
         request'[w] \in InvitationRequest, request'[w] # request[w]
  PROVE  \/ LoadReassign(w) \/ LoadResend(w) \/ LoadCancel(w)
         \/ LoadAnswer(w) \/ WriteExpired(w) \/ RereadAnswer(w)
         \/ CheckNotMember(w)
<1>1. ASSUME NEW v \in Worker,
             \/ LoadReassign(v) \/ LoadResend(v) \/ LoadCancel(v)
             \/ LoadAnswer(v) \/ WriteExpired(v) \/ RereadAnswer(v)
             \/ CheckNotMember(v)
      PROVE  v = w
  BY <1>1 DEF LoadReassign, LoadResend, LoadCancel, LoadAnswer, WriteExpired,
              RereadAnswer, CheckNotMember, Start, GoTo, Finish, TypeOK
<1>2. ASSUME NEW v \in Worker,
             \/ LoadRole(v) \/ LoadRemove(v) \/ LoadLeave(v) \/ LoadInvite(v)
             \/ LoadAccount(v)
      PROVE  FALSE
  BY <1>2 DEF LoadRole, LoadRemove, LoadLeave, LoadInvite, LoadAccount, Start,
              SeatOperation, TypeOK, InvitationRequest
<1>3. ASSUME NEW v \in Worker, CheckOwner(v) PROVE FALSE
  BY <1>3 DEF CheckOwner, GoTo, Finish, TypeOK, SeatRequest,
              InvitationRequest, Idle
<1>4. ASSUME NEW v \in Worker, Finish(v) PROVE FALSE
  BY <1>4 DEF Finish, TypeOK, InvitationRequest, Idle
<1>5. request' # request
  OBVIOUS
<1>6. QED
  BY <1>1, <1>2, <1>3, <1>4, <1>5
  DEF Next, vars, SeatStep, InvitationStep, AnswerStep, AccountStep, Abort,
      Lapse, WriteRole, WriteRemove, WriteLeave, WriteInvite, WriteReassign,
      WriteResend, WriteCancel, WriteAccept, WriteAcceptConflict, WriteRefuse,
      WriteAccount

\* Only accept() makes an invitation accepted.
LEMMA AcceptedBy ==
  ASSUME TypeOK, [Next]_vars, NEW i \in Invitation,
         invitation[i].status # "accepted", invitation'[i].status = "accepted"
  PROVE  \E v \in Worker : WriteAccept(v) /\ request[v].invitation = i
<1>1. ASSUME NEW w \in Worker, WriteInvite(w) \/ WriteResend(w) PROVE FALSE
  BY <1>1 DEF WriteInvite, WriteResend, TypeOK, InvitationRow
<1>2. ASSUME NEW w \in Worker,
             \/ WriteReassign(w) \/ WriteCancel(w) \/ WriteExpired(w)
             \/ WriteRefuse(w)
      PROVE  FALSE
  BY <1>2 DEF WriteReassign, WriteCancel, WriteExpired, WriteRefuse, TypeOK,
              InvitationRow
<1>3. ASSUME NEW w \in Worker, WriteAccept(w)
      PROVE  request[w].invitation = i
  BY <1>3 DEF WriteAccept, TypeOK
<1>4. ASSUME NEW j \in Invitation, Lapse(j) PROVE FALSE
  BY <1>4 DEF Lapse, TypeOK, InvitationRow
<1>5. UNCHANGED invitation => FALSE
  OBVIOUS
<1>6. QED BY <1>1, <1>2, <1>3, <1>4, <1>5, InvitationWriters

LEMMA OpenWhileDecidingStep ==
  ASSUME TypeOK, AcceptsApart, OpenWhileDeciding, [Next]_vars
  PROVE  OpenWhileDeciding'
<1> SUFFICES ASSUME NEW w \in Worker, Decides(request'[w]),
                    NEW r, r = request'[w],
                    NEW i, i = r.invitation
             PROVE  invitation'[i].status # "accepted"
  BY DEF OpenWhileDeciding, Decides
<1>1. /\ r \in InvitationRequest /\ r.step # "reread" /\ r.op # "reassign"
      /\ r.op = "resend" => r.was # "standby"
      /\ i \in Invitation
  BY DEF Decides, InvitationRequest
<1>2. CASE r = request[w]
  <2>1. invitation[i].status # "accepted"
    BY <1>2 DEF OpenWhileDeciding
  <2>2. ASSUME NEW v \in Worker, WriteAccept(v), request[v].invitation = i
        PROVE  FALSE
    <3>1. Accepts(request[v])
      BY <2>2, RequestRows DEF WriteAccept, Writing, Accepts
    <3>2. v = w
      BY <1>2, <2>2, <3>1 DEF AcceptsApart
    <3>3. r = Idle
      BY <2>2, <3>2 DEF WriteAccept, Finish, TypeOK
    <3>4. QED BY <1>1, <3>3 DEF InvitationRequest, Idle
  <2>3. QED BY <1>1, <2>1, <2>2, AcceptedBy
<1>3. CASE LoadReassign(w)
  BY <1>1, <1>3 DEF LoadReassign, Start, InvitationOperation, TypeOK
<1>4. CASE LoadCancel(w) \/ LoadResend(w)
  <2>1. PICK op \in {"cancel", "resend"}, j \in Invitation,
             was \in InvitationStatus \cup {"none"} :
          /\ invitation[j].status \in {"standby", "expired"}
          /\ r = InvitationOperation(op, "write", j, "none", was)
    BY <1>4 DEF LoadCancel, LoadResend, Cancellable, Resendable, Start, TypeOK,
                InvitationRow
  <2>2. UNCHANGED invitation
    BY <1>4 DEF LoadCancel, LoadResend
  <2>3. QED BY <2>1, <2>2 DEF InvitationOperation
<1>5. CASE LoadAnswer(w)
  <2>1. PICK j \in Invitation, op \in {"accept", "refuse"} :
          /\ invitation[j].status = "standby"
          /\ r = Answer(op, TakeStep(op, j), j)
    BY <1>5 DEF LoadAnswer, Start, TypeOK
  <2>2. UNCHANGED invitation
    BY <1>5 DEF LoadAnswer
  <2>3. QED BY <2>1, <2>2 DEF Answer, InvitationOperation
<1>6. CASE WriteExpired(w)
  BY <1>1, <1>6 DEF WriteExpired, GoTo, TypeOK, InvitationRequest
<1>7. CASE RereadAnswer(w)
  <2> DEFINE j == request[w].invitation
             op == request[w].op
  <2>1. /\ invitation[j].status = "standby"
        /\ r = Answer(op, AfterTake(op), j)
    BY <1>1, <1>7 DEF RereadAnswer, Finish, TypeOK, InvitationRequest, Idle
  <2>2. UNCHANGED invitation
    BY <1>7 DEF RereadAnswer
  <2>3. QED BY <2>1, <2>2 DEF Answer, InvitationOperation
<1>8. CASE CheckNotMember(w)
  <2>1. /\ request[w] \in InvitationRequest /\ request[w].step = "check"
        /\ r = [request[w] EXCEPT !.step = "write"]
        /\ UNCHANGED invitation
    BY <1>1, <1>8 DEF CheckNotMember, GoTo, Finish, TypeOK, InvitationRequest,
                      Idle
  <2>2. i = request[w].invitation /\ Decides(request[w])
    BY <1>1, <2>1 DEF InvitationRequest, Decides
  <2>3. QED BY <2>1, <2>2 DEF OpenWhileDeciding
<1>9. QED
  BY <1>1, <1>2, <1>3, <1>4, <1>5, <1>6, <1>7, <1>8, InvitationRequestWriters

----------------------------------------------------------------------------
(* Seats and the invitations they came from.                               *)

AnswerInv ==
  /\ OpenWhileDeciding
  /\ FreeRowsPointNowhere
  /\ SeatsAnswerInvitations

\* accept() takes a free row and points it to its invitation.
LEMMA AcceptEffect ==
  ASSUME TypeOK, NEW w \in Worker, WriteAccept(w)
  PROVE  \E s \in Seat, k \in Invitation :
           /\ k = request[w].invitation /\ request[w].role \in Role
           /\ seat[s].status = "none" /\ s[1] = k[1] /\ ~HasActiveRow(k[1])
           /\ seat' = [seat EXCEPT
                ![s] = [status |-> "active", enabled |-> TRUE,
                        role |-> request[w].role, from |-> k]]
           /\ invitation' = [invitation EXCEPT ![k].status = "accepted"]
<1> DEFINE k == request[w].invitation
<1>1. request[w] \in InvitationRequest
  BY RequestRows DEF WriteAccept
<1>2. k \in Invitation /\ request[w].role \in Role
  BY <1>1 DEF WriteAccept, Writing, InvitationRequest
<1>3. QED BY <1>2 DEF WriteAccept, NextSeat

\* No other step touches an answered invitation.
LEMMA AcceptedStays ==
  ASSUME TypeOK, OpenWhileDeciding, [Next]_vars,
         NEW i \in Invitation, invitation[i].status = "accepted"
  PROVE  invitation'[i].status = "accepted"
<1>1. ASSUME NEW w \in Worker, WriteInvite(w)
      PROVE  invitation'[i].status = "accepted"
  <2>1. ~NextInvitation(i[1], i)
    BY DEF NextInvitation
  <2>2. QED BY <1>1, <2>1 DEF WriteInvite
<1>2. ASSUME NEW w \in Worker, Decides(request[w]),
             \/ WriteResend(w) \/ WriteCancel(w) \/ WriteExpired(w)
             \/ WriteRefuse(w)
      PROVE  invitation'[i].status = "accepted"
  <2>1. invitation[request[w].invitation].status # "accepted"
    BY <1>2 DEF OpenWhileDeciding
  <2>2. \A j \in Invitation :
          j # request[w].invitation => invitation'[j] = invitation[j]
    BY <1>2 DEF WriteResend, WriteCancel, WriteExpired, WriteRefuse, TypeOK
  <2>3. QED BY <2>1, <2>2
<1>3. ASSUME NEW w \in Worker,
             WriteCancel(w) \/ WriteExpired(w) \/ WriteRefuse(w)
      PROVE  Decides(request[w])
  BY <1>3, RequestRows
  DEF WriteCancel, WriteExpired, WriteRefuse, Writing, Decides,
      InvitationRequest
<1>4. ASSUME NEW w \in Worker, WriteResend(w), ~Decides(request[w])
      PROVE  invitation'[i].status = "accepted"
  <2>1. request[w].was = "standby"
    BY <1>4, RequestRows DEF WriteResend, Writing, Decides
  <2>2. QED BY <1>4, <2>1 DEF WriteResend, TypeOK, InvitationRow
<1>5. ASSUME NEW w \in Worker, WriteReassign(w) \/ WriteAccept(w)
      PROVE  invitation'[i].status = "accepted"
  BY <1>5 DEF WriteReassign, WriteAccept, TypeOK, InvitationRow
<1>6. ASSUME NEW j \in Invitation, Lapse(j)
      PROVE  invitation'[i].status = "accepted"
  BY <1>6 DEF Lapse, TypeOK, InvitationRow
<1>7. QED
  BY <1>1, <1>2, <1>3, <1>4, <1>5, <1>6, InvitationWriters

LEMMA SeatsAnswerStep ==
  ASSUME TypeOK, AnswerInv, [Next]_vars
  PROVE  FreeRowsPointNowhere' /\ SeatsAnswerInvitations'
<1> USE DEF AnswerInv, FreeRowsPointNowhere, SeatsAnswerInvitations
<1>1. \A s \in Seat : seat[s].from \in Invitation \cup {NoInvitation}
  BY DEF TypeOK, SeatRow
<1>2. CASE \A s \in Seat : /\ seat'[s].from = seat[s].from
                           /\ seat'[s].status = "none" => seat[s].status = "none"
  BY <1>1, <1>2, AcceptedStays
<1>3. CASE UNCHANGED seat
  BY <1>2, <1>3
<1>4. ASSUME NEW w \in Worker, WriteRole(w) \/ WriteRemove(w) \/ WriteLeave(w)
      PROVE  FreeRowsPointNowhere' /\ SeatsAnswerInvitations'
  <2>1. \A s \in Seat : /\ seat'[s].from = seat[s].from
                        /\ seat'[s].status = "none" => seat[s].status = "none"
    BY <1>4 DEF WriteRole, WriteRemove, WriteLeave, TypeOK, SeatRow
  <2>2. QED BY <1>2, <2>1
<1>5. ASSUME NEW w \in Worker, WriteAccept(w)
      PROVE  FreeRowsPointNowhere' /\ SeatsAnswerInvitations'
  <2>1. PICK s \in Seat, k \in Invitation :
          /\ k = request[w].invitation /\ seat[s].status = "none"
          /\ seat' = [seat EXCEPT
               ![s] = [status |-> "active", enabled |-> TRUE,
                       role |-> request[w].role, from |-> k]]
          /\ invitation' = [invitation EXCEPT ![k].status = "accepted"]
    BY <1>5, AcceptEffect
  <2>2. Decides(request[w])
    BY <1>5, RequestRows DEF WriteAccept, Writing, Decides
  <2>3. invitation[k].status # "accepted"
    BY <2>1, <2>2 DEF OpenWhileDeciding
  <2>4. \A t \in Seat : seat[t].from # k
    BY <2>1, <2>3, NullIsNoInvitation
  <2>5. /\ seat'[s].from = k /\ seat'[s].status = "active"
        /\ \A t \in Seat : t # s => seat'[t] = seat[t]
    BY <2>1 DEF TypeOK
  <2>6. invitation'[k].status = "accepted"
    BY <2>1 DEF TypeOK, InvitationRow
  <2>7. \A t \in Seat : t # s /\ seat[t].from # NoInvitation
          => invitation'[seat[t].from].status = "accepted"
    BY <1>1, AcceptedStays
  <2>8. QED BY <2>4, <2>5, <2>6, <2>7
<1>6. QED BY <1>3, <1>4, <1>5, SeatWriters

LEMMA AnswerInvInit == Init => AnswerInv
BY DEF Init, AnswerInv, OpenWhileDeciding, Decides, Idle, InvitationRequest,
       FreeRowsPointNowhere, SeatsAnswerInvitations

LEMMA AnswerInvStep ==
  ASSUME TypeOK, AcceptsApart, AnswerInv, [Next]_vars
  PROVE  AnswerInv'
BY OpenWhileDecidingStep, SeatsAnswerStep DEF AnswerInv

\* An invitation that has given a seat stays accepted and gives no other, as
\* long as nobody else is deciding on an invitation while accept() is between
\* its last check and its commit.  Refusals, cancellations, resends and
\* expiries may overlap one another.
THEOREM SeatsAnswerInvitationsApart ==
  Spec /\ []AcceptsApart => []SeatsAnswerInvitations
<1>1. TypeOK /\ AcceptsApart /\ AnswerInv /\ [Next]_vars => AnswerInv'
  BY AnswerInvStep
<1>2. AnswerInv => SeatsAnswerInvitations
  BY DEF AnswerInv
<1>3. QED BY <1>1, <1>2, AnswerInvInit, TypeCorrect, PTL DEF Spec

\* Requests that do not overlap: an invitation that has given a seat stays
\* accepted and gives no other.
THEOREM SeatsAnswerInvitationsCorrect ==
  ASSUME Serial
  PROVE  Spec => []SeatsAnswerInvitations
<1>1. Spec => []SoleRequest
  BY SoleRequestCorrect
<1>2. SoleRequest => AcceptsApart
  BY DEF SoleRequest, AcceptsApart, Accepts, Decides, InvitationRequest, Idle
<1>3. QED BY <1>1, <1>2, SeatsAnswerInvitationsApart, PTL

----------------------------------------------------------------------------
(* The role a new member sits with.                                        *)

\* An accept that has read the role it will give.
HoldsRole(r) ==
  r \in InvitationRequest /\ r.op = "accept" /\ r.step # "reread"

Reassigns(r) == r \in InvitationRequest /\ r.op = "reassign"

\* Nobody is re-assigning an invitation while it is being accepted.
OffersApart ==
  \A v, w \in Worker :
    ~(/\ HoldsRole(request[v]) /\ Reassigns(request[w])
      /\ request[v].invitation = request[w].invitation)

RoleStillOffered ==
  \A w \in Worker :
    HoldsRole(request[w])
      => LET row == invitation[request[w].invitation]
         IN  row.role = request[w].role /\ row.status # "none"

\* Rows stay in use, and only a re-assignment changes the role of one.
LEMMA RoleWriters ==
  ASSUME TypeOK, [Next]_vars, NEW i \in Invitation,
         invitation[i].status # "none"
  PROVE  /\ invitation'[i].status # "none"
         /\ \/ invitation'[i].role = invitation[i].role
            \/ \E v \in Worker :
                 Reassigns(request[v]) /\ request[v].invitation = i
<1>1. ASSUME NEW w \in Worker, WriteInvite(w)
      PROVE  UNCHANGED invitation[i]
  <2>1. ~NextInvitation(i[1], i)
    BY DEF NextInvitation
  <2>2. QED BY <1>1, <2>1 DEF WriteInvite
<1>2. ASSUME NEW w \in Worker, WriteReassign(w)
      PROVE  /\ UNCHANGED invitation[i].status
             /\ \/ UNCHANGED invitation[i].role
                \/ Reassigns(request[w]) /\ request[w].invitation = i
  BY <1>2, RequestRows DEF WriteReassign, Writing, Reassigns, TypeOK,
                           InvitationRow
<1>3. ASSUME NEW w \in Worker,
             \/ WriteResend(w) \/ WriteCancel(w) \/ WriteExpired(w)
             \/ WriteAccept(w) \/ WriteRefuse(w)
      PROVE  invitation'[i].status # "none" /\ UNCHANGED invitation[i].role
  BY <1>3 DEF WriteResend, WriteCancel, WriteExpired, WriteAccept, WriteRefuse,
              TypeOK, InvitationRow
<1>4. ASSUME NEW j \in Invitation, Lapse(j)
      PROVE  invitation'[i].status # "none" /\ UNCHANGED invitation[i].role
  BY <1>4 DEF Lapse, TypeOK, InvitationRow
<1>5. QED BY <1>1, <1>2, <1>3, <1>4, InvitationWriters

LEMMA RoleStillOfferedStep ==
  ASSUME TypeOK, OffersApart, RoleStillOffered, [Next]_vars
  PROVE  RoleStillOffered'
<1> SUFFICES ASSUME NEW w \in Worker, HoldsRole(request'[w]),
                    NEW r, r = request'[w],
                    NEW i, i = r.invitation
             PROVE  invitation'[i].role = r.role /\ invitation'[i].status # "none"
  BY DEF RoleStillOffered, HoldsRole
<1>1. /\ r \in InvitationRequest /\ r.op = "accept" /\ r.step # "reread"
      /\ i \in Invitation
  BY DEF HoldsRole, InvitationRequest
<1>2. CASE r = request[w]
  <2>1. invitation[i].role = r.role /\ invitation[i].status # "none"
    BY <1>2 DEF RoleStillOffered
  <2>2. ~\E v \in Worker : Reassigns(request[v]) /\ request[v].invitation = i
    BY <1>2 DEF OffersApart
  <2>3. QED BY <1>1, <2>1, <2>2, RoleWriters
<1>3. CASE LoadReassign(w) \/ LoadCancel(w) \/ LoadResend(w)
  BY <1>1, <1>3 DEF LoadReassign, LoadCancel, LoadResend, Start,
                    InvitationOperation, TypeOK
<1>4. CASE LoadAnswer(w)
  <2>1. PICK j \in Invitation, op \in {"accept", "refuse"} :
          /\ invitation[j].status = "standby"
          /\ r = Answer(op, TakeStep(op, j), j)
    BY <1>4 DEF LoadAnswer, Start, TypeOK
  <2>2. UNCHANGED invitation
    BY <1>4 DEF LoadAnswer
  <2>3. QED BY <1>1, <2>1, <2>2 DEF Answer, InvitationOperation
<1>5. CASE WriteExpired(w)
  BY <1>1, <1>5 DEF WriteExpired, GoTo, TypeOK, InvitationRequest
<1>6. CASE RereadAnswer(w)
  <2> DEFINE j == request[w].invitation
             op == request[w].op
  <2>1. /\ invitation[j].status = "standby"
        /\ r = Answer(op, AfterTake(op), j)
    BY <1>1, <1>6 DEF RereadAnswer, Finish, TypeOK, InvitationRequest, Idle
  <2>2. UNCHANGED invitation
    BY <1>6 DEF RereadAnswer
  <2>3. QED BY <1>1, <2>1, <2>2 DEF Answer, InvitationOperation
<1>7. CASE CheckNotMember(w)
  <2>1. /\ request[w] \in InvitationRequest /\ request[w].step = "check"
        /\ r = [request[w] EXCEPT !.step = "write"]
        /\ UNCHANGED invitation
    BY <1>1, <1>7 DEF CheckNotMember, GoTo, Finish, TypeOK, InvitationRequest,
                      Idle
  <2>2. /\ i = request[w].invitation /\ r.role = request[w].role
        /\ HoldsRole(request[w])
    BY <1>1, <2>1 DEF InvitationRequest, HoldsRole
  <2>3. QED BY <2>1, <2>2 DEF RoleStillOffered
<1>8. QED
  BY <1>1, <1>2, <1>3, <1>4, <1>5, <1>6, <1>7, InvitationRequestWriters

\* A request on a seat names a row that is in use, and rows stay in use.
SeatReadInUse ==
  \A w \in Worker :
    request[w] \in SeatRequest => seat[request[w].seat].status # "none"

LEMMA SeatReadInUseStep ==
  ASSUME TypeOK, SeatReadInUse, [Next]_vars
  PROVE  SeatReadInUse'
<1>1. \A s \in Seat : seat[s].status # "none" => seat'[s].status # "none"
  <2>1. ASSUME NEW w \in Worker,
               WriteRole(w) \/ WriteRemove(w) \/ WriteLeave(w) \/ WriteAccept(w)
        PROVE  \A s \in Seat :
                 seat[s].status # "none" => seat'[s].status # "none"
    BY <2>1 DEF WriteRole, WriteRemove, WriteLeave, WriteAccept, TypeOK, SeatRow
  <2>2. QED BY <2>1, SeatWriters
<1> SUFFICES ASSUME NEW w \in Worker, request'[w] \in SeatRequest,
                    NEW k, k = request'[w].seat
             PROVE  seat'[k].status # "none"
  BY DEF SeatReadInUse
<1>2. k \in Seat
  BY DEF SeatRequest
<1>3. CASE request'[w] = request[w]
  BY <1>1, <1>2, <1>3 DEF SeatReadInUse
<1>4. CASE LoadRole(w) \/ LoadRemove(w) \/ LoadLeave(w)
  <2>1. PICK s \in Seat, op \in {"role", "remove", "leave"},
             r \in Role \cup {"none"} :
          /\ request'[w] = SeatOperation(op, s, r)
          /\ seat[s].status # "none"
    BY <1>4 DEF LoadRole, LoadRemove, LoadLeave, Start, Target, Caller, Live,
                TypeOK
  <2>2. QED BY <1>1, <2>1 DEF SeatOperation
<1>5. CASE CheckOwner(w)
  <2>1. request[w] \in SeatRequest /\ request[w].seat = k
    BY <1>5 DEF CheckOwner, GoTo, Finish, TypeOK, SeatRequest, Idle
  <2>2. QED BY <1>1, <1>2, <2>1 DEF SeatReadInUse
<1>6. QED BY <1>3, <1>4, <1>5, SeatRequestWriters

\* A new member sits with the role that the invitation holds when the seat is
\* made, as long as nobody re-assigns it while it is being accepted.
THEOREM SeatedWithOfferedRoleApart ==
  Spec /\ []OffersApart => SeatedWithOfferedRole
<1> DEFINE Offered ==
      \A s \in Seat :
        (seat[s].status = "none" /\ seat'[s].status # "none")
          => seat'[s].role = invitation[seat'[s].from].role
<1>1. TypeOK /\ RoleStillOffered /\ SeatReadInUse /\ [Next]_vars
        => [Offered]_seat
  <2> SUFFICES ASSUME TypeOK, RoleStillOffered, SeatReadInUse, [Next]_vars,
                      ~UNCHANGED seat
               PROVE  Offered
    OBVIOUS
  <2>1. ASSUME NEW w \in Worker, WriteAccept(w) PROVE Offered
    <3>1. HoldsRole(request[w])
      BY <2>1, RequestRows DEF WriteAccept, Writing, HoldsRole
    <3>2. invitation[request[w].invitation].role = request[w].role
      BY <3>1 DEF RoleStillOffered
    <3>3. QED BY <2>1, <3>2, AcceptEffect DEF TypeOK
  <2>2. ASSUME NEW w \in Worker, WriteRole(w) \/ WriteRemove(w) PROVE Offered
    BY <2>2 DEF WriteRole, WriteRemove, TypeOK, SeatRow
  <2>3. ASSUME NEW w \in Worker, WriteLeave(w) PROVE Offered
    <3>1. request[w] \in SeatRequest
      BY <2>3, RequestRows DEF WriteLeave
    <3>2. seat[request[w].seat].status # "none"
      BY <3>1 DEF SeatReadInUse
    <3>3. QED BY <2>3, <3>2 DEF WriteLeave, TypeOK, SeatRow
  <2>4. QED BY <2>1, <2>2, <2>3, SeatWriters
<1>2. TypeOK /\ OffersApart /\ RoleStillOffered /\ [Next]_vars
        => RoleStillOffered'
  BY RoleStillOfferedStep
<1>3. TypeOK /\ SeatReadInUse /\ [Next]_vars => SeatReadInUse'
  BY SeatReadInUseStep
<1>4. Init => RoleStillOffered /\ SeatReadInUse
  BY DEF Init, RoleStillOffered, HoldsRole, SeatReadInUse, SeatRequest,
         InvitationRequest, Idle
<1>5. QED
  BY <1>1, <1>2, <1>3, <1>4, TypeCorrect, PTL DEF Spec, SeatedWithOfferedRole

\* Requests that do not overlap: a new member sits with the role that the
\* invitation holds when the seat is made, whatever was re-assigned before.
THEOREM SeatedWithOfferedRoleCorrect ==
  ASSUME Serial
  PROVE  Spec => SeatedWithOfferedRole
<1>1. Spec => []SoleRequest
  BY SoleRequestCorrect
<1>2. SoleRequest => OffersApart
  BY DEF SoleRequest, OffersApart, HoldsRole, Reassigns, InvitationRequest, Idle
<1>3. QED BY <1>1, <1>2, SeatedWithOfferedRoleApart, PTL

----------------------------------------------------------------------------
(* Deleting the account.                                                   *)

\* No activation is under way while the account is being deleted.
DeletionsApart ==
  \A v, w \in Worker :
    ~(/\ request[v] \in AccountRequest /\ request[v].op = "delete"
      /\ request[w] \in AccountRequest /\ request[w].op = "activate")

\* The account is still there for an activation, and still disabled for a
\* deletion.
AccountReadStillHolds ==
  \A w \in Worker :
    request[w] \in AccountRequest =>
      /\ request[w].op = "activate" => account.enabled
      /\ request[w].op = "delete" => Deletable

DeletedInv == AccountReadStillHolds /\ DeletedWasDisabled

LEMMA AccountWriters ==
  ASSUME [Next]_vars
  PROVE  UNCHANGED account \/ \E w \in Worker : WriteAccount(w)
BY DEF Next, vars, SeatStep, InvitationStep, AnswerStep, AccountStep, Abort,
       Lapse, LoadRole, LoadRemove, LoadLeave, CheckOwner, WriteRole,
       WriteRemove, WriteLeave, LoadInvite, WriteInvite, LoadReassign,
       WriteReassign, LoadResend, WriteResend, LoadCancel, WriteCancel,
       LoadAnswer, WriteExpired, RereadAnswer, CheckNotMember, WriteAccept,
       WriteAcceptConflict, WriteRefuse, LoadAccount

LEMMA AccountRequestWriters ==
  ASSUME TypeOK, [Next]_vars, NEW w \in Worker,
         request'[w] \in AccountRequest, request'[w] # request[w]
  PROVE  LoadAccount(w)
<1>1. ASSUME NEW v \in Worker, LoadAccount(v) PROVE v = w
  BY <1>1 DEF LoadAccount, Start, TypeOK
<1>2. ASSUME NEW v \in Worker,
             \/ LoadRole(v) \/ LoadRemove(v) \/ LoadLeave(v)
             \/ LoadReassign(v) \/ LoadResend(v) \/ LoadCancel(v)
             \/ LoadInvite(v) \/ LoadAnswer(v)
      PROVE  FALSE
  BY <1>2 DEF LoadRole, LoadRemove, LoadLeave, LoadReassign, LoadResend,
              LoadCancel, LoadInvite, LoadAnswer, Answer, Start, SeatOperation,
              InvitationOperation, TypeOK, AccountRequest
<1>3. ASSUME NEW v \in Worker,
             \/ CheckOwner(v) \/ WriteExpired(v) \/ RereadAnswer(v)
             \/ CheckNotMember(v)
      PROVE  FALSE
  BY <1>3 DEF CheckOwner, WriteExpired, RereadAnswer, CheckNotMember, GoTo,
              Finish, Answer, InvitationOperation, TypeOK, SeatRequest,
              InvitationRequest, AccountRequest, Idle
<1>4. ASSUME NEW v \in Worker, Finish(v) PROVE FALSE
  BY <1>4 DEF Finish, TypeOK, AccountRequest, Idle
<1>5. request' # request
  OBVIOUS
<1>6. QED
  BY <1>1, <1>2, <1>3, <1>4, <1>5
  DEF Next, vars, SeatStep, InvitationStep, AnswerStep, AccountStep, Abort,
      Lapse, WriteRole, WriteRemove, WriteLeave, WriteInvite, WriteReassign,
      WriteResend, WriteCancel, WriteAccept, WriteAcceptConflict, WriteRefuse,
      WriteAccount

LEMMA DeletedInvStep ==
  ASSUME TypeOK, DeletionsApart, DeletedInv, [Next]_vars
  PROVE  DeletedInv'
<1> USE DEF DeletedInv, DeletedWasDisabled, Deletable
<1>1. DeletedWasDisabled'
  <2>1. ASSUME NEW w \in Worker, WriteAccount(w) PROVE DeletedWasDisabled'
    BY <2>1 DEF WriteAccount, AccountReadStillHolds, AccountRequest, TypeOK,
                AccountRow
  <2>2. QED BY <2>1, AccountWriters
<1>2. ASSUME NEW w \in Worker, request'[w] \in AccountRequest,
             request'[w] = request[w]
      PROVE  /\ request[w].op = "activate" => account'.enabled
             /\ request[w].op = "delete" => Deletable'
  <2>1. ASSUME NEW v \in Worker, WriteAccount(v)
        PROVE  /\ request[w].op = "activate" => account'.enabled
               /\ request[w].op = "delete" => Deletable'
    BY <1>2, <2>1 DEF WriteAccount, AccountReadStillHolds, DeletionsApart,
                      AccountRequest, TypeOK, AccountRow
  <2>2. QED BY <1>2, <2>1, AccountWriters DEF AccountReadStillHolds
<1>3. ASSUME NEW w \in Worker, LoadAccount(w)
      PROVE  /\ request'[w].op = "activate" => account'.enabled
             /\ request'[w].op = "delete" => Deletable'
  BY <1>3 DEF LoadAccount, Caller, Start, TypeOK
<1>4. QED
  BY <1>1, <1>2, <1>3, AccountRequestWriters DEF AccountReadStillHolds

\* An account that has been deleted had been deactivated, and nobody activates
\* it afterwards, as long as no activation overlaps the deletion.
THEOREM DeletedWasDisabledApart ==
  Spec /\ []DeletionsApart => []DeletedWasDisabled
<1>1. Init => DeletedInv
  BY DEF Init, DeletedInv, AccountReadStillHolds, DeletedWasDisabled,
         AccountRequest, Idle
<1>2. TypeOK /\ DeletionsApart /\ DeletedInv /\ [Next]_vars => DeletedInv'
  BY DeletedInvStep
<1>3. DeletedInv => DeletedWasDisabled
  BY DEF DeletedInv
<1>4. QED BY <1>1, <1>2, <1>3, TypeCorrect, PTL DEF Spec

\* Requests that do not overlap: an account that has been deleted had been
\* deactivated, and nobody activates it afterwards.
THEOREM DeletedWasDisabledCorrect ==
  ASSUME Serial
  PROVE  Spec => []DeletedWasDisabled
<1>1. Spec => []SoleRequest
  BY SoleRequestCorrect
<1>2. SoleRequest => DeletionsApart
  BY DEF SoleRequest, DeletionsApart, AccountRequest, Idle
<1>3. QED BY <1>1, <1>2, DeletedWasDisabledApart, PTL

----------------------------------------------------------------------------
(* Membership implements Roster.                                           *)

\* RoleOf, of any table of seats.
LiveIn(f, s) == f[s].status = "active" /\ f[s].enabled
RoleIn(f, u) ==
  IF \E n \in SeatNo : LiveIn(f, <<u, n>>)
  THEN f[CHOOSE s \in {u} \X SeatNo : LiveIn(f, s)].role
  ELSE "none"

UniqueIn(f) ==
  \A s, t \in Seat :
    (s[1] = t[1] /\ f[s].status = "active" /\ f[t].status = "active") => s = t

LEMMA RoleOfIsRoleIn ==
  /\ \A u \in User : RoleOf(u) = RoleIn(seat, u)
  /\ (\A u \in User : RoleOf(u) = RoleIn(seat, u))'
BY DEF RoleOf, RoleIn, HasLiveSeat, Live, LiveIn

\* A user's role is that of their live seat, if any.
LEMMA RoleOfLiveSeat ==
  ASSUME NEW f, UniqueIn(f), NEW s \in Seat, LiveIn(f, s)
  PROVE  RoleIn(f, s[1]) = f[s].role
<1>1. PICK u \in User, n \in SeatNo : s = <<u, n>>
  BY DEF Seat
<1> DEFINE c == CHOOSE t \in {u} \X SeatNo : LiveIn(f, t)
<1>2. c \in {u} \X SeatNo /\ LiveIn(f, c)
  BY <1>1
<1>3. c \in Seat /\ c[1] = u
  BY <1>2 DEF Seat
<1>4. c = s
  BY <1>1, <1>2, <1>3 DEF UniqueIn, LiveIn
<1>5. \E m \in SeatNo : LiveIn(f, <<u, m>>)
  BY <1>1
<1>6. RoleIn(f, u) = f[c].role
  BY <1>5 DEF RoleIn
<1>7. QED BY <1>1, <1>4, <1>6

LEMMA RoleWithoutLiveSeat ==
  ASSUME NEW f, NEW u \in User, \A s \in Seat : s[1] = u => ~LiveIn(f, s)
  PROVE  RoleIn(f, u) = "none"
<1>1. \A n \in SeatNo : <<u, n>> \in Seat /\ <<u, n>>[1] = u
  BY DEF Seat
<1>2. QED BY <1>1 DEF RoleIn

\* A user whose live seat is the same before and after keeps the role.
LEMMA SameRole ==
  ASSUME NEW f, NEW g, UniqueIn(f), UniqueIn(g), NEW u \in User,
         \A s \in Seat : s[1] = u =>
           /\ LiveIn(f, s) <=> LiveIn(g, s)
           /\ LiveIn(f, s) => f[s].role = g[s].role
  PROVE  RoleIn(f, u) = RoleIn(g, u)
<1>1. CASE \E s \in Seat : s[1] = u /\ LiveIn(f, s)
  BY <1>1, RoleOfLiveSeat
<1>2. CASE ~\E s \in Seat : s[1] = u /\ LiveIn(f, s)
  BY <1>2, RoleWithoutLiveSeat
<1>3. QED BY <1>1, <1>2

\* What a write to the seat of a checked request does to the roster.
LEMMA SeatWriteInRoster ==
  ASSUME TypeOK, OwnerInv, UniqueSeats, UniqueSeats', NEW w \in Worker,
         WriteRole(w) \/ WriteRemove(w) \/ WriteLeave(w)
  PROVE  AsRoster!Next \/ UNCHANGED [u \in User |-> RoleOf(u)]
<1> DEFINE k == request[w].seat
           u == k[1]
           R == [x \in User |-> RoleIn(seat, x)]
           R1 == [x \in User |-> RoleIn(seat', x)]
<1>1. request[w] \in SeatRequest /\ request[w].step = "write" /\ k \in Seat
  BY RequestRows
  DEF WriteRole, WriteRemove, WriteLeave, Writing, SeatRequest
<1>2. u \in User
  BY <1>1 DEF Seat
<1>3. UniqueIn(seat) /\ UniqueIn(seat')
  BY DEF UniqueSeats, UniqueIn
<1>4. \A s \in Seat : s # k => seat'[s] = seat[s]
  BY DEF WriteRole, WriteRemove, WriteLeave, TypeOK
<1>5. \A x \in User : x # u => RoleIn(seat', x) = RoleIn(seat, x)
  <2> SUFFICES ASSUME NEW x \in User, x # u
               PROVE  RoleIn(seat, x) = RoleIn(seat', x)
    OBVIOUS
  <2>1. \A s \in Seat : s[1] = x => seat'[s] = seat[s]
    BY <1>4
  <2>2. QED BY <1>3, <2>1, SameRole DEF LiveIn
<1>6. [x \in User |-> RoleOf(x)] = R /\ [x \in User |-> RoleOf(x)]' = R1
  BY RoleOfIsRoleIn
<1>7. CASE ~LiveIn(seat, k)
  <2>1. ~LiveIn(seat', k)
    BY <1>1, <1>7 DEF LiveIn, WriteRole, WriteRemove, WriteLeave, TypeOK, SeatRow
  <2>2. RoleIn(seat, u) = RoleIn(seat', u)
    BY <1>2, <1>3, <1>4, <1>7, <2>1, SameRole DEF LiveIn
  <2>3. R1 = R
    BY <1>5, <2>2
  <2>4. QED BY <1>6, <2>3
<1>8. CASE LiveIn(seat, k)
  <2>1. RoleIn(seat, u) = seat[k].role
    BY <1>1, <1>3, <1>8, RoleOfLiveSeat
  <2>2. TakesSeat(request[w]) /\ seat[k].role = "owner"
          => \E v \in User : v # u /\ RoleIn(seat, v) = "owner"
    <3>1. SUFFICES ASSUME TakesSeat(request[w])
                   PROVE  \E v \in User : v # u /\ RoleIn(seat, v) = "owner"
      OBVIOUS
    <3>2. PICK o \in Seat : o # k /\ LiveIn(seat, o) /\ seat[o].role = "owner"
      BY <3>1 DEF OwnerInv, CheckStillHolds, OtherActiveOwner, Live, LiveIn
    <3>3. o[1] # u
      BY <1>1, <1>3, <1>8, <3>2 DEF UniqueIn, LiveIn
    <3>4. RoleIn(seat, o[1]) = "owner" /\ o[1] \in User
      BY <1>3, <3>2, RoleOfLiveSeat DEF Seat
    <3>5. QED BY <3>3, <3>4
  <2>3. RoleIn(seat, u) \in Role
    BY <1>1, <2>1 DEF TypeOK, SeatRow
  <2>4. CASE WriteRole(w)
    <3>1. /\ seat'[k] = [seat[k] EXCEPT !.role = request[w].role]
          /\ request[w].role \in Role
      BY <1>1, <2>4 DEF WriteRole, Writing, TypeOK, SeatRequest
    <3>2. LiveIn(seat', k) /\ seat'[k].role = request[w].role
      BY <1>1, <1>8, <3>1 DEF LiveIn, TypeOK, SeatRow
    <3>3. RoleIn(seat', u) = request[w].role
      BY <1>1, <1>3, <3>2, RoleOfLiveSeat
    <3>4. R1 = [R EXCEPT ![u] = request[w].role]
      BY <1>2, <1>5, <3>3
    <3>5. CASE request[w].role = seat[k].role
      <4>1. R1 = R
        BY <1>2, <2>1, <3>4, <3>5
      <4>2. QED BY <1>6, <4>1
    <3>6. CASE request[w].role # seat[k].role
      <4>1. seat[k].role = "owner" => TakesSeat(request[w])
        BY <1>1, <3>6 DEF TakesSeat
      <4>2. AsRoster!ChangeRole(u, request[w].role)
        BY <1>2, <1>6, <2>1, <2>2, <2>3, <3>4, <3>6, <4>1, RolesAreNamed
        DEF AsRoster!ChangeRole, AsRoster!AnotherOwner
      <4>3. QED BY <1>2, <3>1, <4>2 DEF AsRoster!Next
    <3>7. QED BY <3>5, <3>6
  <2>5. CASE WriteRemove(w) \/ WriteLeave(w)
    <3>1. ~LiveIn(seat', k)
      BY <1>1, <2>5 DEF WriteRemove, WriteLeave, LiveIn, TypeOK, SeatRow
    <3>2. \A s \in Seat : s[1] = u => ~LiveIn(seat', s)
      BY <1>1, <1>3, <1>4, <1>8, <3>1 DEF UniqueIn, LiveIn
    <3>3. RoleIn(seat', u) = "none"
      BY <1>2, <3>2, RoleWithoutLiveSeat
    <3>4. R1 = [R EXCEPT ![u] = "none"]
      BY <1>2, <1>5, <3>3
    <3>5. TakesSeat(request[w])
      BY <1>1, <2>5 DEF TakesSeat, WriteRemove, WriteLeave, Writing
    <3>6. AsRoster!Depart(u)
      BY <1>2, <1>6, <2>1, <2>2, <2>3, <3>4, <3>5, RolesAreNamed
      DEF AsRoster!Depart, AsRoster!AnotherOwner
    <3>7. QED BY <1>2, <3>6 DEF AsRoster!Next
  <2>6. QED BY <2>4, <2>5
<1>9. QED BY <1>7, <1>8

\* accept() adds a member.
LEMMA AcceptInRoster ==
  ASSUME TypeOK, UniqueSeats, UniqueSeats',
         NEW w \in Worker, WriteAccept(w)
  PROVE  AsRoster!Next
<1> DEFINE R == [x \in User |-> RoleIn(seat, x)]
           R1 == [x \in User |-> RoleIn(seat', x)]
<1>1. PICK s \in Seat, i \in Invitation :
        /\ request[w].role \in Role
        /\ seat[s].status = "none" /\ s[1] = i[1] /\ ~HasActiveRow(i[1])
        /\ seat' = [seat EXCEPT
             ![s] = [status |-> "active", enabled |-> TRUE,
                     role |-> request[w].role, from |-> i]]
  BY AcceptEffect
<1> DEFINE u == s[1]
           r == request[w].role
<1>2. u \in User /\ r \in Role
  BY <1>1 DEF Seat
<1>3. UniqueIn(seat) /\ UniqueIn(seat')
  BY DEF UniqueSeats, UniqueIn
<1>4. /\ \A t \in Seat : t # s => seat'[t] = seat[t]
      /\ LiveIn(seat', s) /\ seat'[s].role = r
  BY <1>1 DEF TypeOK, LiveIn
<1>5. \A t \in Seat : t[1] = u => ~LiveIn(seat, t)
  BY <1>1 DEF HasActiveRow, Seat, LiveIn
<1>6. RoleIn(seat, u) = "none" /\ RoleIn(seat', u) = r
  BY <1>2, <1>3, <1>4, <1>5, RoleOfLiveSeat, RoleWithoutLiveSeat
<1>7. \A x \in User : x # u => RoleIn(seat, x) = RoleIn(seat', x)
  <2> SUFFICES ASSUME NEW x \in User, x # u
               PROVE  RoleIn(seat, x) = RoleIn(seat', x)
    OBVIOUS
  <2>1. \A t \in Seat : t[1] = x => seat'[t] = seat[t]
    BY <1>4
  <2>2. QED BY <1>3, <2>1, SameRole DEF LiveIn
<1>8. [x \in User |-> RoleOf(x)] = R /\ [x \in User |-> RoleOf(x)]' = R1
  BY RoleOfIsRoleIn
<1>9. R[u] = "none" /\ R1 = [R EXCEPT ![u] = r]
  BY <1>2, <1>6, <1>7
<1>10. AsRoster!Join(u, r)
  BY <1>2, <1>8, <1>9 DEF AsRoster!Join
<1>11. QED BY <1>2, <1>10 DEF AsRoster!Next

\* All that the refinement needs to know of a state.
RosterInv == OwnerInv /\ UniqueSeats

LEMMA RosterStep ==
  ASSUME TypeOK, TakersApart, RosterInv, [Next]_vars
  PROVE  AsRoster!Next \/ UNCHANGED [u \in User |-> RoleOf(u)]
<1>1. CASE UNCHANGED seat
  <2>1. [u \in User |-> RoleOf(u)]' = [u \in User |-> RoleOf(u)]
    BY <1>1, RoleOfIsRoleIn
  <2>2. QED BY <2>1
<1>2. QED
  BY <1>1, UniqueSeatsStep, SeatWriters, SeatWriteInRoster, AcceptInRoster
  DEF RosterInv

\* However requests overlap otherwise, members join, change role and depart one
\* at a time, and whoever gives up the owner role leaves another owner behind,
\* as long as no two requests that may take an owner's seat are between their
\* owner query and their commit.
THEOREM RosterSpecApart == Spec /\ []TakersApart => RosterSpec
<1>1. Init => AsRoster!Init
  <2>1. SUFFICES ASSUME Init
                 PROVE  [u \in User |-> RoleOf(u)]
                          = [u \in User |-> IF u = Creator THEN "owner" ELSE "none"]
    BY DEF AsRoster!Init
  <2>2. \A s \in Seat : LiveIn(seat, s) <=> s = CreatorSeat
    BY <2>1 DEF Init, LiveIn
  <2>3. /\ CreatorSeat \in Seat /\ CreatorSeat[1] = Creator
        /\ seat[CreatorSeat].role = "owner"
    BY <2>1, CreatorIsUser, FirstSeatExists DEF CreatorSeat, Seat, Init
  <2>4. UniqueIn(seat)
    BY <2>1 DEF Init, UniqueIn
  <2>5. RoleIn(seat, Creator) = "owner"
    BY <2>2, <2>3, <2>4, RoleOfLiveSeat
  <2>6. ASSUME NEW u \in User, u # Creator PROVE RoleIn(seat, u) = "none"
    BY <2>2, <2>3, <2>6, RoleWithoutLiveSeat
  <2>7. QED BY <2>5, <2>6, RoleOfIsRoleIn
<1>2. TypeOK /\ TakersApart /\ RosterInv /\ [Next]_vars
        => [AsRoster!Next]_[u \in User |-> RoleOf(u)]
  BY RosterStep
<1>3. TypeOK /\ TakersApart /\ RosterInv /\ [Next]_vars => RosterInv'
  BY OwnerInvStep, UniqueSeatsStep DEF RosterInv
<1>4. Init => RosterInv
  <2>1. Init => UniqueSeats
    BY DEF Init, UniqueSeats, CreatorSeat
  <2>2. QED BY <2>1, OwnerInvInit DEF RosterInv
<1>5. QED
  BY <1>1, <1>2, <1>3, <1>4, TypeCorrect, PTL
  DEF Spec, RosterSpec, AsRoster!Spec

\* Requests that do not overlap implement Roster.
THEOREM RosterSpecCorrect ==
  ASSUME Serial
  PROVE  Spec => RosterSpec
<1>1. Spec => []SoleRequest
  BY SoleRequestCorrect
<1>2. SoleRequest => TakersApart
  BY SoleTaker
<1>3. QED BY <1>1, <1>2, RosterSpecApart, PTL
=============================================================================
