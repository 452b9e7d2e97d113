-------------------------- MODULE MembershipProofs --------------------------
(***************************************************************************)
(* Theorems about Membership, for any users, workers and row bounds.       *)
(***************************************************************************)
EXTENDS Membership, TLAPS

(* Type correctness. *)

LEMMA InitTypeOK == Init => TypeOK
BY CreatorIsUser, FirstSeatExists, RolesAreNamed
DEF Init, TypeOK, AccountRow, SeatRow, InvitationRow, InvitationStatus,
    Request, CreatorSeat, Seat

\* A request may be replaced by any other request, or set to one of its steps.
LEMMA StartType ==
  ASSUME TypeOK, NEW w \in Worker, NEW r \in Request, Start(w, r)
  PROVE  request' \in [Worker -> Request]
BY DEF TypeOK, Start

LEMMA FinishType ==
  ASSUME TypeOK, NEW w \in Worker, Finish(w)
  PROVE  request' \in [Worker -> Request]
BY DEF TypeOK, Finish, Request

LEMMA SeatStepType ==
  ASSUME TypeOK, NEW w \in Worker, SeatStep(w)
  PROVE  TypeOK'
<1>1. CASE LoadRole(w)
  <2>1. PICK s \in Seat, r \in Role : Start(w, SeatOperation("role", s, r))
    BY <1>1 DEF LoadRole
  <2>2. SeatOperation("role", s, r) \in Request
    BY DEF SeatOperation, FirstStep, Request, SeatRequest
  <2>3. QED BY <1>1, <2>1, <2>2, StartType DEF LoadRole, TypeOK
<1>2. CASE LoadRemove(w) \/ LoadLeave(w)
  <2>1. PICK s \in Seat, op \in {"remove", "leave"} :
          Start(w, SeatOperation(op, s, "none"))
    BY <1>2 DEF LoadRemove, LoadLeave
  <2>2. SeatOperation(op, s, "none") \in Request
    BY DEF SeatOperation, FirstStep, Request, SeatRequest
  <2>3. QED BY <1>2, <2>1, <2>2, StartType DEF LoadRemove, LoadLeave, TypeOK
<1>3. CASE CheckOwner(w)
  <2>1. [request[w] EXCEPT !.step = "write"] \in Request
    BY <1>3 DEF CheckOwner, SeatRequest, Request
  <2>2. request' \in [Worker -> Request]
    BY <1>3, <2>1, FinishType DEF CheckOwner, GoTo, TypeOK
  <2>3. QED BY <1>3, <2>2 DEF CheckOwner, TypeOK
<1>4. CASE WriteRole(w)
  <2>1. request[w].seat \in Seat /\ request[w].role \in Role
    BY <1>4 DEF WriteRole, Writing, TypeOK, Request, SeatRequest, Idle,
                InvitationRequest, InviteRequest, AccountRequest
  <2>2. seat' \in [Seat -> SeatRow]
    BY <1>4, <2>1 DEF WriteRole, TypeOK, SeatRow
  <2>3. QED BY <1>4, <2>2, FinishType DEF WriteRole, TypeOK
<1>5. CASE WriteRemove(w)
  BY <1>5, FinishType DEF WriteRemove, TypeOK, SeatRow
<1>6. CASE WriteLeave(w)
  BY <1>6, FinishType DEF WriteLeave, TypeOK, SeatRow
<1>7. QED BY <1>1, <1>2, <1>3, <1>4, <1>5, <1>6 DEF SeatStep

LEMMA InvitationStepType ==
  ASSUME TypeOK, NEW w \in Worker, InvitationStep(w)
  PROVE  TypeOK'
<1>1. CASE LoadInvite(w)
  <2>1. PICK r \in InviteRequest : Start(w, r)
    BY <1>1 DEF LoadInvite, InviteRequest
  <2>2. QED BY <1>1, <2>1, StartType DEF LoadInvite, TypeOK, Request
<1>2. CASE WriteInvite(w)
  <2>1. request[w].role \in Role
    BY <1>2 DEF WriteInvite, InviteRequest
  <2>2. CASE UNCHANGED invitation
    BY <1>2, <2>2, FinishType DEF WriteInvite, TypeOK
  <2>3. CASE invitation' =
          [i \in Invitation |->
             IF i[1] \in request[w].emails /\ NextInvitation(i[1], i)
             THEN [status |-> "standby", role |-> request[w].role,
                   stale |-> FALSE]
             ELSE invitation[i]]
    <3>1. invitation' \in [Invitation -> InvitationRow]
      BY <2>1, <2>3 DEF TypeOK, InvitationRow, InvitationStatus
    <3>2. QED BY <1>2, <3>1, FinishType DEF WriteInvite, TypeOK
  <2>4. QED BY <1>2, <2>2, <2>3 DEF WriteInvite
<1>3. CASE LoadReassign(w) \/ LoadResend(w) \/ LoadCancel(w)
  <2>1. PICK r \in InvitationRequest : Start(w, r)
    BY <1>3 DEF LoadReassign, LoadResend, LoadCancel, InvitationOperation,
                InvitationRequest, InvitationStatus, TypeOK, InvitationRow
  <2>2. QED BY <1>3, <2>1, StartType
            DEF LoadReassign, LoadResend, LoadCancel, TypeOK, Request
<1>4. CASE WriteReassign(w)
  <2>1. request[w].role \in Role
    BY <1>4 DEF WriteReassign, Writing, TypeOK, Request, SeatRequest, Idle,
                InvitationRequest, InviteRequest, AccountRequest
  <2>2. invitation' \in [Invitation -> InvitationRow]
    BY <1>4, <2>1 DEF WriteReassign, TypeOK, InvitationRow
  <2>3. QED BY <1>4, <2>2, FinishType DEF WriteReassign, TypeOK
<1>5. CASE WriteResend(w)
  <2>1. CASE UNCHANGED invitation
    BY <1>5, <2>1, FinishType DEF WriteResend, TypeOK
  <2>2. ASSUME NEW i, NEW status \in {"standby", invitation[i].status},
               invitation' = [invitation EXCEPT ![i].stale = FALSE,
                                                ![i].status = status]
        PROVE  TypeOK'
    <3>1. invitation' \in [Invitation -> InvitationRow]
      BY <2>2 DEF TypeOK, InvitationRow, InvitationStatus
    <3>2. QED BY <1>5, <3>1, FinishType DEF WriteResend, TypeOK
  <2>3. QED BY <1>5, <2>1, <2>2 DEF WriteResend, TypeOK
<1>6. CASE WriteCancel(w)
  <2>1. invitation' \in [Invitation -> InvitationRow]
    BY <1>6 DEF WriteCancel, TypeOK, InvitationRow, InvitationStatus
  <2>2. QED BY <1>6, <2>1, FinishType DEF WriteCancel, TypeOK
<1>7. QED BY <1>1, <1>2, <1>3, <1>4, <1>5, <1>6 DEF InvitationStep

\* The request _take_pending leaves behind, at either of its next steps.
LEMMA AnswerType ==
  ASSUME TypeOK, NEW i \in Invitation, NEW op \in {"accept", "refuse"},
         NEW step \in {"expire", AfterTake(op)}
  PROVE  Answer(op, step, i) \in InvitationRequest
BY DEF Answer, AfterTake, InvitationOperation, InvitationRequest, TypeOK,
       InvitationRow

LEMMA AnswerStepType ==
  ASSUME TypeOK, NEW w \in Worker, AnswerStep(w)
  PROVE  TypeOK'
<1>1. CASE LoadAnswer(w)
  <2>1. PICK r \in InvitationRequest : Start(w, r)
    BY <1>1, AnswerType DEF LoadAnswer, TakeStep
  <2>2. QED BY <1>1, <2>1, StartType DEF LoadAnswer, TypeOK, Request
<1>2. CASE WriteExpired(w)
  <2>1. invitation' \in [Invitation -> InvitationRow]
    BY <1>2 DEF WriteExpired, TypeOK, InvitationRow, InvitationStatus
  <2>2. [request[w] EXCEPT !.step = "reread"] \in Request
    BY <1>2 DEF WriteExpired, InvitationRequest, Request
  <2>3. QED BY <1>2, <2>1, <2>2 DEF WriteExpired, GoTo, TypeOK
<1>3. CASE RereadAnswer(w)
  <2>1. request[w].op \in {"accept", "refuse"}
        /\ request[w].invitation \in Invitation
    BY <1>3 DEF RereadAnswer, InvitationRequest
  <2>2. Answer(request[w].op, AfterTake(request[w].op), request[w].invitation)
          \in Request
    BY <2>1, AnswerType DEF Request
  <2>3. request' \in [Worker -> Request]
    BY <1>3, <2>2, FinishType DEF RereadAnswer, TypeOK
  <2>4. QED BY <1>3, <2>3 DEF RereadAnswer, TypeOK
<1>4. CASE CheckNotMember(w)
  <2>1. [request[w] EXCEPT !.step = "write"] \in Request
    BY <1>4 DEF CheckNotMember, InvitationRequest, Request
  <2>2. request' \in [Worker -> Request]
    BY <1>4, <2>1, FinishType DEF CheckNotMember, GoTo, TypeOK
  <2>3. QED BY <1>4, <2>2 DEF CheckNotMember, TypeOK
<1>5. CASE WriteAccept(w)
  <2>1. request[w].role \in Role /\ request[w].invitation \in Invitation
    BY <1>5 DEF WriteAccept, Writing, TypeOK, Request, SeatRequest, Idle,
                InvitationRequest, InviteRequest, AccountRequest
  <2>2. seat' \in [Seat -> SeatRow]
    BY <1>5, <2>1 DEF WriteAccept, TypeOK, SeatRow
  <2>3. invitation' \in [Invitation -> InvitationRow]
    BY <1>5 DEF WriteAccept, TypeOK, InvitationRow, InvitationStatus
  <2>4. QED BY <1>5, <2>2, <2>3, FinishType DEF WriteAccept, TypeOK
<1>6. CASE WriteAcceptConflict(w)
  BY <1>6, FinishType DEF WriteAcceptConflict, TypeOK
<1>7. CASE WriteRefuse(w)
  <2>1. invitation' \in [Invitation -> InvitationRow]
    BY <1>7 DEF WriteRefuse, TypeOK, InvitationRow, InvitationStatus
  <2>2. QED BY <1>7, <2>1, FinishType DEF WriteRefuse, TypeOK
<1>8. QED
  BY <1>1, <1>2, <1>3, <1>4, <1>5, <1>6, <1>7 DEF AnswerStep

LEMMA AccountStepType ==
  ASSUME TypeOK, NEW w \in Worker, AccountStep(w)
  PROVE  TypeOK'
<1>1. CASE LoadAccount(w)
  <2>1. PICK r \in AccountRequest : Start(w, r)
    BY <1>1 DEF LoadAccount, AccountRequest
  <2>2. QED BY <1>1, <2>1, StartType DEF LoadAccount, TypeOK, Request
<1>2. CASE WriteAccount(w)
  <2>1. account' \in AccountRow
    BY <1>2 DEF WriteAccount, AccountRequest, AccountRow, TypeOK
  <2>2. QED BY <1>2, <2>1, FinishType DEF WriteAccount, TypeOK
<1>3. QED BY <1>1, <1>2 DEF AccountStep

\* Every reachable state is well typed.
THEOREM TypeCorrect == Spec => []TypeOK
<1>1. TypeOK /\ [Next]_vars => TypeOK'
  <2> SUFFICES ASSUME TypeOK, [Next]_vars PROVE TypeOK'
    OBVIOUS
  <2>1. CASE UNCHANGED vars
    BY <2>1 DEF vars, TypeOK
  <2>2. ASSUME NEW w \in Worker, Abort(w) PROVE TypeOK'
    BY <2>2, FinishType DEF Abort, TypeOK
  <2>3. ASSUME NEW i \in Invitation, Lapse(i) PROVE TypeOK'
    BY <2>3 DEF Lapse, TypeOK, InvitationRow
  <2>4. QED
    BY <2>1, <2>2, <2>3, SeatStepType, InvitationStepType, AnswerStepType,
       AccountStepType
    DEF Next
<1>2. QED BY <1>1, InitTypeOK, PTL DEF Spec

----------------------------------------------------------------------------
(* What the unique indexes and the single commits give, however requests   *)
(* interleave.                                                             *)

\* A fresh row: its number is the first free one, so there is only one.
LEMMA NextInvitationUnique ==
  ASSUME NEW u \in Email, NEW i \in Invitation, NEW j \in Invitation,
         NextInvitation(u, i), NextInvitation(u, j)
  PROVE  i = j
<1>1. PICK m \in InvitationNo, n \in InvitationNo : i = <<u, m>> /\ j = <<u, n>>
  BY DEF NextInvitation
<1>2. ~(m < n) /\ ~(n < m)
  BY <1>1 DEF NextInvitation
<1>3. m \in Nat /\ n \in Nat
  BY NumbersAreNat
<1>4. QED BY <1>1, <1>2, <1>3

\* A seat request, or one on an invitation, names a row of its table.
LEMMA RequestRows ==
  ASSUME TypeOK, NEW w \in Worker
  PROVE  /\ \A op \in {"role", "remove", "leave"} :
              Writing(w, op) => request[w] \in SeatRequest
         /\ \A op \in {"reassign", "accept", "refuse", "resend", "cancel"} :
              Writing(w, op) => request[w] \in InvitationRequest
BY DEF Writing, TypeOK, Request, SeatRequest, Idle, InvitationRequest,
       InviteRequest, AccountRequest

\* The steps that write each table.
LEMMA SeatWriters ==
  ASSUME [Next]_vars
  PROVE  \/ UNCHANGED seat
         \/ \E w \in Worker :
              WriteRole(w) \/ WriteRemove(w) \/ WriteLeave(w) \/ WriteAccept(w)
BY DEF Next, vars, SeatStep, InvitationStep, AnswerStep, AccountStep, Abort,
       Lapse, LoadRole, LoadRemove, LoadLeave, CheckOwner, LoadInvite,
       WriteInvite, LoadReassign, WriteReassign, LoadResend, WriteResend,
       LoadCancel, WriteCancel, LoadAnswer, WriteExpired, RereadAnswer,
       CheckNotMember, WriteAcceptConflict, WriteRefuse, LoadAccount,
       WriteAccount

LEMMA InvitationWriters ==
  ASSUME [Next]_vars
  PROVE  \/ UNCHANGED invitation
         \/ \E w \in Worker :
              \/ WriteInvite(w) \/ WriteReassign(w) \/ WriteResend(w)
              \/ WriteCancel(w) \/ WriteExpired(w) \/ WriteAccept(w)
              \/ WriteRefuse(w)
         \/ \E i \in Invitation : Lapse(i)
BY DEF Next, vars, SeatStep, InvitationStep, AnswerStep, AccountStep, Abort,
       LoadRole, LoadRemove, LoadLeave, CheckOwner, WriteRole, WriteRemove,
       WriteLeave, LoadInvite, LoadReassign, LoadResend, LoadCancel,
       LoadAnswer, RereadAnswer, CheckNotMember, WriteAcceptConflict,
       LoadAccount, WriteAccount

UniqueSeats ==
  \A s, t \in Seat :
    (s[1] = t[1] /\ seat[s].status = "active" /\ seat[t].status = "active")
      => s = t

UniqueInvitations ==
  \A i, j \in Invitation :
    (/\ i[1] = j[1]
     /\ invitation[i].status = "standby"
     /\ invitation[j].status = "standby") => i = j

\* Only accept() makes a seat active, and only where no row of the user is.
LEMMA UniqueSeatsStep ==
  ASSUME TypeOK, UniqueSeats, [Next]_vars
  PROVE  UniqueSeats'
<1>1. ASSUME NEW w \in Worker, WriteAccept(w) PROVE UniqueSeats'
  <2>1. PICK s \in Seat :
          /\ s[1] = request[w].invitation[1]
          /\ seat' = [seat EXCEPT
               ![s] = [status |-> "active", enabled |-> TRUE,
                       role |-> request[w].role,
                       from |-> request[w].invitation]]
    BY <1>1 DEF WriteAccept, NextSeat
  <2>2. \A t \in Seat : t[1] = s[1] => seat[t].status # "active"
    BY <1>1, <2>1 DEF WriteAccept, HasActiveRow, Seat
  <2>3. QED BY <2>1, <2>2 DEF UniqueSeats, TypeOK
<1>2. ASSUME NEW w \in Worker, WriteRole(w) \/ WriteRemove(w) \/ WriteLeave(w)
      PROVE  UniqueSeats'
  <2>1. \A s \in Seat :
          seat'[s].status = "active" => seat[s].status = "active"
    BY <1>2 DEF WriteRole, WriteRemove, WriteLeave, TypeOK, SeatRow
  <2>2. QED BY <2>1 DEF UniqueSeats
<1>3. CASE UNCHANGED seat
  BY <1>3 DEF UniqueSeats
<1>4. QED BY <1>1, <1>2, <1>3, SeatWriters

\* An invitation becomes standby by an invite, on the first free row of an
\* e-mail that has none standby, or by a resend, under the same condition.
LEMMA UniqueInvitationsStep ==
  ASSUME TypeOK, UniqueInvitations, [Next]_vars
  PROVE  UniqueInvitations'
<1> DEFINE Keeps == \A i \in Invitation :
             invitation'[i].status = "standby" => invitation[i].status = "standby"
<1>1. CASE Keeps
  BY <1>1 DEF UniqueInvitations
<1>2. ASSUME NEW w \in Worker, WriteInvite(w) PROVE UniqueInvitations'
  <2>1. CASE UNCHANGED invitation
    BY <1>1, <2>1
  <2>2. CASE ~UNCHANGED invitation
    <3> DEFINE Fresh(i) == i[1] \in request[w].emails /\ NextInvitation(i[1], i)
    <3>1. /\ \A u \in request[w].emails : ~StandbyEmail(u)
          /\ \A i \in Invitation : ~Fresh(i) => invitation'[i] = invitation[i]
      BY <1>2, <2>2 DEF WriteInvite, InsertRefused
    <3>2. \A i \in Invitation :
            invitation'[i].status = "standby" =>
              Fresh(i) \/ (/\ invitation[i].status = "standby"
                           /\ i[1] \notin request[w].emails)
      BY <3>1 DEF StandbyEmail, Invitation
    <3>3. \A i, j \in Invitation :
            Fresh(i) /\ Fresh(j) /\ i[1] = j[1] => i = j
      BY NextInvitationUnique DEF Invitation
    <3>4. QED BY <3>2, <3>3 DEF UniqueInvitations
  <2>3. QED BY <2>1, <2>2
<1>3. ASSUME NEW w \in Worker, WriteResend(w) PROVE UniqueInvitations'
  <2> DEFINE k == request[w].invitation
  <2>1. k \in Invitation
    BY <1>3, RequestRows DEF WriteResend, InvitationRequest
  <2>2. \A i \in Invitation :
          i # k => invitation'[i].status = invitation[i].status
    BY <1>3 DEF WriteResend, TypeOK
  <2>3. CASE invitation[k].status # "standby" /\ StandbyEmail(k[1])
    <3>1. invitation'[k].status = invitation[k].status
      BY <1>3, <2>1, <2>3 DEF WriteResend, ReopenRefused, TypeOK, InvitationRow
    <3>2. QED BY <1>1, <2>2, <3>1
  <2>4. CASE invitation[k].status = "standby"
    BY <1>1, <2>2, <2>4
  <2>5. CASE ~StandbyEmail(k[1])
    <3>1. \A i \in Invitation : i[1] = k[1] => invitation[i].status # "standby"
      BY <2>5 DEF StandbyEmail, Invitation
    <3>2. QED BY <2>1, <2>2, <3>1 DEF UniqueInvitations
  <2>6. QED BY <2>3, <2>4, <2>5
<1>4. ASSUME NEW w \in Worker,
             \/ WriteReassign(w) \/ WriteCancel(w) \/ WriteExpired(w)
             \/ WriteAccept(w) \/ WriteRefuse(w)
      PROVE  UniqueInvitations'
  BY <1>1, <1>4 DEF WriteReassign, WriteCancel, WriteExpired, WriteAccept,
                    WriteRefuse, TypeOK, InvitationRow
<1>5. ASSUME NEW i \in Invitation, Lapse(i) PROVE UniqueInvitations'
  BY <1>1, <1>5 DEF Lapse, TypeOK, InvitationRow
<1>6. CASE UNCHANGED invitation
  BY <1>1, <1>6
<1>7. QED BY <1>2, <1>3, <1>4, <1>5, <1>6, InvitationWriters

\* No interleaving gives a user two active rows, or an e-mail two standby
\* invitations.
THEOREM UniqueRowsCorrect == Spec => []UniqueRows
<1>1. Init => UniqueRows
  BY DEF Init, UniqueRows, CreatorSeat
<1>2. TypeOK /\ UniqueRows /\ [Next]_vars => UniqueRows'
  BY UniqueSeatsStep, UniqueInvitationsStep
  DEF UniqueRows, UniqueSeats, UniqueInvitations
<1>3. QED BY <1>1, <1>2, TypeCorrect, PTL DEF Spec

----------------------------------------------------------------------------
(* accept() is all or nothing.                                             *)

\* A row that is not in the table yet points to no invitation, so that
\* inserting it takes no seat away from one: what makes AcceptedHasSeat
\* inductive.
FreeRowsPointNowhere ==
  \A s \in Seat : seat[s].status = "none" => seat[s].from = NoInvitation

AcceptInv == AcceptedHasSeat /\ FreeRowsPointNowhere

LEMMA AcceptInvStep ==
  ASSUME TypeOK, AcceptInv, [Next]_vars
  PROVE  AcceptInv'
<1> USE DEF AcceptInv, AcceptedHasSeat, FreeRowsPointNowhere
<1> DEFINE SameSeats ==
      \A s \in Seat : /\ seat'[s].from = seat[s].from
                      /\ seat'[s].status = "none" => seat[s].status = "none"
           NoNewAccepted ==
      \A i \in Invitation :
        invitation'[i].status = "accepted" => invitation[i].status = "accepted"
<1>1. CASE SameSeats /\ NoNewAccepted
  BY <1>1
<1>2. ASSUME NEW w \in Worker, WriteAccept(w) PROVE AcceptInv'
  <2> DEFINE k == request[w].invitation
  <2>1. PICK s \in Seat :
          /\ seat[s].status = "none"
          /\ seat' = [seat EXCEPT
               ![s] = [status |-> "active", enabled |-> TRUE,
                       role |-> request[w].role, from |-> k]]
    BY <1>2 DEF WriteAccept, NextSeat
  <2>2. k \in Invitation
    BY <1>2, RequestRows DEF WriteAccept, InvitationRequest
  <2>3. seat'[s].from = k /\ seat'[s].status = "active"
    BY <2>1 DEF TypeOK
  <2>4. \A t \in Seat : t # s => seat'[t] = seat[t]
    BY <2>1 DEF TypeOK
  <2>5. \A i \in Invitation : i # k => invitation'[i] = invitation[i]
    BY <1>2 DEF WriteAccept, TypeOK
  <2>6. QED BY <2>1, <2>2, <2>3, <2>4, <2>5, NullIsNoInvitation
<1>3. ASSUME NEW w \in Worker, WriteRole(w) \/ WriteRemove(w) \/ WriteLeave(w)
      PROVE  AcceptInv'
  <2>1. SameSeats
    BY <1>3 DEF WriteRole, WriteRemove, WriteLeave, TypeOK, SeatRow
  <2>2. NoNewAccepted
    BY <1>3 DEF WriteRole, WriteRemove, WriteLeave
  <2>3. QED BY <1>1, <2>1, <2>2
<1>4. CASE UNCHANGED seat
  <2>1. ASSUME NEW w \in Worker,
               \/ WriteInvite(w) \/ WriteReassign(w) \/ WriteResend(w)
               \/ WriteCancel(w) \/ WriteExpired(w) \/ WriteRefuse(w)
        PROVE  NoNewAccepted
    <3>1. CASE WriteInvite(w)
      BY <3>1 DEF WriteInvite
    <3>2. CASE WriteResend(w)
      BY <3>2 DEF WriteResend, TypeOK, InvitationRow
    <3>3. CASE \/ WriteReassign(w) \/ WriteCancel(w) \/ WriteExpired(w)
               \/ WriteRefuse(w)
      BY <3>3 DEF WriteReassign, WriteCancel, WriteExpired, WriteRefuse,
                  TypeOK, InvitationRow
    <3>4. QED BY <2>1, <3>1, <3>2, <3>3
  <2>2. ASSUME NEW i \in Invitation, Lapse(i) PROVE NoNewAccepted
    BY <2>2 DEF Lapse, TypeOK, InvitationRow
  <2>3. CASE UNCHANGED invitation
    BY <1>1, <1>4, <2>3
  <2>4. QED
    BY <1>1, <1>2, <1>4, <2>1, <2>2, <2>3, InvitationWriters
<1>5. QED BY <1>2, <1>3, <1>4, SeatWriters

\* An accepted invitation has given its seat, however requests interleave and
\* wherever one is cut off.
THEOREM AcceptedHasSeatCorrect == Spec => []AcceptedHasSeat
<1>1. Init => AcceptInv
  BY DEF Init, AcceptInv, AcceptedHasSeat, FreeRowsPointNowhere
<1>2. AcceptInv => AcceptedHasSeat
  BY DEF AcceptInv
<1>3. QED BY <1>1, <1>2, AcceptInvStep, TypeCorrect, PTL DEF Spec

\* A member who left or was removed never comes back on the same row.
THEOREM DepartedStaysDepartedCorrect == Spec => DepartedStaysDeparted
<1> DEFINE Stays ==
      \A s \in Seat : seat[s].status # "none" /\ ~Live(s) => ~Live(s)'
<1>1. TypeOK /\ [Next]_vars => [Stays]_seat
  <2> SUFFICES ASSUME TypeOK, [Next]_vars, ~UNCHANGED seat PROVE Stays
    OBVIOUS
  <2>1. ASSUME NEW w \in Worker, WriteRole(w) \/ WriteRemove(w) \/ WriteLeave(w)
        PROVE  Stays
    BY <2>1 DEF WriteRole, WriteRemove, WriteLeave, Live, TypeOK, SeatRow
  <2>2. ASSUME NEW w \in Worker, WriteAccept(w) PROVE Stays
    BY <2>2 DEF WriteAccept, NextSeat, Live, TypeOK
  <2>3. QED BY <2>1, <2>2, SeatWriters
<1>2. QED BY <1>1, TypeCorrect, PTL DEF Spec, DepartedStaysDeparted

----------------------------------------------------------------------------
(* One request at a time: what Serial assumes of the requests, as a state   *)
(* predicate that every narrower condition below follows from.              *)

SoleRequest ==
  \A v, w \in Worker : request[v] # Idle /\ request[w] # Idle => v = w

\* A step starts a request, or changes the record of a request under way.
LEMMA RequestWriters ==
  ASSUME [Next]_vars
  PROVE  \/ UNCHANGED request
         \/ \E w \in Worker : \E r : Start(w, r)
         \/ \E w \in Worker : \E r :
              /\ request[w] # Idle
              /\ request' = [request EXCEPT ![w] = r]
<1> DEFINE Continues(w) ==
      request[w] # Idle /\ \E r : request' = [request EXCEPT ![w] = r]
<1>1. ASSUME NEW w \in Worker,
             \/ LoadRole(w) \/ LoadRemove(w) \/ LoadLeave(w)
             \/ LoadInvite(w) \/ LoadReassign(w) \/ LoadResend(w)
             \/ LoadCancel(w) \/ LoadAnswer(w) \/ LoadAccount(w)
      PROVE  \E r : Start(w, r)
  BY <1>1 DEF LoadRole, LoadRemove, LoadLeave, LoadInvite, LoadReassign,
              LoadResend, LoadCancel, LoadAnswer, LoadAccount
<1>2. ASSUME NEW w \in Worker, CheckOwner(w) PROVE Continues(w)
  BY <1>2 DEF CheckOwner, SeatRequest, Idle, GoTo, Finish
<1>3. ASSUME NEW w \in Worker,
             \/ WriteExpired(w) \/ RereadAnswer(w) \/ CheckNotMember(w)
      PROVE  Continues(w)
  BY <1>3 DEF WriteExpired, RereadAnswer, CheckNotMember, InvitationRequest,
              Idle, GoTo, Finish
<1>4. ASSUME NEW w \in Worker,
             \/ WriteRole(w) \/ WriteRemove(w) \/ WriteLeave(w)
             \/ WriteReassign(w) \/ WriteResend(w) \/ WriteCancel(w)
             \/ WriteAccept(w) \/ WriteAcceptConflict(w) \/ WriteRefuse(w)
             \/ Abort(w)
      PROVE  Continues(w)
  BY <1>4 DEF WriteRole, WriteRemove, WriteLeave, WriteReassign, WriteResend,
              WriteCancel, WriteAccept, WriteAcceptConflict, WriteRefuse,
              Abort, Writing, Finish
<1>5. ASSUME NEW w \in Worker, WriteInvite(w) \/ WriteAccount(w)
      PROVE  Continues(w)
  BY <1>5 DEF WriteInvite, WriteAccount, InviteRequest, AccountRequest, Idle,
              Finish
<1>6. QED
  BY <1>1, <1>2, <1>3, <1>4, <1>5
  DEF Next, vars, SeatStep, InvitationStep, AnswerStep, AccountStep, Lapse

LEMMA SoleRequestStep ==
  ASSUME TypeOK, Serial, SoleRequest, [Next]_vars
  PROVE  SoleRequest'
BY RequestWriters DEF SoleRequest, Start, CanStart, TypeOK

\* With Serial, a request has the rows to itself from its load to its commit.
THEOREM SoleRequestCorrect ==
  ASSUME Serial
  PROVE  Spec => []SoleRequest
<1>1. Init => SoleRequest
  BY DEF Init, SoleRequest
<1>2. TypeOK /\ SoleRequest /\ [Next]_vars => SoleRequest'
  BY SoleRequestStep
<1>3. QED BY <1>1, <1>2, TypeCorrect, PTL DEF Spec

----------------------------------------------------------------------------
(* The last owner.                                                         *)

\* A request about to write, whose write may end the ownership of its seat:
\* anything but a promotion to owner.  One that read the seat as no owner's
\* has not asked for another owner.
TakesSeat(r) ==
  /\ r \in SeatRequest /\ r.step = "write"
  /\ r.op = "role" => r.role # "owner"

\* What a lock on the account's owners would give, taken before the owner
\* query and held until the commit: one such request at a time.  Every other
\* request may overlap it, and the loads and owner queries of its kind too.
TakersApart ==
  \A v, w \in Worker : TakesSeat(request[v]) /\ TakesSeat(request[w]) => v = w

\* What the check has established, or the seat's role has made needless, still
\* holds when the write commits: an owner remains without this seat.
CheckStillHolds ==
  \A w \in Worker :
    TakesSeat(request[w]) => OtherActiveOwner(request[w].seat)

OwnerInv == OwnerKept /\ CheckStillHolds

\* A promotion leaves every owner an owner.
LEMMA PromotionKeepsOwners ==
  ASSUME TypeOK, NEW w \in Worker, ~TakesSeat(request[w]),
         WriteRole(w) \/ WriteRemove(w) \/ WriteLeave(w),
         NEW o \in Seat, Live(o), seat[o].role = "owner"
  PROVE  Live(o)' /\ seat'[o].role = "owner"
<1>1. request[w] \in SeatRequest /\ request[w].step = "write"
  BY RequestRows DEF WriteRole, WriteRemove, WriteLeave, Writing
<1>2. request[w].op = "role" /\ request[w].role = "owner"
  BY <1>1 DEF TakesSeat
<1>3. WriteRole(w)
  BY <1>2 DEF WriteRemove, WriteLeave, Writing
<1>4. seat' = [seat EXCEPT ![request[w].seat].role = "owner"]
  BY <1>2, <1>3 DEF WriteRole
<1>5. QED BY <1>4 DEF Live, TypeOK, SeatRow

\* Changing or freeing the seat of a checked request leaves an owner.
LEMMA SeatWriteKeepsOwner ==
  ASSUME TypeOK, OwnerInv, NEW w \in Worker,
         WriteRole(w) \/ WriteRemove(w) \/ WriteLeave(w)
  PROVE  OwnerKept'
<1> DEFINE k == request[w].seat
<1>1. CASE TakesSeat(request[w])
  <2>1. \E o \in Seat : o # k /\ Live(o) /\ seat[o].role = "owner"
    BY <1>1 DEF OwnerInv, CheckStillHolds, OtherActiveOwner
  <2>2. \A o \in Seat : o # k => seat'[o] = seat[o]
    BY DEF WriteRole, WriteRemove, WriteLeave, TypeOK
  <2>3. QED BY <2>1, <2>2 DEF OwnerKept, Live
<1>2. CASE ~TakesSeat(request[w])
  BY <1>2, PromotionKeepsOwners DEF OwnerInv, OwnerKept
<1>3. QED BY <1>1, <1>2

\* A new row takes no other's place.
LEMMA AcceptKeepsOwner ==
  ASSUME TypeOK, OwnerKept, NEW w \in Worker, WriteAccept(w)
  PROVE  OwnerKept'
<1>1. PICK s \in Seat : /\ seat[s].status = "none"
                      /\ \A o \in Seat : o # s => seat'[o] = seat[o]
  BY DEF WriteAccept, NextSeat, TypeOK
<1>2. QED BY <1>1 DEF OwnerKept, Live

\* Only a load or the owner query brings a seat request to its write step.
LEMMA SeatRequestWriters ==
  ASSUME TypeOK, [Next]_vars, NEW w \in Worker, request'[w] \in SeatRequest,
         request'[w] # request[w]
  PROVE  LoadRole(w) \/ LoadRemove(w) \/ LoadLeave(w) \/ CheckOwner(w)
<1>1. ASSUME NEW v \in Worker, LoadRole(v) \/ LoadRemove(v) \/ LoadLeave(v)
                               \/ CheckOwner(v)
      PROVE  v = w
  BY <1>1 DEF LoadRole, LoadRemove, LoadLeave, CheckOwner, Start, GoTo, Finish,
              TypeOK
<1>2. ASSUME NEW v \in Worker,
             LoadInvite(v) \/ LoadReassign(v) \/ LoadResend(v) \/ LoadCancel(v)
             \/ LoadAnswer(v) \/ LoadAccount(v)
      PROVE  FALSE
  BY <1>2 DEF LoadInvite, LoadReassign, LoadResend, LoadCancel, LoadAnswer,
              LoadAccount, Start, InvitationOperation, Answer, TypeOK,
              SeatRequest
<1>3. ASSUME NEW v \in Worker,
             WriteExpired(v) \/ RereadAnswer(v) \/ CheckNotMember(v)
      PROVE  FALSE
  BY <1>3 DEF WriteExpired, RereadAnswer, CheckNotMember, GoTo, Finish, Answer,
              InvitationOperation, InvitationRequest, TypeOK, SeatRequest, Idle
<1>4. ASSUME NEW v \in Worker, Finish(v) PROVE FALSE
  BY <1>4 DEF Finish, TypeOK, SeatRequest, Idle
<1>5. request' # request
  OBVIOUS
<1>6. QED
  BY <1>1, <1>2, <1>3, <1>4, <1>5
  DEF Next, vars, SeatStep, InvitationStep, AnswerStep, AccountStep, Abort,
      Lapse, WriteRole, WriteRemove, WriteLeave, WriteInvite, WriteReassign,
      WriteResend, WriteCancel, WriteAccept, WriteAcceptConflict, WriteRefuse,
      WriteAccount

\* The owner a checked request relies on outlasts the writes of the others.
LEMMA OthersLeaveTheOwner ==
  ASSUME TypeOK, TakersApart, [Next]_vars, NEW w \in Worker,
         TakesSeat(request[w]), request'[w] = request[w],
         NEW k \in Seat, OtherActiveOwner(k)
  PROVE  OtherActiveOwner(k)'
<1>1. PICK o \in Seat : o # k /\ Live(o) /\ seat[o].role = "owner"
  BY DEF OtherActiveOwner
<1>2. CASE UNCHANGED seat
  BY <1>1, <1>2 DEF OtherActiveOwner, Live
<1>3. ASSUME NEW v \in Worker, WriteAccept(v) PROVE OtherActiveOwner(k)'
  <2>1. seat'[o] = seat[o]
    BY <1>1, <1>3 DEF WriteAccept, NextSeat, TypeOK, Live
  <2>2. QED BY <1>1, <2>1 DEF OtherActiveOwner, Live
<1>4. ASSUME NEW v \in Worker, WriteRole(v) \/ WriteRemove(v) \/ WriteLeave(v)
      PROVE  OtherActiveOwner(k)'
  <2>1. v # w
    BY <1>4 DEF WriteRole, WriteRemove, WriteLeave, Finish, TakesSeat, TypeOK,
                SeatRequest, Idle
  <2>2. ~TakesSeat(request[v])
    BY <2>1 DEF TakersApart
  <2>3. Live(o)' /\ seat'[o].role = "owner"
    BY <1>1, <1>4, <2>2, PromotionKeepsOwners
  <2>4. QED BY <1>1, <2>3 DEF OtherActiveOwner, Live
<1>5. QED BY <1>2, <1>3, <1>4, SeatWriters

LEMMA CheckStillHoldsStep ==
  ASSUME TypeOK, TakersApart, OwnerInv, [Next]_vars
  PROVE  CheckStillHolds'
<1> SUFFICES ASSUME NEW w \in Worker, TakesSeat(request'[w]),
                    NEW k, k = request'[w].seat
             PROVE  OtherActiveOwner(k)'
  BY DEF CheckStillHolds, TakesSeat, SeatRequest
<1>1. /\ request'[w] \in SeatRequest /\ request'[w].step = "write"
      /\ k \in Seat
  BY DEF TakesSeat, SeatRequest
<1>2. CASE request'[w] = request[w]
  BY <1>1, <1>2, OthersLeaveTheOwner DEF OwnerInv, CheckStillHolds
<1>3. CASE LoadRole(w) \/ LoadRemove(w) \/ LoadLeave(w)
  <2>1. PICK s \in Seat, op \in {"role", "remove", "leave"},
             r \in Role \cup {"none"} : request'[w] = SeatOperation(op, s, r)
    BY <1>3 DEF LoadRole, LoadRemove, LoadLeave, Start, TypeOK
  <2>2. UNCHANGED seat
    BY <1>3 DEF LoadRole, LoadRemove, LoadLeave
  <2>3. s = k /\ seat[k].role # "owner"
    BY <1>1, <2>1 DEF SeatOperation, FirstStep
  <2>4. OtherActiveOwner(k)
    BY <2>3 DEF OwnerInv, OwnerKept, OtherActiveOwner
  <2>5. QED BY <2>2, <2>4 DEF OtherActiveOwner, Live
<1>4. CASE CheckOwner(w)
  <2>1. OtherActiveOwner(k)
    BY <1>1, <1>4 DEF CheckOwner, GoTo, Finish, TypeOK, SeatRequest, Idle
  <2>2. UNCHANGED seat
    BY <1>4 DEF CheckOwner
  <2>3. QED BY <2>1, <2>2 DEF OtherActiveOwner, Live
<1>5. QED BY <1>1, <1>2, <1>3, <1>4, SeatRequestWriters

LEMMA OwnerInvInit == Init => OwnerInv
<1>1. CreatorSeat \in Seat
  BY CreatorIsUser, FirstSeatExists DEF CreatorSeat, Seat
<1>2. Init => Live(CreatorSeat) /\ seat[CreatorSeat].role = "owner"
  BY <1>1 DEF Init, Live
<1>3. Init => CheckStillHolds
  BY DEF Init, CheckStillHolds, TakesSeat, SeatRequest, Idle
<1>4. QED BY <1>1, <1>2, <1>3 DEF OwnerInv, OwnerKept

LEMMA OwnerInvStep ==
  ASSUME TypeOK, TakersApart, OwnerInv, [Next]_vars
  PROVE  OwnerInv'
<1>1. OwnerKept'
  <2>1. CASE UNCHANGED seat
    BY <2>1 DEF OwnerInv, OwnerKept, Live
  <2>2. QED
    BY <2>1, SeatWriters, SeatWriteKeepsOwner, AcceptKeepsOwner DEF OwnerInv
<1>2. QED BY <1>1, CheckStillHoldsStep DEF OwnerInv

\* However requests overlap otherwise, the account keeps an active owner as
\* long as no two of those that may take an owner's seat are between their
\* owner query and their commit.
THEOREM OwnerKeptApart == Spec /\ []TakersApart => []OwnerKept
<1>1. TypeOK /\ TakersApart /\ OwnerInv /\ [Next]_vars => OwnerInv'
  BY OwnerInvStep
<1>2. OwnerInv => OwnerKept
  BY DEF OwnerInv
<1>3. QED BY <1>1, <1>2, OwnerInvInit, TypeCorrect, PTL DEF Spec

LEMMA SoleTaker ==
  ASSUME SoleRequest
  PROVE  TakersApart
BY DEF SoleRequest, TakersApart, TakesSeat, SeatRequest, Idle

\* Requests that do not overlap never leave the account without an active
\* owner: each of update_role, soft_delete and leave checks enough.
THEOREM OwnerKeptCorrect ==
  ASSUME Serial
  PROVE  Spec => []OwnerKept
<1>1. Spec => []SoleRequest
  BY SoleRequestCorrect
<1>2. SoleRequest => TakersApart
  BY SoleTaker
<1>3. QED BY <1>1, <1>2, OwnerKeptApart, PTL
=============================================================================
