----------------------------- MODULE Membership -----------------------------
(***************************************************************************)
(* The seats and the invitations of one Kartographe account: the managers  *)
(* AccountManager, AccountUsersManager, AccountInvitationsManager and      *)
(* MeInvitationsManager of src/apps/back, with the route dependencies that *)
(* load their arguments.                                                   *)
(*                                                                         *)
(* A request is served by a worker thread inside a database transaction    *)
(* that runs under PostgreSQL's default READ COMMITTED isolation: it reads *)
(* the rows it needs (Load...), may query again (Check...), then writes    *)
(* and commits (Write...).  Between those steps other requests commit.     *)
(* What a request read stays in its record, as it stays in the SQLAlchemy  *)
(* session; an UPDATE carries only the columns the handler changed.        *)
(*                                                                         *)
(* A definition named X_Something is a mutated form of X, the next one: it *)
(* is no part of the specification, and shows which mistake in the code    *)
(* would break a property.                                                 *)
(***************************************************************************)
EXTENDS Naturals

CONSTANTS
  User,          \* users; an e-mail address is identified with its user
  Creator,       \* the user who created the account
  Role,          \* the account roles in use
  Email,         \* bound: the users whose e-mail gets invited
  SeatNo,        \* bound: how many account_user rows one user can get
  InvitationNo,  \* bound: how many invitations one e-mail can get
  NoInvitation,  \* the null account_user_invitation_id of the creator's seat
  Worker,        \* threads of the pool that serves the sync routes
  Serial         \* TRUE: a request starts only when no other is in flight

ASSUME CreatorIsUser == Creator \in User
ASSUME EmailsOfUsers == Email \subseteq User
ASSUME RolesAreNamed == "owner" \in Role /\ "none" \notin Role
ASSUME NumbersAreNat == SeatNo \subseteq Nat /\ InvitationNo \subseteq Nat
ASSUME FirstSeatExists == 1 \in SeatNo
ASSUME SerialIsBoolean == Serial \in BOOLEAN

Seat == User \X SeatNo              \* account_user rows, numbered per user
Invitation == Email \X InvitationNo \* invitation rows, numbered per e-mail
ASSUME NullIsNoInvitation == NoInvitation \notin Invitation

\* PRIVILEGED_ROLES; the guards do not tell the other roles apart.
Privileged == {"owner", "administrator"}

VARIABLES
  account,     \* the account row
  seat,        \* the account_user rows
  invitation,  \* the account_user_invitation rows
  request      \* what each worker is doing and has read

vars == <<account, seat, invitation, request>>

----------------------------------------------------------------------------
(* Rows and requests.                                                      *)

AccountRow == [status: {"active", "disabled"}, enabled: BOOLEAN]

SeatRow ==
  [status: {"none", "active", "disabled"}, enabled: BOOLEAN, role: Role,
   from: Invitation \cup {NoInvitation}]

InvitationStatus ==
  {"none", "standby", "accepted", "refused", "cancelled", "expired"}

\* stale: expire_date lies in the past.
InvitationRow == [status: InvitationStatus, role: Role, stale: BOOLEAN]

Idle == [op |-> "idle"]

\* update_role, soft_delete and leave on a seat.
SeatRequest ==
  [op: {"role"}, step: {"check", "write"}, seat: Seat, role: Role] \cup
  [op: {"remove", "leave"}, step: {"check", "write"}, seat: Seat,
   role: {"none"}]

\* The operations on one invitation, with what later steps use of the row
\* as it was read: its role for accept, its status for resend.
InvitationRequest ==
  [op: {"reassign"}, step: {"write"}, invitation: Invitation, role: Role,
   was: {"none"}] \cup
  [op: {"accept"}, step: {"expire", "reread", "check", "write"},
   invitation: Invitation, role: Role, was: {"none"}] \cup
  [op: {"refuse"}, step: {"expire", "reread", "write"},
   invitation: Invitation, role: {"none"}, was: {"none"}] \cup
  [op: {"resend", "cancel"}, step: {"write"}, invitation: Invitation,
   role: {"none"}, was: InvitationStatus]

InviteRequest == [op: {"invite"}, emails: SUBSET Email, role: Role]

AccountRequest == [op: {"activate", "deactivate", "delete"}]

Request ==
  {Idle} \cup SeatRequest \cup InvitationRequest \cup InviteRequest
         \cup AccountRequest

TypeOK ==
  /\ account \in AccountRow
  /\ seat \in [Seat -> SeatRow]
  /\ invitation \in [Invitation -> InvitationRow]
  /\ request \in [Worker -> Request]

----------------------------------------------------------------------------
(* Queries.                                                                *)

\* find_active_account_user: an active, enabled seat.  The time window adds
\* nothing: end_date is far in the future until leave() disables the seat.
Live(s) == seat[s].status = "active" /\ seat[s].enabled

\* The caller's seat as require_role(roles) resolves it on an account route.
Caller(s, roles) == account.enabled /\ Live(s) /\ seat[s].role \in roles

\* get_target_account_user: any enabled seat, left ones included.
Target(s) == seat[s].status # "none" /\ seat[s].enabled

\* The query behind _assert_other_active_owner_exists.
OtherActiveOwner_AnyStatus(s) ==
  \E o \in Seat : o # s /\ Target(o) /\ seat[o].role = "owner"

OtherActiveOwner(s) ==
  \E o \in Seat : o # s /\ Live(o) /\ seat[o].role = "owner"

\* Unique index unique_account_user_active: one row per user whose status is
\* active, enabled or not.
HasActiveRow_None(u) == FALSE

HasActiveRow(u) == \E n \in SeatNo : seat[<<u, n>>].status = "active"

HasLiveSeat(u) == \E n \in SeatNo : Live(<<u, n>>)

\* Unique index unique_account_email_invitation_standby.
StandbyEmail(u) ==
  \E n \in InvitationNo : invitation[<<u, n>>].status = "standby"

\* The index as the commits of create_many() and resend() meet it: a new row,
\* and a row that becomes standby again.
InsertRefused_Never(emails) == FALSE

InsertRefused(emails) == \E u \in emails : StandbyEmail(u)

ReopenRefused_Never(i) == FALSE

ReopenRefused(i) == invitation[i].status # "standby" /\ StandbyEmail(i[1])

NextSeat(u, s) ==
  /\ s \in {u} \X SeatNo /\ seat[s].status = "none"
  /\ \A n \in SeatNo : n < s[2] => seat[<<u, n>>].status # "none"

NextInvitation(u, i) ==
  /\ i \in {u} \X InvitationNo /\ invitation[i].status = "none"
  /\ \A n \in InvitationNo : n < i[2] => invitation[<<u, n>>].status # "none"

----------------------------------------------------------------------------
(* Starting, ending and abandoning a request.                              *)

CanStart(w) ==
  /\ request[w] = Idle
  /\ Serial => \A v \in Worker : request[v] = Idle

Start(w, r) == CanStart(w) /\ request' = [request EXCEPT ![w] = r]
Finish(w) == request' = [request EXCEPT ![w] = Idle]
GoTo(w, step) == request' = [request EXCEPT ![w].step = step]

\* An exception, a lost connection or a killed worker: get_session rolls the
\* transaction back, so nothing of it is seen.
Abort(w) ==
  /\ request[w] # Idle
  /\ Finish(w)
  /\ UNCHANGED <<account, seat, invitation>>

----------------------------------------------------------------------------
(* Seats: AccountUsersManager.                                             *)

\* _assert_other_active_owner_exists returns at once unless the seat, as it
\* was read, is an owner's; only then does the request query again.
FirstStep_NeverCheck(s) == "write"

FirstStep(s) == IF seat[s].role = "owner" THEN "check" ELSE "write"

SeatOperation(op, s, r) ==
  [op |-> op, step |-> FirstStep(s), seat |-> s, role |-> r]

\* update_role: not oneself, only an owner grants owner, same role: no write.
LoadRole(w) ==
  \E caller, s \in Seat, r \in Role :
    /\ Caller(caller, Privileged)
    /\ Target(s)
    /\ s # caller
    /\ r = "owner" => seat[caller].role = "owner"
    /\ seat[s].role # r
    /\ Start(w, SeatOperation("role", s, r))
    /\ UNCHANGED <<account, seat, invitation>>

\* soft_delete.
LoadRemove(w) ==
  \E caller, s \in Seat :
    /\ Caller(caller, Privileged)
    /\ Target(s)
    /\ s # caller
    /\ Start(w, SeatOperation("remove", s, "none"))
    /\ UNCHANGED <<account, seat, invitation>>

\* leave (one's own seat, whatever its role) and leave_member (another's).
LoadLeave(w) ==
  \E caller, s \in Seat :
    /\ \/ caller = s /\ Caller(caller, Role)
       \/ caller # s /\ Caller(caller, Privileged) /\ Target(s)
    /\ Start(w, SeatOperation("leave", s, "none"))
    /\ UNCHANGED <<account, seat, invitation>>

\* The owner query: 409 unless another active owner is there to be read.
CheckOwner(w) ==
  /\ request[w] \in SeatRequest /\ request[w].step = "check"
  /\ IF OtherActiveOwner(request[w].seat) THEN GoTo(w, "write") ELSE Finish(w)
  /\ UNCHANGED <<account, seat, invitation>>

Writing(w, op) ==
  request[w] # Idle /\ request[w].op = op /\ request[w].step = "write"

WriteRole_WholeRow(w) ==
  /\ Writing(w, "role")
  /\ seat' = [seat EXCEPT ![request[w].seat].role = request[w].role,
                          ![request[w].seat].enabled = TRUE]
  /\ Finish(w)
  /\ UNCHANGED <<account, invitation>>

WriteRole(w) ==
  /\ Writing(w, "role")
  /\ seat' = [seat EXCEPT ![request[w].seat].role = request[w].role]
  /\ Finish(w)
  /\ UNCHANGED <<account, invitation>>

WriteRemove(w) ==
  /\ Writing(w, "remove")
  /\ seat' = [seat EXCEPT ![request[w].seat].enabled = FALSE]
  /\ Finish(w)
  /\ UNCHANGED <<account, invitation>>

WriteLeave(w) ==
  /\ Writing(w, "leave")
  /\ seat' = [seat EXCEPT ![request[w].seat].status = "disabled"]
  /\ Finish(w)
  /\ UNCHANGED <<account, invitation>>

----------------------------------------------------------------------------
(* Invitations as the account sees them: AccountInvitationsManager.        *)

InvitationOperation(op, step, i, r, was) ==
  [op |-> op, step |-> step, invitation |-> i, role |-> r, was |-> was]

\* create_many: only an owner invites an owner; e-mails that already have a
\* standby invitation are skipped, stale or not.
LoadInvite(w) ==
  \E caller \in Seat, emails \in SUBSET Email, r \in Role :
    LET fresh == {u \in emails : ~StandbyEmail(u)} IN
    /\ Caller(caller, Privileged)
    /\ r = "owner" => seat[caller].role = "owner"
    /\ fresh # {}
    /\ Start(w, [op |-> "invite", emails |-> fresh, role |-> r])
    /\ UNCHANGED <<account, seat, invitation>>

\* All the new rows in one commit, or none (IntegrityError) when another
\* request made one of the e-mails standby in between.
WriteInvite(w) ==
  /\ request[w] \in InviteRequest
  /\ IF InsertRefused(request[w].emails)
     THEN UNCHANGED invitation
     ELSE /\ \A u \in request[w].emails :
               \E i \in Invitation : NextInvitation(u, i)
          /\ invitation' =
               [i \in Invitation |->
                  IF i[1] \in request[w].emails /\ NextInvitation(i[1], i)
                  THEN [status |-> "standby", role |-> request[w].role,
                        stale |-> FALSE]
                  ELSE invitation[i]]
  /\ Finish(w)
  /\ UNCHANGED <<account, seat>>

\* update_role on a standby invitation.
LoadReassign(w) ==
  \E caller \in Seat, i \in Invitation, r \in Role :
    /\ Caller(caller, Privileged)
    /\ invitation[i].status = "standby"
    /\ r = "owner" => seat[caller].role = "owner"
    /\ r # invitation[i].role
    /\ Start(w, InvitationOperation("reassign", "write", i, r, "none"))
    /\ UNCHANGED <<account, seat, invitation>>

WriteReassign(w) ==
  /\ Writing(w, "reassign")
  /\ invitation' =
       [invitation EXCEPT ![request[w].invitation].role = request[w].role]
  /\ Finish(w)
  /\ UNCHANGED <<account, seat>>

\* resend: a standby or expired invitation gets a fresh expiry.
Resendable_Any == InvitationStatus \ {"none"}

Resendable == {"standby", "expired"}

LoadResend(w) ==
  \E caller \in Seat, i \in Invitation :
    /\ Caller(caller, Privileged)
    /\ invitation[i].status \in Resendable
    /\ Start(w, InvitationOperation("resend", "write", i, "none",
                                    invitation[i].status))
    /\ UNCHANGED <<account, seat, invitation>>

\* The status column is written only if it was not read as standby; the
\* unique index then refuses a second standby invitation for the e-mail.
WriteResend(w) ==
  LET i == request[w].invitation
      again == request[w].was # "standby"
  IN
  /\ Writing(w, "resend")
  /\ IF again /\ ReopenRefused(i)
     THEN UNCHANGED invitation
     ELSE invitation' =
            [invitation EXCEPT
               ![i].stale = FALSE,
               ![i].status = IF again THEN "standby" ELSE @]
  /\ Finish(w)
  /\ UNCHANGED <<account, seat>>

\* cancel: only what was read as standby.
Cancellable == {"standby"}

LoadCancel(w) ==
  \E caller \in Seat, i \in Invitation :
    /\ Caller(caller, Privileged)
    /\ invitation[i].status \in Cancellable
    /\ Start(w, InvitationOperation("cancel", "write", i, "none", "none"))
    /\ UNCHANGED <<account, seat, invitation>>

WriteCancel(w) ==
  /\ Writing(w, "cancel")
  /\ invitation' =
       [invitation EXCEPT ![request[w].invitation].status = "cancelled"]
  /\ Finish(w)
  /\ UNCHANGED <<account, seat>>

\* Time passes: the expire_date of a standby invitation goes by.
Lapse(i) ==
  /\ invitation[i].status = "standby" /\ ~invitation[i].stale
  /\ invitation' = [invitation EXCEPT ![i].stale = TRUE]
  /\ UNCHANGED <<account, seat, request>>

----------------------------------------------------------------------------
(* Invitations as the recipient sees them: MeInvitationsManager.  These    *)
(* routes do not go through the account, so its state is not looked at.    *)

Answer_FixedRole(op, step, i) ==
  InvitationOperation(
    op, step, i, IF op = "accept" THEN "administrator" ELSE "none", "none")

Answer(op, step, i) ==
  InvitationOperation(
    op, step, i, IF op = "accept" THEN invitation[i].role ELSE "none", "none")

\* What follows _take_pending: accept() queries for a seat, refuse() writes.
AfterTake_AlwaysCheck(op) == "check"

AfterTake(op) == IF op = "accept" THEN "check" ELSE "write"

\* get() and the first half of _take_pending: a stale standby invitation is
\* to be expired first; one that is not standby answers 409.
TakeStep(op, i) == IF invitation[i].stale THEN "expire" ELSE AfterTake(op)

LoadAnswer(w) ==
  \E i \in Invitation, op \in {"accept", "refuse"} :
    /\ invitation[i].status = "standby"
    /\ Start(w, Answer(op, TakeStep(op, i), i))
    /\ UNCHANGED <<account, seat, invitation>>

\* The lazy expiry commits on its own, whatever the row holds by now.
WriteExpired(w) ==
  /\ request[w] \in InvitationRequest /\ request[w].step = "expire"
  /\ invitation' =
       [invitation EXCEPT ![request[w].invitation].status = "expired"]
  /\ GoTo(w, "reread")
  /\ UNCHANGED <<account, seat>>

\* session.refresh after that commit: 409, unless a resend came in between.
RereadAnswer(w) ==
  LET i == request[w].invitation  op == request[w].op IN
  /\ request[w] \in InvitationRequest /\ request[w].step = "reread"
  /\ IF invitation[i].status = "standby"
     THEN request' = [request EXCEPT
            ![w] = Answer(op, AfterTake(op), i)]
     ELSE Finish(w)
  /\ UNCHANGED <<account, seat, invitation>>

\* accept: 409 when the user already has an active, enabled seat.
CheckNotMember(w) ==
  /\ request[w] \in InvitationRequest /\ request[w].step = "check"
  /\ IF HasLiveSeat(request[w].invitation[1])
     THEN Finish(w)
     ELSE GoTo(w, "write")
  /\ UNCHANGED <<account, seat, invitation>>

\* accept: one commit marks the invitation and inserts the guest seat with
\* the role that was read.
WriteAccept(w) ==
  LET i == request[w].invitation IN
  /\ Writing(w, "accept")
  /\ ~HasActiveRow(i[1])
  /\ invitation' = [invitation EXCEPT ![i].status = "accepted"]
  /\ \E s \in Seat :
       /\ NextSeat(i[1], s)
       /\ seat' = [seat EXCEPT
            ![s] = [status |-> "active", enabled |-> TRUE,
                    role |-> request[w].role, from |-> i]]
  /\ Finish(w)
  /\ UNCHANGED account

\* The same commit against unique_account_user_active: IntegrityError, and
\* nothing is kept.
WriteAcceptConflict_Partial(w) ==
  /\ Writing(w, "accept")
  /\ HasActiveRow(request[w].invitation[1])
  /\ invitation' =
       [invitation EXCEPT ![request[w].invitation].status = "accepted"]
  /\ Finish(w)
  /\ UNCHANGED <<account, seat>>

WriteAcceptConflict(w) ==
  /\ Writing(w, "accept")
  /\ HasActiveRow(request[w].invitation[1])
  /\ Finish(w)
  /\ UNCHANGED <<account, seat, invitation>>

WriteRefuse(w) ==
  /\ Writing(w, "refuse")
  /\ invitation' =
       [invitation EXCEPT ![request[w].invitation].status = "refused"]
  /\ Finish(w)
  /\ UNCHANGED <<account, seat>>

----------------------------------------------------------------------------
(* The account row: AccountManager.set_status and soft_delete.             *)

\* soft_delete refuses an account that was not read as disabled.
Deletable_Any == TRUE

Deletable == account.status = "disabled"

LoadAccount(w) ==
  \E caller \in Seat, op \in {"activate", "deactivate", "delete"} :
    /\ Caller(caller, {"owner"})
    /\ op = "activate" => account.status = "disabled"
    /\ op = "deactivate" => account.status = "active"
    /\ op = "delete" => Deletable
    /\ Start(w, [op |-> op])
    /\ UNCHANGED <<account, seat, invitation>>

WriteAccount(w) ==
  LET op == request[w].op IN
  /\ request[w] \in AccountRequest
  /\ account' =
       CASE op = "activate"   -> [account EXCEPT !.status = "active"]
         [] op = "deactivate" -> [account EXCEPT !.status = "disabled"]
         [] op = "delete"     -> [account EXCEPT !.enabled = FALSE]
  /\ Finish(w)
  /\ UNCHANGED <<seat, invitation>>

----------------------------------------------------------------------------
(* create_account: the creator becomes the only active owner.              *)

CreatorSeat == <<Creator, 1>>

Init ==
  /\ account = [status |-> "active", enabled |-> TRUE]
  /\ seat = [s \in Seat |->
       [status |-> IF s = CreatorSeat THEN "active" ELSE "none",
        enabled |-> TRUE,
        role |-> "owner",
        from |-> NoInvitation]]
  /\ invitation = [i \in Invitation |->
       [status |-> "none", role |-> "owner", stale |-> FALSE]]
  /\ request = [w \in Worker |-> Idle]

SeatStep(w) ==
  \/ LoadRole(w) \/ LoadRemove(w) \/ LoadLeave(w) \/ CheckOwner(w)
  \/ WriteRole(w) \/ WriteRemove(w) \/ WriteLeave(w)

InvitationStep(w) ==
  \/ LoadInvite(w) \/ WriteInvite(w)
  \/ LoadReassign(w) \/ WriteReassign(w)
  \/ LoadResend(w) \/ WriteResend(w)
  \/ LoadCancel(w) \/ WriteCancel(w)

AnswerStep(w) ==
  \/ LoadAnswer(w) \/ WriteExpired(w) \/ RereadAnswer(w)
  \/ CheckNotMember(w) \/ WriteAccept(w) \/ WriteAcceptConflict(w)
  \/ WriteRefuse(w)

AccountStep(w) == LoadAccount(w) \/ WriteAccount(w)

Next ==
  \/ \E w \in Worker :
       \/ SeatStep(w) \/ InvitationStep(w) \/ AnswerStep(w) \/ AccountStep(w)
       \/ Abort(w)
  \/ \E i \in Invitation : Lapse(i)

Spec == Init /\ [][Next]_vars

----------------------------------------------------------------------------
(* Properties that hold however requests interleave.                       *)

\* At most one account_user row of a user is active, and at most one of an
\* e-mail's invitations is standby: the two partial unique indexes, which the
\* check-then-insert of accept() and create_many() rely on.
UniqueRows ==
  /\ \A s, t \in Seat :
       (s[1] = t[1] /\ seat[s].status = "active" /\ seat[t].status = "active")
         => s = t
  /\ \A i, j \in Invitation :
       (/\ i[1] = j[1]
        /\ invitation[i].status = "standby"
        /\ invitation[j].status = "standby") => i = j

\* An accepted invitation has given its seat: accept() marks the invitation
\* and inserts the seat in one commit, or does neither.
AcceptedHasSeat ==
  \A i \in Invitation :
    invitation[i].status = "accepted" => \E s \in Seat : seat[s].from = i

\* A member who left or was removed does not come back on the same row, even
\* through a request that read the row before: no UPDATE carries a column its
\* handler left alone.
DepartedStaysDeparted ==
  [][\A s \in Seat :
       (seat[s].status # "none" /\ ~Live(s)) => ~Live(s)']_seat

----------------------------------------------------------------------------
(* Properties that hold while certain requests are kept apart, and so with *)
(* Serial: MembershipProofs and MembershipApartProofs say which.           *)

\* account_users.py: "an account must always keep at least one active owner".
OwnerKept == \E s \in Seat : Live(s) /\ seat[s].role = "owner"

\* The life of an invitation ends with its answer: the seats created from an
\* invitation are at most one, and it stays accepted - not pending again,
\* cancelled or refused - once it has given one.
SeatsAnswerInvitations ==
  /\ \A s \in Seat :
       seat[s].from # NoInvitation => invitation[seat[s].from].status = "accepted"
  /\ \A s, t \in Seat :
       (seat[s].from = seat[t].from /\ seat[s].from # NoInvitation) => s = t

\* A new member sits with the role the invitation holds at that moment.
SeatedWithOfferedRole ==
  [][\A s \in Seat :
       (seat[s].status = "none" /\ seat'[s].status # "none")
         => seat'[s].role = invitation[seat'[s].from].role]_seat

\* soft_delete: "The account must be deactivated before it can be deleted."
DeletedWasDisabled == ~account.enabled => account.status = "disabled"

\* The members are those of the abstract roster: no request makes a member
\* lose, gain or change a role except as Roster allows.
RoleOf(u) ==
  IF HasLiveSeat(u)
  THEN seat[CHOOSE s \in {u} \X SeatNo : Live(s)].role
  ELSE "none"

AsRoster == INSTANCE Roster WITH roster <- [u \in User |-> RoleOf(u)]
RosterSpec == AsRoster!Spec

----------------------------------------------------------------------------
(* A property the source states that single requests break.                *)

\* me_invitations.py: "Accepting one creates a guest membership": a user who
\* is not a member and whose invitation is pending can accept it.  (The row of
\* a removed member keeps the status active, and its place in the index.)
NonMemberCanAccept ==
  \A w \in Worker :
    LET u == request[w].invitation[1] IN
    Writing(w, "accept") /\ HasActiveRow(u) => HasLiveSeat(u)
=============================================================================
