---------------------------- MODULE MCMembership ----------------------------
(***************************************************************************)
(* Model checking of Membership: symmetry over the workers and over the    *)
(* users other than the creator (no operator orders or CHOOSEs among them),*)
(* and for MembershipRaces.cfg a bound and a view.                         *)
(***************************************************************************)
EXTENDS Membership, FiniteSets, TLC

Symmetry == Permutations(Worker) \cup Permutations(User \ {Creator})

\* Bound: an address that is invited again is offered ownership only.  The
\* roles of invitations play no part in the properties of that run; those of
\* seats, which role changes need, stay free.
OneOfferOnceInvitedAgain ==
  \A u \in Email :
    Cardinality({n \in InvitationNo : invitation[<<u, n>>].status # "none"}) > 1
      => \A n \in InvitationNo : invitation[<<u, n>>].role = "owner"

\* View: what a later step, UniqueRows or DepartedStaysDeparted can tell apart.
\* No guard reads the invitation a seat came from, the role of a removed seat
\* (enabled is never set again), which answer ended an invitation, or an
\* expiry date of one that is not standby: a resend sets it before it reopens.
Relevant ==
  <<account,
    [s \in Seat |->
       [seat[s] EXCEPT !.from = NoInvitation,
                       !.role = IF seat[s].enabled THEN @ ELSE "none"]],
    [i \in Invitation |->
       [invitation[i] EXCEPT
          !.stale = @ /\ invitation[i].status = "standby",
          !.status = IF @ \in {"accepted", "refused", "cancelled"}
                     THEN "answered" ELSE @]],
    request>>
=============================================================================
