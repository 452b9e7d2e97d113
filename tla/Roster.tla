------------------------------- MODULE Roster -------------------------------
(***************************************************************************)
(* What the membership of an account promises, with no requests, rows or   *)
(* invitations: each user holds a role or none, users join, change role    *)
(* and depart one at a time, and whoever gives up the owner role leaves    *)
(* another owner behind.  Membership implements it when the requests that  *)
(* may take an owner's seat do not overlap.                                *)
(***************************************************************************)
CONSTANTS User, Creator, Role

VARIABLE roster     \* the role each user holds, or "none"

TypeOK == roster \in [User -> Role \cup {"none"}]

\* The account is never left without an owner.
OwnerKept == \E u \in User : roster[u] = "owner"

AnotherOwner(u) == \E v \in User : v # u /\ roster[v] = "owner"

Join(u, r) ==
  /\ roster[u] = "none"
  /\ roster' = [roster EXCEPT ![u] = r]

ChangeRole(u, r) ==
  /\ roster[u] \notin {"none", r}
  /\ roster[u] = "owner" => AnotherOwner(u)
  /\ roster' = [roster EXCEPT ![u] = r]

Depart(u) ==
  /\ roster[u] # "none"
  /\ roster[u] = "owner" => AnotherOwner(u)
  /\ roster' = [roster EXCEPT ![u] = "none"]

Init == roster = [u \in User |-> IF u = Creator THEN "owner" ELSE "none"]

Next ==
  \E u \in User :
    \/ Depart(u)
    \/ \E r \in Role : Join(u, r) \/ ChangeRole(u, r)

Spec == Init /\ [][Next]_roster
=============================================================================
