\* A removed member is invited again; requests one at a time.
CONSTANTS
  ann = ann
  bob = bob
  w1 = w1
  w2 = w2
  null = null
  User = {ann, bob}
  Creator = ann
  Role = {"owner", "member"}
  Email = {bob}
  SeatNo = {1, 2}
  InvitationNo = {1, 2}
  NoInvitation = null
  Worker = {w1}
  Serial = TRUE
SPECIFICATION Spec
SYMMETRY Symmetry
INVARIANTS NonMemberCanAccept
CHECK_DEADLOCK FALSE
