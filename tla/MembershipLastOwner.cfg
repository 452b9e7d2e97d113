\* Two overlapping requests can both pass the owner check.
CONSTANTS
  ann = ann
  bob = bob
  w1 = w1
  w2 = w2
  null = null
  User = {ann, bob}
  Creator = ann
  Role = {"owner"}
  Email = {bob}
  SeatNo = {1}
  InvitationNo = {1}
  NoInvitation = null
  Worker = {w1, w2}
  Serial = FALSE
SPECIFICATION Spec
SYMMETRY Symmetry
INVARIANTS OwnerKept
CHECK_DEADLOCK FALSE
