\* Two users, one of them invited twice; requests one at a time.
CONSTANTS
  ann = ann
  bob = bob
  w1 = w1
  w2 = w2
  null = null
  User = {ann, bob}
  Creator = ann
  Role = {"owner", "administrator"}
  Email = {bob}
  SeatNo = {1, 2}
  InvitationNo = {1, 2}
  NoInvitation = null
  Worker = {w1}
  Serial = TRUE
SPECIFICATION Spec
SYMMETRY Symmetry
INVARIANTS OwnerKept AcceptedHasSeat SeatsAnswerInvitations DeletedWasDisabled
PROPERTIES RosterSpec SeatedWithOfferedRole
CHECK_DEADLOCK FALSE
