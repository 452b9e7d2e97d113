\* Two overlapping requests; roles can change, and a user can be invited and
\* can sit twice.
CONSTANTS
  ann = ann
  bob = bob
  w1 = w1
  w2 = w2
  null = null
  User = {ann, bob}
  Creator = ann
  Role = {"owner", "member"}
  Email = {bob}
  SeatNo = {1, 2}
  InvitationNo = {1, 2}
  NoInvitation = null
  Worker = {w1, w2}
  Serial = FALSE
SPECIFICATION Spec
CONSTRAINT OneOfferOnceInvitedAgain
VIEW Relevant
SYMMETRY Symmetry
INVARIANTS TypeOK UniqueRows
PROPERTIES DepartedStaysDeparted
CHECK_DEADLOCK FALSE
