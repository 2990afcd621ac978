SPECIFICATION Spec
CONSTANTS
  Readers = {r1}
  Sup = sup
  Brokers = {b1, b2}
  Reasons = {closed}
  Closed = closed
  Lost = lost
  None = none
  MaxLate = 1
INVARIANTS TypeOK GatesAreOwned DescribesTheLiveLink CertsFollowLink
PROPERTIES OneLinkOnly
CONSTRAINT FewLate
SYMMETRY Symmetric
CHECK_DEADLOCK FALSE
