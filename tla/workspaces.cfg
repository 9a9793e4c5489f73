SPECIFICATION MCSpec
CONSTANTS
  Managers = {m1, m2}
  Guests = {g1, g2}
  Roles = {r1}
  MaxInvites = 2
  MaxJoins = 4
  MaxCuts = 1
  MaxBusy = 2
  MaxRows = 3
  MaxPlaces = 3
  Twenty = 1
  Fifty = 2
  Hundred = 2
  MaxChanges = 2
  MaxDrops = 1
  Editors = {m1, m2}
  MaxEdits = 3
  Claimants = {g1, g2}
  Forms = {m1, m2}
  Numbers = {n1, n2}
  MaxAliases = 1
  MaxMoves = 4
CONSTRAINT InScope
SYMMETRY MCSymmetry
INVARIANTS
  InviteAdmitsOnce
  DeactivationHolds
  AdmittedCanWork
  PagesShowAll
  UnaskedStays
  FrozenInReview
CHECK_DEADLOCK FALSE
