SPECIFICATION Spec
CONSTANTS
  p1 = p1  p2 = p2  r1 = r1  r2 = r2  b1 = b1  b2 = b2
  Call = {p1, p2}
  Rp = {r1, r2}
  Base = {b1, b2}
  None = None
SYMMETRY Alike
INVARIANTS BaseBelongsToRp StepUpWhereLoggedIn SilenceWasTicked IdentityWasChosen ResponseWasShown
PROPERTIES ChangeIsLoud
CHECK_DEADLOCK FALSE
