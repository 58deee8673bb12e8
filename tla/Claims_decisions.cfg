SPECIFICATION Spec
CONSTANTS
  A = A  B = B  a1 = a1  b1 = b1  b2 = b2  fee = fee  p1 = p1  p2 = p2  r1 = r1  r2 = r2
  Sources = {A, B}
  Statements = {a1, b2}
  SourceOf <- PageOf
  ContextOf <- AboutFee
  Thin = {}
  Comparable = {a1, b2}
  Scopeable = {a1}
  Says <- Values
  Requests <- Asked
  Refs = {1}
  Passes = {p1}
  Reviewers = {r1, r2}
  MaxDeploys = 1
  MaxDecisions = 2
  MaxEvents = 0
  Unkeyed = Unkeyed
  None = None
SYMMETRY Workers
PROPERTIES OnlyOverlapsAreBlind
CHECK_DEADLOCK FALSE
