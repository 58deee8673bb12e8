SPECIFICATION FairSpec
CONSTANTS
  A = A  B = B  a1 = a1  b1 = b1  b2 = b2  fee = fee  p1 = p1  p2 = p2  r1 = r1  r2 = r2
  Sources = {A, B}
  Statements = {a1, b1, b2}
  SourceOf <- PageOf
  ContextOf <- AboutFee
  Thin = {}
  Comparable = {a1, b1, b2}
  Scopeable = {a1}
  Says <- Values
  Requests <- Asked
  Refs = {1, 2}
  Passes = {p1, p2}
  Reviewers = {}
  MaxDeploys = 1
  MaxDecisions = 0
  MaxEvents = 1
  Unkeyed = Unkeyed
  None = None
  PageNodes = 4
INVARIANTS OneCandidatePerStatement NothingLostNorTwice HeadingsGovern ClaimsAreLocated FurnitureIsNotContent ReadAsWritten ShownAsItIs
PROPERTIES EveryStatementClaimed
CHECK_DEADLOCK FALSE
