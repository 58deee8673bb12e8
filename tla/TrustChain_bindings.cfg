SPECIFICATION Spec
CONSTANTS
  h1 = h1  h2 = h2  m1 = m1  m2 = m2  s1 = s1  p1 = p1  p2 = p2
  language = language  tuition = tuition
  Hosts = {h1, h2}
  Mappings = {m1, m2}
  Sources = {s1}
  Sessions = {p1, p2}
  Fields = {language, tuition}
  HostOf <- MCHostOf
  ServedBy <- MCServedBy
  SourceOf <- MCSourceOf
  Authorises <- MCAuthorises
  Operations = {"REJECTED", "promote"}
  MaxOps = 3
  Audit = Audit
  None = None
INVARIANTS BindingsAreCurrent
CHECK_DEADLOCK FALSE
