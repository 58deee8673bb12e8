SPECIFICATION PubSpec
CONSTANTS
  h1 = h1  h2 = h2  m1 = m1  m2 = m2  s1 = s1  p1 = p1  p2 = p2  q1 = q1
  language = language  tuition = tuition
  Hosts = {h1, h2}
  Mappings = {m1, m2}
  Sources = {s1}
  Sessions = {p1, p2}
  Fields = {language, tuition}
  Columns = {tuition}
  Values <- MCValues
  MaxWrites = 1
  v1 = v1  v2 = v2
  Publishers = {q1}
  HostOf <- MCHostOf
  ServedBy <- MCServedBy
  SourceOf <- MCSourceOf
  Authorises <- MCAuthorises
  Operations = {"HOST_VERIFIED", "HOST_AUTHORIZED", "HOST_NEEDS_REVIEW", "HOST_REJECTED",
                "VERIFIED", "AUTHORIZED_EXTERNAL", "REJECTED", "NEEDS_REVIEW", "promote", "apply_promotion",
                "manifest",
                "verify_domain", "authorize_external_domain", "mark_domain_legacy",
                "reject_domain", "verify_source_mapping", "reject_source_mapping"}
  MaxOps = 3
  Audit = Audit
  None = None
SYMMETRY Symmetry
INVARIANTS EligibleIsEarned GovernedAreCited
PROPERTIES DecidedAsPreviewed CitedOnTrust
CHECK_DEADLOCK FALSE
