\* A source list, a workbook of facts, two accepted POSTs, one decision.
SPECIFICATION Spec
CONSTANTS
    i1 = i1  i2 = i2  p1 = p1  t1 = t1  t2 = t2  list = list  book = book
    Institutions = {i1, i2}
    Pages = {p1}
    Categories = {"FEES", "UNCLASSIFIED"}
    Unclassified = "UNCLASSIFIED"
    Files = {list, book}
    Kind <- FileKind
    Rows <- FileRows
    MaxSubmissions = 3
    MaxDecisions = 1
    MaxReviewed = 1
    Tasks = {t1, t2}
    FailureLimit = 2
    None = None
SYMMETRY TaskSymmetry
INVARIANTS ClaimsRideTogether FactsOfTheirOwnRun ShownRunningIsRunning
CHECK_DEADLOCK FALSE
