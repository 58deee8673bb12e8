\* Two importers and six files of two lists; a template, and the book that comes back.
SPECIFICATION Spec
CONSTANTS
    a = a  b = b  a2 = a2  i1 = i1  i2 = i2  uk = uk  hk = hk
    f1 = f1  f2 = f2  f3 = f3  f4 = f4  f5 = f5  f6 = f6  p = p  p2 = p2  s = s  s2 = s2  s3 = s3  u = u  v = v
    Keys = {a, b}
    Spellings = {a, b, a2}
    KeyOf <- Fold
    ListNames = {uk, hk}
    Files = {f1, f2, f3, f4, f5, f6}
    Sheet <- InFile
    Overrides <- NoOverrides
    Importers <- TwoImporters
    BlankRun = 2
    MaxImports = 3
    Blank = Blank  Unmapped = Unmapped  None = None
    Foreign = Foreign  Malformed = Malformed
    ProgramRefs = {p, p2}
    SourceRefs = {s, s2, s3}
    OtherDigits = {p2, s3}
    FigureLimit = 4
    Urls = {u, v}
    Edits <- CollectorsEdits
CONSTRAINT EarlyTemplate
SYMMETRY Symmetry
INVARIANTS ScopeFollowsLists EveryDifferenceIsRecorded AbortsOnlyOnGaps FactsStayTogether 
CHECK_DEADLOCK FALSE
