\* Two fetchers and one extraction pass over one page whose content flips and moves.
SPECIFICATION FairSpec
CONSTANTS
    A = A  B = B  home = home  other = other  w1 = w1  w2 = w2  p1 = p1  p2 = p2
    NoContent = NoContent  NoTarget = NoTarget  NoTag = NoTag
    Urls = {home, other}
    Home = home
    Contents <- TwoContents
    Sites <- MovingSites
    Tag <- Etags
    Workers <- TwoWorkers
    Passes <- OnePass
    MaxRedirects = 1
    MaxFetches = 3
CHECK_DEADLOCK FALSE
INVARIANTS EffectiveIsLatestAnswer
PROPERTIES NewestGetsAResult EveryFetchEnds
