SPECIFICATION FairSpec
CONSTANTS
    Places = {p1, p2}
    Origin = p1
    Attempts = 2
    Stale = 0
    MaxWrites = 2
    MaxStarts = 2
PROPERTIES AcceptsOnlyPublished GoneGameIsNoticed LastUpdateArrives
CHECK_DEADLOCK FALSE
