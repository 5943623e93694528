CONSTANTS
    p1 = p1
    a1 = a1
    a2 = a2
    r1 = r1
    n1 = n1
    music = music
    Publications <- MCPublications
    Works <- MCNone
    People <- MCPeople
    Kinds <- MCKinds
    Reviewers <- MCReviewers
    Valued <- MCPublications
    Unclassified = Unclassified
    Value = Value
    Authors <- MCAuthors
    NameOf <- MCNameOf
    Guess = music
    Edition = Edition
    NoName = NoName
    NoRoot = NoRoot
    MaxRuns = 2
    MaxRestarts = 1
    MaxActs = 2

SPECIFICATION EnrichmentSpec
SYMMETRY NamesakesAreAlike

PROPERTIES
    RerunsAddNothing
    StopsWhenOver
    RunsToReviewAreKept

CHECK_DEADLOCK FALSE
