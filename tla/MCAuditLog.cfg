CONSTANTS
    p1 = p1
    w1 = w1
    x1 = x1
    r1 = r1
    i1 = i1
    music = music
    Publications <- MCPublications
    Works <- MCWorks
    People <- MCPeople
    Kinds <- MCKinds
    Reviewers <- MCReviewers
    Valued <- MCValued
    Unclassified = Unclassified
    Value = Value
    Library = Library
    Values <- MCValues
    Default = 0
    Items <- MCItems
    MaxEvents = 3
    MaxWrites = 6

SPECIFICATION AuditSpec

INVARIANT
    LogTellsWhoIsThere

PROPERTY
    LogIsWhatChanged

CHECK_DEADLOCK FALSE
