CONSTANTS
    p1 = p1
    p2 = p2
    w1 = w1
    x1 = x1
    x2 = x2
    r1 = r1
    music = music
    Publications <- MCTwoPublications
    Works <- MCWorks
    People <- MCOnePerson
    Kinds <- MCKinds
    Reviewers <- MCReviewers
    Valued <- MCNothingValued
    Unclassified = Unclassified
    Value = Value

SPECIFICATION Spec
SYMMETRY RowsAreAlike

INVARIANTS
    CommittedNeverReferencesDraft
    ContentsAreClassified

PROPERTIES
    OnlyAcceptOrphans
    OthersKeepWhatTheyNeed

CHECK_DEADLOCK FALSE
