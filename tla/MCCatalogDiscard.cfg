CONSTANTS
    p1 = p1
    p2 = p2
    w1 = w1
    x1 = x1
    x2 = x2
    r1 = r1
    music = music
    Publications <- MCOnePublication
    Works <- MCWorks
    People <- MCTwoPeople
    Kinds <- MCUnclassified
    Reviewers <- MCReviewers
    Valued <- MCWorkValued
    Unclassified = Unclassified
    Value = Value

SPECIFICATION Spec
SYMMETRY RowsAreAlike

PROPERTY DiscardSparesCommitted

CHECK_DEADLOCK FALSE
