CONSTANTS
    r1 = r1
    r2 = r2
    typed = typed
    listed = listed
    isbn = isbn
    a1 = a1
    Requests <- MCRequests
    Fields <- MCFields
    Entered <- MCTyped
    Listed <- MCListed
    Blank = Blank
    NoWork = NoWork
    Isbn = isbn
    Items <- MCItems
    Authors <- MCAuthors
    Posted <- MCPosted
    MaxStores = 4

SPECIFICATION SeedingSpec
SYMMETRY RequestsAreAlike

PROPERTIES
    LosesOnlyToOverlap
    PublishesWhatWasPosted

CHECK_DEADLOCK FALSE
